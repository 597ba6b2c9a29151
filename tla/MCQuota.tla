---------------------------------- MODULE MCQuota ----------------------------------
(***************************************************************************)
(* The quota ledger, checked in one run: two requests that compete for a   *)
(* limit of every metric with retries, two requests pinned to revisions    *)
(* with different maxima of which the second may arrive, and the recovery  *)
(* act, after a calendar boundary, and the history of requests that        *)
(* operators read and page through.  Each behaviour is one of one part,    *)
(* chosen at the start; the ledger of the first part keeps its initial     *)
(* value in the others.                                                    *)
(***************************************************************************)
EXTENDS QuotaStore, TLC

CONSTANTS rq, at, us, cc, fb,  \* limits: at most one of each metric on what every attempt
                               \* shares, and one concurrency limit of the fallback target,
                               \* which only attempts after the first use
          Boundary,            \* instant at which the calendar window changes
          q1, None

MCMetric == [l \in Limits |->
    CASE l = rq -> "logical_requests" [] l = at -> "upstream_attempts"
      [] l = us -> "usage" [] OTHER -> "concurrency"]

\* The first target may use up to two units, a retry one.
MCUnits == [n \in 1 .. MaxAttempts |->
    [l \in Limits |-> IF l = us /\ n = 1 THEN 2 ELSE 1]]

\* Revision 1 has the generous maxima; revision 2 lowers them.
MCMaximum == [v \in Revisions |-> [l \in Limits |->
    CASE l = us -> 6 - 2 * v [] l = at -> 4 - v [] l = fb -> 1 [] OTHER -> 3 - v]]

MCPlanLimits == [n \in 1 .. MaxAttempts |-> IF n = 1 THEN Limits \ {fb} ELSE Limits]

MCWindowKey == [l \in Limits |-> [t \in 0 .. MaxTime |->
    IF l \in {cc, fb} \/ t < Boundary THEN 1 ELSE 2]]

Symmetry == Permutations(Requests)

VARIABLES part, clock, claimed, held, items, tried, store, slots,   \* the second ledger
          row, stages, dispatches, usage, plan, reader,             \* one request's history
          table, moment, walk, stable                               \* the listing

\* The calendar window changes at instant 1.
TwoWindows == [l \in {us} |-> [t \in 0 .. 1 |-> IF t < 1 THEN 1 ELSE 2]]

Revised == INSTANCE QuotaStore WITH
    MaxAttempts <- 2, StaleAge <- 1, Limits <- {us}, Metric <- [l \in {us} |-> "usage"],
    Units <- [n \in 1 .. 2 |-> [l \in {us} |-> 3 - n]], PlanLimits <- [n \in 1 .. 2 |-> {us}],
    Revisions <- {1, 2}, Maximum <- [v \in {1, 2} |-> [l \in {us} |-> 6 - 2 * v]],
    Reports <- {1}, Windows <- {1, 2}, WindowKey <- TwoWindows, TTL <- 1, MaxTime <- 1,
    now <- clock, logical <- claimed, reservation <- held, entry <- items, attempts <- tried,
    bucket <- store, leases <- slots
History == INSTANCE RequestHistory WITH
    HTTPStatuses <- {200, 400}, Categories <- {"invalid_request", "unclassified"}, Requests <- {q1},
    None <- None, Plans <- {"gold", "legacy_unknown"}, Rules <- <<"r1", "r2">>,
    MaximumDecisionStages <- 10, MaxAttempts <- 0, MaxTime <- 1, Rows <- 1 .. 3, PageSize <- 1,
    attempts <- dispatches, now <- moment
Retries == INSTANCE RequestHistory WITH
    HTTPStatuses <- {200}, Categories <- {}, Requests <- {q1}, None <- None,
    Plans <- {"gold"}, Rules <- << >>, MaximumDecisionStages <- 10, MaxAttempts <- 2, MaxTime <- 0,
    Rows <- 1 .. 3, PageSize <- 1, attempts <- dispatches, now <- moment
Answers == INSTANCE RequestHistory WITH
    HTTPStatuses <- {200, 400}, Categories <- {"invalid_request", "unclassified"}, Requests <- {q1},
    None <- None, Plans <- {"gold"}, Rules <- << >>, MaximumDecisionStages <- 10, MaxAttempts <- 1,
    MaxTime <- 1, Rows <- 1 .. 3, PageSize <- 1, attempts <- dispatches, now <- moment

second == <<clock, claimed, held, items, tried, store, slots>>
history == <<row, stages, dispatches, usage, plan, reader>>
listing == <<table, moment, walk, stable>>
allVars == <<vars, part, second, history, listing>>

Unused == "unused"
NoSecond ==
    /\ clock = Unused /\ claimed = Unused /\ held = Unused /\ items = Unused
    /\ tried = Unused /\ store = Unused /\ slots = Unused
NoHistory ==
    /\ row = Unused /\ stages = Unused /\ dispatches = Unused
    /\ usage = Unused /\ plan = Unused /\ reader = Unused
NoListing == table = Unused /\ moment = Unused /\ walk = Unused /\ stable = Unused

AllInit ==
    /\ Init
    /\ \/ part = "attempts" /\ NoSecond /\ NoHistory /\ NoListing
       \/ part = "revisions" /\ Revised!Init /\ NoHistory /\ NoListing
       \/ part = "history" /\ History!HistoryInit /\ NoSecond /\ NoListing
       \/ part = "retries" /\ Retries!HistoryInit /\ NoSecond /\ NoListing
       \/ part = "answers" /\ Answers!HistoryInit /\ NoSecond /\ NoListing
       \/ part = "listing" /\ History!ListingInit /\ NoSecond /\ NoHistory

AllNext ==
    \/ part = "attempts" /\ Next /\ UNCHANGED <<part, second, history, listing>>
    \/ part = "revisions" /\ Revised!Next /\ UNCHANGED <<vars, part, history, listing>>
    \/ part = "history" /\ History!HistoryNext /\ UNCHANGED <<vars, part, second, listing>>
    \/ part = "retries" /\ Retries!HistoryNext /\ UNCHANGED <<vars, part, second, listing>>
    \/ part = "answers" /\ Answers!HistoryNext /\ UNCHANGED <<vars, part, second, listing>>
    \/ part = "listing" /\ History!ListingNext /\ UNCHANGED <<vars, part, second, history>>

AllSpec == AllInit /\ [][AllNext]_allVars

(***************************************************************************)
(* Properties, besides those of QuotaStore.                                *)
(***************************************************************************)
\* What every later transaction checks of the rows it reads holds in every
\* state the store can reach, and so no settlement and no recovery batch is
\* stopped by ErrInvalidState, also when requests are pinned to revisions with
\* different maxima and the rows of an earlier window are recovered in a later
\* one.  (A reservation that arrives in one window and is booked in the next is
\* the subject of ArrivalWindow.)
LaterCallsAccepted ==
    /\ part = "attempts" => RowsAcceptedLater
    /\ part = "revisions" => Revised!RowsAcceptedLater /\ Revised!NoOverspend

\* A walk shows no row twice, and shows every row that was there and matched
\* from its first page to its last without moving in the order; rows with equal
\* times, rows that appear behind the cursor and rows seen again do not disturb it.
WalkIsExact == part = "listing" => History!WalkIsExact

=============================================================================
