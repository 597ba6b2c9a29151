--------------------------- MODULE RequestHistory ---------------------------
(***************************************************************************)
(* What administrators read of the gateway's work.  In the first           *)
(* specification a handler, the quota store and the recovery job write the *)
(* history of a request (quota/lifecycle.go, the attempt and usage rows of *)
(* quota/store.go), and a reader assembles it from four statements, each   *)
(* with a snapshot of its own, refusing what it takes for corruption       *)
(* (adminapi/operational_store.go).  In the second an administrator walks  *)
(* a listing page by page while rows come, change and go.                  *)
(***************************************************************************)
EXTENDS Integers, Sequences, SequencesExt, FiniteSets

CONSTANTS Requests, None,
          Plans, Rules,           \* limit plans, and the rules of one in order
          MaximumDecisionStages,
          HTTPStatuses, Categories, \* of an answer, and of the error it reports
          MaxAttempts,            \* bound: attempts of a request
          MaxTime,                \* bound: readings of the database clock
          Rows, PageSize

VARIABLES row, stages, attempts, usage,     \* the tables
          plan,                             \* the plan the handler resolves
          reader,                           \* one read of the history
          table, now, walk, stable          \* the listing, and what stays put in it

historyVars == <<row, stages, attempts, usage, plan, reader>>
listingVars == <<table, now, walk, stable>>

-----------------------------------------------------------------------------
(* Decision stages. *)

Codes == [denied |-> "request_invalid", failed |-> "configuration_invalid", cancelled |-> "request_cancelled"]
NoRow == [status |-> "none", plan |-> None, route |-> None, failure |-> None, component |-> {}]
ComponentFields == {"family", "definition"}

DecisionStage(name, outcome, failure) ==
    [stage |-> name, outcome |-> outcome, failure |-> failure, plan |-> None, rule |-> None, route |-> None]

\* The stages a handler holds back until it fails or reserves.
Pending(p) ==
    << DecisionStage("client_context_validated", "succeeded", None),
       DecisionStage("configuration_loaded", "succeeded", None),
       DecisionStage("request_inspected", "succeeded", None),
       [DecisionStage("policy_evaluated", "succeeded", None) EXCEPT !.plan = p],
       [DecisionStage("route_selected", "succeeded", None) EXCEPT !.plan = p, !.route = "route"] >>
Verified ==
    << DecisionStage("identity_verified", "succeeded", None), DecisionStage("client_trust_verified", "succeeded", None) >>
FailedStage(n) ==
    IF n < 5 THEN Pending(None)[n + 1].stage ELSE "quota_reserved"

\* prepareDecisionStage: which stages may name a plan, a rule and a route.
PrepareDecisionStage(s) ==
    /\ (s.outcome = "succeeded") = (s.failure = None)
    /\ s.plan # None => s.stage \in {"policy_evaluated", "route_selected", "quota_rule_evaluated", "quota_reserved"}
    /\ s.rule # None => s.stage = "quota_rule_evaluated"
    /\ s.route # None => s.stage \in {"route_selected", "quota_reserved"}

\* prepareDecisionStages: only the last may end the request.
PrepareDecisionStages(batch) ==
    /\ Len(batch) <= MaximumDecisionStages
    /\ \A i \in 1..Len(batch) : PrepareDecisionStage(batch[i]) /\ (batch[i].outcome # "succeeded" => i = Len(batch))

\* projectDecisionStage: a plan or a route once named by a stage stays.
Projects(r, s) ==
    /\ s.plan # None => \/ row[r].plan = s.plan
                        \/ row[r].plan = "legacy_unknown" /\ \A i \in 1..Len(stages[r]) : stages[r][i].plan = None
    /\ s.route # None => row[r].route \in {None, s.route}

Projected(rec, batch) ==
    LET with == {i \in 1..Len(batch) : batch[i].plan # None}
        on == {i \in 1..Len(batch) : batch[i].route # None}
    IN [rec EXCEPT !.plan = IF with = {} THEN @ ELSE batch[CHOOSE i \in with : TRUE].plan,
                   !.route = IF on = {} THEN @ ELSE "route"]

\* appendDecisionStagesAt, queueDecisionStages: numbered after those that are there.
Fits(r, batch) == Len(stages[r]) + Len(batch) <= MaximumDecisionStages
AppendStages(r, batch) == stages' = [stages EXCEPT ![r] = @ \o batch]

-----------------------------------------------------------------------------
(* The writers before the reservation. *)

\* prepareAuthenticatedRequest: the attribution is complete or absent.
PrepareAuthenticatedRequest(component) == component \in {{}, ComponentFields}

BeginAuthenticatedRequest(r, component, p) ==
    /\ row[r].status = "none" /\ PrepareAuthenticatedRequest(component)
    /\ row' = [row EXCEPT ![r] = [NoRow EXCEPT !.status = "authenticated", !.plan = "legacy_unknown",
                                               !.component = component]]
    /\ plan' = [plan EXCEPT ![r] = p]
    /\ UNCHANGED <<stages, attempts, usage, reader>>


\* RecordDecisionStages: the stages, and the end of the request when the last
\* is not a success, under the lock of its row.
Recorded(r, batch) ==
    /\ row[r].status = "authenticated" /\ PrepareDecisionStages(batch) /\ Fits(r, batch)
    /\ \A i \in 1..Len(batch) : Projects(r, batch[i])
    /\ AppendStages(r, batch)
    /\ row' = [row EXCEPT ![r] =
                 IF Last(batch).outcome = "succeeded" THEN Projected(@, batch)
                 ELSE [Projected(@, batch) EXCEPT !.status = Last(batch).outcome, !.failure = Last(batch).failure]]

RecordVerified(r) ==
    /\ stages[r] = << >> /\ Recorded(r, Verified)
    /\ UNCHANGED <<attempts, usage, plan, reader>>

\* recordDecisionFailure: what succeeded so far, and the stage that did not.
RecordFailure(r, n, outcome) ==
    /\ Len(stages[r]) = Len(Verified)
    /\ Recorded(r, Append(SubSeq(Pending(plan[r]), 1, n), DecisionStage(FailedStage(n), outcome, Codes[outcome])))
    /\ UNCHANGED <<attempts, usage, plan, reader>>

RecoverStaleAuthenticatedRequest(r) ==
    /\ row[r].status = "authenticated"
    /\ AppendStages(r, <<DecisionStage("lifecycle_recovered", "failed", "internal_error")>>)
    /\ row' = [row EXCEPT ![r].status = "failed", ![r].failure = "internal_error"]
    /\ UNCHANGED <<attempts, usage, plan, reader>>

-----------------------------------------------------------------------------
(* The reservation. *)

\* Slip: a denial names the rules and not the reservation.
QuotaStagesOfRules(p, evaluated, denied, code) ==
    LET Of(rule) == [DecisionStage("quota_rule_evaluated", IF rule \in denied THEN "denied" ELSE "succeeded",
                                   IF rule \in denied THEN code ELSE None) EXCEPT !.plan = p, !.rule = rule]
        kept == SelectSeq(Rules, LAMBDA rule : rule \in evaluated)
    IN [i \in 1..Len(kept) |-> Of(kept[i])]

\* quotaDecisionStages: every rule that was looked at, then the reservation.
QuotaDecisionStages(p, evaluated, denied, code) ==
    LET Of(rule) == [DecisionStage("quota_rule_evaluated", IF rule \in denied THEN "denied" ELSE "succeeded",
                                   IF rule \in denied THEN code ELSE None) EXCEPT !.plan = p, !.rule = rule]
        kept == SelectSeq(Rules, LAMBDA rule : rule \in evaluated)
    IN Append([i \in 1..Len(kept) |-> Of(kept[i])],
              [DecisionStage("quota_reserved", IF denied = {} THEN "succeeded" ELSE "denied", code)
                  EXCEPT !.plan = p, !.route = "route"])

\* claimAuthenticatedRequest: the row is the one the handler began.
Claims(r) ==
    /\ row[r].status = "authenticated"
    /\ row[r].plan = plan[r] \/ row[r].plan = "legacy_unknown"
    /\ \A i \in 1..5 : Projects(r, Pending(plan[r])[i])

\* Reserve: the stages held back, those of the rules, and the outcome, at once.
Reserve(r, evaluated, denied, code) ==
    LET batch == Pending(plan[r]) \o QuotaDecisionStages(plan[r], evaluated, denied, IF denied = {} THEN None ELSE code)
    IN /\ Len(stages[r]) = Len(Verified) /\ Claims(r) /\ Fits(r, batch)
       /\ AppendStages(r, batch)
       /\ row' = [row EXCEPT ![r] = [Projected(@, batch) EXCEPT !.status = IF denied = {} THEN "reserved" ELSE "denied",
                                                                !.failure = IF denied = {} THEN None ELSE code]]
       /\ UNCHANGED <<attempts, usage, plan, reader>>

ReleaseReservation(r) ==
    /\ row[r].status = "reserved"
    /\ row' = [row EXCEPT ![r].status = "failed", ![r].failure = "reservation_expired"]
    /\ UNCHANGED <<stages, attempts, usage, plan, reader>>

-----------------------------------------------------------------------------
(* Attempts, with times of a database clock that may be set back. *)

Started(at) ==
    [status |-> "started", failure |-> None, http |-> None, policy |-> None, error |-> None,
     started |-> at, first |-> None, token |-> None, completed |-> None]

Outcomes == [status : {"succeeded", "failed", "timed_out", "cancelled"}, failure : {None, "upstream_timeout", "upstream_request_rejected"},
             http : HTTPStatuses \cup {None}, policy : {None, "", "provider_rejection_v1", "reported_usage_v1"},
             error : Categories \cup {None}]

\* validateAttemptDiagnostics of the store.
DiagnosticsAllowed(o) ==
    IF o.policy = None THEN o.failure # "upstream_request_rejected" /\ o.error = None
    ELSE /\ o.status # "succeeded"
         /\ o.error # None
         /\ o.policy = "" => o.failure # "upstream_request_rejected"
         /\ o.policy = "provider_rejection_v1" =>
               /\ o.status = "failed" /\ o.http = 400 /\ o.failure = "upstream_request_rejected"
               /\ o.error = "invalid_request"
         /\ o.policy = "reported_usage_v1" => o.failure # "upstream_request_rejected"

\* Outcome.validate.
OutcomeAllowed(o) ==
    /\ IF o.status = "succeeded" THEN o.failure = None /\ o.http = 200 ELSE o.failure # None
    /\ DiagnosticsAllowed(o)

Latest(set) == CHOOSE t \in set : \A u \in set : u <= t
Known(set) == set \ {None}

\* Slip: the end of an attempt is the clock's, whatever was recorded before.
ConcludedByClock(a, o, at) ==
    [a EXCEPT !.status = o.status, !.failure = o.failure, !.http = o.http, !.policy = o.policy, !.error = o.error,
              !.completed = at]

\* settleRetryAttemptLocked, completeInitialAttemptSQL: never before what was recorded.
Concluded(a, o, at) ==
    [a EXCEPT !.status = o.status, !.failure = o.failure, !.http = o.http, !.policy = o.policy, !.error = o.error,
              !.completed = Latest(Known({a.started, a.first, a.token, at}))]

Open(r) == attempts[r] # << >> /\ Last(attempts[r]).status = "started"
Underway(r) == row[r].status \in {"dispatched", "streaming"}

BeginAttempt(r, at) ==
    /\ row[r].status = "reserved" /\ MaxAttempts > 0
    /\ row' = [row EXCEPT ![r].status = "dispatched"]
    /\ attempts' = [attempts EXCEPT ![r] = <<Started(at)>>]
    /\ UNCHANGED <<stages, usage, plan, reader>>

\* BeginRetryAttempt: after an attempt that failed or timed out.
BeginRetryAttempt(r, at) ==
    /\ Underway(r) /\ Last(attempts[r]).status \in {"failed", "timed_out"} /\ Len(attempts[r]) < MaxAttempts
    /\ attempts' = [attempts EXCEPT ![r] = Append(@, Started(at))]
    /\ UNCHANGED <<row, stages, usage, plan, reader>>

MarkFirstByte(r, at) ==
    /\ Underway(r) /\ Open(r) /\ Last(attempts[r]).first = None
    /\ attempts' = [attempts EXCEPT ![r][Len(attempts[r])].first = Latest({Last(attempts[r]).started, at})]
    /\ row' = [row EXCEPT ![r].status = "streaming"]
    /\ UNCHANGED <<stages, usage, plan, reader>>

MarkFirstToken(r, at) ==
    LET a == Last(attempts[r]) IN
    /\ Underway(r) /\ Open(r) /\ a.first # None /\ a.token = None
    /\ attempts' = [attempts EXCEPT ![r][Len(attempts[r])].token = Latest({a.started, a.first, at})]
    /\ UNCHANGED <<row, stages, usage, plan, reader>>

\* rejectionObservationStateMatches: a rejection before anything was generated.
Settles(r, o) ==
    /\ Underway(r) /\ Open(r) /\ OutcomeAllowed(o)
    /\ o.policy = "provider_rejection_v1" => Last(attempts[r]).first = None
    /\ o.status = "succeeded" => Last(attempts[r]).first # None

\* SettleAttempt: the request goes on.
SettleAttempt(r, o, at) ==
    /\ Settles(r, o) /\ o.status \in {"failed", "timed_out"}
    /\ attempts' = [attempts EXCEPT ![r][Len(attempts[r])] = Concluded(@, o, at)]
    /\ usage' = [usage EXCEPT ![r] = @ \cup {Len(attempts[r])}]
    /\ UNCHANGED <<row, stages, plan, reader>>

\* finalizeRetryReservationLocked
Closed(r, status, failure) ==
    row' = [row EXCEPT ![r].status = IF status = "timed_out" THEN "failed" ELSE status, ![r].failure = failure]

\* SettleFinalAttempt, of an attempt that is open, or that was settled and has
\* no successor; the expiry of a reservation does the same.
SettleFinalAttempt(r, o, at) ==
    /\ Settles(r, o)
    /\ attempts' = [attempts EXCEPT ![r][Len(attempts[r])] = Concluded(@, o, at)]
    /\ usage' = [usage EXCEPT ![r] = @ \cup {0, Len(attempts[r])}]
    /\ Closed(r, o.status, o.failure)
    /\ UNCHANGED <<stages, plan, reader>>

SettleAbandoned(r) ==
    /\ Underway(r) /\ Last(attempts[r]).status \in {"failed", "timed_out"}
    /\ usage' = [usage EXCEPT ![r] = @ \cup {0}]
    /\ Closed(r, Last(attempts[r]).status, Last(attempts[r]).failure)
    /\ UNCHANGED <<stages, attempts, plan, reader>>

-----------------------------------------------------------------------------
(* The reader. *)

\* What the reader has of the page so far, each part from a statement of its own.
Unread ==
    [step |-> "idle", row |-> [r \in Requests |-> NoRow], stages |-> [r \in Requests |-> << >>],
     attempts |-> [r \in Requests |-> << >>], usage |-> [r \in Requests |-> {}]]
Page == {r \in Requests : reader.row[r].status # "none"}

PublicStatus(status) ==
    CASE status \in {"succeeded", "failed", "denied"} -> status
      [] status = "cancelled" -> "canceled"
      [] OTHER -> "unknown"

PublicFailure(code) == IF code \in {"client_cancelled", "request_cancelled"} THEN "canceled" ELSE code

\* validRequestAttribution
ValidRequestAttribution(rec) == rec.plan # None /\ rec.component \in {{}, ComponentFields}

\* validateRequestDecisionStage
ValidStage(s, rec) ==
    /\ (s.outcome = "succeeded") = (s.failure = None)
    /\ s.plan # None => /\ s.plan = rec.plan
                        /\ s.stage \in {"policy_evaluated", "route_selected", "quota_rule_evaluated", "quota_reserved"}
    /\ s.rule # None => s.stage = "quota_rule_evaluated"
    /\ s.route # None => s.route = rec.route /\ s.stage \in {"route_selected", "quota_reserved"}

\* Slip: nothing may follow a stage that did not succeed.
SequenceStopsAtFailure(seq, s) ==
    IF seq.terminal THEN [seq EXCEPT !.corrupt = TRUE]
    ELSE [seq EXCEPT !.terminal = s.outcome # "succeeded"]

\* requestDecisionSequence.append: after a denied rule only the rest of its
\* reservation may follow, with the same reason.
SequenceAppend(seq, s) ==
    IF seq.terminal THEN [seq EXCEPT !.corrupt = TRUE]
    ELSE IF seq.denial # None
    THEN CASE s.stage = "quota_rule_evaluated" /\ s.outcome = "succeeded" -> seq
           [] s.stage = "quota_rule_evaluated" /\ s.outcome = "denied" /\ s.failure = seq.denial -> seq
           [] s.stage = "quota_reserved" /\ s.outcome = "denied" /\ s.failure = seq.denial ->
                 [seq EXCEPT !.denial = None, !.terminal = TRUE]
           [] OTHER -> [seq EXCEPT !.corrupt = TRUE]
    ELSE IF s.stage = "quota_rule_evaluated" /\ s.outcome = "denied" THEN [seq EXCEPT !.denial = s.failure]
    ELSE [seq EXCEPT !.terminal = s.outcome # "succeeded"]

\* populateRequestDetails, first statement: each stage, their sequence, and
\* the last of them against the row.
StagesAccepted(rec, list) ==
    LET seq == FoldLeft(SequenceAppend, [terminal |-> FALSE, denial |-> None, corrupt |-> FALSE], list)
    IN /\ \A i \in 1..Len(list) : ValidStage(list[i], rec)
       /\ ~seq.corrupt /\ seq.denial = None
       /\ list # << >> /\ Last(list).outcome # "succeeded" =>
             /\ PublicStatus(rec.status) = PublicStatus(Last(list).outcome)
             /\ PublicFailure(rec.failure) = PublicFailure(Last(list).failure)

\* validateAttemptDiagnosticsDocument, decodeProviderErrorDiagnostics
ValidDiagnostics(a) ==
    /\ a.policy = None => a.failure # "upstream_request_rejected"
    /\ a.policy = "" => a.error # None /\ a.failure # "upstream_request_rejected"
    /\ a.policy = "provider_rejection_v1" =>
          a.status = "failed" /\ a.http = 400 /\ a.failure = "upstream_request_rejected" /\ a.error = "invalid_request"
    /\ a.policy = "reported_usage_v1" =>
          a.status \notin {"succeeded", "started"} /\ a.failure \notin {None, "upstream_request_rejected"}

\* validateUpstreamAttempt
ValidAttempt(a) ==
    /\ a.first # None => a.first >= a.started
    /\ a.token # None => a.first # None /\ a.token >= a.first
    /\ a.completed # None => \A t \in Known({a.started, a.first, a.token}) : t <= a.completed
    /\ CASE a.status = "started" -> a.completed = None /\ a.http = None /\ a.failure = None
         [] a.status = "succeeded" -> a.completed # None /\ a.failure = None /\ a.http = 200
         [] OTHER -> a.completed # None /\ a.failure # None

Outcome(accepted, step) == IF accepted THEN step ELSE "corrupt"

\* listRequests, getRequest: the rows of the page.
ReadRows ==
    /\ reader.step = "idle" /\ \E r \in Requests : row[r].status # "none"
    /\ reader' = [reader EXCEPT !.row = row,
                     !.step = Outcome(\A r \in Requests : row[r].status # "none" => ValidRequestAttribution(row[r]), "rows")]
    /\ UNCHANGED <<row, stages, attempts, usage, plan>>

ReadStages ==
    /\ reader.step = "rows"
    /\ reader' = [reader EXCEPT !.stages = stages,
                     !.step = Outcome(\A r \in Page : StagesAccepted(reader.row[r], stages[r]), "stages")]
    /\ UNCHANGED <<row, stages, attempts, usage, plan>>

ReadAttempts ==
    /\ reader.step = "stages"
    /\ reader' = [reader EXCEPT !.attempts = attempts,
                     !.step = Outcome(\A r \in Page : \A i \in 1..Len(attempts[r]) :
                                         ValidAttempt(attempts[r][i]) /\ ValidDiagnostics(attempts[r][i]), "attempts")]
    /\ UNCHANGED <<row, stages, attempts, usage, plan>>

ReadUsage ==
    /\ reader.step = "attempts"
    /\ reader' = [reader EXCEPT !.usage = usage,
                     !.step = Outcome(\A r \in Page : \A i \in usage[r] : i <= Len(reader.attempts[r]), "delivered")]
    /\ UNCHANGED <<row, stages, attempts, usage, plan>>

EndRead ==
    /\ reader.step \in {"delivered", "corrupt"} /\ reader' = Unread
    /\ UNCHANGED <<row, stages, attempts, usage, plan>>

HistoryInit ==
    /\ row = [r \in Requests |-> NoRow] /\ stages = [r \in Requests |-> << >>]
    /\ attempts = [r \in Requests |-> << >>] /\ usage = [r \in Requests |-> {}]
    /\ plan = [r \in Requests |-> None] /\ reader = Unread

HistoryNext ==
    \/ ReadRows \/ ReadStages \/ ReadAttempts \/ ReadUsage \/ EndRead
    \/ \E r \in Requests :
          \/ \E component \in SUBSET ComponentFields, p \in Plans :
                BeginAuthenticatedRequest(r, component, p)
          \/ RecordVerified(r) \/ RecoverStaleAuthenticatedRequest(r) \/ ReleaseReservation(r) \/ SettleAbandoned(r)
          \/ \E n \in 0..5, outcome \in {"denied", "failed", "cancelled"} : RecordFailure(r, n, outcome)
          \/ \E evaluated \in SUBSET Range(Rules), code \in {"quota_exceeded", "concurrency_exceeded"} :
                \E denied \in SUBSET evaluated : Reserve(r, evaluated, denied, code)
          \/ \E at \in 0..MaxTime :
                \/ BeginAttempt(r, at) \/ BeginRetryAttempt(r, at) \/ MarkFirstByte(r, at) \/ MarkFirstToken(r, at)
                \/ Open(r) /\ \E o \in Outcomes : SettleAttempt(r, o, at) \/ SettleFinalAttempt(r, o, at)

-----------------------------------------------------------------------------
(* Properties of the histories. *)

HistoryTypeOK ==
    /\ \A r \in Requests : Len(stages[r]) <= MaximumDecisionStages /\ Len(attempts[r]) <= MaxAttempts
    /\ \A r \in Requests : row[r].status = "authenticated" => attempts[r] = << >>
    /\ reader.step \in {"idle", "rows", "stages", "attempts", "delivered", "corrupt"}

EndedStatuses == {"denied", "failed", "cancelled", "succeeded"}
ShownEnded == {r \in Page : reader.row[r].status \in EndedStatuses}


\* A request shown as ended is shown as it was stored at one moment, although
\* its four parts are read one after the other: nothing was added to it after
\* its row was read, and nothing will be.
EndedIsOneMoment ==
    reader.step = "delivered" =>
        \A r \in ShownEnded :
            /\ reader.row[r] = row[r] /\ reader.stages[r] = stages[r]
            /\ reader.attempts[r] = attempts[r] /\ reader.usage[r] = usage[r]

\* A request shown as open may be a mixture of four moments (attempts beside
\* stages that do not yet name the reservation); the later parts only run ahead
\* of the row.  A reservation the row shows is among the stages and a dispatch
\* has its attempt; the usage names attempts that are shown; a stage that ended
\* the request is never beside a row that is open.
OpenRunsAhead ==
    reader.step = "delivered" =>
        \A r \in Page \ ShownEnded :
            /\ reader.row[r].status \in {"dispatched", "streaming"} => reader.attempts[r] # << >>
            /\ reader.row[r].status # "authenticated" =>
                  \E s \in Range(reader.stages[r]) : s.stage = "quota_reserved" /\ s.outcome = "succeeded"
            /\ reader.usage[r] \subseteq 0 .. Len(reader.attempts[r])
            /\ \A s \in Range(reader.stages[r]) : s.outcome = "succeeded"

\* A request shown as ended shows by what: the stage that ended it before it
\* was reserved, with the reason the client was given and, for a denied
\* reservation, the rule that denied it; the expiry of a reservation that was
\* never dispatched; or its last attempt, with the usage of every attempt.
EndsAreExplained ==
    reader.step = "delivered" =>
        \A r \in ShownEnded :
            LET shown == reader.row[r]
                trace == reader.stages[r]
                tries == reader.attempts[r]
            IN \/ /\ trace # << >> /\ tries = << >>
                  /\ Last(trace).outcome = shown.status /\ Last(trace).failure = shown.failure
                  /\ Last(trace).stage = "quota_reserved" /\ Last(trace).plan # None =>
                        \E s \in Range(trace) : s.rule # None /\ s.outcome = "denied"
               \/ /\ trace # << >> /\ tries = << >>
                  /\ Last(trace).stage = "quota_reserved" /\ Last(trace).outcome = "succeeded"
                  /\ shown.status = "failed" /\ shown.failure = "reservation_expired"
               \/ /\ tries # << >>
                  /\ Last(tries).failure = shown.failure
                  /\ shown.status = IF Last(tries).status = "timed_out" THEN "failed" ELSE Last(tries).status
                  /\ reader.usage[r] = 0 .. Len(tries)

-----------------------------------------------------------------------------
(* Listings.  A row's place is its key and its identifier; created_at is the *)
(* time its transaction began, so a row may appear behind a reader.          *)

Absent == [visible |-> FALSE, created |-> None, seen |-> 0, active |-> TRUE]
NotWalking == [step |-> "idle", order |-> None, filter |-> FALSE, cursor |-> None, listed |-> << >>]

\* The orders each listing offers.
UserOrders == {"oldest", "newest", "recently_seen"}
FamilyOrders == {"oldest", "newest", "recently_seen"}
RequestOrders == {"oldest", "newest"}
InstallationOrders == {"oldest"}
ComponentOrders == {"oldest"}
AuditOrders == {"newest"}
SelfTestOrders == {"newest"}
OverrideOrders == {"newest"}
Orders == [users |-> UserOrders, families |-> FamilyOrders, requests |-> RequestOrders,
           installations |-> InstallationOrders, components |-> ComponentOrders, audit |-> AuditOrders,
           self_tests |-> SelfTestOrders, overrides |-> OverrideOrders]

SortKey(order, i) == IF order = "recently_seen" THEN table[i].seen ELSE table[i].created
Position(order, i) == [key |-> SortKey(order, i), id |-> i]
Precedes(order, p, q) ==
    LET below == p.key < q.key \/ (p.key = q.key /\ p.id < q.id)
    IN IF order = "oldest" THEN below ELSE ~below /\ p # q

\* requestListConditions and the other filters: all rows, or those that are
\* active at the moment of the statement.
Matches(i) == table[i].visible /\ (walk.filter => table[i].active)

\* Slip: rows that share their time with the cursor are taken for listed.
AfterTime(i) ==
    walk.cursor # None => SortKey(walk.order, i) # walk.cursor.key /\ Precedes(walk.order, walk.cursor, Position(walk.order, i))

After(i) == walk.cursor # None => Precedes(walk.order, walk.cursor, Position(walk.order, i))

\* The statement of a page: one row more than it shows.
Statement ==
    LET found == {i \in Rows : Matches(i) /\ After(i)}
        sorted == SetToSortSeq(found, LAMBDA i, j : Precedes(walk.order, Position(walk.order, i), Position(walk.order, j)))
    IN SubSeq(sorted, 1, IF Len(sorted) < PageSize + 1 THEN Len(sorted) ELSE PageSize + 1)

\* Slip: the cursor is the row that did not fit.
CursorOfExtra(items) == Position(walk.order, items[PageSize + 1])

CursorFor(items) == Position(walk.order, items[PageSize])

\* A row is written: its transaction begins, and commits later.
BeginInsert(i) ==
    /\ table[i].created = None
    /\ table' = [table EXCEPT ![i].created = now, ![i].seen = now]
    /\ UNCHANGED <<now, walk, stable>>

CommitInsert(i) ==
    /\ table[i].created # None /\ ~table[i].visible
    /\ table' = [table EXCEPT ![i].visible = TRUE]
    /\ UNCHANGED <<now, walk, stable>>

\* Seen: last_seen_at moves forward.
Seen(i) ==
    /\ table[i].visible /\ table[i].seen < now
    /\ table' = [table EXCEPT ![i].seen = now]
    /\ stable' = IF walk.order = "recently_seen" THEN stable \ {i} ELSE stable
    /\ UNCHANGED <<now, walk>>

\* Revoked, blocked, expired or ended: the row leaves the filter for good.
Deactivate(i) ==
    /\ table[i].visible /\ table[i].active
    /\ table' = [table EXCEPT ![i].active = FALSE]
    /\ stable' = IF walk.filter THEN stable \ {i} ELSE stable
    /\ UNCHANGED <<now, walk>>

Tick ==
    /\ now < MaxTime /\ now' = now + 1
    /\ UNCHANGED <<table, walk, stable>>

BeginWalk(list, order, filter) ==
    /\ walk.step = "idle" /\ order \in Orders[list]
    /\ walk' = [NotWalking EXCEPT !.step = "walking", !.order = order, !.filter = filter]
    /\ stable' = {i \in Rows : table[i].visible /\ (filter => table[i].active)}
    /\ UNCHANGED <<table, now>>

\* One request for a page, parsePageRequest to buildPage.
NextPage ==
    /\ walk.step = "walking"
    /\ walk' = LET items == Statement
                   more == Len(items) > PageSize
               IN [walk EXCEPT !.listed = @ \o (IF more THEN SubSeq(items, 1, PageSize) ELSE items),
                               !.cursor = IF more THEN CursorFor(items) ELSE @,
                               !.step = IF more THEN @ ELSE "done"]
    /\ UNCHANGED <<table, now, stable>>

ListingInit ==
    /\ table = [i \in Rows |-> Absent] /\ now = 0 /\ walk = NotWalking /\ stable = {}

ListingNext ==
    \/ Tick \/ NextPage
    \/ \E i \in Rows : BeginInsert(i) \/ CommitInsert(i) \/ Seen(i) \/ Deactivate(i)
    \/ \E list \in DOMAIN Orders : \E order \in Orders[list], filter \in BOOLEAN : BeginWalk(list, order, filter)

\* A walk shows no row twice, and shows every row that was there and matched
\* from its first page to its last without moving in the order; rows with equal
\* times, rows that appear behind the cursor and rows seen again do not disturb it.
WalkIsExact ==
    /\ \A i, j \in 1..Len(walk.listed) : walk.listed[i] = walk.listed[j] => i = j
    /\ walk.step = "done" => stable \subseteq Range(walk.listed)
=============================================================================
