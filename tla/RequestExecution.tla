-------------------------- MODULE RequestExecution --------------------------
(***************************************************************************)
(* One protected request in the data plane: Handler.ServeHTTP of           *)
(* internal/dataplane/handler.go with the dispatch and relay of            *)
(* internal/upstream.  The decision stages run one after another; a        *)
(* reserved request is then dispatched over the candidates of its plan,    *)
(* with retries on a route and fallbacks to the next one, until an attempt *)
(* answers or none is left.                                                *)
(*                                                                         *)
(* Around the handler: the client, who may go away or whose deadline may   *)
(* pass at any moment (ctx); the provider, who answers anything or         *)
(* nothing; and the quota store, whose calls may fail with or without      *)
(* having been applied and whose recovery ends what was left for too long. *)
(***************************************************************************)
EXTENDS Naturals, Sequences, FiniteSets

CONSTANTS Plans,           \* the plans the policy may resolve to
          Conditions,      \* outcomes that a route may retry or fall back on
          Bound,           \* trusted bound of an attempt's usage, its reservation
          MaxLogical       \* configuration.MaximumLogicalAttempts

\* A candidate's route; one without a retry policy is tried once.
RouteRow == [retryOn : SUBSET Conditions, fallbackOn : SUBSET Conditions,
             maxAttempts : Nat \ {0}, unsafeToo : BOOLEAN]

ASSUME RequestBounds ==
    /\ Bound \in Nat /\ MaxLogical \in Nat \ {0}
    /\ Plans \subseteq Seq(RouteRow) \ {<<>>}

VARIABLES
    pc,           \* where ServeHTTP is
    plan, unsafe, \* the candidates; whether the request is opaque and not a GET
    pending,      \* pendingDecisionStages
    stages,       \* in the quota store: the decision stages of the request
    reservation,  \* in the quota store: none, reserved, active or ended
    attempts,     \* in the quota store: the reservation's attempts
    failed,       \* some call of the quota store did not succeed
    ctx,          \* the request's context: live or ended
    client,       \* what the client has got
    trips,        \* candidates that RoundTrips were made to, in order
    result,       \* executionResult of the attempt at hand
    next          \* candidateIndex, routeAttempts, and the retry selected

vars == <<pc, plan, unsafe, pending, stages, reservation, attempts, failed, ctx, client,
          trips, result, next>>
quota == <<stages, reservation, attempts, failed>>
request == <<plan, unsafe>>

Pipeline == <<"identity", "trust", "context", "configuration", "inspected", "policy", "route", "quota">>
Unknown == [known |-> FALSE, units |-> 0]
Usages == {Unknown} \cup [known : {TRUE}, units : 0..(Bound + 1)]
NoResult == [begun |-> FALSE, owner |-> FALSE, err |-> "none", status |-> "none",
             usage |-> Unknown, rejected |-> FALSE]
NoRetry == [candidate |-> 1, onRoute |-> 1, selected |-> "none", condition |-> "none"]
Succeeded(stage) == [stage |-> stage, outcome |-> "succeeded"]
Last(s) == s[Len(s)]

(***************************************************************************)
(* The decision stages.                                                    *)
(***************************************************************************)
\* writeViolation, writeMappedError, writeProblem: nothing for who has left.
Problem(err) ==
    /\ pc' = "done"
    /\ client' = IF err = "cancelled" THEN client ELSE "problem"

\* The endpoint, the method and the declaration in the headers.
Admit ==
    /\ pc = "arrived"
    /\ \/ pc' = "admitted" /\ UNCHANGED client
       \/ Problem("violation")
    /\ UNCHANGED <<request, pending, quota, ctx, trips, result, next>>

\* Token, session and proof are verified before anything is stored.
Authenticate ==
    /\ pc = "admitted"
    /\ \/ pc' = "authenticated" /\ UNCHANGED client
       \/ \E err \in {"denied", "cancelled"} : Problem(err)
    /\ UNCHANGED <<request, pending, quota, ctx, trips, result, next>>

\* beginAuthenticatedRequest, then the first two stages.
BeginAuthenticatedRequest ==
    /\ pc = "authenticated"
    /\ \/ /\ stages' = <<Succeeded("identity"), Succeeded("trust")>>
          /\ pc' = "deciding" /\ pending' = <<>>
          /\ UNCHANGED <<failed, client>>
       \/ /\ failed' = TRUE /\ UNCHANGED pending
          /\ stages' \in {stages, <<Succeeded("identity"), Succeeded("trust")>>}
          /\ Problem("dependency")
    /\ UNCHANGED <<request, reservation, attempts, ctx, trips, result, next>>

Stage == Pipeline[3 + Len(pending)]

StageSucceeds ==
    /\ pc = "deciding" /\ Stage # "quota"
    /\ pending' = Append(pending, Succeeded(Stage))
    /\ UNCHANGED <<pc, request, quota, ctx, client, trips, result, next>>

\* Slip: the stages that succeeded before are forgotten.
FailureAlone(outcome) == <<[stage |-> Stage, outcome |-> outcome]>>

\* recordDecisionFailure stores the pending stages and the one that failed.
FailureStages(outcome) == pending \o <<[stage |-> Stage, outcome |-> outcome]>>

\* What each stage can end with other than success.
ContextRefusals == {"denied"}
ConfigurationRefusals == {"failed", "cancelled"}
InspectionRefusals == {"denied", "failed", "cancelled"}
PolicyRefusals == {"denied", "failed", "cancelled"}
PreparationRefusals == {"denied", "failed", "cancelled"}

Refusals == CASE Stage = "context" -> ContextRefusals
              [] Stage = "configuration" -> ConfigurationRefusals
              [] Stage = "inspected" -> InspectionRefusals
              [] Stage = "policy" -> PolicyRefusals
              [] Stage = "route" -> PreparationRefusals

StageFails ==
    /\ pc = "deciding" /\ Stage # "quota"
    /\ \E err \in Refusals :
        \/ /\ stages' = stages \o FailureStages(err)
           /\ Problem(err) /\ UNCHANGED failed
        \/ /\ stages' \in {stages, stages \o FailureStages(err)}
           /\ failed' = TRUE
           /\ Problem("dependency")
    /\ UNCHANGED <<request, pending, reservation, attempts, ctx, trips, result, next>>

\* Reserve stores the pending stages with the reservation or its denial.  An
\* error of another kind is recorded as a failure; if the reservation was made
\* after all, the store refuses that.
Reserve ==
    /\ pc = "deciding" /\ Stage = "quota"
    /\ \/ /\ stages' = stages \o pending \o <<Succeeded("quota")>>
          /\ reservation' = "reserved"
          /\ pc' = "executing"
          /\ UNCHANGED <<failed, client>>
       \/ /\ stages' = stages \o FailureStages("denied")
          /\ Problem("denied")
          /\ UNCHANGED <<reservation, failed>>
       \/ /\ failed' = TRUE
          /\ \/ stages' = stages \o pending \o <<Succeeded("quota")>> /\ reservation' = "reserved"
             \/ stages' \in {stages, stages \o FailureStages("failed")} /\ UNCHANGED reservation
          /\ Problem("dependency")
    /\ UNCHANGED <<request, pending, attempts, ctx, trips, result, next>>

(***************************************************************************)
(* One attempt: executeAttempt, dispatchAttempt, roundTrip, RelayResponse. *)
(***************************************************************************)
Retrying == attempts # <<>>
Ends(err) == pc' = "ended" /\ result' = [result EXCEPT !.err = err]

\* The target, its credentials or the prepared request are refused, or the
\* context ended; begin was not called.
FailsBeforeBegin ==
    /\ pc = "executing"
    /\ \E err \in {"target", "secret"} \cup (IF ctx = "ended" THEN {"cancelled"} ELSE {}) : Ends(err)
    /\ UNCHANGED <<request, pending, quota, ctx, client, trips, next>>

\* Slip: the callback's error does not stop the RoundTrip.
RoundTripAnyway(err) == pc' = "sending" /\ result' = [result EXCEPT !.begun = TRUE]

BeginRefused(err) ==
    /\ pc' = "ended"
    /\ result' = [result EXCEPT !.begun = TRUE, !.err = err]

\* What the store refuses a begin with, having stored nothing: the reservation
\* has ended, or has passed its expires_at and is still open; and for a retry
\* the quota or a concurrency limit is exhausted, or its input is not valid.
BeginErrors ==
    (IF reservation = "ended" THEN {"finalized"} ELSE {"expired"})
    \cup (IF Retrying THEN {"exceeded", "invalid"} ELSE {})
    \cup (IF Retrying /\ reservation # "ended" THEN {"concurrency"} ELSE {})

NewAttempt == [candidate |-> next.candidate, state |-> "open", charge |-> 0]

\* BeginAttempt or BeginRetryAttempt, immediately before the RoundTrip.
BeforeRoundTrip ==
    /\ pc = "executing"
    /\ \/ /\ reservation \in {"reserved", "active"}
          /\ Retrying => Last(attempts).state = "retry"
          /\ reservation' = "active"
          /\ attempts' = Append(attempts, NewAttempt)
          /\ \/ /\ pc' = "sending"
                /\ result' = [result EXCEPT !.begun = TRUE, !.owner = TRUE]
                /\ UNCHANGED failed
             \/ BeginRefused("dependency") /\ failed' = TRUE
       \/ /\ UNCHANGED <<reservation, attempts>>
          /\ \/ \E err \in BeginErrors : BeginRefused(err) /\ UNCHANGED failed
             \/ BeginRefused("dependency") /\ failed' = TRUE
    /\ UNCHANGED <<request, pending, stages, ctx, client, trips, next>>

\* The provider may have got the request whatever comes back.
RoundTrip ==
    /\ pc = "sending"
    /\ trips' = Append(trips, next.candidate)
    /\ \/ \E err \in {"connect_error", "timeout_before_headers"}
                        \cup (IF ctx = "ended" THEN {"cancelled"} ELSE {}) : Ends(err)
       \/ \E status \in {"success", "retryable", "refused"} :
            pc' = "headers" /\ result' = [result EXCEPT !.status = status]
    /\ UNCHANGED <<request, pending, quota, ctx, client, next>>

\* ObserveResponse, NormalizeResponseStatus, inspectProviderError, the headers.
Headers ==
    /\ pc = "headers"
    /\ \/ Ends("protocol")
       \/ result.status # "success" /\ Ends("non_success")
       \/ /\ result.status = "refused"
          /\ pc' = "ended" /\ result' = [result EXCEPT !.err = "non_success", !.rejected = TRUE]
       \/ result.status = "success" /\ pc' = "first_byte" /\ UNCHANGED result
    /\ UNCHANGED <<request, pending, quota, ctx, client, trips, next>>

\* The first chunk: marked in the store (a failure ends the attempt), then the
\* response is started unless the context has ended.  A body without a byte
\* is observed first and starts the response at its end.
FirstByte ==
    /\ pc = "first_byte"
    /\ \/ /\ \E err \in {"first_byte_timeout", "relay", "mark_failed"}
                            \cup (IF ctx = "ended" THEN {"cancelled"} ELSE {}) : Ends(err)
          /\ UNCHANGED client
       \/ /\ ctx = "live"
          /\ pc' = "streaming" /\ client' = "started"
          /\ UNCHANGED result
       \/ \E usage \in Usages, err \in {"none", "protocol"} :
            /\ pc' = "ended"
            /\ result' = [result EXCEPT !.err = err, !.usage = usage]
            /\ client' = IF err = "none" THEN "started" ELSE client
    /\ UNCHANGED <<request, pending, quota, ctx, trips, next>>

\* Chunks until the end of the body; what the observer measured, if it is
\* known, and a credential scope or a price that fails late.
Stream ==
    /\ pc = "streaming"
    /\ \E usage \in Usages,
         err \in {"none", "relay", "idle", "protocol", "secret", "pricing"}
                    \cup (IF ctx = "ended" THEN {"cancelled"} ELSE {}) :
            /\ err \in {"relay", "idle", "cancelled"} => usage = Unknown
            /\ pc' = "ended"
            /\ result' = [result EXCEPT !.err = err, !.usage = usage]
    /\ UNCHANGED <<request, pending, quota, ctx, client, trips, next>>

(***************************************************************************)
(* What became of the attempt.                                             *)
(***************************************************************************)
Started == client = "started"

\* Slip: the provider's measurement is taken as it is.
TrustsProvider(r) == FALSE

\* providerUsageExceedsTrustedBounds
ExceedsBounds(r) == r.usage.units > Bound

\* The error that calculateAttemptOutcome leaves.
FinalErr(r) == IF ExceedsBounds(r) THEN "protocol" ELSE r.err

\* What the store charges: the known usage, nothing for a rejection that is
\* confirmed, else all that was reserved.
Charge(r) ==
    IF r.usage.known THEN (IF ExceedsBounds(r) THEN Bound ELSE r.usage.units)
    ELSE IF r.rejected /\ ~Started THEN 0 ELSE Bound

\* Slip: a failure is retried although the response has begun.
ConditionAlways(r) ==
    LET condition == CASE FinalErr(r) = "non_success" -> "status"
                       [] FinalErr(r) \in {"idle", "relay"} -> "first_byte_timeout"
                       [] OTHER -> FinalErr(r) IN
    IF ctx = "live" /\ condition \in Conditions THEN condition ELSE "none"

\* fallbackCondition
FallbackCondition(r) ==
    LET condition == IF FinalErr(r) = "non_success" /\ r.status = "retryable" THEN "status" ELSE FinalErr(r) IN
    IF ~Started /\ ctx = "live" /\ FinalErr(r) # "cancelled" /\ condition \in Conditions THEN condition ELSE "none"

Route == plan[next.candidate]

\* Slip: an unsafe request is replayed like any other.
ReplayAlways(c) == TRUE

\* opaqueReplayAllowed
ReplayAllowed(c) == unsafe => plan[c].unsafeToo

\* Slip: the first attempt on a route is not counted.
RetryOneMore(condition) == condition \in Route.retryOn /\ next.onRoute <= Route.maxAttempts

\* routeAllowsRetry
RouteAllowsRetry(condition) == condition \in Route.retryOn /\ next.onRoute < Route.maxAttempts

\* Slip: the end of the candidates is missed by one.
FallbackPastEnd(condition) ==
    /\ condition \in Route.fallbackOn /\ next.candidate <= Len(plan)
    /\ next.candidate < Len(plan) => ReplayAllowed(next.candidate + 1)

\* routeAllowsFallback with a candidate left that may be replayed to.
FallbackEligible(condition) ==
    /\ condition \in Route.fallbackOn /\ next.candidate < Len(plan)
    /\ ReplayAllowed(next.candidate + 1)

\* Slip: the loop goes round when neither a retry nor a fallback is left.
SelectionsOnly(condition) ==
    IF condition = "none" \/ Len(trips) >= MaxLogical \/ ~ReplayAllowed(next.candidate) THEN {"none"}
    ELSE (IF RouteAllowsRetry(condition) THEN {"same"} ELSE {})
         \cup (IF FallbackEligible(condition) THEN {"fallback"} ELSE {})

\* The retry that ServeHTTP selects; a delay that does not fit is skipped.
Selections(condition) ==
    IF condition = "none" \/ Len(trips) >= MaxLogical \/ ~ReplayAllowed(next.candidate) THEN {"none"}
    ELSE (IF RouteAllowsRetry(condition) THEN {"same"} ELSE {})
         \cup (IF FallbackEligible(condition) THEN {"fallback"} ELSE {"none"})

(***************************************************************************)
(* Calls of the quota store on an attempt.                                 *)
(***************************************************************************)
Settled(k, state) ==
    LET charge == IF attempts[k].state = "open" THEN Charge(result) ELSE attempts[k].charge IN
    [attempts EXCEPT ![k] = [@ EXCEPT !.state = state, !.charge = charge]]

\* SettleFinalAttempt of attempt k: it succeeds, or fails and may be applied.
SettleFinal(k, ok, fails) ==
    \/ /\ reservation # "ended"
       /\ reservation' = "ended" /\ attempts' = Settled(k, "final")
       /\ (ok /\ UNCHANGED failed) \/ (fails /\ failed' = TRUE)
    \/ failed' = TRUE /\ UNCHANGED <<reservation, attempts>> /\ fails

\* ReleaseBeforeDispatch.
Release ==
    \/ /\ reservation = "reserved" /\ reservation' = "ended"
       /\ failed' \in {failed, TRUE}
    \/ failed' = TRUE /\ UNCHANGED reservation

(***************************************************************************)
(* The loop of ServeHTTP.                                                  *)
(***************************************************************************)
\* begin was not called: the reservation is released, or the attempt before
\* (already settled for a retry) is made the final one.
NotBegun ==
    /\ pc = "ended" /\ ~result.begun
    /\ \/ ~Retrying /\ Release /\ UNCHANGED attempts /\ Problem(result.err)
       \/ Retrying /\ SettleFinal(Len(attempts), Problem(result.err), Problem("dependency"))
    /\ UNCHANGED <<request, pending, stages, ctx, trips, result, next>>

\* retryBeginDefinitelyCreatedNoAttempt
CreatedNoAttempt(err) == err \in {"exceeded", "concurrency", "expired", "invalid"}

\* begin failed.  The attempt before a retry that was refused for certain is
\* made the final one; what is unknown, and a reservation that expired before
\* its first attempt, is left to recovery.
NotOwner ==
    /\ pc = "ended" /\ result.begun /\ ~result.owner
    /\ IF Retrying /\ CreatedNoAttempt(result.err)
       THEN SettleFinal(Len(attempts), Problem(result.err), Problem("dependency"))
       ELSE Problem(result.err) /\ UNCHANGED <<reservation, attempts, failed>>
    /\ UNCHANGED <<request, pending, stages, ctx, trips, result, next>>

Owned == pc = "ended" /\ result.owner

\* A retry is selected.  Its preparation fails, and the attempt is final; or
\* the attempt is settled for the retry.
SelectRetry ==
    /\ Owned
    /\ \E kind \in Selections(FallbackCondition(result)) \ {"none"} :
        \/ /\ SettleFinal(Len(attempts), Problem("configuration"), Problem("dependency"))
           /\ UNCHANGED next
        \/ /\ reservation # "ended"
           /\ attempts' = Settled(Len(attempts), "retry")
           /\ \/ /\ pc' = "waiting"
                 /\ next' = [next EXCEPT !.selected = kind, !.condition = FallbackCondition(result)]
                 /\ UNCHANGED <<failed, client>>
              \/ failed' = TRUE /\ Problem("dependency") /\ UNCHANGED next
           /\ UNCHANGED reservation
        \/ /\ failed' = TRUE /\ Problem("dependency")
           /\ UNCHANGED <<reservation, attempts, next>>
    /\ UNCHANGED <<request, pending, stages, ctx, trips, result>>

\* The backoff passes, or does not fit any more and an eligible fallback takes
\* its place at once.
StartRetry ==
    /\ pc = "waiting" /\ ctx = "live"
    /\ \/ /\ next.selected = "same"
          /\ next' = [next EXCEPT !.onRoute = @ + 1, !.selected = "none"]
       \/ /\ next.selected = "fallback" \/ FallbackEligible(next.condition)
          /\ next' = [next EXCEPT !.candidate = @ + 1, !.onRoute = 1, !.selected = "none"]
    /\ result' = NoResult
    /\ pc' = "executing"
    /\ UNCHANGED <<request, pending, quota, ctx, client, trips>>

\* Slip: the attempt was settled already, so nothing more is stored.
RetryDropped(err) == Problem(err) /\ UNCHANGED <<reservation, attempts, failed>>

\* The attempt before is made the final one.
RetryAbandoned(err) == SettleFinal(Len(attempts), Problem(err), Problem("dependency"))

\* The delay does not fit and no fallback takes its place, or the context ended.
AbandonRetry ==
    /\ pc = "waiting"
    /\ ctx = "ended" \/ next.selected = "same"
    /\ \E err \in {"deadline"} \cup (IF ctx = "ended" THEN {"cancelled"} ELSE {}) : RetryAbandoned(err)
    /\ UNCHANGED <<request, pending, stages, ctx, trips, result, next>>

\* Slip: whatever was relayed is ended like a complete response.
AnswersComplete(err) == pc' = "done" /\ client' = IF Started THEN "complete" ELSE "problem"

\* The end of the client's response: one that has begun and did not succeed in
\* every respect is aborted, never ended as if it were complete.
Answer(err) ==
    /\ pc' = "done"
    /\ client' = IF Started THEN (IF err = "none" THEN "complete" ELSE "aborted")
                 ELSE IF err = "cancelled" THEN client ELSE "problem"

Finish ==
    /\ Owned
    /\ "none" \in Selections(FallbackCondition(result))
    /\ SettleFinal(Len(attempts), Answer(FinalErr(result)), Answer("dependency"))
    /\ UNCHANGED <<request, pending, stages, ctx, trips, result, next>>

(***************************************************************************)
(* Around the handler.                                                     *)
(***************************************************************************)
ContextEnds ==
    /\ pc # "done" /\ ctx = "live"
    /\ ctx' = "ended"
    /\ UNCHANGED <<pc, request, pending, quota, client, trips, result, next>>

\* The worker ends a reservation that passed its expires_at (expirePendingBatch of
\* the quota store); the time that passes is left open.
Recover ==
    /\ reservation \in {"reserved", "active"}
    /\ reservation' = "ended"
    /\ attempts' = [k \in DOMAIN attempts |->
            IF attempts[k].state = "open" THEN [attempts[k] EXCEPT !.state = "recovered", !.charge = Bound]
            ELSE IF attempts[k].state = "retry" THEN [attempts[k] EXCEPT !.state = "final"]
            ELSE attempts[k]]
    /\ UNCHANGED <<pc, request, pending, stages, failed, ctx, client, trips, result, next>>

Init ==
    /\ pc = "arrived" /\ plan \in Plans /\ unsafe \in BOOLEAN
    /\ pending = <<>> /\ stages = <<>>
    /\ reservation = "none" /\ attempts = <<>> /\ failed = FALSE
    /\ ctx = "live" /\ client = "waiting"
    /\ trips = <<>> /\ result = NoResult /\ next = NoRetry

HandlerStep ==
    \/ Admit \/ Authenticate \/ BeginAuthenticatedRequest \/ StageSucceeds \/ StageFails \/ Reserve
    \/ FailsBeforeBegin \/ BeforeRoundTrip \/ RoundTrip \/ Headers \/ FirstByte \/ Stream
    \/ NotBegun \/ NotOwner \/ SelectRetry \/ StartRetry \/ AbandonRetry \/ Finish

Next == HandlerStep \/ ContextEnds \/ Recover

\* Every wait of the handler has a timeout of its own.
Spec == Init /\ [][Next]_vars
FairSpec == Spec /\ WF_vars(HandlerStep)

(***************************************************************************)
(* Properties.                                                             *)
(***************************************************************************)
Errors == {"none", "target", "secret", "cancelled", "dependency", "finalized", "expired", "exceeded", "concurrency",
           "invalid", "connect_error", "timeout_before_headers", "protocol", "non_success", "first_byte_timeout", "relay",
           "mark_failed", "idle", "pricing"}
StageRow == [stage : {Pipeline[k] : k \in 1..Len(Pipeline)},
             outcome : {"succeeded", "denied", "failed", "cancelled"}]
AttemptRow == [candidate : Nat, state : {"open", "retry", "final", "recovered"}, charge : Nat]
ResultRow == [begun : BOOLEAN, owner : BOOLEAN, err : Errors, usage : Usages, rejected : BOOLEAN,
              status : {"none", "success", "retryable", "refused"}]
NextRow == [candidate : 1..Len(plan), onRoute : Nat, selected : {"none", "same", "fallback"},
            condition : Conditions \cup {"none", "status"}]

TypeOK ==
    /\ pc \in {"arrived", "admitted", "authenticated", "deciding", "executing", "sending", "headers", "first_byte",
               "streaming", "ended", "waiting", "done"}
    /\ plan \in Plans /\ unsafe \in BOOLEAN /\ failed \in BOOLEAN
    /\ pending \in Seq(StageRow) /\ stages \in Seq(StageRow)
    /\ reservation \in {"none", "reserved", "active", "ended"}
    /\ attempts \in Seq(AttemptRow) /\ trips \in Seq(Nat)
    /\ ctx \in {"live", "ended"}
    /\ client \in {"waiting", "started", "complete", "aborted", "problem"}
    /\ result \in ResultRow /\ next \in NextRow

\* Every RoundTrip belongs to an attempt of its own that was stored before it
\* (handler.go:1395): nothing reaches the provider unreserved.
EveryTripReserved ==
    /\ Len(trips) <= Len(attempts)
    /\ \A k \in DOMAIN trips : trips[k] = attempts[k].candidate

\* Attempts stay within the limits of each route and of the request, also when
\* a retry is replaced by a fallback after its attempt was settled
\* (handler.go:697).
AttemptsOn(c) == {k \in DOMAIN attempts : attempts[k].candidate = c}
WithinAttemptLimits ==
    /\ Len(attempts) <= MaxLogical
    /\ \A c \in DOMAIN plan : Cardinality(AttemptsOn(c)) <= plan[c].maxAttempts

\* A request that is not safe to repeat reaches a provider twice only if every
\* route it was sent over declares that it may be (opaqueReplayAllowed).
UnsafeSentOnce ==
    unsafe /\ Len(trips) > 1 => \A k \in DOMAIN trips : plan[trips[k]].unsafeToo

\* No attempt is charged more than was reserved for it, whatever usage the
\* provider reports, and one whose bytes reached the client is never charged as
\* if the provider had rejected it.
ChargeBounded ==
    /\ \A k \in DOMAIN attempts : attempts[k].charge <= Bound
    /\ client = "complete" => attempts # <<>> /\ Last(attempts).state = "final"
                              /\ (~result.usage.known => Last(attempts).charge = Bound)

\* A client gets a complete response only from an attempt whose settlement is
\* stored; a partial or an unaccounted one is visibly broken off.
CompleteIsSettled ==
    client = "complete" => /\ reservation = "ended" /\ FinalErr(result) = "none"
                           /\ \A k \in DOMAIN attempts : attempts[k].state = "final" \/ k < Len(attempts)

\* The handler leaves a reservation open for recovery in two cases only: a call
\* of the store failed and may or may not have been applied, or the reservation
\* had passed its expires_at before the first attempt began (store.go:1924,
\* handler.go:601), and then no attempt is stored and nothing was sent.
LeftOpenOnlyIfUnknown ==
    pc = "done" /\ reservation \in {"reserved", "active"} =>
        failed \/ (result.err = "expired" /\ attempts = <<>>)

\* The stored stages are the pipeline's, in order, and only the last may be a
\* failure; a request refused while deciding has one unless storing it failed.
StagesExplainOutcome ==
    /\ Len(stages) <= Len(Pipeline)
    /\ \A k \in DOMAIN stages : /\ stages[k].stage = Pipeline[k]
                                /\ stages[k].outcome # "succeeded" => k = Len(stages)
    /\ pc = "done" /\ stages # <<>> /\ ~failed =>
            (Last(stages).outcome = "succeeded") = (reservation # "none")

\* Every round trip to an upstream is one the quota store reserved, within the
\* attempts of its route and of the request; an unsafe request is repeated only
\* where every route allows it; what completed is settled, for no more than was
\* reserved; only what is unknown, or expired with nothing sent, is left to
\* recovery; and the stored stages explain the outcome.
EveryTripAccounted ==
    /\ TypeOK /\ EveryTripReserved /\ WithinAttemptLimits /\ UnsafeSentOnce
    /\ ChargeBounded /\ CompleteIsSettled /\ LeftOpenOnlyIfUnknown /\ StagesExplainOutcome

\* Once a byte of a response reached the client nothing is sent to a provider
\* any more and no other answer is begun (handler.go:744).
NoReplayAfterStart ==
    client # "waiting" =>
         /\ trips' = trips
         /\ client' # client => client = "started" /\ client' \in {"complete", "aborted"}

\* What was begun is never repeated: see NoReplayAfterStart.
NothingReplayed == [][NoReplayAfterStart]_vars

\* Every request ends.
EveryRequestEnds == <>(pc = "done")
=============================================================================
