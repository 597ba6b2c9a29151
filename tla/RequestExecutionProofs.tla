---------------------- MODULE RequestExecutionProofs ----------------------
(***************************************************************************)
(* Proofs about RequestExecution: EveryTripAccounted is an invariant and   *)
(* NothingReplayed holds, for all plans, bounds and limits, whatever the   *)
(* client, the provider, the store and its recovery do meanwhile.          *)
(*                                                                         *)
(* The attempts the store holds and the RoundTrips the handler made are    *)
(* related at every place of the handler (PlaceInv), from which the limits *)
(* of routes and of the request follow; what the handler leaves open it    *)
(* leaves because of a call it does not know the outcome of, or because    *)
(* the reservation expired before its first attempt (RefusedInv).          *)
(*                                                                         *)
(* The last part is about the circuit that the outcomes of attempts feed.  *)
(***************************************************************************)
EXTENDS RequestExecution, FiniteSetTheorems, SequenceTheorems, WellFoundedInduction, TLAPS

(* The inductive invariant.                                                *)

Deciding == {"arrived", "admitted", "authenticated", "deciding"}
Flight == {"sending", "headers", "first_byte", "streaming"}

\* An attempt is this handler's: stored for it, and not settled by it yet.
Holds == pc \in Flight \/ Owned

\* Before a reservation there is nothing to account for.
StartInv ==
    /\ pc \in Deciding => reservation = "none" /\ client = "waiting"
    /\ reservation = "none" => /\ pc \in Deciding \cup {"done"}
                               /\ attempts = <<>> /\ trips = <<>> /\ result = NoResult /\ next = NoRetry

\* The stages that passed, in memory and stored.
StageInv ==
    /\ pc \in Deciding \ {"deciding"} => stages = <<>>
    /\ pc = "deciding" => /\ stages = <<Succeeded("identity"), Succeeded("trust")>>
                          /\ Len(pending) <= 5
                          /\ \A k \in 1..Len(pending) : pending[k] = Succeeded(Pipeline[k + 2])
    /\ reservation # "none" => Len(stages) = 8 /\ Last(stages).outcome = "succeeded"
    /\ StagesExplainOutcome

\* Attempts and RoundTrips, whatever the handler does next: they go over the
\* candidates in order, at most as often as each route and the request allow.
RowsInv ==
    /\ EveryTripReserved
    /\ \A k \in 1..Len(attempts) : attempts[k].candidate <= next.candidate
    /\ WithinAttemptLimits
    /\ next.onRoute <= Route.maxAttempts
    /\ Cardinality(AttemptsOn(next.candidate)) <= next.onRoute
    /\ unsafe /\ Len(attempts) > 1 => \A k \in 1..Len(attempts) : plan[attempts[k].candidate].unsafeToo

\* What each place of the handler knows of them: which RoundTrip is still to be
\* made, that another attempt fits, and that an unsafe request may be repeated
\* where it was sent and where it goes next.
PlaceInv ==
    /\ pc \in {"executing", "headers", "first_byte", "streaming", "waiting"} \/ Owned => Len(trips) = Len(attempts)
    /\ pc = "sending" => Len(attempts) = Len(trips) + 1
    /\ Holds \/ pc = "waiting" => attempts # <<>> /\ Last(attempts).candidate = next.candidate
    /\ pc \in {"executing", "waiting"} =>
        /\ Len(attempts) < MaxLogical
        /\ unsafe /\ attempts # <<>> =>
             Route.unsafeToo /\ \A k \in 1..Len(attempts) : plan[attempts[k].candidate].unsafeToo
    /\ pc = "executing" => Cardinality(AttemptsOn(next.candidate)) < next.onRoute
    /\ pc = "waiting" => /\ next.selected # "none"
                         /\ next.selected = "same" => next.onRoute < Route.maxAttempts
                         /\ next.selected = "fallback" =>
                              next.candidate < Len(plan) /\ ReplayAllowed(next.candidate + 1)

\* The attempt at hand is open unless recovery was faster.
OpenInv ==
    /\ Holds /\ reservation # "ended" => reservation = "active" /\ Last(attempts).state = "open"
    /\ pc \in Flight => result.owner
    /\ pc = "executing" => result = NoResult
    /\ result.owner => result.begun

\* How begin ended when no attempt is known to be this handler's.
RefusedInv ==
    pc = "ended" /\ result.begun /\ ~result.owner =>
        /\ result.err \in {"dependency", "finalized", "expired", "exceeded", "concurrency", "invalid"}
        /\ result.err = "dependency" => failed
        /\ result.err \in {"exceeded", "concurrency", "invalid"} => attempts # <<>>
        /\ result.err = "finalized" => reservation = "ended"

\* What the client has got.
ClientInv ==
    /\ client = "started" => pc = "streaming" \/ Owned
    /\ client \in {"complete", "aborted", "problem"} => pc = "done"

SettledInv == ChargeBounded /\ CompleteIsSettled /\ LeftOpenOnlyIfUnknown

RequestInv ==
    /\ TypeOK /\ StartInv /\ StageInv /\ RowsInv /\ PlaceInv
    /\ OpenInv /\ RefusedInv /\ ClientInv /\ SettledInv

(* Lemmas.                                                                 *)

\* A plan has a first candidate, and every candidate a route.
LEMMA PlanFacts ==
    ASSUME TypeOK
    PROVE  /\ Len(plan) \in Nat \ {0}
           /\ \A c \in 1..Len(plan) : plan[c] \in RouteRow
           /\ next.candidate \in 1..Len(plan) /\ next.onRoute \in Nat
           /\ Route \in RouteRow
  <1>1. plan \in Seq(RouteRow) /\ plan # <<>>
    BY RequestBounds DEF TypeOK
  <1>2. Len(plan) \in Nat \ {0} /\ \A c \in 1..Len(plan) : plan[c] \in RouteRow
    BY <1>1
  <1>3. next.candidate \in 1..Len(plan) /\ next.onRoute \in Nat
    BY DEF TypeOK, NextRow
  <1> QED
    BY <1>2, <1>3 DEF Route

LEMMA CountFinite ==
    ASSUME attempts \in Seq(AttemptRow)
    PROVE  \A c : /\ IsFiniteSet(AttemptsOn(c))
                  /\ Cardinality(AttemptsOn(c)) \in Nat
  <1> TAKE c
  <1>1. IsFiniteSet(1..Len(attempts))
    BY FS_Interval
  <1>2. AttemptsOn(c) \subseteq 1..Len(attempts)
    BY DEF AttemptsOn
  <1>3. IsFiniteSet(AttemptsOn(c))
    BY <1>1, <1>2, FS_Subset
  <1> QED
    BY <1>3, FS_CardinalityType

\* Storing an attempt counts it on its candidate and on no other.
LEMMA AppendCounts ==
    ASSUME TypeOK, attempts' = Append(attempts, NewAttempt)
    PROVE  /\ \A c : c # next.candidate => AttemptsOn(c)' = AttemptsOn(c)
           /\ \A c : c = next.candidate => Cardinality(AttemptsOn(c)') = Cardinality(AttemptsOn(c)) + 1
  <1>1. attempts \in Seq(AttemptRow) /\ Len(attempts) \in Nat
    BY DEF TypeOK
  <1>2. /\ Len(attempts') = Len(attempts) + 1 /\ DOMAIN attempts' = 1..(Len(attempts) + 1)
        /\ \A k \in 1..Len(attempts) : attempts'[k] = attempts[k]
        /\ attempts'[Len(attempts) + 1].candidate = next.candidate
    BY <1>1 DEF NewAttempt
  <1>3. \A c : c # next.candidate => AttemptsOn(c)' = AttemptsOn(c)
    BY <1>1, <1>2 DEF AttemptsOn
  <1>4. ASSUME NEW c, c = next.candidate
        PROVE  Cardinality(AttemptsOn(c)') = Cardinality(AttemptsOn(c)) + 1
    <2>1. AttemptsOn(c)' = AttemptsOn(c) \cup {Len(attempts) + 1}
      BY <1>1, <1>2, <1>4 DEF AttemptsOn
    <2>2. Len(attempts) + 1 \notin AttemptsOn(c)
      BY <1>1 DEF AttemptsOn
    <2>3. IsFiniteSet(AttemptsOn(c))
      BY <1>1, CountFinite
    <2> QED
      BY <2>1, <2>2, <2>3, FS_AddElement
  <1> QED
    BY <1>3, <1>4

\* Attempts that keep their candidates, on a plan and a place in it that stay,
\* keep what the rows guarantee.
LEMMA RowsKept ==
    ASSUME TypeOK, RowsInv, attempts' \in Seq(AttemptRow), Len(attempts') = Len(attempts),
           \A k \in 1..Len(attempts) : attempts'[k].candidate = attempts[k].candidate,
           trips' = trips, plan' = plan, unsafe' = unsafe,
           next'.candidate = next.candidate, next'.onRoute = next.onRoute
    PROVE  /\ RowsInv'
           /\ \A c : AttemptsOn(c)' = AttemptsOn(c)
  <1>1. attempts \in Seq(AttemptRow) /\ Len(attempts) \in Nat /\ trips \in Seq(Nat)
    BY DEF TypeOK
  <1>2. DOMAIN attempts' = 1..Len(attempts) /\ DOMAIN attempts = 1..Len(attempts)
    BY <1>1
  <1>3. \A c : AttemptsOn(c)' = AttemptsOn(c)
    BY <1>2 DEF AttemptsOn
  <1>4. EveryTripReserved'
    BY <1>1, <1>2 DEF RowsInv, EveryTripReserved
  <1>5. WithinAttemptLimits'
    BY <1>3 DEF RowsInv, WithinAttemptLimits
  <1>6. \A c : c = next.candidate => c = next'.candidate /\ Cardinality(AttemptsOn(c)') <= next.onRoute
    BY <1>3 DEF RowsInv
  <1>7. Cardinality(AttemptsOn(next.candidate))' <= next'.onRoute
    BY <1>6
  <1>8. next'.onRoute <= Route'.maxAttempts
    BY DEF RowsInv, Route
  <1>9. unsafe' /\ Len(attempts') > 1 => \A k \in 1..Len(attempts') : plan'[attempts'[k].candidate].unsafeToo
    BY <1>1 DEF RowsInv
  <1>10. \A k \in 1..Len(attempts') : attempts'[k].candidate <= next'.candidate
    BY <1>1 DEF RowsInv
  <1> QED
    BY <1>3, <1>4, <1>5, <1>7, <1>8, <1>9, <1>10 DEF RowsInv

\* What the store charges is within what it reserved.
LEMMA ChargeInBound ==
    ASSUME TypeOK
    PROVE  Charge(result) \in Nat /\ Charge(result) <= Bound
  <1>1. result.usage \in Usages
    BY DEF TypeOK, ResultRow
  <1>2. result.usage.units \in Nat
    <2>1. CASE result.usage = Unknown
      BY <2>1 DEF Unknown
    <2>2. CASE result.usage \in [known : {TRUE}, units : 0..(Bound + 1)]
      <3>1. result.usage.units \in 0..(Bound + 1)
        BY <2>2, Zenon
      <3> QED
        BY <3>1, RequestBounds
    <2> QED
      BY <1>1, <2>1, <2>2 DEF Usages
  <1>3. Charge(result) \in {0, Bound}
             \/ (~ExceedsBounds(result) /\ Charge(result) = result.usage.units)
    BY Zenon DEF Charge
  <1> QED
    BY <1>2, <1>3, RequestBounds DEF ExceedsBounds

\* A settlement changes the state of the attempt and, if it was open, its charge.
LEMMA SettledRows ==
    ASSUME TypeOK, attempts # <<>>, NEW state \in {"retry", "final"},
           \A k \in 1..Len(attempts) : attempts[k].charge <= Bound,
           attempts' = Settled(Len(attempts), state)
    PROVE  /\ attempts' \in Seq(AttemptRow) /\ Len(attempts') = Len(attempts)
           /\ \A k \in 1..Len(attempts) : /\ attempts'[k].candidate = attempts[k].candidate
                                          /\ attempts'[k].charge <= Bound
           /\ Last(attempts').state = state
           /\ Last(attempts).state = "open" => Last(attempts').charge = Charge(result)
  <1> DEFINE n == Len(attempts)
             charge == IF attempts[n].state = "open" THEN Charge(result) ELSE attempts[n].charge
             row == [attempts[n] EXCEPT !.state = state, !.charge = charge]
  <1>1. attempts \in Seq(AttemptRow) /\ n \in Nat \ {0} /\ DOMAIN attempts = 1..n
    BY DEF TypeOK
  <1>2. attempts[n] \in AttemptRow /\ n \in 1..n
    BY <1>1
  <1>3. charge \in Nat /\ charge <= Bound
    BY <1>2, ChargeInBound DEF AttemptRow
  <1>4. /\ row \in AttemptRow /\ row.candidate = attempts[n].candidate
        /\ row.state = state /\ row.charge = charge
    BY <1>2, <1>3 DEF AttemptRow
  <1>5. attempts' = [attempts EXCEPT ![n] = row]
    BY DEF Settled
  <1> HIDE DEF row, charge
  <1>6. attempts' \in Seq(AttemptRow) /\ Len(attempts') = n
    BY <1>1, <1>2, <1>4, <1>5
  <1>7. attempts'[n] = row /\ \A k \in 1..n : k # n => attempts'[k] = attempts[k]
    BY <1>1, <1>2, <1>5
  <1>8. Last(attempts') = row /\ Last(attempts) = attempts[n]
    BY <1>6, <1>7 DEF Last
  <1>9. \A k \in 1..n : attempts'[k].candidate = attempts[k].candidate /\ attempts'[k].charge <= Bound
    BY <1>3, <1>4, <1>7
  <1>10. Last(attempts).state = "open" => Last(attempts').charge = Charge(result)
    BY <1>4, <1>8 DEF charge
  <1> QED
    BY <1>4, <1>6, <1>8, <1>9, <1>10

\* What is stored when a stage ends the decisions: all that passed, and it.
LEMMA StoredStages ==
    ASSUME TypeOK, StageInv, pc = "deciding", NEW row \in StageRow, row.stage = Stage, NEW s,
           s = stages \o (pending \o <<row>>) \/ s = stages \o pending \o <<row>>
    PROVE  /\ s \in Seq(StageRow) /\ Len(s) = Len(pending) + 3 /\ Len(s) <= 8
           /\ \A k \in 1..Len(s) : /\ s[k].stage = Pipeline[k]
                                   /\ s[k].outcome # "succeeded" => k = Len(s)
           /\ Last(s) = row
  <1> DEFINE n == Len(pending)
  <1>1. pending \in Seq(StageRow) /\ stages \in Seq(StageRow) /\ <<row>> \in Seq(StageRow) /\ n \in Nat
    BY DEF TypeOK
  <1>0. n <= 5
    BY DEF StageInv
  <1>2. /\ Len(stages) = 2
        /\ stages[1] = Succeeded("identity") /\ stages[2] = Succeeded("trust")
    BY DEF StageInv
  <1>3. /\ s \in Seq(StageRow) /\ Len(s) = n + 3
        /\ s[1] = stages[1] /\ s[2] = stages[2] /\ s[n + 3] = row
        /\ \A k \in 1..n : s[k + 2] = pending[k]
    <2>1. CASE s = stages \o (pending \o <<row>>)
      <3> DEFINE t == pending \o <<row>>
      <3>1. /\ t \in Seq(StageRow) /\ Len(t) = n + 1 /\ t[n + 1] = row
            /\ \A k \in 1..n : t[k] = pending[k]
        BY <1>1, ConcatProperties
      <3>2. s = stages \o t
        BY <2>1
      <3> HIDE DEF t
      <3>3. /\ s \in Seq(StageRow) /\ Len(s) = 2 + (n + 1)
            /\ \A i \in 1..(2 + (n + 1)) : s[i] = IF i <= 2 THEN stages[i] ELSE t[i - 2]
        <4>1. /\ s \in Seq(StageRow) /\ Len(s) = Len(stages) + Len(t)
              /\ \A i \in 1..(Len(stages) + Len(t)) : s[i] = IF i <= Len(stages) THEN stages[i] ELSE t[i - Len(stages)]
          BY <1>1, <3>1, <3>2, ConcatProperties
        <4> QED
          BY <1>2, <3>1, <4>1
      <3>4. s[1] = stages[1] /\ s[2] = stages[2] /\ s[n + 3] = row
        BY <1>1, <3>1, <3>3
      <3>5. \A k \in 1..n : s[k + 2] = pending[k]
        BY <1>1, <3>1, <3>3
      <3> QED
        BY <1>1, <3>3, <3>4, <3>5
    <2>2. CASE s = stages \o pending \o <<row>>
      <3> DEFINE t == stages \o pending
      <3>1. /\ t \in Seq(StageRow) /\ Len(t) = 2 + n
            /\ \A i \in 1..(2 + n) : t[i] = IF i <= 2 THEN stages[i] ELSE pending[i - 2]
        <4>1. /\ t \in Seq(StageRow) /\ Len(t) = Len(stages) + n
              /\ \A i \in 1..(Len(stages) + n) : t[i] = IF i <= Len(stages) THEN stages[i] ELSE pending[i - Len(stages)]
          BY <1>1, ConcatProperties
        <4> QED
          BY <1>2, <4>1
      <3>2. s = t \o <<row>>
        BY <2>2
      <3> HIDE DEF t
      <3>3. /\ s \in Seq(StageRow) /\ Len(s) = (2 + n) + 1 /\ s[n + 3] = row
            /\ \A k \in 1..(2 + n) : s[k] = t[k]
        BY <1>1, <3>1, <3>2, ConcatProperties
      <3>4. s[1] = stages[1] /\ s[2] = stages[2]
        BY <1>1, <3>1, <3>3
      <3>5. \A k \in 1..n : s[k + 2] = pending[k]
        BY <1>1, <3>1, <3>3
      <3> QED
        BY <1>1, <3>3, <3>4, <3>5
    <2> QED
      BY <2>1, <2>2
  <1>4. \A k \in 1..n : pending[k] = Succeeded(Pipeline[k + 2])
    BY DEF StageInv
  <1>5. Pipeline[1] = "identity" /\ Pipeline[2] = "trust"
    BY DEF Pipeline
  <1>7. row.stage = Pipeline[n + 3] /\ n + 3 = 3 + n
    BY <1>1 DEF Stage
  <1>6. ASSUME NEW k \in 1..Len(s)
        PROVE  /\ s[k].stage = Pipeline[k]
               /\ s[k].outcome # "succeeded" => k = Len(s)
    <2>1. CASE k \in {1, 2}
      BY <1>2, <1>3, <1>5, <2>1 DEF Succeeded
    <2>2. CASE k \in 3..(n + 2)
      <3>1. k - 2 \in 1..n /\ (k - 2) + 2 = k
        BY <1>1, <2>2
      <3>2. s[k] = Succeeded(Pipeline[k])
        BY <1>3, <1>4, <3>1
      <3> QED
        BY <3>2 DEF Succeeded
    <2>3. CASE k = n + 3
      BY <1>3, <1>7, <2>3
    <2> QED
      BY <1>1, <1>3, <2>1, <2>2, <2>3
  <1> QED
    BY <1>1, <1>0, <1>3, <1>6 DEF Last

LEMMA StageFacts ==
    ASSUME TypeOK, StageInv, pc = "deciding"
    PROVE  /\ Stage \in {Pipeline[k] : k \in 1..Len(Pipeline)}
           /\ Stage = "quota" <=> Len(pending) = 5
           /\ Len(pending) \in 0..5
           /\ Stage # "quota" => \E k \in 3..7 : Stage = Pipeline[k]
  <1>0. pending \in Seq(StageRow) /\ Len(pending) \in Nat
    BY DEF TypeOK
  <1>1. Len(pending) <= 5
    BY DEF StageInv
  <1>2. Len(Pipeline) = 8 /\ Pipeline[8] = "quota"
    BY DEF Pipeline
  <1>3. \A k \in 3..7 : Pipeline[k] # "quota"
    BY DEF Pipeline
  <1>4. \A n \in Nat : n <= 5 => /\ n \in 0..5 /\ 3 + n \in 3..8
                                 /\ n # 5 => 3 + n \in 3..7
    OBVIOUS
  <1>5. Stage \in {Pipeline[k] : k \in 1..8}
    BY <1>0, <1>1, <1>4 DEF Stage
  <1>6. Stage = "quota" <=> Len(pending) = 5
    <2>1. CASE Len(pending) = 5
      <3>1. 3 + Len(pending) = 8
        BY <2>1
      <3> QED
        BY <1>2, <2>1, <3>1 DEF Stage
    <2>2. CASE Len(pending) # 5
      <3>1. 3 + Len(pending) \in 3..7
        BY <1>0, <1>1, <1>4, <2>2
      <3> QED
        BY <1>3, <2>2, <3>1 DEF Stage
    <2> QED
      BY <2>1, <2>2
  <1>7. Len(pending) # 5 => \E k \in 3..7 : Stage = Pipeline[k]
    BY <1>0, <1>1, <1>4 DEF Stage
  <1> QED
    BY <1>0, <1>1, <1>2, <1>4, <1>5, <1>6, <1>7

(* The decision stages.                                                    *)

\* The initial states satisfy the invariant.
LEMMA InitHolds == Init => RequestInv
  <1> SUFFICES ASSUME Init PROVE RequestInv
    OBVIOUS
  <1>1. TypeOK
    <2>1. plan \in Seq(RouteRow) /\ plan # <<>>
      BY RequestBounds DEF Init
    <2>2. 1 \in 1..Len(plan)
      BY <2>1
    <2>3. next \in NextRow
      BY <2>2 DEF Init, NoRetry, NextRow
    <2>4. result \in ResultRow
      BY DEF Init, NoResult, ResultRow, Errors, Usages, Unknown
    <2>5. <<>> \in Seq(StageRow) /\ <<>> \in Seq(AttemptRow) /\ <<>> \in Seq(Nat)
      OBVIOUS
    <2>6. unsafe \in BOOLEAN /\ failed \in BOOLEAN
      BY Zenon DEF Init
    <2> QED
      BY <2>3, <2>4, <2>5, <2>6 DEF Init, TypeOK
  <1>2. \A c : AttemptsOn(c) = {}
    BY DEF Init, AttemptsOn
  <1>3. \A c : Cardinality(AttemptsOn(c)) = 0
    BY <1>2, FS_EmptySet
  <1>4. /\ \A c \in 1..Len(plan) : plan[c].maxAttempts \in Nat \ {0}
        /\ DOMAIN plan = 1..Len(plan) /\ 1 \in 1..Len(plan)
    <2>1. plan \in Seq(RouteRow)
      BY RequestBounds DEF Init
    <2> QED
      BY <1>1, <2>1, PlanFacts DEF RouteRow
  <1>5. RowsInv
    BY <1>3, <1>4, RequestBounds
    DEF Init, RowsInv, EveryTripReserved, WithinAttemptLimits, Route, NoRetry
  <1>6. StartInv /\ StageInv /\ PlaceInv /\ OpenInv /\ RefusedInv /\ ClientInv
    BY DEF Init, StartInv, StageInv, StagesExplainOutcome, PlaceInv, OpenInv, RefusedInv, ClientInv,
           Deciding, Holds, Flight, Owned, NoResult
  <1>7. SettledInv
    BY DEF Init, SettledInv, ChargeBounded, CompleteIsSettled, LeftOpenOnlyIfUnknown
  <1> QED
    BY <1>1, <1>5, <1>6, <1>7 DEF RequestInv

\* A step of the decisions, which has nothing but the stages to account for.
LEMMA DecidingKeeps ==
    ASSUME RequestInv, pc \in Deciding, UNCHANGED <<request, attempts, ctx, trips, result, next>>,
           pc' \in Deciding \cup {"done", "executing"}, reservation' \in {"none", "reserved"},
           pc' # "done" => client' = "waiting" /\ (reservation' = "none" <=> pc' # "executing"),
           client' \in {"waiting", "problem"}, failed' \in BOOLEAN,
           pc' = "done" /\ reservation' = "reserved" => failed',
           pending' \in Seq(StageRow), stages' \in Seq(StageRow), StageInv'
    PROVE  RequestInv'
  <1>1. /\ attempts = <<>> /\ trips = <<>> /\ result = NoResult /\ next = NoRetry
        /\ TypeOK /\ RowsInv
    BY DEF RequestInv, StartInv
  <1>2. TypeOK'
    BY <1>1 DEF TypeOK, NextRow, request, Deciding
  <1>3. /\ RowsInv'
        /\ \A c : AttemptsOn(c)' = {}
    <2>1. attempts' \in Seq(AttemptRow)
      BY <1>1
    <2>2. RowsInv'
      BY <1>1, <2>1, RowsKept DEF request
    <2> QED
      BY <1>1, <2>2 DEF AttemptsOn
  <1>4. Cardinality(AttemptsOn(next.candidate))' = 0
    BY <1>3, FS_EmptySet
  <1>5. StartInv'
    BY <1>1 DEF StartInv, Deciding
  <1>6. PlaceInv'
    BY <1>1, <1>4, RequestBounds DEF PlaceInv, Holds, Flight, Owned, Deciding, NoRetry
  <1>7. OpenInv' /\ RefusedInv' /\ ClientInv'
    BY <1>1 DEF OpenInv, RefusedInv, ClientInv, Holds, Flight, Owned, Deciding, NoResult
  <1>8. SettledInv'
    BY <1>1 DEF SettledInv, ChargeBounded, CompleteIsSettled, LeftOpenOnlyIfUnknown, Deciding
  <1> QED
    BY <1>2, <1>3, <1>5, <1>6, <1>7, <1>8 DEF RequestInv

LEMMA AdmitHolds == RequestInv /\ Admit => RequestInv'
  <1> SUFFICES ASSUME RequestInv, Admit PROVE RequestInv'
    OBVIOUS
  <1>1. TypeOK /\ StageInv /\ reservation = "none" /\ client = "waiting"
    BY DEF RequestInv, StartInv, Admit, Deciding
  <1>2. StageInv'
    BY <1>1 DEF Admit, Problem, quota, StageInv, StagesExplainOutcome, Deciding
  <1> QED
    BY <1>1, <1>2, DecidingKeeps DEF Admit, Problem, quota, Deciding, TypeOK

LEMMA AuthenticateHolds == RequestInv /\ Authenticate => RequestInv'
  <1> SUFFICES ASSUME RequestInv, Authenticate PROVE RequestInv'
    OBVIOUS
  <1>1. TypeOK /\ StageInv /\ reservation = "none" /\ client = "waiting"
    BY DEF RequestInv, StartInv, Authenticate, Deciding
  <1>2. StageInv'
    BY <1>1 DEF Authenticate, Problem, quota, StageInv, StagesExplainOutcome, Deciding
  <1> QED
    BY <1>1, <1>2, DecidingKeeps DEF Authenticate, Problem, quota, Deciding, TypeOK

LEMMA BeginAuthenticatedRequestHolds == RequestInv /\ BeginAuthenticatedRequest => RequestInv'
  <1> SUFFICES ASSUME RequestInv, BeginAuthenticatedRequest PROVE RequestInv'
    OBVIOUS
  <1> DEFINE two == <<Succeeded("identity"), Succeeded("trust")>>
  <1>1. TypeOK /\ reservation = "none" /\ client = "waiting" /\ stages = <<>>
    BY DEF RequestInv, StartInv, StageInv, BeginAuthenticatedRequest, Deciding
  <1>2. /\ two \in Seq(StageRow) /\ Len(two) = 2
        /\ \A k \in 1..2 : two[k].stage = Pipeline[k] /\ two[k].outcome = "succeeded"
    <2>1. Pipeline[1] = "identity" /\ Pipeline[2] = "trust" /\ Len(Pipeline) = 8
      BY DEF Pipeline
    <2>2. Succeeded("identity") \in StageRow /\ Succeeded("trust") \in StageRow
      BY <2>1 DEF Succeeded, StageRow
    <2> QED
      BY <2>1, <2>2 DEF Succeeded
  <1>3. Len(Pipeline) = 8
    BY DEF Pipeline
  <1>4. /\ reservation' = "none" /\ failed' \in BOOLEAN
        /\ stages' \in {<<>>, two} /\ pending' \in Seq(StageRow)
    BY <1>1 DEF BeginAuthenticatedRequest, TypeOK
  <1> HIDE DEF two
  <1>9. stages' \in Seq(StageRow)
    <2>1. <<>> \in Seq(StageRow)
      OBVIOUS
    <2> QED
      BY <1>2, <1>4, <2>1
  <1>5. pc' = "deciding" => client' = "waiting" /\ pending' = <<>> /\ stages' = two
    BY <1>1 DEF BeginAuthenticatedRequest, Problem, two
  <1>6. pc' # "deciding" => pc' = "done" /\ client' = "problem" /\ failed'
    BY <1>1 DEF BeginAuthenticatedRequest, Problem
  <1>7. StagesExplainOutcome'
    <2>1. DOMAIN stages' = 1..Len(stages')
      BY <1>9
    <2>2. CASE stages' = <<>>
      <3>1. \A k \in DOMAIN stages' : FALSE
        BY <2>2
      <3>2. Len(stages') <= Len(Pipeline)
        BY <1>3, <2>2
      <3> QED
        BY <2>2, <3>1, <3>2 DEF StagesExplainOutcome
    <2>3. CASE stages' = two
      <3>1. Len(stages') <= Len(Pipeline)
        <4>1. Len(stages') = 2
          BY <1>2, <2>3
        <4> QED
          BY <1>3, <4>1
      <3>2. \A k \in DOMAIN stages' : /\ stages'[k].stage = Pipeline[k]
                                      /\ stages'[k].outcome = "succeeded"
        BY <1>2, <2>1, <2>3
      <3>3. pc' = "done" => failed'
        BY <1>6
      <3> QED
        BY <3>1, <3>2, <3>3, Zenon DEF StagesExplainOutcome
    <2> QED
      BY <1>4, <2>2, <2>3
  <1>8. StageInv'
    BY <1>4, <1>5, <1>6, <1>7 DEF StageInv, Deciding, two
  <1> QED
    BY <1>1, <1>4, <1>5, <1>6, <1>8, <1>9, DecidingKeeps DEF BeginAuthenticatedRequest, Deciding

LEMMA StageSucceedsHolds == RequestInv /\ StageSucceeds => RequestInv'
  <1> SUFFICES ASSUME RequestInv, StageSucceeds PROVE RequestInv'
    OBVIOUS
  <1> DEFINE n == Len(pending)
             row == Succeeded(Stage)
  <1>1. TypeOK /\ StageInv /\ reservation = "none" /\ client = "waiting" /\ pc = "deciding"
    BY DEF RequestInv, StartInv, StageSucceeds, Deciding
  <1>2. pending \in Seq(StageRow) /\ n \in 0..4
    BY <1>1, StageFacts DEF StageSucceeds, TypeOK
  <1>3. row \in StageRow
    BY <1>1, StageFacts DEF Succeeded, StageRow
  <1>4. row = Succeeded(Pipeline[(n + 1) + 2])
    <2>1. 3 + n = (n + 1) + 2
      BY <1>2
    <2> QED
      BY <2>1 DEF Stage
  <1>5. pending' = Append(pending, row)
    BY DEF StageSucceeds
  <1> HIDE DEF row
  <1>6. /\ pending' \in Seq(StageRow) /\ Len(pending') = n + 1 /\ pending'[n + 1] = row
        /\ \A k \in 1..n : pending'[k] = pending[k]
    BY <1>2, <1>3, <1>5
  <1>7. \A k \in 1..n : pending[k] = Succeeded(Pipeline[k + 2])
    BY <1>1 DEF StageInv
  <1>8. \A k \in 1..(n + 1) : pending'[k] = Succeeded(Pipeline[k + 2])
    BY <1>2, <1>4, <1>6, <1>7
  <1>9. UNCHANGED <<pc, stages, reservation, failed, client>>
    BY DEF StageSucceeds, quota
  <1>10. StagesExplainOutcome'
    BY <1>1, <1>9 DEF StageInv, StagesExplainOutcome
  <1>11. StageInv'
    <2>1. pc' = "deciding" /\ reservation' = "none"
      BY <1>1, <1>9
    <2>2. stages' = <<Succeeded("identity"), Succeeded("trust")>>
      BY <1>1, <1>9 DEF StageInv
    <2>3. Len(pending') <= 5 /\ \A k \in 1..Len(pending') : pending'[k] = Succeeded(Pipeline[k + 2])
      <3> HIDE DEF n
      <3>1. n + 1 <= 5
        BY <1>2
      <3> QED
        BY <1>6, <1>8, <3>1
    <2> QED
      BY <1>10, <2>1, <2>2, <2>3 DEF StageInv, Deciding
  <1>12. UNCHANGED <<request, attempts, ctx, trips, result, next>>
    BY DEF StageSucceeds, quota
  <1>13. pc \in Deciding /\ pc' \in Deciding /\ stages' \in Seq(StageRow) /\ failed' \in BOOLEAN
    BY <1>1, <1>9 DEF Deciding, TypeOK
  <1> QED
    BY <1>1, <1>6, <1>9, <1>11, <1>12, <1>13, DecidingKeeps

LEMMA StageFailsHolds == RequestInv /\ StageFails => RequestInv'
  <1> SUFFICES ASSUME RequestInv, StageFails PROVE RequestInv'
    OBVIOUS
  <1>1. /\ TypeOK /\ StageInv /\ StagesExplainOutcome
        /\ reservation = "none" /\ client = "waiting" /\ pc = "deciding"
    BY DEF RequestInv, StartInv, StageInv, StageFails, Deciding
  <1>2. PICK err \in Refusals :
            /\ pc' = "done"
            /\ \/ stages' = stages \o FailureStages(err) /\ UNCHANGED failed
               \/ stages' \in {stages, stages \o FailureStages(err)} /\ failed' = TRUE
            /\ client' \in {"waiting", "problem"}
    BY <1>1 DEF StageFails, Problem
  <1>3. \E k \in 3..7 : Stage = Pipeline[k]
    BY <1>1, StageFacts DEF StageFails
  <1>4. Stage \in {"context", "configuration", "inspected", "policy", "route"}
    BY <1>3 DEF Pipeline
  <1>5. err \in {"denied", "failed", "cancelled"}
    BY <1>2, <1>4 DEF Refusals, ContextRefusals, ConfigurationRefusals, InspectionRefusals, PolicyRefusals,
                      PreparationRefusals
  <1> DEFINE row == [stage |-> Stage, outcome |-> err]
             all == stages \o (pending \o <<row>>)
  <1>6. /\ row \in StageRow /\ row.stage = Stage /\ row.outcome # "succeeded"
        /\ stages \o FailureStages(err) = all
    BY <1>1, <1>5, StageFacts DEF StageRow, FailureStages
  <1> HIDE DEF row
  <1>7. /\ all \in Seq(StageRow) /\ Len(all) <= 8 /\ Len(all) = Len(pending) + 3
        /\ \A k \in 1..Len(all) : all[k].stage = Pipeline[k] /\ (all[k].outcome # "succeeded" => k = Len(all))
        /\ Last(all) = row
    BY <1>1, <1>6, StoredStages
  <1> HIDE DEF all
  <1>8. stages' \in {stages, all} /\ (stages' # all => failed') /\ failed' \in BOOLEAN
    BY <1>1, <1>2, <1>6 DEF TypeOK
  <1>9. stages' \in Seq(StageRow)
    BY <1>1, <1>7, <1>8 DEF TypeOK
  <1>10. reservation' = "none"
    BY <1>1 DEF StageFails
  <1>11. Len(Pipeline) = 8
    BY DEF Pipeline
  <1>12. StagesExplainOutcome'
    <2>1. CASE stages' = all
      <3>1. Last(stages').outcome # "succeeded"
        BY <1>6, <1>7, <2>1
      <3>2. Len(stages') <= Len(Pipeline)
        BY <1>7, <1>11, <2>1
      <3>3. \A k \in DOMAIN stages' : /\ stages'[k].stage = Pipeline[k]
                                      /\ stages'[k].outcome # "succeeded" => k = Len(stages')
        BY <1>7, <2>1
      <3> QED
        BY <1>10, <3>1, <3>2, <3>3, Zenon DEF StagesExplainOutcome
    <2>2. CASE stages' = stages /\ failed'
      BY <1>1, <2>2, Zenon DEF StagesExplainOutcome
    <2> QED
      BY <1>8, <2>1, <2>2
  <1>13. StageInv'
    BY <1>2, <1>10, <1>12 DEF StageInv, Deciding
  <1>14. UNCHANGED <<request, attempts, ctx, trips, result, next>> /\ pending' = pending
    BY DEF StageFails
  <1>15. pc \in Deciding /\ pending' \in Seq(StageRow)
    BY <1>1, <1>14 DEF Deciding, TypeOK
  <1> QED
    BY <1>2, <1>8, <1>9, <1>10, <1>13, <1>14, <1>15, DecidingKeeps

LEMMA ReserveHolds == RequestInv /\ Reserve => RequestInv'
  <1> SUFFICES ASSUME RequestInv, Reserve PROVE RequestInv'
    OBVIOUS
  <1>1. /\ TypeOK /\ StageInv /\ StagesExplainOutcome
        /\ reservation = "none" /\ client = "waiting" /\ pc = "deciding" /\ Stage = "quota"
    BY DEF RequestInv, StartInv, StageInv, Reserve, Deciding
  <1>2. Len(pending) = 5 /\ Len(Pipeline) = 8 /\ Pipeline[8] = "quota"
    BY <1>1, StageFacts DEF Pipeline
  <1> DEFINE passed == stages \o pending \o <<Succeeded("quota")>>
             stored(o) == stages \o (pending \o <<[stage |-> Stage, outcome |-> o]>>)
  <1>3. /\ passed \in Seq(StageRow) /\ Len(passed) = 8 /\ Last(passed).outcome = "succeeded"
        /\ \A k \in 1..8 : passed[k].stage = Pipeline[k] /\ (passed[k].outcome # "succeeded" => k = 8)
    <2> DEFINE row == Succeeded("quota")
    <2>1. row \in StageRow /\ row.stage = Stage /\ row.outcome = "succeeded"
      BY <1>1, StageFacts DEF StageRow, Succeeded
    <2>2. passed = stages \o pending \o <<row>>
      OBVIOUS
    <2> HIDE DEF row, passed
    <2>3. /\ passed \in Seq(StageRow) /\ Len(passed) = Len(pending) + 3
          /\ \A k \in 1..Len(passed) : /\ passed[k].stage = Pipeline[k]
                                       /\ passed[k].outcome # "succeeded" => k = Len(passed)
          /\ Last(passed) = row
      BY <1>1, <2>1, <2>2, StoredStages
    <2> QED
      BY <1>2, <2>1, <2>3
  <1>4. ASSUME NEW o \in {"denied", "failed"}
        PROVE  /\ stored(o) \in Seq(StageRow) /\ Len(stored(o)) = 8 /\ Last(stored(o)).outcome # "succeeded"
               /\ \A k \in 1..8 : stored(o)[k].stage = Pipeline[k] /\ (stored(o)[k].outcome # "succeeded" => k = 8)
    <2> DEFINE row == [stage |-> Stage, outcome |-> o]
               all == stages \o (pending \o <<row>>)
    <2>1. row \in StageRow /\ row.stage = Stage /\ row.outcome # "succeeded"
      BY <1>1, StageFacts DEF StageRow
    <2>2. stored(o) = all /\ all = stages \o (pending \o <<row>>)
      OBVIOUS
    <2> HIDE DEF row, stored, all
    <2>3. /\ all \in Seq(StageRow) /\ Len(all) = Len(pending) + 3
          /\ \A k \in 1..Len(all) : /\ all[k].stage = Pipeline[k]
                                    /\ all[k].outcome # "succeeded" => k = Len(all)
          /\ Last(all) = row
      BY <1>1, <2>1, <2>2, StoredStages
    <2>4. Len(all) = 8
      BY <1>2, <2>3
    <2> QED
      BY <2>1, <2>2, <2>3, <2>4
  <1>5. \A o : FailureStages(o) = pending \o <<[stage |-> Stage, outcome |-> o]>>
    BY DEF FailureStages
  <1>6. /\ failed' \in BOOLEAN /\ client' \in {"waiting", "problem"}
        /\ \/ pc' = "executing" /\ client' = "waiting" /\ stages' = passed /\ reservation' = "reserved"
           \/ pc' = "done" /\ stages' = stored("denied") /\ reservation' = "none"
           \/ pc' = "done" /\ failed' /\ stages' = passed /\ reservation' = "reserved"
           \/ pc' = "done" /\ failed' /\ stages' \in {stages, stored("failed")} /\ reservation' = "none"
    BY <1>1, <1>5 DEF Reserve, Problem, TypeOK
  <1> HIDE DEF passed, stored
  <1>7. stages' \in Seq(StageRow)
    BY <1>1, <1>3, <1>4, <1>6 DEF TypeOK
  <1>8. StagesExplainOutcome'
    <2>1. CASE stages' = passed /\ reservation' = "reserved"
      <3>1. Last(stages').outcome = "succeeded" /\ Len(stages') = 8 /\ reservation' # "none"
        BY <1>3, <2>1
      <3>3. Len(stages') <= Len(Pipeline)
        BY <1>2, <3>1
      <3>2. \A k \in DOMAIN stages' : /\ stages'[k].stage = Pipeline[k]
                                      /\ stages'[k].outcome # "succeeded" => k = Len(stages')
        BY <1>3, <2>1
      <3> QED
        BY <3>1, <3>2, <3>3, Zenon DEF StagesExplainOutcome
    <2>2. ASSUME NEW o \in {"denied", "failed"}, stages' = stored(o), reservation' = "none"
          PROVE  StagesExplainOutcome'
      <3>1. /\ stages' \in Seq(StageRow) /\ Len(stages') = 8 /\ Last(stages').outcome # "succeeded"
            /\ \A k \in 1..8 : stages'[k].stage = Pipeline[k] /\ (stages'[k].outcome # "succeeded" => k = 8)
        BY <1>4, <2>2, Zenon
      <3>2. \A k \in DOMAIN stages' : /\ stages'[k].stage = Pipeline[k]
                                      /\ stages'[k].outcome # "succeeded" => k = Len(stages')
        BY <3>1
      <3>3. Len(stages') <= Len(Pipeline)
        BY <1>2, <3>1
      <3> QED
        BY <2>2, <3>1, <3>2, <3>3, Zenon DEF StagesExplainOutcome
    <2>3. CASE stages' = stages /\ failed'
      BY <1>1, <2>3, Zenon DEF StagesExplainOutcome
    <2> QED
      BY <1>6, <2>1, <2>2, <2>3
  <1>9. StageInv'
    BY <1>3, <1>6, <1>8 DEF StageInv, Deciding
  <1>10. UNCHANGED <<request, attempts, ctx, trips, result, next>> /\ pending' = pending
    BY DEF Reserve
  <1>11. pc \in Deciding /\ pending' \in Seq(StageRow)
    BY <1>1, <1>10 DEF Deciding, TypeOK
  <1>12. pc' # "done" => pc' = "executing" /\ client' = "waiting" /\ reservation' # "none"
    BY <1>6
  <1>13. /\ reservation' \in {"none", "reserved"} /\ pc' \in {"done", "executing"}
         /\ pc' = "done" /\ reservation' = "reserved" => failed'
    BY <1>6
  <1> QED
    BY <1>6, <1>7, <1>9, <1>10, <1>11, <1>12, <1>13, DecidingKeeps

(* One attempt.                                                            *)

\* A place of the handler after the decisions has a reservation.
LEMMA ReservedThen ==
    ASSUME RequestInv, pc \notin Deciding \cup {"done"}
    PROVE  /\ reservation \in {"reserved", "active", "ended"} /\ pc \in Flight \cup {"executing", "ended", "waiting"}
           /\ client \in {"waiting", "started"}
           /\ client = "started" => pc = "streaming" \/ Owned
  <1>1. reservation # "none"
    BY DEF RequestInv, StartInv
  <1> QED
    BY <1>1 DEF RequestInv, TypeOK, ClientInv, Deciding, Flight

\* Stages that are stored stay, and explain what is not over yet.
LEMMA StagesStay ==
    ASSUME RequestInv, reservation # "none", reservation' # "none", stages' = stages,
           pc' \notin Deciding
    PROVE  StageInv'
  <1>1. StageInv /\ StagesExplainOutcome /\ Len(stages) = 8 /\ Last(stages).outcome = "succeeded"
    BY DEF RequestInv, StageInv
  <1>2. Last(stages').outcome = "succeeded" /\ Len(stages') = 8
    BY <1>1
  <1>3. StagesExplainOutcome'
    BY <1>1, <1>2, Zenon DEF StagesExplainOutcome
  <1> QED
    BY <1>2, <1>3 DEF StageInv, Deciding

\* The attempt goes on, or ends, with the store's rows as they are.
LEMMA AttemptKeeps ==
    ASSUME RequestInv, UNCHANGED <<request, pending, quota, ctx, trips, next>>,
           pc \in {"executing", "headers", "first_byte", "streaming"},
           pc' \in {"headers", "first_byte", "streaming", "ended"},
           pc \in {"executing", "streaming"} => pc' = "ended",
           result' \in ResultRow, result'.begun = result.begun, result'.owner = result.owner,
           client' \in {client, "started"}, pc = "executing" => client' = client,
           client' # client => pc' \in {"streaming", "ended"}
    PROVE  RequestInv'
  <1>1. /\ TypeOK /\ RowsInv /\ PlaceInv /\ OpenInv /\ reservation \in {"reserved", "active", "ended"}
        /\ client \in {"waiting", "started"} /\ (client = "started" => pc = "streaming" \/ Owned)
    BY ReservedThen DEF RequestInv, Deciding
  <1>2. UNCHANGED <<plan, unsafe, stages, reservation, attempts, failed>>
    BY DEF request, quota
  <1>3. IF pc = "executing" THEN result = NoResult ELSE result.owner = TRUE /\ result.begun = TRUE
    BY <1>1 DEF OpenInv, Flight, TypeOK, ResultRow
  <1>4. IF pc = "executing" THEN result'.owner = FALSE /\ result'.begun = FALSE /\ pc' = "ended"
        ELSE result'.owner = TRUE /\ result'.begun = TRUE
    BY <1>3 DEF NoResult
  <1>5. TypeOK'
    BY <1>1, <1>2 DEF TypeOK, NextRow
  <1>6. RowsInv' /\ \A c : AttemptsOn(c)' = AttemptsOn(c)
    BY <1>1, <1>2, RowsKept DEF TypeOK
  <1>7. StartInv'
    BY <1>1, <1>2 DEF StartInv, Deciding
  <1>8. StageInv'
    BY <1>1, <1>2, StagesStay DEF Deciding
  <1>9. PlaceInv'
    BY <1>1, <1>2, <1>4 DEF PlaceInv, Holds, Flight, Owned
  <1>10. OpenInv' /\ RefusedInv' /\ ClientInv'
    BY <1>1, <1>2, <1>4 DEF OpenInv, RefusedInv, ClientInv, Holds, Flight, Owned
  <1>11. SettledInv'
    <2>1. SettledInv /\ client' # "complete" /\ pc' # "done"
      BY <1>1 DEF RequestInv
    <2> QED
      BY <1>2, <2>1 DEF SettledInv, ChargeBounded, CompleteIsSettled, LeftOpenOnlyIfUnknown
  <1> QED
    BY <1>5, <1>6, <1>7, <1>8, <1>9, <1>10, <1>11 DEF RequestInv

LEMMA FailsBeforeBeginHolds == RequestInv /\ FailsBeforeBegin => RequestInv'
  <1> SUFFICES ASSUME RequestInv, FailsBeforeBegin PROVE RequestInv'
    OBVIOUS
  <1>1. PICK err \in Errors : pc' = "ended" /\ result' = [result EXCEPT !.err = err]
    BY DEF FailsBeforeBegin, Ends, Errors
  <1>2. result' \in ResultRow /\ result'.begun = result.begun /\ result'.owner = result.owner
    BY <1>1 DEF RequestInv, TypeOK, ResultRow
  <1> QED
    BY <1>1, <1>2, AttemptKeeps DEF FailsBeforeBegin

LEMMA HeadersHolds == RequestInv /\ Headers => RequestInv'
  <1> SUFFICES ASSUME RequestInv, Headers PROVE RequestInv'
    OBVIOUS
  <1>1. result \in ResultRow
    BY DEF RequestInv, TypeOK
  <1>2. /\ result' \in ResultRow /\ result'.begun = result.begun /\ result'.owner = result.owner
        /\ pc' \in {"ended", "first_byte"}
    BY <1>1 DEF Headers, Ends, ResultRow, Errors
  <1> QED
    BY <1>2, AttemptKeeps DEF Headers

LEMMA FirstByteHolds == RequestInv /\ FirstByte => RequestInv'
  <1> SUFFICES ASSUME RequestInv, FirstByte PROVE RequestInv'
    OBVIOUS
  <1>1. result \in ResultRow
    BY DEF RequestInv, TypeOK
  <1>2. CASE /\ \E err \in Errors : pc' = "ended" /\ result' = [result EXCEPT !.err = err]
             /\ client' = client
    <2>1. result' \in ResultRow /\ result'.begun = result.begun /\ result'.owner = result.owner
      BY <1>1, <1>2 DEF ResultRow
    <2> QED
      BY <1>2, <2>1, AttemptKeeps DEF FirstByte
  <1>3. CASE pc' = "streaming" /\ client' = "started" /\ result' = result
    BY <1>1, <1>3, AttemptKeeps DEF FirstByte
  <1>4. CASE \E usage \in Usages, err \in Errors :
                /\ pc' = "ended" /\ result' = [result EXCEPT !.err = err, !.usage = usage]
                /\ client' \in {client, "started"}
    <2>1. result' \in ResultRow /\ result'.begun = result.begun /\ result'.owner = result.owner
      BY <1>1, <1>4 DEF ResultRow
    <2> QED
      BY <1>4, <2>1, AttemptKeeps DEF FirstByte
  <1> QED
    BY <1>2, <1>3, <1>4 DEF FirstByte, Ends, Errors

LEMMA StreamHolds == RequestInv /\ Stream => RequestInv'
  <1> SUFFICES ASSUME RequestInv, Stream PROVE RequestInv'
    OBVIOUS
  <1>1. PICK usage \in Usages, err \in Errors :
            pc' = "ended" /\ result' = [result EXCEPT !.err = err, !.usage = usage]
    BY DEF Stream, Errors
  <1>2. result' \in ResultRow /\ result'.begun = result.begun /\ result'.owner = result.owner
    BY <1>1 DEF RequestInv, TypeOK, ResultRow
  <1> QED
    BY <1>1, <1>2, AttemptKeeps DEF Stream

LEMMA RoundTripHolds == RequestInv /\ RoundTrip => RequestInv'
  <1> SUFFICES ASSUME RequestInv, RoundTrip PROVE RequestInv'
    OBVIOUS
  <1>1. /\ TypeOK /\ RowsInv /\ PlaceInv /\ OpenInv /\ reservation \in {"reserved", "active", "ended"}
        /\ pc = "sending" /\ client = "waiting"
    <2>1. pc = "sending"
      BY DEF RoundTrip
    <2> QED
      BY <2>1, ReservedThen DEF RequestInv, Deciding, Owned
  <1>2. UNCHANGED <<plan, unsafe, pending, stages, reservation, attempts, failed, ctx, client, next>>
    BY DEF RoundTrip, request, quota
  <1>3. /\ result' \in ResultRow /\ result'.owner = TRUE /\ result'.begun = TRUE
        /\ pc' \in {"ended", "headers"}
    <2>1. result \in ResultRow /\ result.owner = TRUE /\ result.begun = TRUE
      BY <1>1 DEF TypeOK, OpenInv, Flight, ResultRow
    <2> QED
      BY <2>1 DEF RoundTrip, Ends, ResultRow, Errors
  <1>4. /\ attempts \in Seq(AttemptRow) /\ trips \in Seq(Nat) /\ next.candidate \in Nat
        /\ Len(attempts) = Len(trips) + 1 /\ Last(attempts).candidate = next.candidate
    BY <1>1, PlanFacts DEF TypeOK, PlaceInv, Holds, Flight
  <1>5. /\ trips' \in Seq(Nat) /\ Len(trips') = Len(trips) + 1 /\ Len(trips') = Len(attempts)
        /\ \A k \in 1..Len(trips) : trips'[k] = trips[k]
        /\ trips'[Len(trips) + 1] = attempts[Len(trips) + 1].candidate
    BY <1>4 DEF RoundTrip, Last
  <1>6. TypeOK'
    BY <1>1, <1>2, <1>3, <1>5 DEF TypeOK, NextRow
  <1>7. EveryTripReserved'
    <2>1. \A k \in 1..Len(trips) : trips[k] = attempts[k].candidate
      BY <1>1, <1>4 DEF RowsInv, EveryTripReserved
    <2>2. DOMAIN trips' = 1..(Len(trips) + 1)
      BY <1>5
    <2>3. ASSUME NEW k \in DOMAIN trips' PROVE trips'[k] = attempts[k].candidate
      <3>1. k \in 1..Len(trips) \/ k = Len(trips) + 1
        BY <1>4, <2>2
      <3> QED
        BY <1>5, <2>1, <3>1
    <2> QED
      BY <1>2, <1>4, <1>5, <2>3 DEF EveryTripReserved
  <1>8. \A c : AttemptsOn(c)' = AttemptsOn(c)
    BY <1>2 DEF AttemptsOn
  <1>9. RowsInv'
    BY <1>1, <1>2, <1>7, <1>8 DEF RowsInv, WithinAttemptLimits, Route
  <1>10. StartInv' /\ StageInv'
    BY <1>1, <1>2, <1>3, StagesStay DEF StartInv, Deciding
  <1>11. PlaceInv'
    BY <1>1, <1>2, <1>3, <1>5 DEF PlaceInv, Holds, Flight, Owned
  <1>12. OpenInv' /\ RefusedInv' /\ ClientInv'
    BY <1>1, <1>2, <1>3 DEF OpenInv, RefusedInv, ClientInv, Holds, Flight, Owned
  <1>13. SettledInv'
    <2>1. SettledInv /\ client' # "complete" /\ pc' # "done"
      BY <1>1, <1>2, <1>3 DEF RequestInv
    <2> QED
      BY <1>2, <2>1 DEF SettledInv, ChargeBounded, CompleteIsSettled, LeftOpenOnlyIfUnknown
  <1> QED
    BY <1>6, <1>9, <1>10, <1>11, <1>12, <1>13 DEF RequestInv

\* Storing the attempt keeps every limit: it was known to fit.
LEMMA AttemptStored ==
    ASSUME RequestInv, pc = "executing", attempts' = Append(attempts, NewAttempt),
           UNCHANGED <<plan, unsafe, trips, next>>
    PROVE  /\ attempts' \in Seq(AttemptRow) /\ Len(attempts') = Len(trips) + 1 /\ attempts' # <<>>
           /\ Last(attempts') = NewAttempt
           /\ \A k \in 1..Len(attempts') : attempts'[k].charge <= Bound
           /\ RowsInv'
  <1> DEFINE n == Len(attempts)
  <1>1. TypeOK /\ RowsInv /\ PlaceInv /\ attempts \in Seq(AttemptRow) /\ n \in Nat
    BY DEF RequestInv, TypeOK
  <1>2. next.candidate \in 1..Len(plan) /\ next.onRoute \in Nat /\ Route.maxAttempts \in Nat
    BY <1>1, PlanFacts DEF RouteRow
  <1>3. NewAttempt \in AttemptRow /\ NewAttempt.candidate = next.candidate /\ NewAttempt.charge = 0
    BY <1>2 DEF NewAttempt, AttemptRow
  <1>4. /\ attempts' \in Seq(AttemptRow) /\ Len(attempts') = n + 1 /\ attempts' # <<>>
        /\ \A k \in 1..n : attempts'[k] = attempts[k]
        /\ attempts'[n + 1] = NewAttempt
    BY <1>1, <1>3, AppendProperties
  <1>5. Len(trips) = n /\ n < MaxLogical /\ Cardinality(AttemptsOn(next.candidate)) < next.onRoute
    BY <1>1 DEF PlaceInv
  <1>6. \A k \in 1..(n + 1) : k \in 1..n \/ k = n + 1
    BY <1>1
  <1>7. EveryTripReserved'
    <2>1. DOMAIN trips = 1..n /\ \A k \in 1..n : trips[k] = attempts[k].candidate
      BY <1>1, <1>5 DEF RowsInv, EveryTripReserved, TypeOK
    <2>2. Len(trips') <= Len(attempts')
      BY <1>1, <1>4, <1>5
    <2> QED
      BY <1>4, <2>1, <2>2 DEF EveryTripReserved
  <1>8. \A k \in 1..(n + 1) : attempts'[k].candidate <= next.candidate
    BY <1>1, <1>2, <1>3, <1>4, <1>6 DEF RowsInv
  <1>9. \A c : c # next.candidate => AttemptsOn(c)' = AttemptsOn(c)
    BY <1>1, AppendCounts
  <1>10. \A c : c = next.candidate =>
            /\ Cardinality(AttemptsOn(c)') <= next.onRoute
            /\ c \in DOMAIN plan /\ plan[c] = Route
    <2>1. \A c : c = next.candidate =>
            /\ Cardinality(AttemptsOn(c)') = Cardinality(AttemptsOn(c)) + 1
            /\ Cardinality(AttemptsOn(c)) \in Nat
      BY <1>1, AppendCounts, CountFinite
    <2>2. DOMAIN plan = 1..Len(plan)
      BY <1>1, RequestBounds DEF TypeOK
    <2> QED
      BY <1>2, <1>5, <2>1, <2>2 DEF Route
  <1>11. \A c \in DOMAIN plan : Cardinality(AttemptsOn(c)') <= plan[c].maxAttempts
    <2> TAKE c \in DOMAIN plan
    <2>1. CASE c # next.candidate
      BY <1>1, <1>9, <2>1 DEF RowsInv, WithinAttemptLimits
    <2>2. CASE c = next.candidate
      <3>1. Cardinality(AttemptsOn(c)') \in Nat
        <4>1. Cardinality(AttemptsOn(c)') = Cardinality(AttemptsOn(c)) + 1
          BY <1>1, <2>2, AppendCounts
        <4>2. Cardinality(AttemptsOn(c)) \in Nat
          BY <1>1, CountFinite
        <4> QED
          BY <4>1, <4>2
      <3>2. Cardinality(AttemptsOn(c)') <= next.onRoute /\ plan[c] = Route
        BY <1>10, <2>2
      <3>3. next.onRoute <= Route.maxAttempts
        BY <1>1 DEF RowsInv
      <3> QED
        BY <1>2, <3>1, <3>2, <3>3
    <2> QED
      BY <2>1, <2>2
  <1>12. WithinAttemptLimits'
    <2>1. Len(attempts') <= MaxLogical
      BY <1>1, <1>4, <1>5, RequestBounds
    <2> QED
      BY <1>11, <2>1 DEF WithinAttemptLimits
  <1>13. Cardinality(AttemptsOn(next.candidate))' <= next.onRoute
    BY <1>10
  <1>14. unsafe /\ n + 1 > 1 => \A k \in 1..(n + 1) : plan[attempts'[k].candidate].unsafeToo
    <2> SUFFICES ASSUME unsafe, n + 1 > 1, NEW k \in 1..(n + 1)
                 PROVE  plan[attempts'[k].candidate].unsafeToo
      OBVIOUS
    <2>1. attempts # <<>>
      BY <1>1
    <2>2. Route.unsafeToo /\ \A j \in 1..n : plan[attempts[j].candidate].unsafeToo
      BY <1>1, <2>1 DEF PlaceInv
    <2> QED
      BY <1>3, <1>4, <1>6, <2>2 DEF Route
  <1>15. next.onRoute <= Route.maxAttempts /\ Route' = Route
    BY <1>1 DEF RowsInv, Route
  <1>16. RowsInv'
    BY <1>4, <1>7, <1>8, <1>12, <1>13, <1>14, <1>15 DEF RowsInv
  <1>17. \A k \in 1..(n + 1) : attempts'[k].charge <= Bound
    <2>1. \A k \in 1..n : attempts[k].charge <= Bound
      BY <1>1 DEF RequestInv, SettledInv, ChargeBounded
    <2>2. 0 <= Bound
      BY RequestBounds
    <2> QED
      BY <1>3, <1>4, <1>6, <2>1, <2>2
  <1> QED
    BY <1>4, <1>5, <1>16, <1>17 DEF Last

LEMMA BeforeRoundTripHolds == RequestInv /\ BeforeRoundTrip => RequestInv'
  <1> SUFFICES ASSUME RequestInv, BeforeRoundTrip PROVE RequestInv'
    OBVIOUS
  <1>1. /\ TypeOK /\ RowsInv /\ PlaceInv /\ reservation \in {"reserved", "active", "ended"}
        /\ pc = "executing" /\ client = "waiting" /\ result = NoResult
    <2>1. pc = "executing"
      BY DEF BeforeRoundTrip
    <2> QED
      BY <2>1, ReservedThen DEF RequestInv, Deciding, Owned, OpenInv
  <1>2. UNCHANGED <<plan, unsafe, pending, stages, ctx, client, trips, next>>
    BY DEF BeforeRoundTrip, request
  <1>3. /\ result' \in ResultRow /\ result'.begun = TRUE /\ failed' \in BOOLEAN
        /\ \/ pc' = "sending" /\ result'.owner = TRUE
           \/ pc' = "ended" /\ result'.owner = FALSE
        /\ reservation' \in {"reserved", "active", "ended"}
    <2>1. BeginErrors \cup {"dependency"} \subseteq Errors
      BY DEF BeginErrors, Errors
    <2>2. ASSUME NEW err \in Errors, BeginRefused(err)
          PROVE  result' \in ResultRow /\ result'.begun = TRUE /\ result'.owner = FALSE /\ pc' = "ended"
      BY <1>1, <2>2 DEF BeginRefused, NoResult, ResultRow, Errors, Usages
    <2>3. ASSUME pc' = "sending", result' = [result EXCEPT !.begun = TRUE, !.owner = TRUE]
          PROVE  result' \in ResultRow /\ result'.begun = TRUE /\ result'.owner = TRUE
      BY <1>1, <2>3 DEF NoResult, ResultRow, Errors, Usages
    <2>4. failed' \in BOOLEAN /\ reservation' \in {"reserved", "active", "ended"}
      BY <1>1 DEF BeforeRoundTrip, TypeOK
    <2> QED
      BY <2>1, <2>2, <2>3, <2>4 DEF BeforeRoundTrip
  <1>4. /\ attempts' \in Seq(AttemptRow) /\ \A k \in 1..Len(attempts') : attempts'[k].charge <= Bound
        /\ RowsInv'
        /\ attempts # <<>> => attempts' # <<>>
        /\ pc' = "sending" => /\ reservation' = "active" /\ Len(attempts') = Len(trips) + 1
                              /\ attempts' # <<>> /\ Last(attempts') = NewAttempt
    <2>1. CASE attempts' = Append(attempts, NewAttempt) /\ reservation' = "active"
      BY <1>1, <1>2, <2>1, AttemptStored
    <2>2. CASE attempts' = attempts /\ pc' = "ended"
      <3>1. attempts \in Seq(AttemptRow) /\ \A k \in 1..Len(attempts) : attempts[k].charge <= Bound
        BY DEF RequestInv, TypeOK, SettledInv, ChargeBounded
      <3>2. RowsInv'
        BY <1>1, <1>2, <2>2, <3>1, RowsKept
      <3> QED
        BY <2>2, <3>1, <3>2
    <2> QED
      BY <2>1, <2>2 DEF BeforeRoundTrip, BeginRefused
  <1>5. TypeOK'
    BY <1>1, <1>2, <1>3, <1>4 DEF TypeOK, NextRow
  <1>6. StartInv' /\ StageInv'
    BY <1>1, <1>2, <1>3, StagesStay DEF StartInv, Deciding
  <1>7. PlaceInv'
    BY <1>2, <1>3, <1>4 DEF PlaceInv, Holds, Flight, Owned, NewAttempt
  <1>8. OpenInv' /\ ClientInv'
    BY <1>1, <1>2, <1>3, <1>4 DEF OpenInv, ClientInv, Holds, Flight, Owned, NewAttempt
  <1>9. RefusedInv'
    <2>1. CASE pc' = "sending"
      BY <2>1 DEF RefusedInv
    <2>2. CASE BeginRefused("dependency") /\ failed' = TRUE
      BY <1>1, <2>2 DEF BeginRefused, RefusedInv, NoResult
    <2>3. CASE /\ UNCHANGED <<reservation, attempts>>
               /\ \E err \in BeginErrors : BeginRefused(err) /\ UNCHANGED failed
      <3>1. PICK err \in BeginErrors : BeginRefused(err)
        BY <2>3
      <3>2. /\ err \in {"finalized", "expired", "exceeded", "concurrency", "invalid"}
            /\ err \in {"exceeded", "concurrency", "invalid"} => attempts # <<>>
            /\ err = "finalized" => reservation = "ended"
        BY <3>1, Zenon DEF BeginErrors, Retrying
      <3>3. result'.err = err
        BY <1>1, <3>1 DEF BeginRefused, NoResult
      <3> QED
        BY <2>3, <3>2, <3>3 DEF RefusedInv
    <2> QED
      BY <2>1, <2>2, <2>3 DEF BeforeRoundTrip
  <1>10. SettledInv'
    <2>1. client' # "complete" /\ pc' # "done"
      BY <1>1, <1>2, <1>3
    <2>2. \A k \in DOMAIN attempts' : attempts'[k].charge <= Bound
      BY <1>4
    <2> QED
      BY <2>1, <2>2 DEF SettledInv, ChargeBounded, CompleteIsSettled, LeftOpenOnlyIfUnknown
  <1> QED
    BY <1>4, <1>5, <1>6, <1>7, <1>8, <1>9, <1>10 DEF RequestInv

(* The loop of ServeHTTP.                                                  *)

\* The handler ends a request that had a reservation.
LEMMA DoneKeeps ==
    ASSUME RequestInv, reservation # "none", reservation' \in {"reserved", "active", "ended"},
           UNCHANGED <<request, pending, stages, ctx, trips, result, next>>, pc' = "done",
           attempts' \in Seq(AttemptRow), Len(attempts') = Len(attempts),
           \A k \in 1..Len(attempts) : /\ attempts'[k].candidate = attempts[k].candidate
                                       /\ attempts'[k].charge <= Bound,
           failed' \in BOOLEAN,
           reservation' # "ended" => failed' \/ (result.err = "expired" /\ attempts' = <<>>),
           client' \in {"waiting", "complete", "aborted", "problem"},
           client' = "complete" =>
                /\ reservation' = "ended" /\ FinalErr(result) = "none"
                /\ attempts' # <<>> /\ Last(attempts').state = "final"
                /\ ~result.usage.known => Last(attempts').charge = Bound
    PROVE  RequestInv'
  <1>1. TypeOK /\ RowsInv /\ OpenInv
    BY DEF RequestInv
  <1>2. UNCHANGED <<plan, unsafe>>
    BY DEF request
  <1>3. TypeOK'
    BY <1>1, <1>2 DEF TypeOK, NextRow
  <1>4. RowsInv'
    BY <1>1, <1>2, RowsKept
  <1>5. StartInv' /\ StageInv'
    BY StagesStay DEF StartInv, Deciding
  <1>6. PlaceInv' /\ RefusedInv' /\ ClientInv'
    BY DEF PlaceInv, RefusedInv, ClientInv, Holds, Flight, Owned
  <1>7. OpenInv'
    BY <1>1 DEF OpenInv, Holds, Flight, Owned
  <1>8. DOMAIN attempts' = 1..Len(attempts) /\ Len(attempts') = Len(attempts)
    OBVIOUS
  <1>9. ChargeBounded'
    <2>1. \A k \in DOMAIN attempts' : attempts'[k].charge <= Bound
      BY <1>8
    <2> QED
      BY <2>1, Zenon DEF ChargeBounded
  <1>10. CompleteIsSettled'
    <2> SUFFICES ASSUME client' = "complete"
                 PROVE  /\ reservation' = "ended" /\ FinalErr(result') = "none"
                        /\ \A k \in DOMAIN attempts' : attempts'[k].state = "final" \/ k < Len(attempts')
      BY DEF CompleteIsSettled, FinalErr, ExceedsBounds
    <2>1. \A k \in DOMAIN attempts' : k = Len(attempts') \/ k < Len(attempts')
      BY <1>8
    <2>2. attempts'[Len(attempts')].state = "final"
      BY DEF Last
    <2>3. result' = result
      OBVIOUS
    <2> QED
      BY <2>1, <2>2, <2>3
  <1>11. LeftOpenOnlyIfUnknown'
    BY DEF LeftOpenOnlyIfUnknown
  <1> QED
    BY <1>3, <1>4, <1>5, <1>6, <1>7, <1>9, <1>10, <1>11 DEF RequestInv, SettledInv

\* SettleFinal of the last attempt and the end of the request: the response is
\* complete only if the settlement is known to be stored.
LEMMA FinalKeeps ==
    ASSUME RequestInv, pc \notin Deciding \cup {"done"}, attempts # <<>>,
           UNCHANGED <<request, pending, stages, ctx, trips, result, next>>, pc' = "done",
           \/ reservation # "ended" /\ reservation' = "ended" /\ attempts' = Settled(Len(attempts), "final")
           \/ failed' = TRUE /\ UNCHANGED <<reservation, attempts>>,
           failed' \in {failed, TRUE},
           client' \in {"waiting", "complete", "aborted", "problem"},
           client' = "complete" => /\ Owned /\ Started /\ FinalErr(result) = "none"
                                   /\ reservation # "ended" /\ reservation' = "ended"
                                   /\ attempts' = Settled(Len(attempts), "final")
    PROVE  RequestInv'
  <1>1. TypeOK /\ OpenInv /\ reservation \in {"reserved", "active", "ended"}
    BY ReservedThen DEF RequestInv
  <1>2. \A k \in 1..Len(attempts) : attempts[k].charge <= Bound
    BY <1>1 DEF RequestInv, SettledInv, ChargeBounded, TypeOK
  <1>3. failed' \in BOOLEAN
    BY <1>1, Zenon DEF TypeOK
  <1>4. CASE attempts' = Settled(Len(attempts), "final") /\ reservation' = "ended" /\ reservation # "ended"
    <2>1. /\ attempts' \in Seq(AttemptRow) /\ Len(attempts') = Len(attempts)
          /\ \A k \in 1..Len(attempts) : /\ attempts'[k].candidate = attempts[k].candidate
                                         /\ attempts'[k].charge <= Bound
          /\ Last(attempts').state = "final"
          /\ Last(attempts).state = "open" => Last(attempts').charge = Charge(result)
      BY <1>1, <1>2, <1>4, SettledRows
    <2>2. attempts' # <<>>
      BY <1>1, <2>1 DEF TypeOK
    <2>3. ASSUME client' = "complete" PROVE ~result.usage.known => Last(attempts').charge = Bound
      <3>1. Last(attempts).state = "open"
        BY <1>1, <1>4, <2>3 DEF OpenInv, Holds
      <3>2. Last(attempts').charge = Charge(result)
        BY <2>1, <3>1
      <3> QED
        BY <2>3, <3>2, Zenon DEF Charge
    <2> QED
      BY <1>1, <1>3, <1>4, <2>1, <2>2, <2>3, DoneKeeps
  <1>5. CASE attempts' = attempts /\ reservation' = reservation /\ failed' = TRUE
    <2>1. client' # "complete"
      BY <1>1, <1>5
    <2>2. attempts' \in Seq(AttemptRow) /\ Len(attempts') = Len(attempts)
      BY <1>1, <1>5 DEF TypeOK
    <2>3. \A k \in 1..Len(attempts) : attempts'[k].candidate = attempts[k].candidate /\ attempts'[k].charge <= Bound
      BY <1>2, <1>5
    <2> QED
      BY <1>1, <1>3, <1>5, <2>1, <2>2, <2>3, DoneKeeps
  <1> QED
    BY <1>4, <1>5

LEMMA NotBegunHolds == RequestInv /\ NotBegun => RequestInv'
  <1> SUFFICES ASSUME RequestInv, NotBegun PROVE RequestInv'
    OBVIOUS
  <1>1. /\ TypeOK /\ pc = "ended" /\ pc \notin Deciding \cup {"done"} /\ ~Owned
        /\ reservation \in {"reserved", "active", "ended"} /\ client = "waiting"
    <2>1. pc = "ended" /\ ~result.begun
      BY DEF NotBegun
    <2>2. ~Owned
      BY <2>1 DEF RequestInv, OpenInv, Owned
    <2> QED
      BY <2>1, <2>2, ReservedThen DEF RequestInv, Deciding
  <1>2. UNCHANGED <<request, pending, stages, ctx, trips, result, next>>
    BY DEF NotBegun
  <1>3. CASE ~Retrying /\ Release /\ UNCHANGED attempts /\ Problem(result.err)
    <2>1. /\ pc' = "done" /\ client' \in {"waiting", "problem"} /\ attempts' = attempts
          /\ failed' \in BOOLEAN /\ reservation' \in {"reserved", "active", "ended"}
          /\ reservation' # "ended" => failed'
      BY <1>1, <1>3 DEF Problem, Release, TypeOK
    <2>2. attempts \in Seq(AttemptRow) /\ \A k \in 1..Len(attempts) : attempts[k].charge <= Bound
      BY <1>1 DEF RequestInv, SettledInv, ChargeBounded, TypeOK
    <2> QED
      BY <1>1, <1>2, <2>1, <2>2, DoneKeeps
  <1>4. CASE Retrying /\ SettleFinal(Len(attempts), Problem(result.err), Problem("dependency"))
    BY <1>1, <1>2, <1>4, FinalKeeps DEF SettleFinal, Problem, Retrying
  <1> QED
    BY <1>3, <1>4 DEF NotBegun

LEMMA NotOwnerHolds == RequestInv /\ NotOwner => RequestInv'
  <1> SUFFICES ASSUME RequestInv, NotOwner PROVE RequestInv'
    OBVIOUS
  <1>1. /\ TypeOK /\ RefusedInv /\ pc = "ended" /\ pc \notin Deciding \cup {"done"} /\ ~Owned
        /\ reservation \in {"reserved", "active", "ended"} /\ client = "waiting"
    <2>1. pc = "ended" /\ ~Owned
      BY DEF NotOwner, Owned
    <2> QED
      BY <2>1, ReservedThen DEF RequestInv, Deciding
  <1>2. UNCHANGED <<request, pending, stages, ctx, trips, result, next>>
    BY DEF NotOwner
  <1>3. CASE Retrying /\ SettleFinal(Len(attempts), Problem(result.err), Problem("dependency"))
    BY <1>1, <1>2, <1>3, FinalKeeps DEF SettleFinal, Problem, Retrying
  <1>4. CASE /\ ~(Retrying /\ CreatedNoAttempt(result.err))
             /\ Problem(result.err) /\ UNCHANGED <<reservation, attempts, failed>>
    <2>1. pc' = "done" /\ client' \in {"waiting", "problem"} /\ UNCHANGED <<reservation, attempts, failed>>
      BY <1>1, <1>4 DEF Problem
    <2>2. reservation # "ended" => failed \/ (result.err = "expired" /\ attempts = <<>>)
      BY <1>1, <1>4 DEF NotOwner, RefusedInv, Retrying, CreatedNoAttempt
    <2>3. attempts \in Seq(AttemptRow) /\ \A k \in 1..Len(attempts) : attempts[k].charge <= Bound
      BY <1>1 DEF RequestInv, SettledInv, ChargeBounded, TypeOK
    <2>4. /\ failed' \in BOOLEAN
          /\ reservation' # "ended" => failed' \/ (result.err = "expired" /\ attempts' = <<>>)
      BY <1>1, <2>1, <2>2, Zenon DEF TypeOK
    <2> QED
      BY <1>1, <1>2, <2>1, <2>3, <2>4, DoneKeeps
  <1> QED
    BY <1>3, <1>4 DEF NotOwner

LEMMA AbandonRetryHolds == RequestInv /\ AbandonRetry => RequestInv'
  <1> SUFFICES ASSUME RequestInv, AbandonRetry PROVE RequestInv'
    OBVIOUS
  <1>1. /\ pc = "waiting" /\ pc \notin Deciding \cup {"done"} /\ attempts # <<>> /\ client = "waiting"
    <2>1. pc = "waiting"
      BY DEF AbandonRetry
    <2> QED
      BY <2>1, ReservedThen DEF RequestInv, PlaceInv, Deciding, Owned
  <1>2. PICK err \in {"deadline", "cancelled"} :
            SettleFinal(Len(attempts), Problem(err), Problem("dependency"))
    BY DEF AbandonRetry, RetryAbandoned
  <1>3. UNCHANGED <<request, pending, stages, ctx, trips, result, next>>
    BY DEF AbandonRetry
  <1> QED
    BY <1>1, <1>2, <1>3, FinalKeeps DEF SettleFinal, Problem

LEMMA FinishHolds == RequestInv /\ Finish => RequestInv'
  <1> SUFFICES ASSUME RequestInv, Finish PROVE RequestInv'
    OBVIOUS
  <1>1. /\ Owned /\ pc \notin Deciding \cup {"done"} /\ attempts # <<>> /\ client \in {"waiting", "started"}
    <2>1. Owned /\ pc = "ended"
      BY DEF Finish, Owned
    <2> QED
      BY <2>1, ReservedThen DEF RequestInv, PlaceInv, Holds, Deciding
  <1>2. SettleFinal(Len(attempts), Answer(FinalErr(result)), Answer("dependency"))
    BY DEF Finish
  <1>3. UNCHANGED <<request, pending, stages, ctx, trips, result, next>>
    BY DEF Finish
  <1>4. ASSUME NEW err, Answer(err)
        PROVE  /\ pc' = "done" /\ client' \in {"waiting", "complete", "aborted", "problem"}
               /\ client' = "complete" => Started /\ err = "none"
    BY <1>1, <1>4 DEF Answer, Started
  <1>5. CASE /\ reservation # "ended" /\ reservation' = "ended" /\ attempts' = Settled(Len(attempts), "final")
             /\ Answer(FinalErr(result)) /\ UNCHANGED failed
    BY <1>1, <1>3, <1>4, <1>5, FinalKeeps
  <1>6. CASE /\ \/ reservation # "ended" /\ reservation' = "ended" /\ attempts' = Settled(Len(attempts), "final")
                \/ UNCHANGED <<reservation, attempts>>
             /\ Answer("dependency") /\ failed' = TRUE
    <2>1. pc' = "done" /\ client' \in {"waiting", "aborted", "problem"}
      BY <1>4, <1>6
    <2> QED
      BY <1>1, <1>3, <1>6, <2>1, FinalKeeps
  <1> QED
    BY <1>2, <1>5, <1>6 DEF SettleFinal

\* What a selected retry means: nothing reached the client, the request may be
\* repeated here, and there is an attempt left where it goes.
LEMMA SelectionFacts ==
    ASSUME NEW kind \in Selections(FallbackCondition(result)) \ {"none"}
    PROVE  /\ kind \in {"same", "fallback"} /\ ~Started
           /\ ~(Len(trips) >= MaxLogical) /\ ReplayAllowed(next.candidate)
           /\ kind = "same" => next.onRoute < Route.maxAttempts
           /\ kind = "fallback" => next.candidate < Len(plan) /\ ReplayAllowed(next.candidate + 1)
           /\ FallbackCondition(result) \in Conditions
  <1>1. FallbackCondition(result) # "none"
    BY DEF Selections
  <1>2. ~Started /\ FallbackCondition(result) \in Conditions
    BY <1>1 DEF FallbackCondition
  <1>3. ~(Len(trips) >= MaxLogical) /\ ReplayAllowed(next.candidate)
    BY DEF Selections
  <1> QED
    BY <1>1, <1>2, <1>3 DEF Selections, RouteAllowsRetry, FallbackEligible

LEMMA SelectRetryHolds == RequestInv /\ SelectRetry => RequestInv'
  <1> SUFFICES ASSUME RequestInv, SelectRetry PROVE RequestInv'
    OBVIOUS
  <1>1. /\ Owned /\ pc = "ended" /\ pc \notin Deciding \cup {"done"} /\ attempts # <<>>
        /\ client \in {"waiting", "started"} /\ reservation \in {"reserved", "active", "ended"}
        /\ TypeOK /\ RowsInv /\ PlaceInv /\ OpenInv
    <2>1. Owned /\ pc = "ended"
      BY DEF SelectRetry, Owned
    <2> QED
      BY <2>1, ReservedThen DEF RequestInv, PlaceInv, Holds, Deciding
  <1>2. PICK kind \in Selections(FallbackCondition(result)) \ {"none"} :
            \/ /\ SettleFinal(Len(attempts), Problem("configuration"), Problem("dependency"))
               /\ UNCHANGED next
            \/ /\ reservation # "ended"
               /\ attempts' = Settled(Len(attempts), "retry")
               /\ \/ /\ pc' = "waiting"
                     /\ next' = [next EXCEPT !.selected = kind, !.condition = FallbackCondition(result)]
                     /\ UNCHANGED <<failed, client>>
                  \/ failed' = TRUE /\ Problem("dependency") /\ UNCHANGED next
               /\ UNCHANGED reservation
            \/ /\ failed' = TRUE /\ Problem("dependency")
               /\ UNCHANGED <<reservation, attempts, next>>
    BY DEF SelectRetry
  <1>3. /\ kind \in {"same", "fallback"} /\ ~Started
        /\ ~(Len(trips) >= MaxLogical) /\ ReplayAllowed(next.candidate)
        /\ kind = "same" => next.onRoute < Route.maxAttempts
        /\ kind = "fallback" => next.candidate < Len(plan) /\ ReplayAllowed(next.candidate + 1)
        /\ FallbackCondition(result) \in Conditions
    BY SelectionFacts
  <1>4. client = "waiting"
    BY <1>1, <1>3 DEF Started
  <1>5. UNCHANGED <<request, pending, stages, ctx, trips, result>> /\ UNCHANGED <<plan, unsafe>>
    BY DEF SelectRetry, request
  <1>6. CASE SettleFinal(Len(attempts), Problem("configuration"), Problem("dependency")) /\ UNCHANGED next
    BY <1>1, <1>4, <1>5, <1>6, FinalKeeps DEF SettleFinal, Problem
  <1>7. CASE failed' = TRUE /\ Problem("dependency") /\ UNCHANGED <<reservation, attempts, next>>
    BY <1>1, <1>4, <1>5, <1>7, FinalKeeps DEF Problem
  <1>8. ASSUME reservation # "ended", attempts' = Settled(Len(attempts), "retry"), UNCHANGED reservation
        PROVE  /\ attempts' \in Seq(AttemptRow) /\ Len(attempts') = Len(attempts) /\ attempts' # <<>>
               /\ \A k \in 1..Len(attempts) : /\ attempts'[k].candidate = attempts[k].candidate
                                              /\ attempts'[k].charge <= Bound
    <2>1. \A k \in 1..Len(attempts) : attempts[k].charge <= Bound
      BY <1>1 DEF RequestInv, SettledInv, ChargeBounded, TypeOK
    <2>2. /\ attempts' \in Seq(AttemptRow) /\ Len(attempts') = Len(attempts)
          /\ \A k \in 1..Len(attempts) : /\ attempts'[k].candidate = attempts[k].candidate
                                         /\ attempts'[k].charge <= Bound
      BY <1>1, <1>8, <2>1, SettledRows
    <2>3. Len(attempts) # 0
      BY <1>1 DEF TypeOK
    <2> QED
      BY <2>2, <2>3
  <1>9. CASE /\ reservation # "ended" /\ attempts' = Settled(Len(attempts), "retry") /\ UNCHANGED reservation
             /\ failed' = TRUE /\ Problem("dependency") /\ UNCHANGED next
    <2>1. /\ attempts' \in Seq(AttemptRow) /\ Len(attempts') = Len(attempts)
          /\ \A k \in 1..Len(attempts) : /\ attempts'[k].candidate = attempts[k].candidate
                                         /\ attempts'[k].charge <= Bound
      BY <1>8, <1>9
    <2>2. pc' = "done" /\ client' = "problem" /\ failed' = TRUE
      BY <1>9 DEF Problem
    <2> QED
      BY <1>1, <1>5, <1>9, <2>1, <2>2, DoneKeeps
  <1>10. CASE /\ reservation # "ended" /\ attempts' = Settled(Len(attempts), "retry") /\ UNCHANGED reservation
              /\ pc' = "waiting"
              /\ next' = [next EXCEPT !.selected = kind, !.condition = FallbackCondition(result)]
              /\ UNCHANGED <<failed, client>>
    <2>1. /\ attempts' \in Seq(AttemptRow) /\ Len(attempts') = Len(attempts) /\ attempts' # <<>>
          /\ \A k \in 1..Len(attempts) : /\ attempts'[k].candidate = attempts[k].candidate
                                         /\ attempts'[k].charge <= Bound
      BY <1>8, <1>10
    <2>2. /\ next' \in NextRow /\ next'.candidate = next.candidate /\ next'.onRoute = next.onRoute
          /\ next'.selected = kind
      BY <1>1, <1>3, <1>10 DEF TypeOK, NextRow
    <2>3. UNCHANGED <<failed, client, reservation>> /\ pc' = "waiting"
      BY <1>10
    <2>4. TypeOK'
      BY <1>1, <1>5, <2>1, <2>2, <2>3 DEF TypeOK, NextRow
    <2>5. RowsInv'
      BY <1>1, <1>5, <2>1, <2>2, RowsKept
    <2>6. StartInv' /\ StageInv'
      BY <1>1, <1>5, <2>3, StagesStay DEF StartInv, Deciding
    <2>7. /\ Len(trips) = Len(attempts) /\ Last(attempts).candidate = next.candidate /\ Len(attempts) \in Nat \ {0}
      BY <1>1 DEF PlaceInv, Holds, TypeOK
    <2>8. Len(attempts) < MaxLogical
      BY <1>3, <2>7, RequestBounds
    <2>9. unsafe => Route.unsafeToo /\ \A k \in 1..Len(attempts) : plan[attempts[k].candidate].unsafeToo
      <3> SUFFICES ASSUME unsafe PROVE Route.unsafeToo /\ \A k \in 1..Len(attempts) : plan[attempts[k].candidate].unsafeToo
        OBVIOUS
      <3>1. Route.unsafeToo
        BY <1>3 DEF ReplayAllowed, Route
      <3>2. CASE Len(attempts) > 1
        BY <1>1, <3>1, <3>2 DEF RowsInv
      <3>3. CASE Len(attempts) = 1
        <4>1. \A k \in 1..Len(attempts) : k = Len(attempts)
          BY <3>3
        <4> QED
          BY <2>7, <3>1, <4>1 DEF Route, Last
      <3> QED
        BY <2>7, <3>2, <3>3
    <2>10. Route' = Route /\ plan' = plan /\ unsafe' = unsafe
      BY <1>5, <2>2 DEF Route
    <2>11. Last(attempts').candidate = next.candidate
      BY <2>1, <2>7 DEF Last
    <2>12. \A k \in 1..Len(attempts') : attempts'[k].candidate = attempts[k].candidate
      BY <2>1
    <2>13. ReplayAllowed(next.candidate + 1) => ReplayAllowed(next.candidate + 1)'
      BY <2>2, <2>10 DEF ReplayAllowed
    <2>14. PlaceInv'
      <3>1. Len(trips') = Len(attempts') /\ Len(attempts') < MaxLogical
        BY <1>5, <2>1, <2>7, <2>8
      <3>2. unsafe' => Route'.unsafeToo /\ \A k \in 1..Len(attempts') : plan'[attempts'[k].candidate].unsafeToo
        BY <2>1, <2>9, <2>10, <2>12
      <3>3. /\ next'.selected # "none"
            /\ next'.selected = "same" => next'.onRoute < Route'.maxAttempts
            /\ next'.selected = "fallback" => next'.candidate < Len(plan') /\ ReplayAllowed(next.candidate + 1)'
        BY <1>3, <2>2, <2>10, <2>13
      <3> QED
        BY <2>1, <2>2, <2>3, <2>11, <3>1, <3>2, <3>3 DEF PlaceInv, Holds, Flight, Owned
    <2>15. OpenInv' /\ RefusedInv' /\ ClientInv'
      BY <1>1, <1>4, <1>5, <2>3 DEF OpenInv, RefusedInv, ClientInv, Holds, Flight, Owned
    <2>16. SettledInv'
      <3>1. \A k \in DOMAIN attempts' : attempts'[k].charge <= Bound
        BY <2>1
      <3>2. client' # "complete" /\ pc' # "done"
        BY <1>4, <2>3
      <3> QED
        BY <3>1, <3>2 DEF SettledInv, ChargeBounded, CompleteIsSettled, LeftOpenOnlyIfUnknown
    <2> QED
      BY <2>4, <2>5, <2>6, <2>14, <2>15, <2>16 DEF RequestInv
  <1> QED
    BY <1>2, <1>6, <1>7, <1>9, <1>10

\* The candidate or the count on its route moves on to an attempt that fits.
LEMMA StartRetryHolds == RequestInv /\ StartRetry => RequestInv'
  <1> SUFFICES ASSUME RequestInv, StartRetry PROVE RequestInv'
    OBVIOUS
  <1> DEFINE c == next.candidate
             d == next'.candidate
  <1>1. /\ TypeOK /\ RowsInv /\ PlaceInv /\ pc = "waiting" /\ pc \notin Deciding \cup {"done"}
        /\ reservation \in {"reserved", "active", "ended"} /\ client = "waiting"
    <2>1. pc = "waiting"
      BY DEF StartRetry
    <2> QED
      BY <2>1, ReservedThen DEF RequestInv, Deciding, Owned
  <1>2. /\ UNCHANGED <<plan, unsafe, pending, stages, reservation, attempts, failed, ctx, client, trips>>
        /\ result' = NoResult /\ pc' = "executing"
    BY DEF StartRetry, request, quota
  <1>3. /\ Len(plan) \in Nat \ {0} /\ c \in 1..Len(plan) /\ next.onRoute \in Nat
        /\ \A e \in 1..Len(plan) : plan[e].maxAttempts \in Nat \ {0}
    BY <1>1, PlanFacts DEF RouteRow
  <1>4. /\ attempts # <<>> /\ Len(trips) = Len(attempts) /\ Len(attempts) < MaxLogical
        /\ unsafe => plan[c].unsafeToo /\ \A k \in 1..Len(attempts) : plan[attempts[k].candidate].unsafeToo
        /\ next.selected = "same" => next.onRoute < plan[c].maxAttempts
        /\ next.selected = "fallback" => c < Len(plan) /\ ReplayAllowed(c + 1)
    BY <1>1 DEF PlaceInv, Route
  <1>5. /\ attempts \in Seq(AttemptRow) /\ \A k \in 1..Len(attempts) : attempts[k].candidate \in Nat
        /\ \A k \in 1..Len(attempts) : attempts[k].candidate <= c
    <2>1. attempts \in Seq(AttemptRow)
      BY <1>1 DEF TypeOK
    <2>2. \A k \in 1..Len(attempts) : attempts[k] \in AttemptRow
      BY <2>1
    <2> QED
      BY <1>1, <2>1, <2>2 DEF AttemptRow, RowsInv
  <1>6. /\ next' \in NextRow' /\ d \in 1..Len(plan) /\ c <= d /\ next'.onRoute \in Nat
        /\ next'.onRoute <= plan[d].maxAttempts
        /\ Cardinality(AttemptsOn(d)) < next'.onRoute
        /\ unsafe => plan[d].unsafeToo
    <2>1. CASE next.selected = "same" /\ next' = [next EXCEPT !.onRoute = @ + 1, !.selected = "none"]
      <3>1. next' \in NextRow' /\ d = c /\ next'.onRoute = next.onRoute + 1
        <4>1. next \in NextRow /\ next.onRoute + 1 \in Nat
          BY <1>1, <1>3 DEF TypeOK
        <4> QED
          BY <1>2, <2>1, <4>1 DEF NextRow
      <3>2. Cardinality(AttemptsOn(c)) <= next.onRoute /\ Cardinality(AttemptsOn(c)) \in Nat
        BY <1>1, <1>5, CountFinite DEF RowsInv
      <3>3. next.onRoute < plan[c].maxAttempts
        BY <1>4, <2>1
      <3> QED
        BY <1>3, <1>4, <3>1, <3>2, <3>3
    <2>2. CASE /\ next.selected = "fallback" \/ FallbackEligible(next.condition)
               /\ next' = [next EXCEPT !.candidate = @ + 1, !.onRoute = 1, !.selected = "none"]
      <3>1. c < Len(plan) /\ ReplayAllowed(c + 1)
        BY <1>4, <2>2 DEF FallbackEligible
      <3>2. c + 1 \in 1..Len(plan)
        BY <1>3, <3>1
      <3>3. next' \in NextRow' /\ d = c + 1 /\ next'.onRoute = 1
        BY <1>1, <1>2, <2>2, <3>2 DEF TypeOK, NextRow
      <3>4. AttemptsOn(c + 1) = {}
        BY <1>3, <1>5 DEF AttemptsOn
      <3>5. Cardinality(AttemptsOn(c + 1)) = 0
        BY <3>4, FS_EmptySet
      <3>6. unsafe => plan[c + 1].unsafeToo
        BY <3>1 DEF ReplayAllowed
      <3>7. plan[c + 1].maxAttempts \in Nat \ {0}
        BY <1>3, <3>2
      <3> QED
        BY <1>3, <3>2, <3>3, <3>5, <3>6, <3>7
    <2> QED
      BY <2>1, <2>2 DEF StartRetry
  <1>7. TypeOK'
    <2>1. NoResult \in ResultRow
      BY DEF NoResult, ResultRow, Errors, Usages, Unknown
    <2> QED
      BY <1>1, <1>2, <1>6, <2>1 DEF TypeOK
  <1>8. \A e : AttemptsOn(e)' = AttemptsOn(e)
    BY <1>2 DEF AttemptsOn
  <1>9. Cardinality(AttemptsOn(next.candidate))' < next'.onRoute
    <2>1. \A e : e = d => Cardinality(AttemptsOn(e)') < next'.onRoute
      BY <1>6, <1>8
    <2> QED
      BY <2>1
  <1>10. Cardinality(AttemptsOn(next.candidate))' \in Nat
    <2>1. \A e : e = d => Cardinality(AttemptsOn(e)') \in Nat
      BY <1>5, <1>8, CountFinite
    <2> QED
      BY <2>1
  <1>11. Route' = plan[d]
    BY <1>2 DEF Route
  <1>12. RowsInv'
    <2>1. EveryTripReserved' /\ WithinAttemptLimits'
      BY <1>1, <1>2, <1>8 DEF RowsInv, EveryTripReserved, WithinAttemptLimits
    <2>2. \A k \in 1..Len(attempts') : attempts'[k].candidate <= d
      BY <1>2, <1>3, <1>5, <1>6
    <2>3. next'.onRoute <= Route'.maxAttempts
      BY <1>6, <1>11
    <2>4. Cardinality(AttemptsOn(next.candidate))' <= next'.onRoute
      BY <1>6, <1>9, <1>10
    <2>5. unsafe' => \A k \in 1..Len(attempts') : plan'[attempts'[k].candidate].unsafeToo
      BY <1>2, <1>4
    <2> QED
      BY <2>1, <2>2, <2>3, <2>4, <2>5 DEF RowsInv
  <1>13. PlaceInv'
    <2>1. unsafe' => Route'.unsafeToo /\ \A k \in 1..Len(attempts') : plan'[attempts'[k].candidate].unsafeToo
      BY <1>2, <1>4, <1>6, <1>11
    <2>2. Len(trips') = Len(attempts') /\ Len(attempts') < MaxLogical
      BY <1>2, <1>4
    <2> QED
      BY <1>2, <1>9, <2>1, <2>2 DEF PlaceInv, Holds, Flight, Owned
  <1>14. StartInv' /\ StageInv'
    BY <1>1, <1>2, StagesStay DEF StartInv, Deciding
  <1>15. OpenInv' /\ RefusedInv' /\ ClientInv'
    BY <1>1, <1>2 DEF OpenInv, RefusedInv, ClientInv, Holds, Flight, Owned, NoResult
  <1>16. SettledInv'
    <2>1. SettledInv /\ client' # "complete" /\ pc' # "done"
      BY <1>1, <1>2 DEF RequestInv
    <2> QED
      BY <1>2, <2>1 DEF SettledInv, ChargeBounded, CompleteIsSettled, LeftOpenOnlyIfUnknown
  <1> QED
    BY <1>7, <1>12, <1>13, <1>14, <1>15, <1>16 DEF RequestInv

(* Around the handler.                                                     *)

\* The end of the context is noticed by later steps only.
LEMMA ContextKeeps ==
    ASSUME RequestInv, ctx' \in {"live", "ended"},
           UNCHANGED <<pc, request, pending, quota, client, trips, result, next>>
    PROVE  RequestInv'
  <1>1. UNCHANGED <<plan, unsafe, stages, reservation, attempts, failed>>
    BY DEF request, quota
  <1>2. TypeOK'
    BY <1>1 DEF RequestInv, TypeOK, NextRow
  <1>3. StartInv' /\ StageInv'
    BY <1>1 DEF RequestInv, StartInv, StageInv, StagesExplainOutcome
  <1>4. RowsInv' /\ \A c : AttemptsOn(c)' = AttemptsOn(c)
    BY <1>1, RowsKept DEF RequestInv, TypeOK
  <1>5. Route' = Route /\ \A c : ReplayAllowed(c)' = ReplayAllowed(c)
    BY <1>1 DEF Route, ReplayAllowed
  <1>6. Cardinality(AttemptsOn(next.candidate))' = Cardinality(AttemptsOn(next.candidate))
    BY <1>1 DEF AttemptsOn
  <1>7. PlaceInv'
    BY <1>1, <1>5, <1>6 DEF RequestInv, PlaceInv, Holds, Owned
  <1>8. OpenInv' /\ RefusedInv' /\ ClientInv'
    BY <1>1 DEF RequestInv, OpenInv, RefusedInv, ClientInv, Holds, Owned
  <1>9. SettledInv'
    BY <1>1 DEF RequestInv, SettledInv, ChargeBounded, CompleteIsSettled, LeftOpenOnlyIfUnknown, FinalErr, ExceedsBounds
  <1> QED
    BY <1>2, <1>3, <1>4, <1>7, <1>8, <1>9 DEF RequestInv

LEMMA RecoverHolds == RequestInv /\ Recover => RequestInv'
  <1> SUFFICES ASSUME RequestInv, Recover PROVE RequestInv'
    OBVIOUS
  <1>1. /\ TypeOK /\ RowsInv /\ PlaceInv /\ reservation \in {"reserved", "active"} /\ reservation' = "ended"
        /\ pc \notin Deciding /\ client # "complete" /\ attempts \in Seq(AttemptRow)
    BY DEF RequestInv, Recover, StartInv, SettledInv, CompleteIsSettled, TypeOK
  <1>2. UNCHANGED <<pc, plan, unsafe, pending, stages, failed, ctx, client, trips, result, next>>
    BY DEF Recover, request
  <1>3. \A k \in 1..Len(attempts) : attempts[k].charge <= Bound /\ attempts[k] \in AttemptRow
    BY <1>1 DEF RequestInv, SettledInv, ChargeBounded
  <1> DEFINE row(k) == IF attempts[k].state = "open"
                       THEN [attempts[k] EXCEPT !.state = "recovered", !.charge = Bound]
                       ELSE IF attempts[k].state = "retry" THEN [attempts[k] EXCEPT !.state = "final"]
                       ELSE attempts[k]
  <1>4. \A k \in 1..Len(attempts) : /\ row(k) \in AttemptRow /\ row(k).candidate = attempts[k].candidate
                                    /\ row(k).charge <= Bound
    <2> TAKE k \in 1..Len(attempts)
    <2>1. attempts[k] \in AttemptRow /\ attempts[k].charge <= Bound
      BY <1>3
    <2>2. CASE attempts[k].state = "open"
      <3> DEFINE a == attempts[k]
                 r == [a EXCEPT !.state = "recovered", !.charge = Bound]
      <3>1. row(k) = r
        BY <2>2
      <3> HIDE DEF a, row
      <3>2. a \in AttemptRow /\ a = attempts[k]
        BY <2>1 DEF a
      <3>3. r \in AttemptRow /\ r.candidate = a.candidate /\ r.charge = Bound
        BY <3>2, RequestBounds DEF AttemptRow
      <3>4. Bound <= Bound
        BY RequestBounds
      <3> HIDE DEF r
      <3> QED
        BY <3>1, <3>2, <3>3, <3>4
    <2>3. CASE attempts[k].state = "retry"
      BY <2>1, <2>3 DEF AttemptRow
    <2>4. CASE attempts[k].state \notin {"open", "retry"}
      BY <2>1, <2>4
    <2> QED
      BY <2>2, <2>3, <2>4
  <1>5. attempts' = [k \in 1..Len(attempts) |-> row(k)]
    <2>1. DOMAIN attempts = 1..Len(attempts)
      BY <1>1
    <2>2. attempts' = [k \in DOMAIN attempts |-> row(k)]
      BY Zenon DEF Recover
    <2> QED
      BY <2>1, <2>2, Zenon
  <1> HIDE DEF row
  <1>6. /\ attempts' \in Seq(AttemptRow) /\ Len(attempts') = Len(attempts)
        /\ \A k \in 1..Len(attempts) : attempts'[k].candidate = attempts[k].candidate /\ attempts'[k].charge <= Bound
    BY <1>1, <1>4, <1>5
  <1>7. attempts # <<>> => attempts' # <<>> /\ Last(attempts').candidate = Last(attempts).candidate
    <2>1. attempts # <<>> => Len(attempts) \in 1..Len(attempts)
      BY <1>1
    <2> QED
      BY <1>1, <1>6, <2>1 DEF Last
  <1>8. TypeOK'
    BY <1>1, <1>2, <1>6 DEF TypeOK, NextRow
  <1>9. RowsInv' /\ \A c : AttemptsOn(c)' = AttemptsOn(c)
    BY <1>1, <1>2, <1>6, RowsKept
  <1>10. StartInv' /\ StageInv'
    BY <1>1, <1>2, StagesStay DEF StartInv, Deciding
  <1>11. Cardinality(AttemptsOn(next.candidate))' = Cardinality(AttemptsOn(next.candidate))
    <2>1. \A c : c = next.candidate => c = next'.candidate /\ AttemptsOn(c)' = AttemptsOn(c)
      BY <1>2, <1>9
    <2> QED
      BY <2>1
  <1>12. Route' = Route /\ \A c : ReplayAllowed(c)' = ReplayAllowed(c)
    BY <1>2 DEF Route, ReplayAllowed
  <1>13. PlaceInv'
    <2>1. attempts' # <<>> => attempts # <<>>
      BY <1>1, <1>6
    <2>2. \A k \in 1..Len(attempts') : attempts'[k].candidate = attempts[k].candidate /\ k \in 1..Len(attempts)
      BY <1>6
    <2> QED
      BY <1>1, <1>2, <1>6, <1>7, <1>11, <1>12, <2>1, <2>2 DEF PlaceInv, Holds, Owned
  <1>14. OpenInv' /\ ClientInv'
    BY <1>1, <1>2 DEF RequestInv, OpenInv, ClientInv, Owned
  <1>15. RefusedInv'
    BY <1>1, <1>2, <1>7 DEF RequestInv, RefusedInv
  <1>16. SettledInv'
    <2>1. \A k \in DOMAIN attempts' : attempts'[k].charge <= Bound
      BY <1>6
    <2>2. client' # "complete" /\ reservation' = "ended"
      BY <1>1, <1>2
    <2> QED
      BY <2>1, <2>2 DEF SettledInv, ChargeBounded, CompleteIsSettled, LeftOpenOnlyIfUnknown
  <1> QED
    BY <1>8, <1>9, <1>10, <1>13, <1>14, <1>15, <1>16 DEF RequestInv

(* The theorems.                                                           *)

LEMMA StepHolds == RequestInv /\ [Next]_vars => RequestInv'
  <1> SUFFICES ASSUME RequestInv, [Next]_vars PROVE RequestInv'
    OBVIOUS
  <1>1. CASE Admit \/ Authenticate \/ BeginAuthenticatedRequest \/ StageSucceeds \/ StageFails \/ Reserve
    BY <1>1, AdmitHolds, AuthenticateHolds, BeginAuthenticatedRequestHolds, StageSucceedsHolds, StageFailsHolds,
       ReserveHolds
  <1>2. CASE FailsBeforeBegin \/ BeforeRoundTrip \/ RoundTrip \/ Headers \/ FirstByte \/ Stream
    BY <1>2, FailsBeforeBeginHolds, BeforeRoundTripHolds, RoundTripHolds, HeadersHolds, FirstByteHolds, StreamHolds
  <1>3. CASE NotBegun \/ NotOwner \/ SelectRetry \/ StartRetry \/ AbandonRetry \/ Finish
    BY <1>3, NotBegunHolds, NotOwnerHolds, SelectRetryHolds, StartRetryHolds, AbandonRetryHolds, FinishHolds
  <1>4. CASE ContextEnds
    BY <1>4, ContextKeeps DEF ContextEnds
  <1>5. CASE Recover
    BY <1>5, RecoverHolds
  <1>6. CASE UNCHANGED vars
    <2>1. UNCHANGED <<pc, request, pending, quota, client, trips, result, next>> /\ ctx' = ctx
      BY <1>6 DEF vars, request, quota
    <2> QED
      BY <2>1, ContextKeeps DEF RequestInv, TypeOK
  <1> QED
    BY <1>1, <1>2, <1>3, <1>4, <1>5, <1>6 DEF Next, HandlerStep

LEMMA RequestInvHolds == Spec => []RequestInv
  BY InitHolds, StepHolds, PTL DEF Spec

\* Every round trip of the data plane is an attempt stored before it, within the
\* limits of its route and of the request and repeated only where that is
\* allowed; charges stay within what was reserved, a complete response is a
\* settled one, only what is unknown, or expired before anything was sent, is
\* left to recovery, and the stored stages explain how the request ended
\* (Handler.ServeHTTP with retries and fallbacks).
THEOREM TripsAccounted == Spec => []EveryTripAccounted
  <1>1. RequestInv => EveryTripAccounted
    <2> SUFFICES ASSUME RequestInv PROVE EveryTripAccounted
      OBVIOUS
    <2>1. UnsafeSentOnce
      <3> SUFFICES ASSUME unsafe, Len(trips) > 1, NEW k \in DOMAIN trips PROVE plan[trips[k]].unsafeToo
        BY DEF UnsafeSentOnce
      <3>1. /\ trips \in Seq(Nat) /\ attempts \in Seq(AttemptRow)
            /\ Len(trips) <= Len(attempts) /\ trips[k] = attempts[k].candidate
        BY DEF RequestInv, TypeOK, RowsInv, EveryTripReserved
      <3>2. k \in 1..Len(attempts) /\ Len(attempts) > 1
        BY <3>1
      <3>3. plan[attempts[k].candidate].unsafeToo
        BY <3>2 DEF RequestInv, RowsInv
      <3> QED
        BY <3>1, <3>3
    <2> QED
      BY <2>1 DEF RequestInv, RowsInv, StageInv, SettledInv, EveryTripAccounted
  <1> QED
    BY <1>1, RequestInvHolds, PTL

\* Once a byte of a response has reached the client, no step of the handler sends
\* the request to a provider again or begins another answer.
THEOREM NeverReplayed == Spec => NothingReplayed
  <1>1. RequestInv /\ [Next]_vars => [NoReplayAfterStart]_vars
    <2> SUFFICES ASSUME RequestInv, Next, client # "waiting" PROVE NoReplayAfterStart
      BY DEF NoReplayAfterStart
    <2>1. /\ client \in {"started", "complete", "aborted", "problem"}
          /\ client = "started" => pc = "streaming" \/ Owned
          /\ client # "started" => pc = "done"
      BY DEF RequestInv, TypeOK, ClientInv
    <2>2. CASE RoundTrip \/ Headers \/ FirstByte \/ FailsBeforeBegin \/ BeforeRoundTrip
      BY <2>1, <2>2 DEF RoundTrip, Headers, FirstByte, FailsBeforeBegin, BeforeRoundTrip, Owned
    <2>3. CASE Admit \/ Authenticate \/ BeginAuthenticatedRequest \/ StageSucceeds \/ StageFails \/ Reserve
      BY <2>1, <2>3 DEF Admit, Authenticate, BeginAuthenticatedRequest, StageSucceeds, StageFails, Reserve, Owned
    <2>4. CASE Stream
      BY <2>4 DEF Stream, NoReplayAfterStart
    <2>5. CASE NotBegun \/ NotOwner
      <3>1. ~Owned /\ pc = "ended"
        BY <2>5 DEF NotBegun, NotOwner, Owned, RequestInv, OpenInv
      <3> QED
        BY <2>1, <3>1
    <2>6. CASE SelectRetry
      <3>1. Owned /\ pc = "ended"
        BY <2>6 DEF SelectRetry, Owned
      <3>2. ~Started
        BY <2>6, SelectionFacts DEF SelectRetry
      <3> QED
        BY <2>1, <3>1, <3>2 DEF Started
    <2>7. CASE StartRetry \/ AbandonRetry
      BY <2>1, <2>7 DEF StartRetry, AbandonRetry, Owned
    <2>8. CASE Finish
      <3>1. Owned /\ pc = "ended" /\ client = "started" /\ trips' = trips
        BY <2>1, <2>8 DEF Finish, Owned
      <3>2. \E err : Answer(err)
        BY <2>8 DEF Finish, SettleFinal
      <3>3. client' \in {"complete", "aborted"}
        BY <3>1, <3>2 DEF Answer, Started
      <3> QED
        BY <3>1, <3>3 DEF NoReplayAfterStart
    <2>9. CASE ContextEnds \/ Recover
      BY <2>9 DEF ContextEnds, Recover, NoReplayAfterStart
    <2> QED
      BY <2>2, <2>3, <2>4, <2>5, <2>6, <2>7, <2>8, <2>9 DEF Next, HandlerStep
  <1> QED
    BY <1>1, RequestInvHolds, PTL DEF Spec, NothingReplayed

-----------------------------------------------------------------------------
(* The circuit: outcomes of routes as one process observes them.            *)

CONSTANTS Routes, MaximumEntries, FailureThreshold, OpenInterval, StaleAfter, CircuitTime,
          MaxObservations
VARIABLES entries, outcomes

Circuit == INSTANCE CircuitObservations WITH
    Keys <- Routes, MaxTime <- CircuitTime, log <- outcomes

\* The options of NewCircuitObservationStore are positive; keys are ordered.
CircuitBounds ==
    /\ Routes \subseteq Nat /\ IsFiniteSet(Routes)
    /\ MaximumEntries \in Nat \ {0} /\ FailureThreshold \in Nat \ {0}
    /\ StaleAfter \in Nat \ {0} /\ OpenInterval \in Nat /\ CircuitTime \in Nat

Entry == [failures : 0..FailureThreshold, openedAt : 0..CircuitTime, lastAt : 0..CircuitTime]
Outcome == [at : Circuit!Times, failure : BOOLEAN]

\* The count of an entry is the length of the run of failures that the log
\* begins with, up to the threshold; a gap ends a run as a success does.
Follows(e, l) ==
    LET n == e.failures IN
    /\ e.lastAt = 0 <=> l = <<>>
    /\ l # <<>> => l[1].at = e.lastAt
    /\ n <= Len(l)
    /\ \A i \in 1..n : l[i].failure
    /\ \A i \in 1..(n - 1) : l[i].at < l[i + 1].at + StaleAfter
    /\ n < FailureThreshold => \/ n = Len(l)
                               \/ ~l[n + 1].failure
                               \/ n > 0 /\ l[n].at >= l[n + 1].at + StaleAfter

CircuitInv ==
    /\ entries \in [Routes -> Entry]
    /\ outcomes \in [Routes -> Seq(Outcome)]
    /\ \A k \in Routes : Follows(entries[k], outcomes[k])
    /\ Cardinality(Circuit!Known) <= MaximumEntries

LEMMA CircuitInvInit ==
    ASSUME CircuitBounds PROVE Circuit!Init => CircuitInv
<1> SUFFICES ASSUME Circuit!Init PROVE CircuitInv
  OBVIOUS
<1>1. entries \in [Routes -> Entry] /\ outcomes \in [Routes -> Seq(Outcome)]
  BY DEF CircuitBounds, Circuit!Init, Circuit!NoEntry, Entry
<1>2. \A k \in Routes : Follows(entries[k], outcomes[k])
  BY DEF CircuitBounds, Circuit!Init, Circuit!NoEntry, Follows
<1>3. Circuit!Known = {}
  BY DEF Circuit!Init, Circuit!NoEntry, Circuit!Known
<1> QED BY <1>1, <1>2, <1>3, FS_EmptySet DEF CircuitInv, CircuitBounds

\* The instance brings the definition of its own.
LEMMA SameCardinality == \A S : Circuit!Cardinality(S) = Cardinality(S)
BY Zenon DEF Circuit!Cardinality, Cardinality

LEMMA LesserOfTwo ==
    ASSUME NEW a \in Nat, NEW b \in Nat
    PROVE  Circuit!Min({a, b}) = IF a <= b THEN a ELSE b
BY DEF Circuit!Min

\* Prepending to a log.
LEMMA Prepended ==
    ASSUME NEW o \in Outcome, NEW l \in Seq(Outcome)
    PROVE  /\ <<o>> \o l \in Seq(Outcome) /\ <<o>> \o l # <<>>
           /\ Len(<<o>> \o l) = Len(l) + 1
           /\ (<<o>> \o l)[1] = o
           /\ \A i \in 1..Len(l) : (<<o>> \o l)[i + 1] = l[i]
OBVIOUS

\* An outcome that is not older than the latest is counted into the run.
LEMMA CountFollows ==
    ASSUME CircuitBounds, NEW e \in Entry, NEW l \in Seq(Outcome), Follows(e, l),
           NEW at \in Circuit!Times, NEW failure \in BOOLEAN, at >= e.lastAt
    PROVE  LET counted == Circuit!Counted(Circuit!Fresh(e, at), failure, at)
           IN  /\ counted \in Entry /\ counted.lastAt = at
               /\ Follows(counted, <<[at |-> at, failure |-> failure]>> \o l)
<1> DEFINE o == [at |-> at, failure |-> failure]
           m == <<o>> \o l
           f == Circuit!Fresh(e, at)
           n == IF failure THEN Circuit!Min({f.failures + 1, FailureThreshold}) ELSE 0
           counted == Circuit!Counted(f, failure, at)
<1>1. at \in Nat /\ at > 0 /\ at <= CircuitTime /\ o \in Outcome
  BY DEF Circuit!Times, CircuitBounds, Outcome
<1>2. /\ m \in Seq(Outcome) /\ m # <<>> /\ Len(m) = Len(l) + 1 /\ m[1] = o
      /\ \A i \in 1..Len(l) : m[i + 1] = l[i]
  BY <1>1, Prepended
<1>3. Len(l) \in Nat /\ \A i \in 1..Len(l) : l[i] \in Outcome /\ l[i].at \in Nat
  <2>1. Len(l) \in Nat /\ \A i \in 1..Len(l) : l[i] \in Outcome
    OBVIOUS
  <2>2. \A x \in Outcome : x.at \in Nat
    BY DEF Outcome, Circuit!Times, CircuitBounds
  <2> QED BY <2>1, <2>2
<1>4. /\ f \in Entry /\ f.failures \in Nat /\ f.failures <= FailureThreshold
      /\ (e.lastAt # 0 /\ Circuit!Stale(e, at) => f.failures = 0)
      /\ (~(e.lastAt # 0 /\ Circuit!Stale(e, at)) => f = e)
  BY DEF Circuit!Fresh, Circuit!NoEntry, Entry, CircuitBounds
<1>5. /\ n \in Nat /\ n <= FailureThreshold
      /\ ~failure => n = 0
      /\ failure => n = IF f.failures + 1 <= FailureThreshold THEN f.failures + 1
                        ELSE FailureThreshold
  BY <1>4, LesserOfTwo DEF CircuitBounds
<1>6. /\ counted = [failures |-> n,
                    openedAt |-> IF ~failure THEN 0
                                 ELSE IF n >= FailureThreshold THEN at ELSE f.openedAt,
                    lastAt |-> at]
  BY DEF Circuit!Counted
<1> HIDE DEF n, f, counted, m, o
<1>7. counted \in Entry /\ counted.lastAt = at /\ counted.failures = n
  <2>1. f.openedAt \in 0..CircuitTime /\ at \in 0..CircuitTime /\ 0 \in 0..CircuitTime
    BY <1>1, <1>4 DEF Entry, CircuitBounds
  <2> QED BY <1>5, <1>6, <2>1 DEF Entry, CircuitBounds
<1>8. o.at = at /\ o.failure = failure
  BY DEF o
<1>9. ASSUME ~failure PROVE Follows(counted, m)
  <2>1. n = 0 /\ m[1].at = at /\ ~m[1].failure
    BY <1>2, <1>5, <1>8, <1>9
  <2> QED BY <1>1, <1>2, <1>3, <1>7, <2>1 DEF Follows
<1>10. ASSUME failure /\ e.lastAt # 0 /\ Circuit!Stale(e, at)
       PROVE  Follows(counted, m)
  <2>1. n = 1 /\ m[1].at = at /\ m[1].failure
    BY <1>2, <1>4, <1>5, <1>8, <1>10 DEF CircuitBounds
  <2>2. l # <<>> /\ l[1].at = e.lastAt
    BY <1>10 DEF Follows
  <2>3. Len(l) >= 1 /\ m[2] = l[1] /\ m[1].at >= m[2].at + StaleAfter
    BY <1>2, <1>3, <1>10, <2>1, <2>2 DEF Circuit!Stale
  <2> QED BY <1>1, <1>2, <1>3, <1>7, <2>1, <2>3 DEF Follows
<1>11. ASSUME failure /\ ~(e.lastAt # 0 /\ Circuit!Stale(e, at))
       PROVE  Follows(counted, m)
  <2>1. f = e /\ m[1].at = at /\ m[1].failure
    BY <1>2, <1>4, <1>8, <1>11
  <2>2. e.lastAt \in Nat /\ e.failures \in Nat /\ e.failures <= FailureThreshold
    BY <1>4, <2>1 DEF Entry, CircuitBounds
  <2>3. n > 0 /\ n <= e.failures + 1
        /\ n = IF e.failures + 1 <= FailureThreshold THEN e.failures + 1 ELSE FailureThreshold
    BY <1>5, <1>11, <2>1, <2>2 DEF CircuitBounds
  <2>4. e.failures <= Len(l) /\ n <= Len(m)
    BY <1>2, <1>3, <2>2, <2>3, <1>5 DEF Follows
  <2>5. l # <<>> => at < l[1].at + StaleAfter
    BY <1>1, <1>11, <2>2 DEF Follows, Circuit!Stale, CircuitBounds
  <2>6. ASSUME NEW i \in 1..n PROVE m[i].failure
    <3>1. CASE i = 1
      BY <2>1, <3>1
    <3>2. CASE i # 1
      <4>1. i - 1 \in 1..e.failures /\ i - 1 \in 1..Len(l) /\ (i - 1) + 1 = i
        BY <1>3, <1>5, <2>2, <2>3, <2>4, <3>2
      <4>2. m[i] = l[i - 1] /\ l[i - 1].failure
        BY <1>2, <4>1 DEF Follows
      <4> QED BY <4>2
    <3> QED BY <3>1, <3>2
  <2>7. ASSUME NEW i \in 1..(n - 1) PROVE m[i].at < m[i + 1].at + StaleAfter
    <3>1. i \in 1..Len(l) /\ m[i + 1] = l[i] /\ i \in 1..e.failures
      BY <1>2, <1>3, <1>5, <2>2, <2>3, <2>4
    <3>2. CASE i = 1
      BY <1>3, <2>1, <2>5, <3>1, <3>2
    <3>3. CASE i # 1
      <4>1. i - 1 \in 1..(e.failures - 1) /\ i - 1 \in 1..Len(l) /\ (i - 1) + 1 = i
        BY <1>3, <2>2, <2>4, <3>1, <3>3
      <4>2. m[i] = l[i - 1]
        BY <1>2, <4>1
      <4>3. l[i - 1].at < l[(i - 1) + 1].at + StaleAfter
        BY <4>1 DEF Follows
      <4> QED BY <3>1, <4>1, <4>2, <4>3
    <3> QED BY <3>2, <3>3
  <2>8. n < FailureThreshold => \/ n = Len(m)
                                \/ ~m[n + 1].failure
                                \/ n > 0 /\ m[n].at >= m[n + 1].at + StaleAfter
    <3> SUFFICES ASSUME n < FailureThreshold, n # Len(m)
                 PROVE  ~m[n + 1].failure \/ m[n].at >= m[n + 1].at + StaleAfter
      BY <2>3
    <3>1. n = e.failures + 1 /\ e.failures < FailureThreshold /\ e.failures # Len(l)
      BY <1>2, <1>3, <1>5, <2>2, <2>3 DEF CircuitBounds
    <3>2. /\ n \in 1..Len(l) /\ m[n + 1] = l[n] /\ n = e.failures + 1
      BY <1>2, <1>3, <2>2, <2>4, <3>1
    <3>3. \/ ~l[n].failure
          \/ e.failures > 0 /\ l[e.failures].at >= l[n].at + StaleAfter
      BY <3>1 DEF Follows
    <3>4. e.failures > 0 => m[n] = l[e.failures]
      BY <1>2, <1>3, <2>2, <3>1, <3>2
    <3> QED BY <3>2, <3>3, <3>4
  <2> QED BY <1>1, <1>2, <1>7, <2>1, <2>4, <2>6, <2>7, <2>8 DEF Follows
<1>12. Follows(counted, m)
  BY <1>9, <1>10, <1>11
<1> QED BY <1>7, <1>12 DEF counted, m, o, f

\* Some entry is the oldest, the lesser key first among those of one time.
LEMMA LeastExists ==
    ASSUME NEW S \in SUBSET Nat, S # {}
    PROVE  \E m \in S : \A k \in S : m <= k
<1> DEFINE R == OpToRel(<, Nat)
<1>1. IsWellFoundedOn(R, Nat)
  BY NatLessThanWellFounded
<1>2. \A x, y \in Nat : x < y => <<x, y>> \in R
  BY DEF OpToRel
<1> HIDE DEF R
<1>3. PICK m \in S : \A k \in S : ~(<<k, m>> \in R)
  BY <1>1, WFMin
<1>4. \A k \in S : ~(k < m)
  BY <1>2, <1>3
<1> QED BY <1>4

LEMMA OldestExists ==
    ASSUME CircuitBounds, CircuitInv, Circuit!Known # {}
    PROVE  \E k \in Circuit!Known : \A j \in Circuit!Known :
               \/ entries[k].lastAt < entries[j].lastAt
               \/ entries[k].lastAt = entries[j].lastAt /\ k <= j
<1> DEFINE S == {entries[k].lastAt : k \in Circuit!Known}
<1>1. \A k \in Circuit!Known : k \in Nat /\ entries[k].lastAt \in Nat
  BY DEF CircuitBounds, CircuitInv, Circuit!Known, Entry
<1>2. PICK m \in S : \A t \in S : m <= t
  <2>1. S \in SUBSET Nat /\ S # {}
    BY <1>1
  <2> HIDE DEF S
  <2> QED BY <2>1, LeastExists
<1> DEFINE T == {k \in Circuit!Known : entries[k].lastAt = m}
<1>3. PICK k \in T : \A j \in T : k <= j
  <2>1. T \in SUBSET Nat /\ T # {}
    BY <1>1, <1>2
  <2> HIDE DEF T
  <2> QED BY <2>1, LeastExists
<1>4. k \in Circuit!Known /\ entries[k].lastAt = m
  OBVIOUS
<1>5. \A j \in Circuit!Known : m < entries[j].lastAt \/ (m = entries[j].lastAt /\ k <= j)
  <2> SUFFICES ASSUME NEW j \in Circuit!Known, ~(m < entries[j].lastAt)
               PROVE  m = entries[j].lastAt /\ k <= j
    OBVIOUS
  <2>1. entries[j].lastAt \in S /\ m <= entries[j].lastAt
    BY <1>2
  <2>2. m = entries[j].lastAt
    BY <1>1, <1>4, <2>1
  <2>3. j \in T
    BY <2>2
  <2> QED BY <1>3, <2>2, <2>3
<1> QED BY <1>4, <1>5

\* Making room takes an entry only when the store is full, then at least one,
\* and none that is younger than one it leaves.
LEMMA EvictedOldest ==
    ASSUME CircuitBounds, CircuitInv, NEW at \in Circuit!Times
    PROVE  /\ Circuit!Evicted(at) \subseteq Circuit!Known
           /\ Cardinality(Circuit!Known) < MaximumEntries => Circuit!Evicted(at) = {}
           /\ ~(Cardinality(Circuit!Known) < MaximumEntries) => Circuit!Evicted(at) # {}
           /\ \A k \in Circuit!Evicted(at), j \in Circuit!Known \ Circuit!Evicted(at) :
                  entries[k].lastAt <= entries[j].lastAt
<1> DEFINE stale == {k \in Circuit!Known : Circuit!Stale(entries[k], at)}
           oldest == {k \in Circuit!Known : \A j \in Circuit!Known :
                         \/ entries[k].lastAt < entries[j].lastAt
                         \/ entries[k].lastAt = entries[j].lastAt /\ k <= j}
<1>1. Circuit!Evicted(at) = IF Cardinality(Circuit!Known) < MaximumEntries THEN {}
                            ELSE IF stale # {} THEN stale ELSE oldest
  BY Zenon, SameCardinality DEF Circuit!Evicted
<1>2. \A k \in Circuit!Known : entries[k].lastAt \in Nat
  BY DEF CircuitInv, Circuit!Known, Entry, CircuitBounds
<1>3. \A k \in stale, j \in Circuit!Known \ stale : entries[k].lastAt <= entries[j].lastAt
  BY <1>2 DEF Circuit!Stale, Circuit!Times, CircuitBounds
<1>4. \A k \in oldest, j \in Circuit!Known : entries[k].lastAt <= entries[j].lastAt
  BY <1>2
<1>5. ~(Cardinality(Circuit!Known) < MaximumEntries) => oldest # {}
  <2> SUFFICES ASSUME ~(Cardinality(Circuit!Known) < MaximumEntries) PROVE oldest # {}
    OBVIOUS
  <2>1. Circuit!Known # {}
    BY FS_EmptySet DEF CircuitBounds
  <2> QED BY <2>1, OldestExists
<1> HIDE DEF stale, oldest
<1>6. stale \subseteq Circuit!Known /\ oldest \subseteq Circuit!Known
  BY DEF stale, oldest
<1> QED BY <1>1, <1>3, <1>4, <1>5, <1>6

\* One observation: the counted entry follows its log, what is evicted starts
\* anew, and the store stays within its bound.
LEMMA RecordSafe ==
    ASSUME CircuitBounds, CircuitInv, NEW k \in Routes, NEW at \in Circuit!Times,
           NEW failure \in BOOLEAN, Circuit!Record(k, at, failure)
    PROVE  CircuitInv' /\ Circuit!EvictsOldest /\ Circuit!LatestWins
<1> DEFINE gone == IF k \in Circuit!Known THEN {} ELSE Circuit!Evicted(at)
           counted == Circuit!Counted(Circuit!Fresh(entries[k], at), failure, at)
           longer == <<[at |-> at, failure |-> failure]>> \o outcomes[k]
           new == {j \in Routes : entries'[j].lastAt # 0}
<1>1. /\ entries' = [j \in Routes |-> CASE j = k -> counted [] j \in gone -> Circuit!NoEntry
                                        [] OTHER -> entries[j]]
      /\ outcomes' = [j \in Routes |-> CASE j = k -> longer [] j \in gone -> <<>>
                                         [] OTHER -> outcomes[j]]
      /\ at >= entries[k].lastAt
  BY DEF Circuit!Record, Circuit!InOrder
<1>2. /\ entries[k] \in Entry /\ outcomes[k] \in Seq(Outcome) /\ Follows(entries[k], outcomes[k])
      /\ at \in Nat /\ at > 0
  BY DEF CircuitInv, Circuit!Times, CircuitBounds
<1>3. counted \in Entry /\ counted.lastAt = at /\ Follows(counted, longer)
  BY <1>1, <1>2, CountFollows
<1>4. longer \in Seq(Outcome)
  <2>1. [at |-> at, failure |-> failure] \in Outcome
    BY DEF Outcome
  <2> QED BY <1>2, <2>1, Prepended
<1>5. /\ k \notin gone /\ gone \subseteq Circuit!Known
      /\ gone = {} \/ (gone = Circuit!Evicted(at) /\ k \notin Circuit!Known)
      /\ Circuit!Known \subseteq Routes
  BY EvictedOldest DEF Circuit!Known
<1> HIDE DEF gone, counted, longer
<1>6. \A j \in Routes :
         /\ j = k => entries'[j] = counted /\ outcomes'[j] = longer
         /\ j \in gone => entries'[j] = Circuit!NoEntry /\ outcomes'[j] = <<>>
         /\ j # k /\ j \notin gone => entries'[j] = entries[j] /\ outcomes'[j] = outcomes[j]
  BY <1>1, <1>5
<1>7. /\ Circuit!NoEntry \in Entry /\ Circuit!NoEntry.lastAt = 0
      /\ Follows(Circuit!NoEntry, <<>>) /\ <<>> \in Seq(Outcome)
  BY DEF CircuitBounds, Circuit!NoEntry, Follows, Entry
<1>8. ASSUME NEW j \in Routes
      PROVE  /\ entries'[j] \in Entry /\ outcomes'[j] \in Seq(Outcome)
             /\ Follows(entries'[j], outcomes'[j])
  <2>1. entries[j] \in Entry /\ outcomes[j] \in Seq(Outcome) /\ Follows(entries[j], outcomes[j])
    BY DEF CircuitInv
  <2>2. CASE j = k
    BY <1>3, <1>4, <1>6, <2>2
  <2>3. CASE j \in gone
    BY <1>6, <1>7, <2>3
  <2>4. CASE j # k /\ j \notin gone
    BY <1>6, <2>1, <2>4
  <2> QED BY <2>2, <2>3, <2>4
<1>9. entries' \in [Routes -> Entry] /\ outcomes' \in [Routes -> Seq(Outcome)]
  BY <1>1, <1>8
<1>10. new = (Circuit!Known \ gone) \cup {k}
  <2>1. \A j \in Routes : j \in Circuit!Known <=> entries[j].lastAt # 0
    BY DEF Circuit!Known
  <2>2. \A j \in Routes : entries'[j].lastAt # 0 <=> j = k \/ (j \in Circuit!Known /\ j \notin gone)
    BY <1>2, <1>3, <1>5, <1>6, <1>7, <2>1
  <2> QED BY <1>5, <2>2
<1>11. /\ IsFiniteSet(Circuit!Known) /\ Cardinality(Circuit!Known) \in Nat
       /\ Cardinality(Circuit!Known) <= MaximumEntries
  BY <1>5, FS_Subset, FS_CardinalityType DEF CircuitBounds, CircuitInv
<1>12. /\ IsFiniteSet(Circuit!Known \ gone) /\ Cardinality(Circuit!Known \ gone) \in Nat
       /\ Cardinality(Circuit!Known \ gone) <= Cardinality(Circuit!Known)
       /\ gone # {} => Cardinality(Circuit!Known \ gone) < Cardinality(Circuit!Known)
  <2>1. Circuit!Known \ gone \subseteq Circuit!Known
    OBVIOUS
  <2>2. gone # {} => Circuit!Known \ gone # Circuit!Known
    BY <1>5
  <2>3. IsFiniteSet(Circuit!Known \ gone)
    BY <1>11, <2>1, FS_Subset
  <2> QED BY <1>11, <2>1, <2>2, <2>3, FS_Subset, FS_CardinalityType
<1>13. Cardinality(new) <= MaximumEntries
  <2>1. CASE k \in Circuit!Known
    <3>1. new = Circuit!Known
      BY <1>5, <1>10, <2>1
    <3> QED BY <1>11, <3>1
  <2>2. CASE k \notin Circuit!Known
    <3>1. gone = Circuit!Evicted(at)
      BY <2>2 DEF gone
    <3>2. Cardinality(Circuit!Known \ gone) < MaximumEntries
      BY <1>11, <1>12, <3>1, EvictedOldest DEF CircuitBounds
    <3>3. Cardinality((Circuit!Known \ gone) \cup {k}) = Cardinality(Circuit!Known \ gone) + 1
      BY <1>12, <2>2, FS_AddElement
    <3>4. Cardinality((Circuit!Known \ gone) \cup {k}) <= MaximumEntries
      BY <1>12, <3>2, <3>3 DEF CircuitBounds
    <3> HIDE DEF new
    <3> QED BY <1>10, <3>4
  <2> QED BY <2>1, <2>2
<1>14. CircuitInv'
  <2>1. Circuit!Known' = new
    BY DEF Circuit!Known
  <2> QED BY <1>8, <1>9, <1>13, <2>1 DEF CircuitInv
<1>15. Circuit!EvictsOldest
  <2>1. Circuit!Known \ new \subseteq gone
    BY <1>10
  <2>2. \A i \in Circuit!Known \ new, j \in Circuit!Known \cap new :
            entries[i].lastAt <= entries[j].lastAt
    <3>1. \A j \in Circuit!Known \cap new : j \notin gone
      BY <1>5, <1>10
    <3> QED BY <1>5, <2>1, <3>1, EvictedOldest
  <2>3. Circuit!Known \ new # {} => Cardinality(Circuit!Known) = MaximumEntries
    <3> SUFFICES ASSUME Circuit!Known \ new # {}
                 PROVE  Cardinality(Circuit!Known) = MaximumEntries
      OBVIOUS
    <3>1. gone # {} /\ gone = Circuit!Evicted(at)
      BY <1>5, <2>1
    <3>2. ~(Cardinality(Circuit!Known) < MaximumEntries)
      BY <3>1, EvictedOldest
    <3> QED BY <1>11, <3>2 DEF CircuitBounds
  <2>4. Circuit!EvictsOldest <=>
            /\ Cardinality(new) <= MaximumEntries
            /\ \A i \in Circuit!Known \ new :
                  /\ Cardinality(Circuit!Known) = MaximumEntries
                  /\ \A j \in Circuit!Known \cap new : entries[i].lastAt <= entries[j].lastAt
    BY Zenon, SameCardinality DEF Circuit!EvictsOldest
  <2> HIDE DEF new
  <2> QED BY <1>13, <2>2, <2>3, <2>4
<1>16. Circuit!LatestWins
  <2> SUFFICES ASSUME NEW j \in Routes, entries'[j].lastAt # 0
               PROVE  entries'[j].lastAt >= entries[j].lastAt
    BY DEF Circuit!LatestWins
  <2>1. entries[j].lastAt \in Nat
    BY DEF CircuitInv, Entry, CircuitBounds
  <2> QED BY <1>1, <1>3, <1>6, <1>7, <2>1
<1> QED BY <1>14, <1>15, <1>16

LEMMA CircuitInvariant ==
    ASSUME CircuitBounds
    PROVE  Circuit!Spec => /\ []CircuitInv
                           /\ [][Circuit!EvictsOldest /\ Circuit!LatestWins]_(Circuit!vars)
<1>1. ASSUME CircuitInv, [Circuit!Next]_(Circuit!vars)
      PROVE  CircuitInv' /\ [Circuit!EvictsOldest /\ Circuit!LatestWins]_(Circuit!vars)
  <2>1. CASE UNCHANGED Circuit!vars
    BY <1>1, <2>1 DEF Circuit!vars, CircuitInv, Circuit!Known
  <2>2. CASE Circuit!Next
    BY <1>1, <2>2, RecordSafe DEF Circuit!Next
  <2> QED BY <1>1, <2>1, <2>2
<1>2. Circuit!Init => CircuitInv
  BY CircuitInvInit
<1> QED BY <1>1, <1>2, PTL DEF Circuit!Spec

\* Whether the circuit of a route is open or closed is decided by the latest
\* outcomes alone: it is not closed exactly if the last FailureThreshold of
\* them failed with no gap of StaleAfter between two, for any number of
\* routes, any threshold and however late observations arrive
\* (policy/circuit_observation.go, stateAt).
THEOREM StateFollows ==
    ASSUME CircuitBounds
    PROVE  Circuit!Spec => []Circuit!StateFollowsOutcomes
<1>1. ASSUME CircuitInv PROVE Circuit!StateFollowsOutcomes
  <2> SUFFICES ASSUME NEW k \in Circuit!Known, NEW at \in Circuit!Times,
                      Circuit!State(k, at) \in {"open", "half_open", "closed"}
               PROVE  (Circuit!State(k, at) # "closed") =
                          (/\ Len(outcomes[k]) >= FailureThreshold
                           /\ \A i \in 1..FailureThreshold : outcomes[k][i].failure
                           /\ \A i \in 1..(FailureThreshold - 1) :
                                outcomes[k][i].at < outcomes[k][i + 1].at + StaleAfter)
    BY DEF Circuit!StateFollowsOutcomes
  <2> DEFINE n == entries[k].failures
             l == outcomes[k]
  <2>1. k \in Routes
    BY DEF Circuit!Known
  <2>2. Follows(entries[k], l) /\ l \in Seq(Outcome) /\ n \in Nat /\ n <= FailureThreshold
    BY <1>1, <2>1 DEF CircuitInv, Entry, CircuitBounds
  <2>3. Len(l) \in Nat /\ \A i \in 1..Len(l) : l[i].at \in Nat
    <3>1. Len(l) \in Nat /\ \A i \in 1..Len(l) : l[i] \in Outcome
      BY <2>2
    <3>2. \A x \in Outcome : x.at \in Nat
      BY DEF Outcome, Circuit!Times, CircuitBounds
    <3> QED BY <3>1, <3>2
  <2>4. Circuit!State(k, at) # "closed" <=> n >= FailureThreshold
    BY <2>2 DEF Circuit!State, CircuitBounds
  <2> HIDE DEF n, l
  <2>5. /\ n <= Len(l)
        /\ \A i \in 1..n : l[i].failure
        /\ \A i \in 1..(n - 1) : l[i].at < l[i + 1].at + StaleAfter
        /\ n < FailureThreshold => \/ n = Len(l)
                                   \/ ~l[n + 1].failure
                                   \/ n > 0 /\ l[n].at >= l[n + 1].at + StaleAfter
    BY <2>2 DEF Follows, n
  <2>6. n >= FailureThreshold <=>
            (/\ Len(l) >= FailureThreshold
             /\ \A i \in 1..FailureThreshold : l[i].failure
             /\ \A i \in 1..(FailureThreshold - 1) : l[i].at < l[i + 1].at + StaleAfter)
    <3>1. CASE n >= FailureThreshold
      <4>1. n = FailureThreshold
        BY <2>2, <3>1 DEF CircuitBounds
      <4>2. /\ Len(l) >= FailureThreshold
            /\ \A i \in 1..FailureThreshold : l[i].failure
            /\ \A i \in 1..(FailureThreshold - 1) : l[i].at < l[i + 1].at + StaleAfter
        BY <2>3, <2>5, <4>1 DEF CircuitBounds
      <4> QED BY <3>1, <4>2
    <3>2. CASE n < FailureThreshold
      <4>1. CASE n = Len(l)
        BY <2>3, <3>2, <4>1 DEF CircuitBounds
      <4>2. CASE ~l[n + 1].failure
        BY <2>2, <3>2, <4>2 DEF CircuitBounds
      <4>3. CASE n > 0 /\ n # Len(l) /\ l[n].at >= l[n + 1].at + StaleAfter
        <5>1. n \in 1..Len(l) /\ n + 1 \in 1..Len(l) /\ n \in 1..(FailureThreshold - 1)
          BY <2>2, <2>3, <2>5, <3>2, <4>3 DEF CircuitBounds
        <5>2. ~(l[n].at < l[n + 1].at + StaleAfter)
          BY <2>3, <4>3, <5>1 DEF CircuitBounds
        <5>3. ~(n >= FailureThreshold)
          BY <2>2, <3>2 DEF CircuitBounds
        <5> QED BY <5>1, <5>2, <5>3
      <4> QED BY <2>5, <3>2, <4>1, <4>2, <4>3
    <3>3. n >= FailureThreshold \/ n < FailureThreshold
      BY <2>2 DEF CircuitBounds
    <3> QED BY <3>1, <3>2, <3>3
  <2> QED BY <2>4, <2>6 DEF l
<1> QED BY <1>1, CircuitInvariant, PTL

\* The store stays within its bound and evicts an entry only when it is full,
\* never while an older one stays; and no observation that arrives late takes
\* an entry back (makeRoom and Record, policy/circuit_observation.go).
THEOREM LatestOutcomesKept ==
    ASSUME CircuitBounds
    PROVE  Circuit!Spec => [][Circuit!EvictsOldest /\ Circuit!LatestWins]_(Circuit!vars)
BY CircuitInvariant, PTL

-----------------------------------------------------------------------------
(* The targets that attempts are sent to, leased from a bounded cache.      *)

CONSTANTS Requests, Upstreams, PoolCapacity, MaxBuilds
VARIABLES target, cached, lru, shut, lease, closing, calls

Pool == INSTANCE TargetCache WITH
    Keys <- Upstreams, Capacity <- PoolCapacity, entry <- target, entries <- cached, closed <- shut

PoolBounds ==
    IsFiniteSet(Requests) /\ "none" \notin Upstreams /\ MaxBuilds \in Nat /\ PoolCapacity \in Nat \ {0}

Goroutines == Requests \cup {Pool!Closer}
TargetRow == [key : Upstreams \cup {"none"}, active : Nat, retired : BOOLEAN, closed : BOOLEAN]
LeaseRow == [target : Pool!Targets \cup {0}, released : BOOLEAN]

LeasedBy(t) == {r \in Requests : lease[r].target = t}

PoolTypes ==
    /\ target \in [Pool!Targets -> TargetRow]
    /\ cached \in [Upstreams -> Pool!Targets \cup {0}]
    /\ lru \in Seq(Pool!Built)
    /\ lease \in [Requests -> LeaseRow]
    /\ closing \in [Goroutines -> SUBSET Pool!Targets]
    /\ calls \in [Pool!Targets -> Nat]

\* The count of a target is the number of its leases; one that nobody built
\* is untouched.
Counts ==
    \A t \in Pool!Targets : /\ target[t].active = Cardinality(LeasedBy(t))
                            /\ target[t].key = "none" => target[t] = Pool!NoEntry

\* What the map names is not retired, and what is not retired it names.
Mapped ==
    /\ \A k \in Upstreams : cached[k] # 0 => target[cached[k]].key = k /\ ~target[cached[k]].retired
    /\ \A t \in Pool!Targets : target[t].key # "none" /\ ~target[t].retired => cached[target[t].key] = t

\* A target is marked closed exactly if it is retired and nobody leases it.
ClosedIfDue(e) == e.closed <=> e.retired /\ e.active = 0

\* What is marked one goroutine closes, once.
ClosedByOne(t) ==
    \/ ~target[t].closed /\ calls[t] = 0 /\ \A p \in Goroutines : t \notin closing[p]
    \/ /\ target[t].closed /\ calls[t] = 0
       /\ \E p \in Goroutines : t \in closing[p] /\ \A q \in Goroutines \ {p} : t \notin closing[q]
    \/ target[t].closed /\ calls[t] = 1 /\ \A p \in Goroutines : t \notin closing[p]

PoolInv ==
    /\ PoolTypes /\ Counts /\ Mapped
    /\ \A t \in Pool!Targets : ClosedIfDue(target[t]) /\ ClosedByOne(t)

LEMMA PoolInit ==
    ASSUME PoolBounds, Pool!Init PROVE PoolInv
<1>1. PoolTypes
  BY DEF Pool!Init, PoolTypes, TargetRow, LeaseRow, Goroutines, Pool!NoEntry, Pool!NoLease
<1>2. \A t \in Pool!Targets : target[t] = Pool!NoEntry /\ LeasedBy(t) = {}
  BY DEF Pool!Init, LeasedBy, Pool!NoLease, Pool!Targets, PoolBounds
<1>3. /\ Pool!NoEntry.key = "none" /\ Pool!NoEntry.active = 0 /\ ~Pool!NoEntry.retired
      /\ ~Pool!NoEntry.closed
  BY DEF Pool!NoEntry
<1>4. Counts
  BY <1>2, <1>3, FS_EmptySet DEF Counts
<1>5. Mapped
  BY <1>2, <1>3 DEF Mapped, Pool!Init
<1>6. \A t \in Pool!Targets : ClosedIfDue(target[t]) /\ ClosedByOne(t)
  BY <1>2, <1>3 DEF ClosedIfDue, ClosedByOne, Pool!Init, Goroutines
<1> QED BY <1>1, <1>4, <1>5, <1>6 DEF PoolInv

\* Under the mutex everything that must be closed is marked and handed to the
\* one goroutine that holds it.
LEMMA MarkSafe ==
    ASSUME PoolInv, NEW p \in Goroutines, NEW changed \in [Pool!Targets -> TargetRow],
           Pool!Mark(p, changed), calls' = calls,
           \A t \in Pool!Targets : /\ changed[t].closed = target[t].closed
                                   /\ changed[t].closed => changed[t].retired /\ changed[t].active = 0
    PROVE  /\ target' \in [Pool!Targets -> TargetRow]
           /\ closing' \in [Goroutines -> SUBSET Pool!Targets]
           /\ \A t \in Pool!Targets :
                 /\ target'[t].key = changed[t].key /\ target'[t].active = changed[t].active
                 /\ target'[t].retired = changed[t].retired
                 /\ ClosedIfDue(target'[t]) /\ ClosedByOne(t)'
                 /\ ~Pool!MustClose(changed[t]) => target'[t] = changed[t]
<1> DEFINE due == {t \in Pool!Targets : Pool!MustClose(changed[t])}
<1>1. /\ target' = [t \in Pool!Targets |-> [changed[t] EXCEPT !.closed = @ \/ t \in due]]
      /\ closing' = [closing EXCEPT ![p] = @ \cup due]
  BY Zenon DEF Pool!Mark
<1>2. due \subseteq Pool!Targets
  OBVIOUS
<1>3. \A t \in Pool!Targets : t \in due <=> (changed[t].retired /\ changed[t].active = 0 /\ ~changed[t].closed)
  BY DEF Pool!MustClose
<1> HIDE DEF due
<1>4. ASSUME NEW t \in Pool!Targets
      PROVE  /\ target'[t] \in TargetRow
             /\ target'[t].key = changed[t].key /\ target'[t].active = changed[t].active
             /\ target'[t].retired = changed[t].retired
             /\ target'[t].closed = (changed[t].closed \/ t \in due)
             /\ t \notin due => target'[t] = changed[t]
  <2> DEFINE marked == changed[t].closed \/ t \in due
  <2>1. changed[t] \in TargetRow /\ target'[t] = [changed[t] EXCEPT !.closed = marked]
    BY <1>1
  <2>2. marked \in BOOLEAN /\ changed[t].closed \in BOOLEAN
    BY <2>1 DEF TargetRow
  <2>3. \A row \in TargetRow, b \in BOOLEAN :
           /\ [row EXCEPT !.closed = b] \in TargetRow
           /\ [row EXCEPT !.closed = b].key = row.key /\ [row EXCEPT !.closed = b].active = row.active
           /\ [row EXCEPT !.closed = b].retired = row.retired /\ [row EXCEPT !.closed = b].closed = b
           /\ b = row.closed => [row EXCEPT !.closed = b] = row
    BY DEF TargetRow
  <2>4. t \notin due => marked = changed[t].closed
    BY <2>2
  <2>5. target'[t].closed = marked
    <3> HIDE DEF marked
    <3> QED BY <2>1, <2>2, <2>3
  <2>6. /\ target'[t] \in TargetRow
        /\ target'[t].key = changed[t].key /\ target'[t].active = changed[t].active
        /\ target'[t].retired = changed[t].retired
        /\ t \notin due => target'[t] = changed[t]
    <3> HIDE DEF marked
    <3> QED BY <2>1, <2>2, <2>3, <2>4
  <2> QED BY <2>5, <2>6
<1>5. target' \in [Pool!Targets -> TargetRow]
  BY <1>1, <1>4
<1>6. closing' \in [Goroutines -> SUBSET Pool!Targets]
  BY <1>1, <1>2 DEF PoolInv, PoolTypes
<1>7. /\ \A q \in Goroutines \ {p} : closing'[q] = closing[q]
      /\ closing'[p] = closing[p] \cup due
  BY <1>1 DEF PoolInv, PoolTypes
<1>8. ASSUME NEW t \in Pool!Targets
      PROVE  ClosedIfDue(target'[t]) /\ ClosedByOne(t)'
  <2>1. changed[t] \in TargetRow /\ changed[t].closed = target[t].closed /\ ClosedByOne(t)
    BY DEF PoolInv
  <2>2. changed[t].closed => changed[t].retired /\ changed[t].active = 0
    OBVIOUS
  <2>3. ClosedIfDue(target'[t])
    BY <1>3, <1>4, <2>2 DEF ClosedIfDue
  <2>4. CASE t \in due
    <3>1. ~target[t].closed /\ target'[t].closed
      BY <1>3, <1>4, <2>1, <2>4
    <3>2. calls[t] = 0 /\ \A q \in Goroutines : t \notin closing[q]
      BY <2>1, <3>1 DEF ClosedByOne
    <3>3. calls'[t] = 0 /\ t \in closing'[p] /\ \A q \in Goroutines \ {p} : t \notin closing'[q]
      BY <1>7, <2>4, <3>2
    <3> QED BY <2>3, <3>1, <3>3 DEF ClosedByOne
  <2>5. CASE t \notin due
    <3>1. target'[t].closed = target[t].closed
      BY <1>4, <2>1, <2>5
    <3>2. \A q \in Goroutines : t \in closing'[q] <=> t \in closing[q]
      BY <1>7, <2>5
    <3> QED BY <2>1, <2>3, <3>1, <3>2 DEF ClosedByOne
  <2> QED BY <2>4, <2>5
<1> QED BY <1>3, <1>4, <1>5, <1>6, <1>8 DEF Pool!MustClose

LEMMA ListKeeps ==
    ASSUME NEW B, lru \in Seq(B), NEW i \in 1..Len(lru)
    PROVE  Pool!Removed(i) \in Seq(B) /\ Pool!MovedToFront(i) \in Seq(B)
<1>1. SubSeq(lru, 1, i - 1) \in Seq(B) /\ SubSeq(lru, i + 1, Len(lru)) \in Seq(B) /\ lru[i] \in B
  BY SubSeqProperties
<1>2. Pool!Removed(i) \in Seq(B)
  BY <1>1, ConcatProperties DEF Pool!Removed
<1>3. <<lru[i]>> \in Seq(B)
  BY <1>1
<1> QED BY <1>2, <1>3, ConcatProperties DEF Pool!MovedToFront

\* Leases and their counts.
LEMMA LeasesFinite ==
    ASSUME PoolBounds, NEW S \in SUBSET Requests
    PROVE  IsFiniteSet(S) /\ Cardinality(S) \in Nat
BY FS_Subset, FS_CardinalityType DEF PoolBounds

LEMMA PositiveTargets ==
    ASSUME PoolBounds PROVE 0 \notin Pool!Targets /\ Pool!Targets \subseteq Nat
BY DEF PoolBounds, Pool!Targets

LEMMA AcquireCachedSafe ==
    ASSUME PoolBounds, PoolInv, NEW r \in Requests, NEW k \in Upstreams, Pool!AcquireCached(r, k)
    PROVE  PoolInv'
<1> DEFINE t == cached[k]
           row == [target[t] EXCEPT !.active = target[t].active + 1]
<1>1. /\ t # 0 /\ lease[r] = Pool!NoLease /\ UNCHANGED <<cached, shut, closing, calls>>
      /\ target' = [target EXCEPT ![t] = row]
      /\ lease' = [lease EXCEPT ![r] = [target |-> t, released |-> FALSE]]
      /\ \E i \in DOMAIN lru : lru' = Pool!MovedToFront(i)
  BY DEF Pool!AcquireCached, Pool!Leased
<1>2. t \in Pool!Targets /\ target[t] \in TargetRow /\ target[t].key = k /\ ~target[t].retired
  BY <1>1 DEF PoolInv, PoolTypes, Mapped
<1>3. /\ row \in TargetRow /\ row.key = k /\ ~row.retired /\ row.closed = target[t].closed
      /\ row.active = target[t].active + 1
  BY <1>2 DEF TargetRow
<1>4. /\ target' \in [Pool!Targets -> TargetRow] /\ target'[t] = row
      /\ \A x \in Pool!Targets \ {t} : target'[x] = target[x]
  <2> HIDE DEF row, t
  <2> QED BY <1>1, <1>2, <1>3 DEF PoolInv, PoolTypes
<1>5. /\ lease' \in [Requests -> LeaseRow] /\ lease'[r].target = t /\ lease[r].target = 0
      /\ \A q \in Requests \ {r} : lease'[q] = lease[q]
  <2>1. [target |-> t, released |-> FALSE] \in LeaseRow /\ Pool!NoLease.target = 0
    BY <1>2 DEF LeaseRow, Pool!NoLease
  <2> HIDE DEF t
  <2> QED BY <1>1, <2>1 DEF PoolInv, PoolTypes
<1> HIDE DEF row, t
<1>6. ~target[t].closed
  BY <1>2 DEF PoolInv, ClosedIfDue
<1>7. /\ LeasedBy(t)' = LeasedBy(t) \cup {r} /\ r \notin LeasedBy(t)
      /\ \A x \in Pool!Targets \ {t} : LeasedBy(x)' = LeasedBy(x)
  <2>1. t' = t /\ t # 0 /\ 0 \notin Pool!Targets
    BY <1>1, PositiveTargets DEF t
  <2>2. r \notin LeasedBy(t)
    BY <1>5, <2>1 DEF LeasedBy
  <2>3. \A q \in Requests : lease'[q].target = t <=> lease[q].target = t \/ q = r
    BY <1>5, <2>1
  <2>4. LeasedBy(t)' = LeasedBy(t) \cup {r}
    BY <2>1, <2>3 DEF LeasedBy
  <2>5. ASSUME NEW x \in Pool!Targets \ {t} PROVE LeasedBy(x)' = LeasedBy(x)
    <3>1. \A q \in Requests : lease'[q].target = x <=> lease[q].target = x
      BY <1>5, <2>1
    <3> QED BY <3>1 DEF LeasedBy
  <2> QED BY <2>2, <2>4, <2>5
<1>8. Cardinality(LeasedBy(t)') = Cardinality(LeasedBy(t)) + 1
  <2>1. IsFiniteSet(LeasedBy(t))
    BY LeasesFinite DEF LeasedBy
  <2> QED BY <1>7, <2>1, FS_AddElement
<1>9. Counts'
  <2>1. target'[t].active = Cardinality(LeasedBy(t)') /\ target'[t].key # "none"
    BY <1>2, <1>3, <1>4, <1>8 DEF PoolInv, Counts, PoolBounds
  <2>2. \A x \in Pool!Targets \ {t} : /\ target'[x].active = Cardinality(LeasedBy(x)')
                                      /\ target'[x].key = "none" => target'[x] = Pool!NoEntry
    BY <1>4, <1>7 DEF PoolInv, Counts
  <2>3. \A x \in Pool!Targets : /\ target'[x].active = Cardinality(LeasedBy(x)')
                                /\ target'[x].key = "none" => target'[x] = Pool!NoEntry
    <3>1. TAKE x \in Pool!Targets
    <3>2. CASE x = t
      <4>1. LeasedBy(x)' = LeasedBy(t)'
        BY <1>1, <3>2 DEF LeasedBy, t
      <4> QED BY <2>1, <3>2, <4>1
    <3>3. CASE x # t
      BY <2>2, <3>3
    <3> QED BY <3>2, <3>3
  <2> QED BY <2>3 DEF Counts
<1>10. \A x \in Pool!Targets : /\ target'[x].key = target[x].key
                               /\ target'[x].retired = target[x].retired
                               /\ target'[x].closed = target[x].closed
  BY <1>2, <1>3, <1>4 DEF TargetRow
<1>11. Mapped'
  <2>1. \A j \in Upstreams : cached[j] # 0 => cached[j] \in Pool!Targets
    BY DEF PoolInv, PoolTypes
  <2> QED BY <1>1, <1>10, <2>1 DEF PoolInv, Mapped
<1>12. \A x \in Pool!Targets : ClosedIfDue(target'[x]) /\ ClosedByOne(x)'
  <2>1. ClosedIfDue(target'[t])
    BY <1>3, <1>4, <1>6 DEF ClosedIfDue
  <2>2. \A x \in Pool!Targets \ {t} : ClosedIfDue(target'[x])
    BY <1>4 DEF PoolInv
  <2>3. \A x \in Pool!Targets : ClosedByOne(x)'
    BY <1>1, <1>10 DEF PoolInv, ClosedByOne
  <2> QED BY <2>1, <2>2, <2>3
<1>13. PoolTypes'
  <2>1. Pool!Built' = Pool!Built
    BY <1>10 DEF Pool!Built
  <2>2. lru' \in Seq(Pool!Built)
    BY <1>1, ListKeeps DEF PoolInv, PoolTypes
  <2> QED BY <1>1, <1>4, <1>5, <2>1, <2>2 DEF PoolInv, PoolTypes
<1> QED BY <1>9, <1>11, <1>12, <1>13 DEF PoolInv

LEMMA AcquireBuiltSafe ==
    ASSUME PoolBounds, PoolInv, NEW r \in Requests, NEW k \in Upstreams, Pool!AcquireBuilt(r, k)
    PROVE  PoolInv'
<1> DEFINE gone == Pool!Retired
           fresh == [Pool!NoEntry EXCEPT !.key = k, !.active = 1]
<1>1. PICK t \in Pool!Targets \ Pool!Built :
         /\ Pool!Mark(r, [x \in Pool!Targets |->
                IF x = t THEN fresh
                ELSE IF x \in gone THEN [target[x] EXCEPT !.retired = TRUE] ELSE target[x]])
         /\ cached' = [j \in Upstreams |-> IF j = k THEN t ELSE IF cached[j] \in gone THEN 0 ELSE cached[j]]
         /\ lru' = <<t>> \o IF gone = {} THEN lru ELSE Pool!Removed(Len(lru))
         /\ lease' = [lease EXCEPT ![r] = [target |-> t, released |-> FALSE]]
         /\ lease[r] = Pool!NoLease /\ cached[k] = 0 /\ UNCHANGED <<shut, calls>>
  BY DEF Pool!AcquireBuilt
<1>2. fresh \in TargetRow /\ fresh.key = k /\ fresh.active = 1 /\ ~fresh.retired /\ ~fresh.closed
  BY DEF TargetRow, Pool!NoEntry
<1>3. target[t].key = "none" /\ target[t] = Pool!NoEntry /\ ~target[t].closed /\ ~target[t].retired
      /\ target[t].active = 0
  <2>1. target[t].key = "none" /\ target[t] = Pool!NoEntry
    BY <1>1 DEF Pool!Built, PoolInv, Counts
  <2> QED BY <2>1 DEF Pool!NoEntry
<1>4. gone \subseteq Pool!Built /\ (gone # {} => lru # <<>>)
  <2>1. lru # <<>> => lru[Len(lru)] \in Pool!Built
    BY DEF PoolInv, PoolTypes
  <2> QED BY <2>1 DEF Pool!Retired
<1> DEFINE changed == [x \in Pool!Targets |->
                IF x = t THEN fresh
                ELSE IF x \in gone THEN [target[x] EXCEPT !.retired = TRUE] ELSE target[x]]
<1> HIDE DEF gone, fresh
<1>5. /\ changed[t] = fresh
      /\ \A x \in Pool!Targets \ {t} :
            /\ changed[x] \in TargetRow
            /\ changed[x].key = target[x].key /\ changed[x].active = target[x].active
            /\ changed[x].closed = target[x].closed
            /\ changed[x].retired <=> (target[x].retired \/ x \in gone)
            /\ x \notin gone => changed[x] = target[x]
  <2>1. changed[t] = fresh
    BY <1>1
  <2>2. \A old \in TargetRow :
           /\ [old EXCEPT !.retired = TRUE] \in TargetRow
           /\ [old EXCEPT !.retired = TRUE].key = old.key
           /\ [old EXCEPT !.retired = TRUE].active = old.active
           /\ [old EXCEPT !.retired = TRUE].closed = old.closed
           /\ [old EXCEPT !.retired = TRUE].retired
    BY DEF TargetRow
  <2>3. \A x \in Pool!Targets : target[x] \in TargetRow
    BY DEF PoolInv, PoolTypes
  <2>4. \A x \in Pool!Targets \ {t} :
           changed[x] = IF x \in gone THEN [target[x] EXCEPT !.retired = TRUE] ELSE target[x]
    OBVIOUS
  <2> HIDE DEF changed
  <2> QED BY <2>1, <2>2, <2>3, <2>4
<1>6. changed \in [Pool!Targets -> TargetRow] /\ Pool!Mark(r, changed)
  <2>1. Pool!Mark(r, changed)
    BY <1>1
  <2>2. changed = [x \in Pool!Targets |-> changed[x]]
    OBVIOUS
  <2> HIDE DEF changed
  <2> QED BY <1>2, <1>5, <2>1, <2>2
<1> HIDE DEF changed
<1>7. \A x \in Pool!Targets : /\ changed[x].closed = target[x].closed
                              /\ changed[x].closed => changed[x].retired /\ changed[x].active = 0
  <2>1. changed[t].closed = target[t].closed /\ ~changed[t].closed
    <3>1. changed[t] = fresh /\ fresh \in TargetRow /\ ~fresh.closed /\ target[t] \in TargetRow
      BY <1>1, <1>2, <1>5 DEF PoolInv, PoolTypes
    <3>2. fresh.closed = FALSE /\ target[t].closed = FALSE
      BY <1>3, <3>1 DEF TargetRow
    <3> QED BY <3>1, <3>2
  <2>2. ASSUME NEW x \in Pool!Targets \ {t}
        PROVE  changed[x].closed => changed[x].retired /\ changed[x].active = 0
    BY <1>5 DEF PoolInv, ClosedIfDue
  <2> QED BY <1>5, <2>1, <2>2
<1>8. r \in Goroutines /\ calls' = calls
  BY <1>1 DEF Goroutines
<1>9. /\ target' \in [Pool!Targets -> TargetRow]
      /\ closing' \in [Goroutines -> SUBSET Pool!Targets]
      /\ \A x \in Pool!Targets :
            /\ target'[x].key = changed[x].key /\ target'[x].active = changed[x].active
            /\ target'[x].retired = changed[x].retired
            /\ ClosedIfDue(target'[x]) /\ ClosedByOne(x)'
            /\ ~Pool!MustClose(changed[x]) => target'[x] = changed[x]
  BY <1>6, <1>7, <1>8, MarkSafe
<1>10. /\ lease' \in [Requests -> LeaseRow] /\ lease'[r].target = t /\ lease[r].target = 0
       /\ \A q \in Requests \ {r} : lease'[q] = lease[q]
  <2>1. [target |-> t, released |-> FALSE] \in LeaseRow /\ Pool!NoLease.target = 0
    BY <1>1 DEF LeaseRow, Pool!NoLease
  <2> QED BY <1>1, <2>1 DEF PoolInv, PoolTypes
<1>11. LeasedBy(t)' = {r} /\ \A x \in Pool!Targets \ {t} : LeasedBy(x)' = LeasedBy(x)
  <2>1. LeasedBy(t) = {}
    <3>1. IsFiniteSet(LeasedBy(t)) /\ Cardinality(LeasedBy(t)) = 0
      BY <1>1, <1>3, LeasesFinite DEF PoolInv, Counts, LeasedBy
    <3> QED BY <3>1, FS_EmptySet
  <2> QED BY <1>1, <1>10, <2>1, PositiveTargets DEF LeasedBy
<1>12. Counts'
  <2>1. target'[t].active = Cardinality(LeasedBy(t)') /\ target'[t].key # "none"
    <3>1. Cardinality({r}) = 1
      BY FS_Singleton
    <3>2. Cardinality(LeasedBy(t)') = 1
      BY <1>11, <3>1
    <3>3. target'[t].active = 1 /\ target'[t].key = k /\ k # "none"
      BY <1>1, <1>2, <1>5, <1>9 DEF PoolBounds
    <3> QED BY <3>2, <3>3
  <2>2. ASSUME NEW x \in Pool!Targets \ {t}
        PROVE  /\ target'[x].active = Cardinality(LeasedBy(x)')
               /\ target'[x].key = "none" => target'[x] = Pool!NoEntry
    <3>1. target'[x].active = Cardinality(LeasedBy(x)')
      BY <1>5, <1>9, <1>11 DEF PoolInv, Counts
    <3>2. ASSUME target'[x].key = "none" PROVE target'[x] = Pool!NoEntry
      <4>1. target[x].key = "none" /\ target[x] = Pool!NoEntry
        BY <1>5, <1>9, <3>2 DEF PoolInv, Counts
      <4>2. x \notin gone
        BY <1>4, <4>1 DEF Pool!Built
      <4>3. changed[x] = Pool!NoEntry /\ ~Pool!NoEntry.retired
        BY <1>5, <4>1, <4>2 DEF Pool!NoEntry
      <4> QED BY <1>9, <4>3 DEF Pool!MustClose
    <3> QED BY <3>1, <3>2
  <2> QED BY <2>1, <2>2 DEF Counts
<1>13. Mapped'
  <2>1. /\ target'[t].key = k /\ ~target'[t].retired /\ cached'[k] = t
    BY <1>1, <1>2, <1>5, <1>9
  <2>2. ASSUME NEW j \in Upstreams, cached'[j] # 0
        PROVE  target'[cached'[j]].key = j /\ ~target'[cached'[j]].retired
    <3>1. CASE j = k
      BY <2>1, <3>1
    <3>2. CASE j # k
      <4>1. cached'[j] = cached[j] /\ cached[j] \notin gone /\ cached[j] \in Pool!Targets
        BY <1>1, <2>2, <3>2 DEF PoolInv, PoolTypes
      <4>2. target[cached[j]].key = j /\ ~target[cached[j]].retired
        BY <2>2, <4>1 DEF PoolInv, Mapped
      <4>3. cached[j] # t
        BY <1>3, <4>2 DEF PoolBounds
      <4> QED BY <1>5, <1>9, <4>1, <4>2, <4>3
    <3> QED BY <3>1, <3>2
  <2>3. ASSUME NEW x \in Pool!Targets, target'[x].key # "none", ~target'[x].retired
        PROVE  cached'[target'[x].key] = x
    <3>1. CASE x = t
      BY <2>1, <3>1
    <3>2. CASE x # t
      <4>1. target'[x].key = target[x].key /\ ~target[x].retired /\ x \notin gone
        BY <1>5, <1>9, <2>3, <3>2
      <4>2. cached[target[x].key] = x /\ target[x].key \in Upstreams
        BY <2>3, <4>1 DEF PoolInv, Mapped, PoolTypes, TargetRow
      <4>3. target[x].key # k
        BY <1>1, <4>2, PositiveTargets
      <4> QED BY <1>1, <4>1, <4>2, <4>3
    <3> QED BY <3>1, <3>2
  <2> QED BY <2>2, <2>3 DEF Mapped
<1>14. PoolTypes'
  <2>1. Pool!Built \subseteq Pool!Built' /\ t \in Pool!Built'
    <3>1. \A x \in Pool!Built : x \in Pool!Targets \ {t} /\ target[x].key # "none"
      BY <1>1 DEF Pool!Built
    <3>2. target'[t].key # "none"
      BY <1>2, <1>5, <1>9, <1>1 DEF PoolBounds
    <3> QED BY <1>1, <1>5, <1>9, <3>1, <3>2 DEF Pool!Built
  <2>2. (IF gone = {} THEN lru ELSE Pool!Removed(Len(lru))) \in Seq(Pool!Built)
    <3>1. lru \in Seq(Pool!Built)
      BY DEF PoolInv, PoolTypes
    <3>2. gone # {} => Len(lru) \in 1..Len(lru)
      BY <1>4, <3>1
    <3> QED BY <3>1, <3>2, ListKeeps
  <2>3. \A s \in Seq(Pool!Built) : <<t>> \o s \in Seq(Pool!Built')
    BY <2>1, ConcatProperties
  <2>4. lru' \in Seq(Pool!Built')
    BY <1>1, <2>2, <2>3
  <2>5. cached' \in [Upstreams -> Pool!Targets \cup {0}]
    BY <1>1 DEF PoolInv, PoolTypes
  <2> QED BY <1>8, <1>9, <1>10, <2>4, <2>5 DEF PoolInv, PoolTypes
<1> QED BY <1>9, <1>12, <1>13, <1>14 DEF PoolInv

LEMMA ReleaseSafe ==
    ASSUME PoolInv, NEW r \in Requests, Pool!Release(r)
    PROVE  PoolInv'
<1>1. /\ UNCHANGED <<target, cached, lru, closing, calls>>
      /\ lease' = [lease EXCEPT ![r] = [lease[r] EXCEPT !.released = TRUE]]
  BY DEF Pool!Release
<1>2. \A old \in LeaseRow : /\ [old EXCEPT !.released = TRUE] \in LeaseRow
                            /\ [old EXCEPT !.released = TRUE].target = old.target
  BY DEF LeaseRow
<1>3. lease \in [Requests -> LeaseRow]
  BY DEF PoolInv, PoolTypes
<1>4. lease' \in [Requests -> LeaseRow] /\ \A q \in Requests : lease'[q].target = lease[q].target
  BY <1>1, <1>2, <1>3
<1>5. \A t \in Pool!Targets : LeasedBy(t)' = LeasedBy(t)
  BY <1>4 DEF LeasedBy
<1>6. Counts'
  BY <1>1, <1>5 DEF PoolInv, Counts
<1>7. Mapped' /\ \A t \in Pool!Targets : ClosedIfDue(target'[t]) /\ ClosedByOne(t)'
  BY <1>1 DEF PoolInv, Mapped, ClosedByOne
<1>8. PoolTypes'
  <2>1. Pool!Built' = Pool!Built
    BY <1>1 DEF Pool!Built
  <2> QED BY <1>1, <1>4, <2>1 DEF PoolInv, PoolTypes
<1> QED BY <1>6, <1>7, <1>8 DEF PoolInv

LEMMA ReleaseEntrySafe ==
    ASSUME PoolBounds, PoolInv, NEW r \in Requests, Pool!ReleaseEntry(r)
    PROVE  PoolInv'
<1> DEFINE t == lease[r].target
           row == [target[t] EXCEPT !.active = Pool!Decremented(target[t].active)]
           changed == [target EXCEPT ![t] = row]
<1>1. /\ t # 0 /\ Pool!Mark(r, changed) /\ UNCHANGED <<cached, lru, shut, calls>>
      /\ lease' = [lease EXCEPT ![r] = Pool!NoLease]
  BY DEF Pool!ReleaseEntry
<1>2. t \in Pool!Targets /\ target[t] \in TargetRow
  BY <1>1 DEF PoolInv, PoolTypes, LeaseRow
<1>3. /\ r \in LeasedBy(t) /\ IsFiniteSet(LeasedBy(t)) /\ Cardinality(LeasedBy(t)) \in Nat
      /\ target[t].active = Cardinality(LeasedBy(t))
      /\ Cardinality(LeasedBy(t) \ {r}) = Cardinality(LeasedBy(t)) - 1
      /\ Cardinality(LeasedBy(t) \ {r}) \in Nat
  <2>1. r \in LeasedBy(t)
    BY DEF LeasedBy
  <2>2. IsFiniteSet(LeasedBy(t)) /\ Cardinality(LeasedBy(t)) \in Nat /\ Cardinality(LeasedBy(t) \ {r}) \in Nat
    BY LeasesFinite DEF LeasedBy
  <2>3. target[t].active = Cardinality(LeasedBy(t))
    BY <1>2 DEF PoolInv, Counts
  <2>4. Cardinality(LeasedBy(t) \ {r}) = Cardinality(LeasedBy(t)) - 1
    BY <2>1, <2>2, FS_RemoveElement
  <2> QED BY <2>1, <2>2, <2>3, <2>4
<1>4. target[t].active > 0 /\ Pool!Decremented(target[t].active) = target[t].active - 1
  BY <1>3 DEF Pool!Decremented
<1>5. /\ row \in TargetRow /\ row.key = target[t].key /\ row.retired = target[t].retired
      /\ row.closed = target[t].closed /\ row.active = target[t].active - 1
  BY <1>2, <1>4 DEF TargetRow
<1>6. ~target[t].closed /\ target[t].key # "none"
  <2>1. ~target[t].closed
    BY <1>2, <1>4 DEF PoolInv, ClosedIfDue
  <2>2. target[t].key # "none"
    BY <1>2, <1>4 DEF PoolInv, Counts, Pool!NoEntry
  <2> QED BY <2>1, <2>2
<1> HIDE DEF row
<1>7. /\ changed \in [Pool!Targets -> TargetRow] /\ changed[t] = row
      /\ \A x \in Pool!Targets \ {t} : changed[x] = target[x]
  <2>1. target \in [Pool!Targets -> TargetRow]
    BY DEF PoolInv, PoolTypes
  <2> HIDE DEF t
  <2> QED BY <1>2, <1>5, <2>1
<1>8. lease' \in [Requests -> LeaseRow] /\ lease'[r].target = 0
      /\ \A q \in Requests \ {r} : lease'[q] = lease[q]
  <2>1. Pool!NoLease \in LeaseRow /\ Pool!NoLease.target = 0
    BY DEF LeaseRow, Pool!NoLease
  <2> QED BY <1>1, <2>1 DEF PoolInv, PoolTypes
<1> HIDE DEF changed
<1>9. \A x \in Pool!Targets : /\ changed[x].closed = target[x].closed
                              /\ changed[x].closed => changed[x].retired /\ changed[x].active = 0
  <2>1. \A x \in Pool!Targets \ {t} : changed[x].closed => changed[x].retired /\ changed[x].active = 0
    BY <1>7 DEF PoolInv, ClosedIfDue
  <2>2. \A x \in Pool!Targets : changed[x].closed = target[x].closed
    BY <1>5, <1>7
  <2>3. ~changed[t].closed
    BY <1>5, <1>6, <1>7
  <2> QED BY <2>1, <2>2, <2>3
<1>10. r \in Goroutines /\ calls' = calls
  BY <1>1 DEF Goroutines
<1>11. /\ target' \in [Pool!Targets -> TargetRow]
       /\ closing' \in [Goroutines -> SUBSET Pool!Targets]
       /\ \A x \in Pool!Targets :
             /\ target'[x].key = changed[x].key /\ target'[x].active = changed[x].active
             /\ target'[x].retired = changed[x].retired
             /\ ClosedIfDue(target'[x]) /\ ClosedByOne(x)'
             /\ ~Pool!MustClose(changed[x]) => target'[x] = changed[x]
  BY <1>1, <1>7, <1>9, <1>10, MarkSafe
<1>12. \A x \in Pool!Targets : target'[x].key = target[x].key /\ target'[x].retired = target[x].retired
  BY <1>5, <1>7, <1>11
<1>13. Counts'
  <2>1. ASSUME NEW x \in Pool!Targets
        PROVE  /\ target'[x].active = Cardinality(LeasedBy(x)')
               /\ target'[x].key = "none" => target'[x] = Pool!NoEntry
    <3>1. CASE x = t
      <4>1. \A q \in Requests : lease'[q].target = x <=> lease[q].target = x /\ q # r
        BY <1>1, <1>8, <3>1
      <4>2. LeasedBy(x)' = LeasedBy(t) \ {r}
        BY <3>1, <4>1 DEF LeasedBy
      <4>3. target'[x].active = Cardinality(LeasedBy(t)) - 1
        BY <1>3, <1>5, <1>7, <1>11, <3>1
      <4>4. target'[x].key # "none"
        BY <1>6, <1>12, <3>1
      <4> QED BY <1>3, <4>2, <4>3, <4>4
    <3>2. CASE x # t
      <4>1. \A q \in Requests : lease'[q].target = x <=> lease[q].target = x
        BY <1>8, <3>2, PositiveTargets
      <4>2. LeasedBy(x)' = LeasedBy(x)
        BY <4>1 DEF LeasedBy
      <4>3. target'[x].active = target[x].active
        BY <1>7, <1>11, <3>2
      <4>4. ASSUME target'[x].key = "none" PROVE target'[x] = Pool!NoEntry
        <5>1. changed[x] = Pool!NoEntry /\ ~Pool!NoEntry.retired
          BY <1>7, <1>12, <3>2, <4>4 DEF PoolInv, Counts, Pool!NoEntry
        <5> QED BY <1>11, <5>1 DEF Pool!MustClose
      <4> QED BY <4>2, <4>3, <4>4 DEF PoolInv, Counts
    <3> QED BY <3>1, <3>2
  <2> QED BY <2>1 DEF Counts
<1>14. Mapped'
  <2>1. \A j \in Upstreams : cached[j] # 0 => cached[j] \in Pool!Targets
    BY DEF PoolInv, PoolTypes
  <2> QED BY <1>1, <1>12, <2>1 DEF PoolInv, Mapped
<1>15. PoolTypes'
  <2>1. Pool!Built' = Pool!Built
    BY <1>12 DEF Pool!Built
  <2> QED BY <1>1, <1>8, <1>11, <2>1 DEF PoolInv, PoolTypes
<1> QED BY <1>11, <1>13, <1>14, <1>15 DEF PoolInv

LEMMA CloseSafe ==
    ASSUME PoolBounds, PoolInv, Pool!Close PROVE PoolInv'
<1> DEFINE changed == [t \in Pool!Targets |->
              IF t \in Pool!Cached THEN [target[t] EXCEPT !.retired = TRUE] ELSE target[t]]
<1>1. /\ Pool!Mark(Pool!Closer, changed) /\ cached' = [k \in Upstreams |-> 0]
      /\ lru' = <<>> /\ UNCHANGED <<lease, calls>>
  BY DEF Pool!Close
<1>2. \A x \in Pool!Targets : target[x] \in TargetRow
  BY DEF PoolInv, PoolTypes
<1>3. \A old \in TargetRow :
         /\ [old EXCEPT !.retired = TRUE] \in TargetRow
         /\ [old EXCEPT !.retired = TRUE].key = old.key
         /\ [old EXCEPT !.retired = TRUE].active = old.active
         /\ [old EXCEPT !.retired = TRUE].closed = old.closed
         /\ [old EXCEPT !.retired = TRUE].retired
  BY DEF TargetRow
<1>4. \A x \in Pool!Targets :
         changed[x] = IF x \in Pool!Cached THEN [target[x] EXCEPT !.retired = TRUE] ELSE target[x]
  OBVIOUS
<1>5. changed = [x \in Pool!Targets |-> changed[x]]
  OBVIOUS
<1> HIDE DEF changed
<1>6. \A x \in Pool!Targets :
         /\ changed[x] \in TargetRow
         /\ changed[x].key = target[x].key /\ changed[x].active = target[x].active
         /\ changed[x].closed = target[x].closed
         /\ changed[x].retired <=> (target[x].retired \/ x \in Pool!Cached)
         /\ x \notin Pool!Cached => changed[x] = target[x]
  BY <1>2, <1>3, <1>4
<1>7. changed \in [Pool!Targets -> TargetRow]
  BY <1>5, <1>6
<1>8. \A x \in Pool!Targets : /\ changed[x].closed = target[x].closed
                              /\ changed[x].closed => changed[x].retired /\ changed[x].active = 0
  BY <1>6 DEF PoolInv, ClosedIfDue
<1>9. Pool!Closer \in Goroutines /\ calls' = calls
  BY <1>1 DEF Goroutines
<1>10. /\ target' \in [Pool!Targets -> TargetRow]
       /\ closing' \in [Goroutines -> SUBSET Pool!Targets]
       /\ \A x \in Pool!Targets :
             /\ target'[x].key = changed[x].key /\ target'[x].active = changed[x].active
             /\ target'[x].retired = changed[x].retired
             /\ ClosedIfDue(target'[x]) /\ ClosedByOne(x)'
             /\ ~Pool!MustClose(changed[x]) => target'[x] = changed[x]
  BY <1>1, <1>7, <1>8, <1>9, MarkSafe
<1>11. Counts'
  <2>1. \A x : LeasedBy(x)' = LeasedBy(x)
    BY <1>1 DEF LeasedBy
  <2>2. ASSUME NEW x \in Pool!Targets, target'[x].key = "none" PROVE target'[x] = Pool!NoEntry
    <3>1. target[x].key = "none" /\ target[x] = Pool!NoEntry
      BY <1>6, <1>10, <2>2 DEF PoolInv, Counts
    <3>2. x \notin Pool!Cached
      BY <3>1 DEF Pool!Cached, Pool!Built
    <3>3. changed[x] = Pool!NoEntry /\ ~Pool!NoEntry.retired
      BY <1>6, <3>1, <3>2 DEF Pool!NoEntry
    <3> QED BY <1>10, <3>3 DEF Pool!MustClose
  <2>3. \A x \in Pool!Targets : target'[x].active = Cardinality(LeasedBy(x)')
    BY <1>6, <1>10, <2>1 DEF PoolInv, Counts
  <2> QED BY <2>2, <2>3 DEF Counts
<1>12. Mapped'
  <2>1. ASSUME NEW x \in Pool!Targets, target'[x].key # "none" PROVE target'[x].retired
    <3>1. target[x].key # "none" /\ (target'[x].retired <=> target[x].retired \/ x \in Pool!Cached)
      BY <1>6, <1>10, <2>1
    <3>2. ~target[x].retired => x \in Pool!Cached
      BY <3>1 DEF PoolInv, Mapped, Pool!Cached, Pool!Built
    <3> QED BY <3>1, <3>2
  <2>2. \A j \in Upstreams : cached'[j] = 0
    BY <1>1
  <2> QED BY <2>1, <2>2 DEF Mapped
<1>13. PoolTypes'
  <2>1. lru' \in Seq(Pool!Built')
    BY <1>1
  <2>2. cached' \in [Upstreams -> Pool!Targets \cup {0}]
    BY <1>1
  <2> QED BY <1>1, <1>10, <2>1, <2>2 DEF PoolInv, PoolTypes
<1> QED BY <1>10, <1>11, <1>12, <1>13 DEF PoolInv

LEMMA CloseTargetSafe ==
    ASSUME PoolInv, NEW p \in Goroutines, Pool!CloseTarget(p) PROVE PoolInv'
<1>1. PICK t \in closing[p] :
         /\ closing' = [closing EXCEPT ![p] = closing[p] \ {t}]
         /\ calls' = [calls EXCEPT ![t] = calls[t] + 1]
         /\ UNCHANGED <<target, cached, lru, lease>>
  BY DEF Pool!CloseTarget
<1>2. /\ closing \in [Goroutines -> SUBSET Pool!Targets] /\ calls \in [Pool!Targets -> Nat]
      /\ t \in Pool!Targets
  BY <1>1 DEF PoolInv, PoolTypes
<1>3. /\ closing' \in [Goroutines -> SUBSET Pool!Targets] /\ calls' \in [Pool!Targets -> Nat]
      /\ \A q \in Goroutines \ {p} : closing'[q] = closing[q]
      /\ closing'[p] = closing[p] \ {t}
      /\ calls'[t] = calls[t] + 1 /\ \A x \in Pool!Targets \ {t} : calls'[x] = calls[x]
  BY <1>1, <1>2
<1>4. \A x \in Pool!Targets \ {t} : ClosedByOne(x)'
  <2>1. TAKE x \in Pool!Targets \ {t}
  <2>2. calls'[x] = calls[x] /\ target' = target /\ \A q \in Goroutines : x \in closing'[q] <=> x \in closing[q]
    BY <1>1, <1>3
  <2>3. ClosedByOne(x)
    BY DEF PoolInv
  <2> QED BY <2>2, <2>3 DEF ClosedByOne
<1>5. ClosedByOne(t)'
  <2>1. /\ target[t].closed /\ calls[t] = 0
        /\ \A q \in Goroutines \ {p} : t \notin closing[q]
    BY <1>1, <1>2 DEF PoolInv, ClosedByOne
  <2>2. target'[t].closed /\ calls'[t] = 1 /\ \A q \in Goroutines : t \notin closing'[q]
    BY <1>1, <1>3, <2>1
  <2> QED BY <2>2 DEF ClosedByOne
<1>6. \A x \in Pool!Targets : ClosedIfDue(target'[x]) /\ ClosedByOne(x)'
  <2>1. \A x \in Pool!Targets : ClosedIfDue(target'[x])
    BY <1>1 DEF PoolInv
  <2>2. ASSUME NEW x \in Pool!Targets PROVE ClosedByOne(x)'
    <3>1. CASE x = t
      BY <1>5, <3>1 DEF ClosedByOne
    <3>2. CASE x # t
      BY <1>4, <3>2
    <3> QED BY <3>1, <3>2
  <2> QED BY <2>1, <2>2
<1>7. Counts'
  <2>1. \A x : LeasedBy(x)' = LeasedBy(x)
    BY <1>1 DEF LeasedBy
  <2> QED BY <1>1, <2>1 DEF PoolInv, Counts
<1>8. Mapped'
  BY <1>1 DEF PoolInv, Mapped
<1>9. PoolTypes'
  <2>1. Pool!Built' = Pool!Built
    BY <1>1 DEF Pool!Built
  <2> QED BY <1>1, <1>3, <2>1 DEF PoolInv, PoolTypes
<1> QED BY <1>6, <1>7, <1>8, <1>9 DEF PoolInv

LEMMA PoolStep ==
    ASSUME PoolBounds, PoolInv, [Pool!Next]_(Pool!vars) PROVE PoolInv'
<1>1. ASSUME NEW r \in Requests, NEW k \in Upstreams, Pool!AcquireCached(r, k) PROVE PoolInv'
  BY <1>1, AcquireCachedSafe
<1>2. ASSUME NEW r \in Requests, NEW k \in Upstreams, Pool!AcquireBuilt(r, k) PROVE PoolInv'
  BY <1>2, AcquireBuiltSafe
<1>3. ASSUME NEW r \in Requests, Pool!Release(r) PROVE PoolInv'
  BY <1>3, ReleaseSafe
<1>4. ASSUME NEW r \in Requests, Pool!ReleaseEntry(r) PROVE PoolInv'
  BY <1>4, ReleaseEntrySafe
<1>5. CASE Pool!Close
  BY <1>5, CloseSafe
<1>6. ASSUME NEW p \in Requests \cup {Pool!Closer}, Pool!CloseTarget(p) PROVE PoolInv'
  BY <1>6, CloseTargetSafe DEF Goroutines
<1>7. CASE UNCHANGED Pool!vars
  <2>1. UNCHANGED <<target, cached, lru, lease, closing, calls>>
    BY <1>7 DEF Pool!vars
  <2>2. \A x : LeasedBy(x)' = LeasedBy(x)
    BY <2>1 DEF LeasedBy
  <2>3. Pool!Built' = Pool!Built
    BY <2>1 DEF Pool!Built
  <2>4. PoolTypes'
    BY <2>1, <2>3 DEF PoolInv, PoolTypes
  <2>5. Counts'
    BY <2>1, <2>2 DEF PoolInv, Counts
  <2>6. Mapped' /\ \A t \in Pool!Targets : ClosedIfDue(target'[t]) /\ ClosedByOne(t)'
    BY <2>1 DEF PoolInv, Mapped, ClosedByOne
  <2> QED BY <2>4, <2>5, <2>6 DEF PoolInv
<1> QED BY <1>1, <1>2, <1>3, <1>4, <1>5, <1>6, <1>7 DEF Pool!Next

\* The list has every cached target once and nothing else, and it is no longer
\* than the cache may be.
Listed ==
    /\ \A k \in Upstreams : cached[k] # 0 => \E i \in DOMAIN lru : lru[i] = cached[k]
    /\ \A i \in DOMAIN lru : cached[target[lru[i]].key] = lru[i]
    /\ \A i, j \in DOMAIN lru : lru[i] = lru[j] => i = j
    /\ Len(lru) <= PoolCapacity

\* The list without the element at position i: what came before it, then what
\* came after it.
LEMMA RemovedElements ==
    ASSUME NEW B, lru \in Seq(B), NEW i \in 1..Len(lru)
    PROVE  /\ Pool!Removed(i) \in Seq(B) /\ Len(Pool!Removed(i)) = Len(lru) - 1
           /\ \A j \in 1..(Len(lru) - 1) : Pool!Removed(i)[j] = IF j < i THEN lru[j] ELSE lru[j + 1]
<1> DEFINE before == SubSeq(lru, 1, i - 1)
           after == SubSeq(lru, i + 1, Len(lru))
           n == Len(lru)
<1>1. n \in Nat /\ i \in Nat /\ i <= n /\ i >= 1
  OBVIOUS
<1>2. \A j \in 1..n : lru[j] \in B
  OBVIOUS
<1>3. /\ before \in Seq(B) /\ Len(before) = i - 1 /\ \A j \in 1..(i - 1) : before[j] = lru[j]
  <2>1. \A j \in 1..(i - 1) : lru[j] \in B
    BY <1>1, <1>2
  <2>2. /\ before \in Seq(B) /\ Len(before) = IF 1 <= i - 1 THEN (i - 1) - 1 + 1 ELSE 0
        /\ \A j \in 1..((i - 1) - 1 + 1) : before[j] = lru[1 + j - 1]
    <3>1. i - 1 \in Int
      BY <1>1
    <3> QED BY <2>1, <3>1, SubSeqProperties
  <2> QED BY <1>1, <2>2
<1>4. /\ after \in Seq(B) /\ Len(after) = n - i /\ \A j \in 1..(n - i) : after[j] = lru[i + j]
  <2>1. \A j \in (i + 1)..n : lru[j] \in B
    BY <1>1, <1>2
  <2>2. /\ after \in Seq(B) /\ Len(after) = IF i + 1 <= n THEN n - (i + 1) + 1 ELSE 0
        /\ \A j \in 1..(n - (i + 1) + 1) : after[j] = lru[(i + 1) + j - 1]
    <3>1. i + 1 \in Int /\ n \in Int
      BY <1>1
    <3> QED BY <2>1, <3>1, SubSeqProperties
  <2> QED BY <1>1, <2>2
<1>5. Pool!Removed(i) = before \o after
  BY DEF Pool!Removed
<1> HIDE DEF before, after
<1>6. /\ before \o after \in Seq(B) /\ Len(before \o after) = Len(before) + Len(after)
      /\ \A j \in 1..(Len(before) + Len(after)) :
            (before \o after)[j] = IF j <= Len(before) THEN before[j] ELSE after[j - Len(before)]
  BY <1>3, <1>4, ConcatProperties
<1>7. Len(before) + Len(after) = n - 1
  BY <1>1, <1>3, <1>4
<1>8. ASSUME NEW j \in 1..(n - 1) PROVE (before \o after)[j] = IF j < i THEN lru[j] ELSE lru[j + 1]
  <2>1. CASE j < i
    <3>1. j \in 1..(i - 1) /\ j <= Len(before)
      BY <1>1, <1>3, <2>1
    <3> QED BY <1>3, <1>6, <1>7, <2>1, <3>1
  <2>2. CASE ~(j < i)
    <3>1. j - (i - 1) \in 1..(n - i) /\ i + (j - (i - 1)) = j + 1 /\ ~(j <= Len(before))
      BY <1>1, <1>3, <2>2
    <3>2. after[j - (i - 1)] = lru[j + 1]
      BY <1>4, <3>1
    <3> QED BY <1>3, <1>6, <1>7, <2>2, <3>1, <3>2
  <2> QED BY <2>1, <2>2
<1> QED BY <1>5, <1>6, <1>7, <1>8

\* A new element in front.
LEMMA Fronted ==
    ASSUME NEW B, NEW s \in Seq(B), NEW t \in B
    PROVE  /\ <<t>> \o s \in Seq(B) /\ Len(<<t>> \o s) = Len(s) + 1
           /\ (<<t>> \o s)[1] = t
           /\ \A j \in 2..(Len(s) + 1) : (<<t>> \o s)[j] = s[j - 1]
<1>1. <<t>> \in Seq(B) /\ Len(<<t>>) = 1 /\ <<t>>[1] = t
  OBVIOUS
<1>2. Len(s) \in Nat
  OBVIOUS
<1>3. /\ <<t>> \o s \in Seq(B) /\ Len(<<t>> \o s) = 1 + Len(s)
      /\ \A j \in 1..(1 + Len(s)) : (<<t>> \o s)[j] = IF j <= 1 THEN <<t>>[j] ELSE s[j - 1]
  BY <1>1, ConcatProperties
<1> QED BY <1>1, <1>2, <1>3

\* As many keys are mapped as the list is long.
LEMMA MappedCount ==
    ASSUME PoolInv, Listed
    PROVE  Cardinality({k \in Upstreams : cached[k] # 0}) = Len(lru)
<1> DEFINE K == {k \in Upstreams : cached[k] # 0}
           n == Len(lru)
           f == [i \in 1..n |-> target[lru[i]].key]
<1>1. lru \in Seq(Pool!Built) /\ n \in Nat /\ DOMAIN lru = 1..n
  BY DEF PoolInv, PoolTypes
<1>2. ASSUME NEW i \in 1..n PROVE /\ lru[i] \in Pool!Targets /\ target[lru[i]].key \in Upstreams
                                  /\ cached[target[lru[i]].key] = lru[i]
  BY <1>1 DEF PoolInv, PoolTypes, TargetRow, Pool!Built, Listed
<1>3. ASSUME NEW i \in 1..n PROVE lru[i] # 0 /\ f[i] \in K /\ cached[f[i]] = lru[i]
  <2>1. lru[i] # 0
    BY <1>2 DEF Pool!Targets
  <2> QED BY <1>2, <2>1
<1>4. \A k \in K : \E i \in 1..n : f[i] = k
  <2>1. TAKE k \in K
  <2>2. PICK i \in 1..n : lru[i] = cached[k]
    BY <1>1 DEF Listed
  <2>3. target[cached[k]].key = k
    BY DEF PoolInv, Mapped
  <2> QED BY <2>2, <2>3
<1>5. \A i, j \in 1..n : f[i] = f[j] => i = j
  BY <1>1, <1>3 DEF Listed
<1>6. f \in [1..n -> K]
  BY <1>3
<1> HIDE DEF f, K
<1>7. f \in Bijection(1..n, K)
  BY <1>4, <1>5, <1>6 DEF Bijection, Injection, Surjection, IsInjective
<1>8. ExistsBijection(1..n, K)
  BY <1>7 DEF ExistsBijection
<1> QED BY <1>1, <1>8, FS_CountingElements DEF K

LEMMA ListInit ==
    ASSUME PoolBounds, Pool!Init PROVE Listed
BY DEF Pool!Init, Listed, PoolBounds

LEMMA ListCached ==
    ASSUME PoolInv, PoolInv', Listed, NEW r \in Requests, NEW k \in Upstreams, Pool!AcquireCached(r, k)
    PROVE  Listed'
<1> DEFINE t == cached[k]
           n == Len(lru)
<1>1. PICK i \in DOMAIN lru : lru[i] = t /\ lru' = Pool!MovedToFront(i)
  BY DEF Pool!AcquireCached
<1>2. lru \in Seq(Pool!Built) /\ n \in Nat /\ DOMAIN lru = 1..n
  BY DEF PoolInv, PoolTypes
<1>3. /\ Pool!Removed(i) \in Seq(Pool!Built) /\ Len(Pool!Removed(i)) = n - 1
      /\ \A j \in 1..(n - 1) : Pool!Removed(i)[j] = IF j < i THEN lru[j] ELSE lru[j + 1]
  BY <1>1, <1>2, RemovedElements
<1>4. t \in Pool!Built
  BY <1>1, <1>2
<1>5. /\ lru' \in Seq(Pool!Built) /\ Len(lru') = n /\ lru'[1] = lru[i]
      /\ \A j \in 2..n : lru'[j] = IF j - 1 < i THEN lru[j - 1] ELSE lru[j]
  <2>1. lru' = <<t>> \o Pool!Removed(i)
    BY <1>1 DEF Pool!MovedToFront
  <2>2. /\ lru' \in Seq(Pool!Built) /\ Len(lru') = (n - 1) + 1 /\ lru'[1] = t
        /\ \A j \in 2..((n - 1) + 1) : lru'[j] = Pool!Removed(i)[j - 1]
    BY <1>3, <1>4, <2>1, Fronted
  <2>3. \A j \in 2..n : j - 1 \in 1..(n - 1) /\ (j - 1) + 1 = j
    BY <1>2
  <2> QED BY <1>1, <1>2, <1>3, <2>2, <2>3
<1>6. cached' = cached /\ \A x \in Pool!Targets : target'[x].key = target[x].key
  <2>1. cached' = cached /\ target' = [target EXCEPT ![t].active = Pool!Leased(target[t].active)]
    BY DEF Pool!AcquireCached
  <2>2. \A row \in TargetRow : \A m : [row EXCEPT !.active = m].key = row.key
    BY DEF TargetRow
  <2> QED BY <2>1, <2>2 DEF PoolInv, PoolTypes
<1> DEFINE from(j) == IF j = 1 THEN i ELSE IF j - 1 < i THEN j - 1 ELSE j
<1>7. \A j \in 1..n : from(j) \in 1..n /\ lru'[j] = lru[from(j)]
  BY <1>1, <1>2, <1>5
<1>8. \A j, m \in 1..n : from(j) = from(m) => j = m
  BY <1>1, <1>2
<1>9. \A m \in 1..n : \E j \in 1..n : from(j) = m
  <2>1. TAKE m \in 1..n
  <2>2. CASE m = i
    <3>1. 1 \in 1..n /\ from(1) = m
      BY <1>1, <1>2, <2>2
    <3> QED BY <3>1
  <2>3. CASE m < i
    <3>1. m + 1 \in 1..n /\ from(m + 1) = m
      BY <1>1, <1>2, <2>3
    <3> QED BY <3>1
  <2>4. CASE m > i
    <3>1. m \in 1..n /\ from(m) = m
      BY <1>1, <1>2, <2>4
    <3> QED BY <3>1
  <2> QED BY <1>1, <1>2, <2>2, <2>3, <2>4
<1> HIDE DEF from
<1>10. DOMAIN lru' = 1..n
  BY <1>5
<1>12. \A j \in Upstreams : cached'[j] # 0 => \E m \in DOMAIN lru' : lru'[m] = cached'[j]
  <2>1. ASSUME NEW j \in Upstreams, cached[j] # 0 PROVE \E m \in 1..n : lru'[m] = cached[j]
    <3>1. PICK m \in 1..n : lru[m] = cached[j]
      BY <1>2, <2>1 DEF Listed
    <3>2. PICK q \in 1..n : from(q) = m
      BY <1>9
    <3> QED BY <1>7, <3>1, <3>2
  <2> QED BY <1>6, <1>10, <2>1
<1>13. \A j \in DOMAIN lru' : cached'[target'[lru'[j]].key] = lru'[j]
  <2>1. \A m \in 1..n : lru[m] \in Pool!Targets
    BY <1>2 DEF Pool!Built
  <2>2. \A m \in 1..n : cached[target[lru[m]].key] = lru[m]
    BY <1>2 DEF Listed
  <2> QED BY <1>6, <1>7, <1>10, <2>1, <2>2
<1>14. \A j, m \in DOMAIN lru' : lru'[j] = lru'[m] => j = m
  BY <1>2, <1>7, <1>8, <1>10 DEF Listed
<1>15. Len(lru') <= PoolCapacity
  BY <1>5 DEF Listed
<1> QED BY <1>12, <1>13, <1>14, <1>15 DEF Listed

LEMMA ListBuilt ==
    ASSUME PoolBounds, PoolInv, PoolInv', Listed, NEW r \in Requests, NEW k \in Upstreams,
           Pool!AcquireBuilt(r, k)
    PROVE  Listed'
<1> DEFINE gone == Pool!Retired
           n == Len(lru)
           kept == IF gone = {} THEN lru ELSE Pool!Removed(Len(lru))
<1>1. PICK t \in Pool!Targets \ Pool!Built :
         /\ target' = [x \in Pool!Targets |-> target'[x]]
         /\ cached' = [j \in Upstreams |-> IF j = k THEN t ELSE IF cached[j] \in gone THEN 0 ELSE cached[j]]
         /\ lru' = <<t>> \o kept
         /\ target'[t].key = k /\ \A x \in Pool!Targets \ {t} : target'[x].key = target[x].key
         /\ cached[k] = 0
  <2>1. PICK t \in Pool!Targets \ Pool!Built :
         /\ Pool!Mark(r, [x \in Pool!Targets |->
                IF x = t THEN [Pool!NoEntry EXCEPT !.key = k, !.active = 1]
                ELSE IF x \in gone THEN [target[x] EXCEPT !.retired = TRUE] ELSE target[x]])
         /\ cached' = [j \in Upstreams |-> IF j = k THEN t ELSE IF cached[j] \in gone THEN 0 ELSE cached[j]]
         /\ lru' = <<t>> \o kept /\ cached[k] = 0
    BY DEF Pool!AcquireBuilt
  <2> DEFINE changed == [x \in Pool!Targets |->
                IF x = t THEN [Pool!NoEntry EXCEPT !.key = k, !.active = 1]
                ELSE IF x \in gone THEN [target[x] EXCEPT !.retired = TRUE] ELSE target[x]]
             due == {x \in Pool!Targets : Pool!MustClose(changed[x])}
  <2>2. target' = [x \in Pool!Targets |-> [changed[x] EXCEPT !.closed = @ \/ x \in due]]
    BY <2>1, Zenon DEF Pool!Mark
  <2> HIDE DEF gone, kept
  <2>3. changed[t] = [Pool!NoEntry EXCEPT !.key = k, !.active = 1]
    BY <2>1
  <2>4. \A x \in Pool!Targets \ {t} :
            changed[x] = IF x \in gone THEN [target[x] EXCEPT !.retired = TRUE] ELSE target[x]
    OBVIOUS
  <2>5. /\ \A row \in TargetRow : [row EXCEPT !.retired = TRUE] \in TargetRow
        /\ \A row \in TargetRow : [row EXCEPT !.retired = TRUE].key = row.key
        /\ \A row \in TargetRow : \A b : [row EXCEPT !.closed = b].key = row.key
    BY DEF TargetRow
  <2>6. \A x \in Pool!Targets : target[x] \in TargetRow
    BY DEF PoolInv, PoolTypes
  <2>7. changed[t] \in TargetRow /\ changed[t].key = k
    BY <2>3 DEF TargetRow, Pool!NoEntry
  <2> HIDE DEF changed
  <2>8. \A x \in Pool!Targets \ {t} : changed[x] \in TargetRow /\ changed[x].key = target[x].key
    BY <2>4, <2>5, <2>6
  <2>9. \A x \in Pool!Targets : changed[x] \in TargetRow
    BY <2>7, <2>8
  <2>10. \A x \in Pool!Targets : target'[x].key = changed[x].key
    <3> HIDE DEF due
    <3> QED BY <2>2, <2>5, <2>9
  <2>11. target' = [x \in Pool!Targets |-> target'[x]]
    BY <2>2
  <2> QED BY <2>1, <2>7, <2>8, <2>10, <2>11
<1>2. lru \in Seq(Pool!Built) /\ n \in Nat /\ DOMAIN lru = 1..n /\ n <= PoolCapacity
  BY DEF PoolInv, PoolTypes, Listed
<1>3. /\ gone = {} => n < PoolCapacity
      /\ gone # {} => n > 0 /\ gone = {lru[n]}
  <2>1. Pool!Full <=> n >= PoolCapacity
    <3>1. Pool!Cardinality({j \in Upstreams : cached[j] # 0}) = Cardinality({j \in Upstreams : cached[j] # 0})
      BY Zenon DEF Pool!Cardinality, Cardinality
    <3> QED BY <3>1, MappedCount DEF Pool!Full
  <2>2. lru = <<>> <=> n = 0
    BY <1>2
  <2> QED BY <1>2, <2>1, <2>2 DEF Pool!Retired, PoolBounds
<1>4. \E m \in Nat : /\ kept \in Seq(Pool!Built) /\ Len(kept) = m /\ m <= n /\ m < PoolCapacity
                     /\ \A j \in 1..m : kept[j] = lru[j] /\ lru[j] \notin gone
                     /\ \A j \in 1..n : lru[j] \notin gone => j <= m
  <2>1. CASE gone = {}
    <3>1. kept = lru
      BY <2>1
    <3> HIDE DEF gone, kept
    <3>2. n <= n /\ n < PoolCapacity /\ \A j \in 1..n : j <= n
      BY <1>2, <1>3, <2>1
    <3>3. \A j \in 1..n : kept[j] = lru[j] /\ lru[j] \notin gone
      BY <2>1, <3>1
    <3> QED BY <1>2, <3>1, <3>2, <3>3
  <2>2. CASE gone # {}
    <3>1. kept = Pool!Removed(n) /\ n \in 1..n /\ gone = {lru[n]}
      BY <1>2, <1>3, <2>2
    <3>2. /\ Pool!Removed(n) \in Seq(Pool!Built) /\ Len(Pool!Removed(n)) = n - 1
          /\ \A j \in 1..(n - 1) : Pool!Removed(n)[j] = IF j < n THEN lru[j] ELSE lru[j + 1]
      BY <1>2, <3>1, RemovedElements
    <3>3. \A j \in 1..n : lru[j] \in gone <=> j = n
      BY <1>2, <3>1 DEF Listed
    <3> HIDE DEF gone, kept
    <3>4. n - 1 \in Nat /\ n - 1 <= n /\ n - 1 < PoolCapacity
      BY <1>2, <3>1 DEF PoolBounds
    <3>5. \A j \in 1..(n - 1) : kept[j] = lru[j] /\ lru[j] \notin gone
      <4>1. \A m \in Nat : \A j \in 1..(m - 1) : j \in 1..m /\ j < m /\ j # m
        OBVIOUS
      <4>2. \A j \in 1..(n - 1) : j \in 1..n /\ j < n /\ j # n
        BY <1>2, <4>1
      <4> QED BY <3>1, <3>2, <3>3, <4>2
    <3>6. \A j \in 1..n : lru[j] \notin gone => j <= n - 1
      <4>1. \A m \in Nat : \A j \in 1..m : j # m => j <= m - 1
        OBVIOUS
      <4> QED BY <1>2, <3>3, <4>1
    <3> QED BY <3>1, <3>2, <3>4, <3>5, <3>6
  <2> QED BY <2>1, <2>2
<1>5. PICK m \in Nat : /\ kept \in Seq(Pool!Built) /\ Len(kept) = m /\ m <= n /\ m < PoolCapacity
                       /\ \A j \in 1..m : kept[j] = lru[j] /\ lru[j] \notin gone
                       /\ \A j \in 1..n : lru[j] \notin gone => j <= m
  BY <1>4
<1> HIDE DEF gone, kept
<1>6. /\ lru' \in Seq(Pool!Targets) /\ Len(lru') = m + 1 /\ DOMAIN lru' = 1..(m + 1)
      /\ lru'[1] = t /\ \A j \in 2..(m + 1) : lru'[j] = lru[j - 1] /\ lru[j - 1] \notin gone
  <2>1. kept \in Seq(Pool!Targets)
    BY <1>5 DEF Pool!Built
  <2>2. /\ lru' \in Seq(Pool!Targets) /\ Len(lru') = m + 1 /\ lru'[1] = t
        /\ \A j \in 2..(m + 1) : lru'[j] = kept[j - 1]
    BY <1>1, <1>5, <2>1, Fronted
  <2>3. \A j \in 2..(m + 1) : j - 1 \in 1..m
    OBVIOUS
  <2> QED BY <1>5, <2>2, <2>3
<1>7. \A j \in 1..n : lru[j] \in Pool!Built /\ lru[j] # t /\ lru[j] \in Pool!Targets
  BY <1>1, <1>2 DEF Pool!Built
<1>8. \A j \in 2..(m + 1) : j - 1 \in 1..n
  BY <1>2, <1>5
<1>9. ASSUME NEW j \in Upstreams, cached'[j] # 0 PROVE \E i \in DOMAIN lru' : lru'[i] = cached'[j]
  <2>1. CASE j = k
    <3>1. 1 \in DOMAIN lru' /\ lru'[1] = cached'[j]
      BY <1>1, <1>6, <2>1
    <3> QED BY <3>1
  <2>2. CASE j # k
    <3>1. cached'[j] = cached[j] /\ cached[j] \notin gone /\ cached[j] # 0
      BY <1>1, <1>9, <2>2
    <3>2. PICK i \in 1..n : lru[i] = cached[j]
      BY <1>2, <3>1 DEF Listed
    <3>3. i \in 1..m
      BY <1>5, <3>1, <3>2
    <3>4. i + 1 \in 2..(m + 1) /\ (i + 1) - 1 = i /\ i + 1 \in DOMAIN lru'
      BY <1>6, <3>3
    <3> QED BY <1>6, <3>1, <3>2, <3>4
  <2> QED BY <2>1, <2>2
<1>10. ASSUME NEW i \in DOMAIN lru' PROVE cached'[target'[lru'[i]].key] = lru'[i]
  <2>1. CASE i = 1
    BY <1>1, <1>6, <2>1
  <2>2. CASE i # 1
    <3>1. i \in 2..(m + 1) /\ i - 1 \in 1..n
      BY <1>6, <1>8, <2>2
    <3> DEFINE x == lru[i - 1]
    <3>2. lru'[i] = x /\ x \notin gone /\ x \in Pool!Built /\ x # t /\ x \in Pool!Targets
      BY <1>6, <1>7, <3>1
    <3>3. cached[target[x].key] = x /\ target[x].key \in Upstreams
      BY <1>2, <3>1, <3>2 DEF Listed, PoolInv, PoolTypes, TargetRow, Pool!Built
    <3>4. target[x].key # k
      BY <1>1, <3>2, <3>3, PositiveTargets
    <3> HIDE DEF x
    <3> QED BY <1>1, <3>2, <3>3, <3>4
  <2> QED BY <2>1, <2>2
<1>11. ASSUME NEW i \in DOMAIN lru', NEW j \in DOMAIN lru', lru'[i] = lru'[j] PROVE i = j
  <2>1. \A x \in 2..(m + 1) : lru'[x] # lru'[1]
    BY <1>6, <1>7, <1>8
  <2>2. \A x, y \in 2..(m + 1) : lru'[x] = lru'[y] => x = y
    <3>1. ASSUME NEW x \in 2..(m + 1), NEW y \in 2..(m + 1), lru'[x] = lru'[y] PROVE x = y
      <4>1. x - 1 \in 1..n /\ y - 1 \in 1..n /\ lru[x - 1] = lru[y - 1]
        BY <1>6, <1>8, <3>1
      <4>2. x - 1 = y - 1
        BY <1>2, <4>1 DEF Listed
      <4> QED BY <4>2
    <3> QED BY <3>1
  <2>3. \A x \in DOMAIN lru' : x = 1 \/ x \in 2..(m + 1)
    BY <1>6
  <2> QED BY <1>11, <2>1, <2>2, <2>3
<1>12. Len(lru') <= PoolCapacity
  BY <1>5, <1>6 DEF PoolBounds
<1> QED BY <1>9, <1>10, <1>11, <1>12 DEF Listed

LEMMA ListStep ==
    ASSUME PoolBounds, PoolInv, PoolInv', Listed, [Pool!Next]_(Pool!vars) PROVE Listed'
<1>1. ASSUME NEW r \in Requests, NEW k \in Upstreams, Pool!AcquireCached(r, k) PROVE Listed'
  BY <1>1, ListCached
<1>2. ASSUME NEW r \in Requests, NEW k \in Upstreams, Pool!AcquireBuilt(r, k) PROVE Listed'
  BY <1>2, ListBuilt
<1>3. CASE UNCHANGED <<target, cached, lru>>
  BY <1>3 DEF Listed
<1>4. ASSUME NEW r \in Requests, Pool!ReleaseEntry(r) PROVE Listed'
  <2> DEFINE t == lease[r].target
             changed == [target EXCEPT ![t].active = Pool!Decremented(target[t].active)]
             due == {x \in Pool!Targets : Pool!MustClose(changed[x])}
  <2>1. target' = [x \in Pool!Targets |-> [changed[x] EXCEPT !.closed = @ \/ x \in due]]
    BY <1>4, Zenon DEF Pool!Mark, Pool!ReleaseEntry
  <2>2. UNCHANGED <<cached, lru>>
    BY <1>4 DEF Pool!ReleaseEntry
  <2>3. target \in [Pool!Targets -> TargetRow] /\ t \in Pool!Targets
    BY <1>4 DEF PoolInv, PoolTypes, LeaseRow, Pool!ReleaseEntry
  <2>4. Pool!Decremented(target[t].active) \in Nat
    BY <2>3 DEF Pool!Decremented, TargetRow
  <2>5. /\ \A row \in TargetRow, a \in Nat : /\ [row EXCEPT !.active = a] \in TargetRow
                                            /\ [row EXCEPT !.active = a].key = row.key
        /\ \A row \in TargetRow, b \in BOOLEAN : [row EXCEPT !.closed = b].key = row.key
        /\ \A row \in TargetRow : row.closed \in BOOLEAN
    BY DEF TargetRow
  <2>6. \A x \in Pool!Targets : target'[x].key = target[x].key
    <3>1. \A x \in Pool!Targets : changed[x] \in TargetRow /\ changed[x].key = target[x].key
      <4> HIDE DEF t
      <4> QED BY <2>3, <2>4, <2>5
    <3> HIDE DEF changed, due
    <3> QED BY <2>1, <2>5, <3>1
  <2>7. \A i \in DOMAIN lru : lru[i] \in Pool!Targets
    BY DEF PoolInv, PoolTypes, Pool!Built
  <2> QED BY <2>2, <2>6, <2>7 DEF Listed
<1>5. CASE Pool!Close
  BY <1>5 DEF Pool!Close, Listed, PoolBounds
<1> QED BY <1>1, <1>2, <1>3, <1>4, <1>5 DEF Pool!Next, Pool!Release, Pool!CloseTarget, Pool!vars

LEMMA PoolImplies ==
    ASSUME PoolBounds, PoolInv, Listed
    PROVE  Pool!LeasedStaysOpen /\ Pool!NothingLeaks /\ Pool!Consistent
<1>1. Pool!LeasedStaysOpen
  <2>1. ASSUME NEW r \in Requests, lease[r].target # 0
        PROVE  /\ ~target[lease[r].target].closed /\ calls[lease[r].target] = 0
               /\ \A p \in Goroutines : lease[r].target \notin closing[p]
    <3> DEFINE t == lease[r].target
    <3>1. t \in Pool!Targets /\ r \in LeasedBy(t)
      BY <2>1 DEF PoolInv, PoolTypes, LeaseRow, LeasedBy
    <3>2. target[t].active # 0
      <4>1. IsFiniteSet(LeasedBy(t)) /\ LeasedBy(t) # {}
        BY <3>1, LeasesFinite DEF LeasedBy
      <4>2. Cardinality(LeasedBy(t)) # 0
        BY <4>1, FS_EmptySet
      <4> QED BY <3>1, <4>2 DEF PoolInv, Counts
    <3>3. ~target[t].closed /\ ClosedByOne(t)
      BY <3>1, <3>2 DEF PoolInv, ClosedIfDue
    <3> QED BY <3>3 DEF ClosedByOne
  <2> QED BY <2>1 DEF Pool!LeasedStaysOpen, Goroutines
<1>2. Pool!NothingLeaks
  <2>1. ASSUME NEW t \in Pool!Built, t \notin Pool!Cached, \A r \in Requests : lease[r].target # t
        PROVE  calls[t] = 1 \/ \E p \in Goroutines : t \in closing[p]
    <3>1. t \in Pool!Targets /\ target[t].key # "none" /\ target[t].retired
      BY <2>1 DEF Pool!Built, Pool!Cached, PoolInv, Mapped
    <3>2. LeasedBy(t) = {}
      BY <2>1 DEF LeasedBy
    <3>3. target[t].active = 0
      BY <3>1, <3>2, FS_EmptySet DEF PoolInv, Counts
    <3>4. target[t].closed /\ ClosedByOne(t)
      BY <3>1, <3>3 DEF PoolInv, ClosedIfDue
    <3> QED BY <3>4 DEF ClosedByOne
  <2> QED BY <2>1 DEF Pool!NothingLeaks, Goroutines
<1>3. Pool!Consistent
  <2>1. {lru[i] : i \in DOMAIN lru} = {cached[k] : k \in Upstreams} \ {0}
    <3>1. ASSUME NEW i \in DOMAIN lru PROVE lru[i] \in {cached[k] : k \in Upstreams} \ {0}
      <4>1. lru[i] \in Pool!Built /\ lru[i] \in Pool!Targets /\ target[lru[i]].key \in Upstreams
        BY DEF PoolInv, PoolTypes, TargetRow, Pool!Built
      <4> QED BY <4>1, PositiveTargets DEF Listed
    <3>2. \A k \in Upstreams : cached[k] # 0 => cached[k] \in {lru[i] : i \in DOMAIN lru}
      BY DEF Listed
    <3> QED BY <3>1, <3>2
  <2>2. \A i, j \in DOMAIN lru : lru[i] = lru[j] => i = j
    BY DEF Listed
  <2>3. \A k \in Upstreams : cached[k] # 0 => target[cached[k]].key = k /\ ~target[cached[k]].retired
    BY DEF PoolInv, Mapped
  <2>4. Len(lru) <= PoolCapacity
    BY DEF Listed
  <2>5. ASSUME NEW t \in Pool!Targets
        PROVE  calls[t] + Pool!Cardinality({p \in Requests \cup {Pool!Closer} : t \in closing[p]}) <= 1
    <3> DEFINE held == {p \in Goroutines : t \in closing[p]}
    <3>1. Pool!Cardinality({p \in Requests \cup {Pool!Closer} : t \in closing[p]}) = Cardinality(held)
      BY Zenon DEF Pool!Cardinality, Cardinality, Goroutines
    <3>2. calls[t] + Cardinality(held) <= 1
      <4>1. ClosedByOne(t)
        BY DEF PoolInv
      <4>2. CASE \A p \in Goroutines : t \notin closing[p]
        <5>1. held = {}
          BY <4>2
        <5>2. Cardinality(held) = 0
          BY <5>1, FS_EmptySet
        <5> QED BY <4>1, <4>2, <5>2 DEF ClosedByOne
      <4>3. CASE calls[t] = 0 /\ \E p \in Goroutines : t \in closing[p] /\ \A q \in Goroutines \ {p} : t \notin closing[q]
        <5>1. PICK p \in Goroutines : t \in closing[p] /\ \A q \in Goroutines \ {p} : t \notin closing[q]
          BY <4>3
        <5>2. held = {p}
          BY <5>1
        <5>3. Cardinality(held) = 1
          BY <5>2, FS_Singleton
        <5> QED BY <4>3, <5>3
      <4> QED BY <4>1, <4>2, <4>3 DEF ClosedByOne
    <3> QED BY <3>1, <3>2
  <2> QED BY <2>1, <2>2, <2>3, <2>4, <2>5 DEF Pool!Consistent
<1> QED BY <1>1, <1>2, <1>3

\* Whatever requests and the shutdown do at once, the connections of a target
\* that an attempt leases are neither closed nor chosen to be; every target
\* ever built is cached, leased, closed, or held by a goroutine that is about
\* to close it, and none is closed twice; the list, the map and the entries
\* agree, and the cache never holds more than its capacity (TargetCache in
\* target_cache.go).
THEOREM LeasedTargetsStayOpen ==
    ASSUME PoolBounds
    PROVE  Pool!Spec => [](Pool!LeasedStaysOpen /\ Pool!NothingLeaks /\ Pool!Consistent)
<1>1. Pool!Init => PoolInv /\ Listed
  BY PoolInit, ListInit
<1>2. PoolInv /\ Listed /\ [Pool!Next]_(Pool!vars) => (PoolInv /\ Listed)'
  BY PoolStep, ListStep
<1>3. PoolInv /\ Listed => Pool!LeasedStaysOpen /\ Pool!NothingLeaks /\ Pool!Consistent
  BY PoolImplies
<1> QED BY <1>1, <1>2, <1>3, PTL DEF Pool!Spec
=============================================================================
