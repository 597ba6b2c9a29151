--------------------------------- MODULE MCProgress ---------------------------------
(***************************************************************************)
(* What eventually happens, checked in one run: a quota reservation is     *)
(* closed whatever its owner does, a refresh is answered, a read of the    *)
(* active configuration returns, a proxied request ends and a retired      *)
(* target is closed.  Each behaviour is one of one part, chosen at the     *)
(* start; the variables of the other parts keep their initial values.      *)
(***************************************************************************)
EXTENDS QuotaStore, TLC

CONSTANTS x1, x2, Admin, k1, k2, k3, us, fb

VARIABLES part, ComponentAware, clock, tip, token, grant, cache, session, boundary, tx, keeper,
          answer, active, moves, pending, entries, bytes, refresh, call, pc, plan, unsafe, stages,
          held, tries, failed, ctx, client, trips, result, next, target, lru, closed, lease,
          closing, calls

\* A usage limit, and a concurrency limit of the fallback target.
SomeMetric == [l \in Limits |-> IF l = us THEN "usage" ELSE "concurrency"]
SomeUnits == [n \in 1 .. MaxAttempts |-> [l \in Limits |-> IF l = us /\ n = 1 THEN 2 ELSE 1]]
SomeMaximum == [v \in Revisions |-> [l \in Limits |-> IF l = us THEN 4 ELSE 1]]
SomePlan == [n \in 1 .. MaxAttempts |-> IF n = 1 THEN {us} ELSE Limits]
OneWindow == [l \in Limits |-> [t \in 0 .. MaxTime |-> 1]]

Kinds == {"status", "connect_error", "timeout_before_headers", "first_byte_timeout"}
R(retryOn, max, fallbackOn, unsafeToo) ==
    [retryOn |-> retryOn, maxAttempts |-> max, fallbackOn |-> fallbackOn, unsafeToo |-> unsafeToo]
\* Retries and fallbacks on everything, and on some conditions only.
SomePlans == {<<R(Kinds, 2, Kinds, TRUE), R(Kinds, 2, {}, TRUE)>>,
              <<R({"status"}, 3, {"connect_error", "status"}, TRUE), R({}, 1, {}, FALSE)>>}

Refresh == INSTANCE SessionRefresh WITH
    Callers <- {x1, x2}, Admin <- Admin, Grace <- 1, Lifetime <- 1, AccessLifetime <- 1,
    MaxTokens <- 2, MaxTime <- 1
Snapshots == INSTANCE SnapshotCache WITH
    Requests <- {x1, x2}, Keys <- {k1}, Revisions <- {1, 2}, Size <- <<1, 2>>, Capacity <- 2,
    MaxBytes <- 2, MaxMoves <- 1
Executed == INSTANCE RequestExecution WITH
    Conditions <- Kinds, Plans <- SomePlans, Bound <- 2, MaxLogical <- 4, attempts <- tries,
    reservation <- held
Targeted == INSTANCE TargetCache WITH
    Requests <- {x1, x2}, Keys <- {k1, k2, k3}, Capacity <- 2, MaxBuilds <- 3, entry <- target

allVars == <<part, now, logical, reservation, entry, attempts, bucket, leases, ComponentAware,
             clock, tip, token, grant, cache, session, boundary, tx, keeper, answer, active, moves,
             pending, entries, bytes, refresh, call, pc, plan, unsafe, stages, held, tries, failed,
             ctx, client, trips, result, next, target, lru, closed, lease, closing, calls>>

Unused == "unused"

OnlyQuotaStore ==
    /\ ComponentAware = Unused /\ clock = Unused /\ tip = Unused /\ token = Unused
    /\ grant = Unused /\ cache = Unused /\ session = Unused /\ boundary = Unused /\ tx = Unused
    /\ keeper = Unused /\ answer = Unused /\ active = Unused /\ moves = Unused
    /\ pending = Unused /\ entries = Unused /\ bytes = Unused /\ refresh = Unused
    /\ call = Unused /\ pc = Unused /\ plan = Unused /\ unsafe = Unused /\ stages = Unused
    /\ held = Unused /\ tries = Unused /\ failed = Unused /\ ctx = Unused /\ client = Unused
    /\ trips = Unused /\ result = Unused /\ next = Unused /\ target = Unused /\ lru = Unused
    /\ closed = Unused /\ lease = Unused /\ closing = Unused /\ calls = Unused
outsideQuotaStore == <<part, ComponentAware, clock, tip, token, grant, cache, session, boundary, tx,
                      keeper, answer, active, moves, pending, entries, bytes, refresh, call, pc,
                      plan, unsafe, stages, held, tries, failed, ctx, client, trips, result, next,
                      target, lru, closed, lease, closing, calls>>
OnlySessionRefresh ==
    /\ active = Unused /\ moves = Unused /\ pending = Unused /\ entries = Unused
    /\ bytes = Unused /\ refresh = Unused /\ call = Unused /\ pc = Unused /\ plan = Unused
    /\ unsafe = Unused /\ stages = Unused /\ held = Unused /\ tries = Unused /\ failed = Unused
    /\ ctx = Unused /\ client = Unused /\ trips = Unused /\ result = Unused /\ next = Unused
    /\ target = Unused /\ lru = Unused /\ closed = Unused /\ lease = Unused /\ closing = Unused
    /\ calls = Unused
outsideSessionRefresh == <<part, now, logical, reservation, entry, attempts, bucket, leases, active,
                          moves, pending, entries, bytes, refresh, call, pc, plan, unsafe, stages,
                          held, tries, failed, ctx, client, trips, result, next, target, lru,
                          closed, lease, closing, calls>>
OnlySnapshotCache ==
    /\ ComponentAware = Unused /\ clock = Unused /\ tip = Unused /\ token = Unused
    /\ grant = Unused /\ cache = Unused /\ session = Unused /\ boundary = Unused /\ tx = Unused
    /\ keeper = Unused /\ answer = Unused /\ pc = Unused /\ plan = Unused /\ unsafe = Unused
    /\ stages = Unused /\ held = Unused /\ tries = Unused /\ failed = Unused /\ ctx = Unused
    /\ client = Unused /\ trips = Unused /\ result = Unused /\ next = Unused /\ target = Unused
    /\ lru = Unused /\ closed = Unused /\ lease = Unused /\ closing = Unused /\ calls = Unused
outsideSnapshotCache == <<part, now, logical, reservation, entry, attempts, bucket, leases,
                         ComponentAware, clock, tip, token, grant, cache, session, boundary, tx,
                         keeper, answer, pc, plan, unsafe, stages, held, tries, failed, ctx, client,
                         trips, result, next, target, lru, closed, lease, closing, calls>>
OnlyRequestExecution ==
    /\ ComponentAware = Unused /\ clock = Unused /\ tip = Unused /\ token = Unused
    /\ grant = Unused /\ cache = Unused /\ session = Unused /\ boundary = Unused /\ tx = Unused
    /\ keeper = Unused /\ answer = Unused /\ active = Unused /\ moves = Unused
    /\ entries = Unused /\ bytes = Unused /\ refresh = Unused /\ call = Unused
    /\ target = Unused /\ lru = Unused /\ closed = Unused /\ lease = Unused /\ closing = Unused
    /\ calls = Unused
outsideRequestExecution == <<part, now, logical, reservation, entry, attempts, bucket, leases,
                            ComponentAware, clock, tip, token, grant, cache, session, boundary, tx,
                            keeper, answer, active, moves, entries, bytes, refresh, call, target,
                            lru, closed, lease, closing, calls>>
OnlyTargetCache ==
    /\ ComponentAware = Unused /\ clock = Unused /\ tip = Unused /\ token = Unused
    /\ grant = Unused /\ cache = Unused /\ session = Unused /\ boundary = Unused /\ tx = Unused
    /\ keeper = Unused /\ answer = Unused /\ active = Unused /\ moves = Unused
    /\ pending = Unused /\ bytes = Unused /\ refresh = Unused /\ call = Unused /\ pc = Unused
    /\ plan = Unused /\ unsafe = Unused /\ stages = Unused /\ held = Unused /\ tries = Unused
    /\ failed = Unused /\ ctx = Unused /\ client = Unused /\ trips = Unused /\ result = Unused
    /\ next = Unused
outsideTargetCache == <<part, now, logical, reservation, entry, attempts, bucket, leases,
                       ComponentAware, clock, tip, token, grant, cache, session, boundary, tx,
                       keeper, answer, active, moves, pending, bytes, refresh, call, pc, plan,
                       unsafe, stages, held, tries, failed, ctx, client, trips, result, next>>

AllInit ==
    /\ Init
    /\ \/ part = "quota" /\ OnlyQuotaStore
       \/ part = "refresh" /\ Refresh!Init /\ ComponentAware /\ OnlySessionRefresh
       \/ part = "snapshots" /\ Snapshots!Init /\ OnlySnapshotCache
       \/ part = "request" /\ Executed!Init /\ OnlyRequestExecution
       \/ part = "targets" /\ Targeted!Init /\ OnlyTargetCache

AllNext ==
    \/ part = "quota" /\ Next /\ UNCHANGED outsideQuotaStore
    \/ part = "refresh" /\ Refresh!Undisturbed /\ UNCHANGED outsideSessionRefresh
    \/ part = "snapshots" /\ Snapshots!Next /\ UNCHANGED outsideSnapshotCache
    \/ part = "request" /\ Executed!Next /\ UNCHANGED outsideRequestExecution
    \/ part = "targets" /\ Targeted!Next /\ UNCHANGED outsideTargetCache

AllFairness ==
    \* The owners of a quota reservation may stop; its recovery worker runs.
    /\ WF_allVars(part = "quota" /\ Tick /\ UNCHANGED outsideQuotaStore)
    /\ \A r \in Requests : WF_allVars(part = "quota" /\ Recover(r) /\ UNCHANGED outsideQuotaStore)
    \* A lock goes to those that queue for it before those that come later, and
    \* a transaction that waits in a cycle is found.
    /\ \A c \in {x1, x2} :
          SF_allVars(part = "refresh" /\ Refresh!Step(c) /\ UNCHANGED outsideSessionRefresh)
    /\ WF_allVars(part = "refresh" /\ Refresh!AdminStep /\ UNCHANGED outsideSessionRefresh)
    /\ \A p \in {x1, x2, Admin} :
          WF_allVars(part = "refresh" /\ Refresh!BreakDeadlock(p) /\ UNCHANGED outsideSessionRefresh)
    \* A goroutine that can run does, and every wait has a timeout of its own.
    /\ WF_allVars(/\ part = "snapshots" /\ UNCHANGED outsideSnapshotCache
                  /\ Snapshots!RefreshLoad(k1) \/ Snapshots!RefreshPut(k1) \/ Snapshots!RefreshClose(k1))
    /\ \A c \in {x1, x2} :
          WF_allVars(/\ part = "snapshots" /\ UNCHANGED outsideSnapshotCache
                     /\ Snapshots!JoinOrStart(c) \/ Snapshots!Compare(c))
    /\ WF_allVars(part = "request" /\ Executed!HandlerStep /\ UNCHANGED outsideRequestExecution)
    /\ \A r \in {x1, x2} :
          WF_allVars(/\ part = "targets" /\ UNCHANGED outsideTargetCache
                     /\ Targeted!Release(r) \/ Targeted!ReleaseEntry(r))
    /\ \A p \in {x1, x2, "closer"} :
          WF_allVars(part = "targets" /\ Targeted!CloseTarget(p) /\ UNCHANGED outsideTargetCache)

AllSpec == AllInit /\ [][AllNext]_allVars /\ AllFairness

(***************************************************************************)
(* Properties.                                                             *)
(***************************************************************************)
\* What x1 or x2 waits for.
Waiting(c) ==
    CASE part = "quota" -> Open(c)
      [] part = "refresh" -> tx[c].pc # "idle"
      [] part = "snapshots" -> call[c].pc \notin {"idle", "answered"}
      [] part = "request" -> pc # "done"
      [] part = "targets" -> closed /\ \E t \in Targeted!Built : calls[t] = 0

\* Whatever its owner does, a quota reservation is closed and an authenticated
\* request decided; a refresh that waits for locks is answered; a caller that
\* missed the snapshot cache returns although it joined a load that another
\* caller started; a proxied request ends whatever fails; and every target
\* is closed once the target cache is.  Recovery is fair to each reservation
\* here; that a batch of many leaves none out for ever is not shown.
EverythingEnds == \A c \in {x1, x2} : Waiting(c) ~> ~Waiting(c)
=============================================================================
