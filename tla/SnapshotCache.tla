--------------------------- MODULE SnapshotCache ---------------------------
(***************************************************************************)
(* One process's cache of active configuration snapshots                   *)
(* (internal/configuration/active_cache.go, Store.ActiveSnapshot).  A      *)
(* request asks several times.  Its first call for an environment reads    *)
(* the active pointer from the database, and the snapshot itself comes     *)
(* from the cache or from a load that the requests share; later calls are  *)
(* answered from the memo bound to the request (server.go:122), whose lock *)
(* is held from the lookup to the answer: a request has one call at a      *)
(* time.  The pointer moves under them, by an activation in this process,  *)
(* which puts its snapshot into the cache after it committed, or in        *)
(* another one.  A caller without a memo is a request with one call.       *)
(***************************************************************************)
EXTENDS Naturals, FiniteSets, FiniteSetsExt

CONSTANTS Requests,
          Keys,                \* environments
          Revisions,           \* numbers; none is 0
          Size,                \* the estimated bytes of a revision's snapshot
          Capacity, MaxBytes,  \* activeSnapshotCacheCapacity, ...MaximumEstimatedBytes
          MaxMoves             \* bound on moves of the pointers

VARIABLES active,    \* the database's pointer of each key, 0 while disabled
          moves,
          pending,   \* activations of this process that have still to put
          entries,   \* cache.entries: a snapshot's revision and whether it is fresh
          bytes,     \* cache.estimatedBytes
          refresh,   \* cache.refreshes: the shared load of each key
          call       \* requests, each with its memo and its call of ActiveSnapshot

vars == <<active, moves, pending, entries, bytes, refresh, call>>

NoEntry == [rev |-> 0, fresh |-> FALSE]
\* want is the revision that the call which started the load had read.
NoRefresh == [pc |-> "none", want |-> 0, rev |-> 0]
\* during is what was active while the request's first call for a key ran,
\* given every revision its calls were answered with; memo is 0 where it has none.
NoCall == [pc |-> "idle", key |-> 0, want |-> 0, rev |-> 0, memo |-> [k \in Keys |-> 0],
           during |-> [k \in Keys |-> {}], given |-> [k \in Keys |-> {}]]

Cached == {k \in Keys : entries[k].rev # 0}

\* No call in flight; the memo and what is noted of the request stay.
Idle(row) == [row EXCEPT !.pc = "idle", !.key = 0, !.want = 0, !.rev = 0]

(***************************************************************************)
(* The pointer, and what puts into the cache.                              *)
(***************************************************************************)
\* Every call that is still reading notes what is active while it runs.
Move(k, r) ==
    /\ moves < MaxMoves /\ active[k] # r
    /\ moves' = moves + 1
    /\ active' = [active EXCEPT ![k] = r]
    /\ call' = [c \in Requests |->
            IF call[c].pc \in {"missed", "waiting", "given"} /\ call[c].key = k
            THEN [call[c] EXCEPT !.during = [call[c].during EXCEPT ![k] = @ \cup {r}]] ELSE call[c]]

\* ActivateRevision and Rollback of this process, up to their commit.
ActivateHere(k, r) ==
    /\ Move(k, r)
    /\ pending' = pending \cup {<<k, r>>}
    /\ UNCHANGED <<entries, bytes, refresh>>

\* Another process activates a revision or disables the environment (0).
ActivateElsewhere(k, r) ==
    /\ Move(k, r)
    /\ UNCHANGED <<pending, entries, bytes, refresh>>

\* Slip: the bytes of the entry that is replaced stay counted.
WithoutLeaked(k) == bytes

\* Slip: removed as the key's own entry and evicted as the oldest.
WithoutTwice(k) == bytes - (IF entries[k].rev = 0 THEN 0 ELSE 2 * Size[entries[k].rev])

\* The bytes left once key k's own entry is removed.
Without(k) == bytes - (IF entries[k].rev = 0 THEN 0 ELSE Size[entries[k].rev])

\* put: entries are evicted, the oldest first (which one does not matter here:
\* any), until the new one fits; one larger than the whole cache is not kept.
Put(k, r) ==
    IF Size[r] > MaxBytes
    THEN /\ entries' = [entries EXCEPT ![k] = NoEntry]
         /\ bytes' = Without(k)
    ELSE \E kept \in SUBSET (Cached \ {k}) :
            LET used == Without(k) - MapThenSumSet(LAMBDA x : Size[entries[x].rev],
                                                                 (Cached \ {k}) \ kept)
            IN /\ Cardinality(kept) < Capacity
               /\ used <= MaxBytes - Size[r]
               /\ entries' = [x \in Keys |-> CASE x = k -> [rev |-> r, fresh |-> TRUE]
                                               [] x \in kept -> entries[x]
                                               [] OTHER -> NoEntry]
               /\ bytes' = used + Size[r]

PutActivated(k, r) ==
    /\ <<k, r>> \in pending
    /\ pending' = pending \ {<<k, r>>}
    /\ Put(k, r)
    /\ UNCHANGED <<active, moves, refresh, call>>

\* activeSnapshotFullReconciliationInterval passes.
Age(k) ==
    /\ entries[k].fresh
    /\ entries' = [entries EXCEPT ![k].fresh = FALSE]
    /\ UNCHANGED <<active, moves, pending, bytes, refresh, call>>

(***************************************************************************)
(* ActiveSnapshot.                                                         *)
(***************************************************************************)
Hit(k, want) == entries[k].rev = want /\ entries[k].fresh

\* Slip: the answer is not kept for the request.
Forgotten(row, r) ==
    [row EXCEPT !.pc = "answered", !.rev = r, !.given[row.key] = @ \cup {r}]

\* finishRequestSnapshot(snapshot, true), and the answer.
Answered(row, r) ==
    [row EXCEPT !.pc = "answered", !.rev = r, !.memo = [row.memo EXCEPT ![row.key] = r],
                !.given = [row.given EXCEPT ![row.key] = @ \cup {r}]]

\* The request has its snapshot of k already: nothing is read.
Recall(c, k) ==
    /\ call[c].pc = "idle" /\ call[c].memo[k] # 0
    /\ call' = [call EXCEPT ![c] = Answered([@ EXCEPT !.key = k], call[c].memo[k])]
    /\ UNCHANGED <<active, moves, pending, entries, bytes, refresh>>

\* The first call of a request for k; the pointer is read first.
ReadPointer(c, k) ==
    LET asking == [call[c] EXCEPT !.pc = "missed", !.key = k, !.want = active[k],
                                  !.during = [call[c].during EXCEPT ![k] = {active[k]}]]
    IN /\ call[c].pc = "idle" /\ call[c].memo[k] = 0
       /\ active[k] # 0
       /\ call' = [call EXCEPT ![c] = IF Hit(k, active[k]) THEN Answered(asking, active[k])
                                      ELSE asking]
       /\ UNCHANGED <<active, moves, pending, entries, bytes, refresh>>

\* refresh: join the load in flight or start one.
JoinOrStart(c) ==
    LET k == call[c].key IN
    /\ call[c].pc = "missed"
    /\ refresh' = IF refresh[k].pc = "none"
                  THEN [refresh EXCEPT ![k] = [pc |-> "begun", want |-> call[c].want, rev |-> 0]]
                  ELSE refresh
    /\ call' = [call EXCEPT ![c].pc = "waiting"]
    /\ UNCHANGED <<active, moves, pending, entries, bytes>>

\* The load: the cache once more, then the database, then put.
RefreshLoad(k) ==
    /\ refresh[k].pc = "begun"
    /\ refresh' = [refresh EXCEPT ![k] =
            IF Hit(k, @.want) THEN [@ EXCEPT !.pc = "closing", !.rev = refresh[k].want]
            ELSE IF active[k] = 0 THEN [@ EXCEPT !.pc = "closing", !.rev = 0]
            ELSE [@ EXCEPT !.pc = "loaded", !.rev = active[k]]]
    /\ UNCHANGED <<active, moves, pending, entries, bytes, call>>

RefreshPut(k) ==
    /\ refresh[k].pc = "loaded"
    /\ Put(k, refresh[k].rev)
    /\ refresh' = [refresh EXCEPT ![k].pc = "closing"]
    /\ UNCHANGED <<active, moves, pending, call>>

\* The load fails, panics or runs into activeSnapshotRefreshTimeout.
RefreshFails(k) ==
    /\ refresh[k].pc \in {"begun", "loaded"}
    /\ refresh' = [refresh EXCEPT ![k].pc = "closing", ![k].rev = 0]
    /\ UNCHANGED <<active, moves, pending, entries, bytes, call>>

\* close(refresh.done): everyone who waits is given the result, or its error.
RefreshClose(k) ==
    /\ refresh[k].pc = "closing"
    /\ refresh' = [refresh EXCEPT ![k] = NoRefresh]
    /\ call' = [c \in Requests |->
            IF call[c].pc = "waiting" /\ call[c].key = k
            THEN IF refresh[k].rev = 0 THEN Idle(call[c])
                 ELSE [call[c] EXCEPT !.pc = "given", !.rev = refresh[k].rev]
            ELSE call[c]]
    /\ UNCHANGED <<active, moves, pending, entries, bytes>>

\* Slip: what the shared load gave is taken as it is.
AcceptsAnything(c) == TRUE

\* The revision read first, or the one the pointer has now.
Accepts(c) == call[c].rev = call[c].want \/ call[c].rev = active[call[c].key]

\* Slip: a result that does not match is waited for again.
WaitsAgain(c) == "waiting"

\* The call goes round with the pointer it has just read.
Retries(c) == "missed"

\* The comparisons after refresh; otherwise round again.
Compare(c) ==
    /\ call[c].pc = "given"
    /\ call' = [call EXCEPT ![c] =
            IF Accepts(c) THEN Answered(@, call[c].rev)
            ELSE IF active[@.key] = 0 THEN Idle(@)
            ELSE [@ EXCEPT !.pc = Retries(c), !.want = active[call[c].key]]]
    /\ UNCHANGED <<active, moves, pending, entries, bytes, refresh>>

\* The answer is used.
Use(c) ==
    /\ call[c].pc = "answered"
    /\ call' = [call EXCEPT ![c] = Idle(@)]
    /\ UNCHANGED <<active, moves, pending, entries, bytes, refresh>>

\* The request ends, or its context while it waits, and the memo with it.
Leave(c) ==
    /\ call[c].pc \in {"idle", "waiting"} /\ call[c] # NoCall
    /\ call' = [call EXCEPT ![c] = NoCall]
    /\ UNCHANGED <<active, moves, pending, entries, bytes, refresh>>

(***************************************************************************)
Init ==
    /\ active \in [Keys -> Revisions]
    /\ moves = 0 /\ pending = {}
    /\ entries = [k \in Keys |-> NoEntry] /\ bytes = 0
    /\ refresh = [k \in Keys |-> NoRefresh]
    /\ call = [c \in Requests |-> NoCall]

Next ==
    \/ \E k \in Keys : \/ \E r \in Revisions : ActivateHere(k, r) \/ PutActivated(k, r)
                       \/ \E r \in Revisions \cup {0} : ActivateElsewhere(k, r)
                       \/ Age(k) \/ RefreshLoad(k) \/ RefreshPut(k) \/ RefreshFails(k) \/ RefreshClose(k)
    \/ \E c \in Requests : \/ \E k \in Keys : Recall(c, k) \/ ReadPointer(c, k)
                           \/ JoinOrStart(c) \/ Compare(c) \/ Use(c) \/ Leave(c)

Spec == Init /\ [][Next]_vars

(***************************************************************************)
(* Properties.                                                             *)
(***************************************************************************)
TypeOK ==
    /\ active \in [Keys -> Revisions \cup {0}]
    /\ pending \subseteq Keys \X Revisions
    /\ entries \in [Keys -> [rev : Revisions \cup {0}, fresh : BOOLEAN]]
    /\ bytes \in Nat
    /\ refresh \in [Keys -> [pc : {"none", "begun", "loaded", "closing"},
                             want : Revisions \cup {0}, rev : Revisions \cup {0}]]
    /\ \A c \in Requests : call[c].pc \in {"idle", "missed", "waiting", "given", "answered"}

\* What a request is told was active while it asked: every answer is a revision
\* that was active at some moment of the request's first call for that
\* environment, although the load it shares may have begun before it and late
\* puts may leave an older revision in the cache (store.go:627).
ActiveWhenAsked ==
    \A c \in Requests : call[c].pc = "answered" => call[c].rev \in call[c].during[call[c].key]

\* Readers in one request observe one revision of an environment, although
\* another is activated while the request runs (active_cache.go:235-237).
OneRevisionPerRequest ==
    \A c \in Requests, k \in Keys : \A r, s \in call[c].given[k] : r = s

\* The byte counter is what the entries add up to, and both limits hold,
\* whatever is replaced, evicted or refused (active_cache.go:113).
WithinLimits ==
    /\ bytes = MapThenSumSet(LAMBDA k : Size[entries[k].rev], Cached)
    /\ bytes <= MaxBytes /\ Cardinality(Cached) <= Capacity
=============================================================================
