----------------------------- MODULE TargetCache -----------------------------
(***************************************************************************)
(* The bounded cache of protected upstream transports                      *)
(* (internal/dataplane/target_cache.go).  Requests lease the target of     *)
(* their upstream's key; the least recently used one is retired when the   *)
(* cache is full, all of them when it is closed, and a retired target's    *)
(* connections are closed once nobody leases it: under the mutex it is     *)
(* only marked, the call that closes comes after the mutex is released.    *)
(***************************************************************************)
EXTENDS Naturals, Sequences, FiniteSets

CONSTANTS Requests, Keys, Capacity,
          MaxBuilds            \* bound on targets ever built

VARIABLES entry,     \* every target ever built: targetCacheEntry
          entries,   \* cache.entries, 0 where there is none
          lru,       \* cache.lru, the front first
          closed,    \* cache.closed
          lease,     \* the lease of each request
          closing,   \* for each goroutine, targets it has still to close
          calls      \* how often CloseIdleConnections was called

vars == <<entry, entries, lru, closed, lease, closing, calls>>

Targets == 1..MaxBuilds
Closer == "closer"   \* whoever calls Close
NoEntry == [key |-> "none", active |-> 0, retired |-> FALSE, closed |-> FALSE]
NoLease == [target |-> 0, released |-> TRUE]

Built == {t \in Targets : entry[t].key # "none"}
Cached == {t \in Built : entries[entry[t].key] = t}

\* Slip: a retired target is closed at once.
CloseRetired(e) == e.retired /\ ~e.closed

\* Whether to close an entry: retired, nobody leases it, not yet closed.
MustClose(e) == e.retired /\ e.active = 0 /\ ~e.closed

\* Slip: what must be closed is marked and then dropped.
MarkOnly(p, changed) ==
    /\ entry' = [t \in Targets |-> [changed[t] EXCEPT !.closed = @ \/ MustClose(changed[t])]]
    /\ UNCHANGED closing

\* Marks what must be closed and hands it to goroutine p.
Mark(p, changed) ==
    LET due == {t \in Targets : MustClose(changed[t])} IN
    /\ entry' = [t \in Targets |-> [changed[t] EXCEPT !.closed = @ \/ t \in due]]
    /\ closing' = [closing EXCEPT ![p] = @ \cup due]

Free(p) == closing[p] = {}

(***************************************************************************)
(* Operations.                                                             *)
(***************************************************************************)
\* Slip: counted by the lookup and once more by the lease.
LeasedTwice(n) == n + 2

Leased(n) == n + 1

\* The list without its element at position i; and with it at the front.
Removed(i) == SubSeq(lru, 1, i - 1) \o SubSeq(lru, i + 1, Len(lru))
MovedToFront(i) == <<lru[i]>> \o Removed(i)

\* A key in the cache: its entry is leased once more and moves to the front.
AcquireCached(r, k) ==
    LET t == entries[k] IN
    /\ Free(r) /\ lease[r] = NoLease /\ ~closed /\ t # 0
    /\ entry' = [entry EXCEPT ![t].active = Leased(@)]
    /\ \E i \in DOMAIN lru : lru[i] = t /\ lru' = MovedToFront(i)
    /\ lease' = [lease EXCEPT ![r] = [target |-> t, released |-> FALSE]]
    /\ UNCHANGED <<entries, closed, closing, calls>>

\* Slip: the cache is full only once it has grown past its capacity.
FullBeyond == Cardinality({k \in Keys : entries[k] # 0}) > Capacity

Full == Cardinality({k \in Keys : entries[k] # 0}) >= Capacity

\* retireLRULocked, the back of the list.
Retired == IF Full /\ lru # <<>> THEN {lru[Len(lru)]} ELSE {}

\* A miss: the target is built, one is retired if need be.
AcquireBuilt(r, k) ==
    /\ Free(r) /\ lease[r] = NoLease /\ ~closed /\ entries[k] = 0
    /\ \E t \in Targets \ Built :
        /\ \A x \in Targets : x < t => x \in Built
        /\ Mark(r, [x \in Targets |->
                IF x = t THEN [NoEntry EXCEPT !.key = k, !.active = 1]
                ELSE IF x \in Retired THEN [entry[x] EXCEPT !.retired = TRUE]
                ELSE entry[x]])
        /\ entries' = [j \in Keys |-> IF j = k THEN t ELSE IF entries[j] \in Retired THEN 0 ELSE entries[j]]
        /\ lru' = <<t>> \o IF Retired = {} THEN lru ELSE Removed(Len(lru))
        /\ lease' = [lease EXCEPT ![r] = [target |-> t, released |-> FALSE]]
    /\ UNCHANGED <<closed, calls>>

\* cachedTargetLease.Release: the flag first, without the mutex.
Release(r) ==
    /\ lease[r].target # 0 /\ ~lease[r].released
    /\ lease' = [lease EXCEPT ![r].released = TRUE]
    /\ UNCHANGED <<entry, entries, lru, closed, closing, calls>>

\* Slip: the count of leases never falls.
DecrementLost(n) == n

Decremented(n) == IF n > 0 THEN n - 1 ELSE n

\* TargetCache.release.
ReleaseEntry(r) ==
    LET t == lease[r].target IN
    /\ t # 0 /\ lease[r].released
    /\ Mark(r, [entry EXCEPT ![t].active = Decremented(@)])
    /\ lease' = [lease EXCEPT ![r] = NoLease]
    /\ UNCHANGED <<entries, lru, closed, calls>>

Close ==
    /\ ~closed
    /\ closed' = TRUE
    /\ Mark(Closer, [t \in Targets |-> IF t \in Cached THEN [entry[t] EXCEPT !.retired = TRUE] ELSE entry[t]])
    /\ entries' = [k \in Keys |-> 0]
    /\ lru' = <<>>
    /\ UNCHANGED <<lease, calls>>

\* closeCachedTarget, after the mutex.
CloseTarget(p) ==
    \E t \in closing[p] :
        /\ closing' = [closing EXCEPT ![p] = @ \ {t}]
        /\ calls' = [calls EXCEPT ![t] = @ + 1]
        /\ UNCHANGED <<entry, entries, lru, closed, lease>>

Init ==
    /\ entry = [t \in Targets |-> NoEntry]
    /\ entries = [k \in Keys |-> 0]
    /\ lru = <<>> /\ closed = FALSE
    /\ lease = [r \in Requests |-> NoLease]
    /\ closing = [p \in Requests \cup {Closer} |-> {}]
    /\ calls = [t \in Targets |-> 0]

Next ==
    \/ \E r \in Requests : \/ \E k \in Keys : AcquireCached(r, k) \/ AcquireBuilt(r, k)
                           \/ Release(r) \/ ReleaseEntry(r)
    \/ Close
    \/ \E p \in Requests \cup {Closer} : CloseTarget(p)

\* A request ends and releases its lease; a goroutine that can run does.
Fairness ==
    /\ \A r \in Requests : WF_vars(Release(r)) /\ WF_vars(ReleaseEntry(r))
    /\ \A p \in Requests \cup {Closer} : WF_vars(CloseTarget(p))

Spec == Init /\ [][Next]_vars
FairSpec == Spec /\ Fairness

(***************************************************************************)
(* Properties.                                                             *)
(***************************************************************************)
TypeOK ==
    /\ entry \in [Targets -> [key : Keys \cup {"none"}, active : 0..Cardinality(Requests),
                              retired : BOOLEAN, closed : BOOLEAN]]
    /\ entries \in [Keys -> Targets \cup {0}]
    /\ lru \in Seq(Targets)
    /\ lease \in [Requests -> [target : Targets \cup {0}, released : BOOLEAN]]
    /\ closing \in [Requests \cup {Closer} -> SUBSET Targets]

\* The connections of a target are never closed, nor chosen to be, while a
\* request leases it, whoever retires it in the meantime (Close's comment:
\* "does not interrupt active RoundTrips").
LeasedStaysOpen ==
    \A r \in Requests : lease[r].target # 0 =>
        /\ ~entry[lease[r].target].closed /\ calls[lease[r].target] = 0
        /\ \A p \in Requests \cup {Closer} : lease[r].target \notin closing[p]

\* The list, the map and the entries agree, the cache is never over its
\* capacity, and no target is closed twice.
Consistent ==
    /\ {lru[i] : i \in DOMAIN lru} = {entries[k] : k \in Keys} \ {0}
    /\ \A i, j \in DOMAIN lru : lru[i] = lru[j] => i = j
    /\ \A k \in Keys : entries[k] # 0 => entry[entries[k]].key = k /\ ~entry[entries[k]].retired
    /\ Len(lru) <= Capacity
    /\ \A t \in Targets : calls[t] + Cardinality({p \in Requests \cup {Closer} : t \in closing[p]}) <= 1

\* No target is lost: one that was built is cached, leased, or closed (or
\* somebody is about to close it).
NothingLeaks ==
    \A t \in Built : \/ t \in Cached
                     \/ \E r \in Requests : lease[r].target = t
                     \/ calls[t] = 1 \/ \E p \in Requests \cup {Closer} : t \in closing[p]

\* Once the cache is closed every target's connections are closed in the end.
AllClosedInTheEnd ==
    \A t \in Targets : closed /\ t \in Built ~> calls[t] = 1
=============================================================================
