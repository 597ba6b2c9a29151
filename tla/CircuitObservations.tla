------------------------ MODULE CircuitObservations ------------------------
(***************************************************************************)
(* Recent outcomes of physical routes as one process observes them         *)
(* (internal/policy/circuit_observation.go, recordAttempt of               *)
(* internal/dataplane/handler.go).  An observer reads the clock and takes  *)
(* the mutex later, so that observations arrive out of order; a clock may  *)
(* also go back.  The log of what was applied is kept only to state the    *)
(* properties.                                                             *)
(***************************************************************************)
EXTENDS Naturals, Sequences, FiniteSets, FiniteSetsExt

CONSTANTS Keys,              \* numbers, which order the keys
          MaximumEntries, FailureThreshold, OpenInterval, StaleAfter,
          MaxTime, MaxObservations

VARIABLES entries,   \* the map, NoEntry where a key has none
          log        \* applied outcomes of each key's present entry, latest first

vars == <<entries, log>>

Times == 1..MaxTime
NoEntry == [failures |-> 0, openedAt |-> 0, lastAt |-> 0]
Known == {k \in Keys : entries[k].lastAt # 0}

Stale(entry, at) == at >= entry.lastAt + StaleAfter

\* Slip: room is made only once the bound is passed.
EvictedLate(at) == IF Cardinality(Known) <= MaximumEntries THEN {} ELSE Known

\* makeRoom for a key that has no entry: stale ones go, else the oldest.
Evicted(at) ==
    LET stale == {k \in Known : Stale(entries[k], at)}
        oldest == {k \in Known : \A j \in Known : \/ entries[k].lastAt < entries[j].lastAt
                                                  \/ entries[k].lastAt = entries[j].lastAt /\ k <= j}
    IN IF Cardinality(Known) < MaximumEntries THEN {}
       ELSE IF stale # {} THEN stale
       ELSE oldest

\* Slip: failures that are long past still count.
FreshAlways(entry, at) == entry

\* The window an outcome is counted in.
Fresh(entry, at) == IF entry.lastAt # 0 /\ Stale(entry, at) THEN NoEntry ELSE entry

\* Slip: the failures are counted without end.
CountedOn(entry, failure, at) ==
    [failures |-> IF failure THEN entry.failures + 1 ELSE 0, openedAt |-> at, lastAt |-> at]

Counted(entry, failure, at) ==
    LET n == IF failure THEN Min({entry.failures + 1, FailureThreshold}) ELSE 0 IN
    [failures |-> n,
     openedAt |-> IF ~failure THEN 0 ELSE IF n >= FailureThreshold THEN at ELSE entry.openedAt,
     lastAt |-> at]

\* Slip: a late observation is applied.
Anytime(k, at) == TRUE

\* An observation older than the latest one is dropped.
InOrder(k, at) == at >= entries[k].lastAt

Record(k, at, failure) ==
    LET gone == IF k \in Known THEN {} ELSE Evicted(at) IN
    /\ Len(log[k]) < MaxObservations
    /\ InOrder(k, at)
    /\ entries' = [j \in Keys |-> CASE j = k -> Counted(Fresh(entries[k], at), failure, at)
                                    [] j \in gone -> NoEntry
                                    [] OTHER -> entries[j]]
    /\ log' = [j \in Keys |-> CASE j = k -> <<[at |-> at, failure |-> failure]>> \o log[k]
                                [] j \in gone -> <<>>
                                [] OTHER -> log[j]]

\* stateAt
State(k, at) ==
    LET entry == entries[k] IN
    IF entry.lastAt = 0 \/ at < entry.lastAt \/ Stale(entry, at) THEN "stale"
    ELSE IF entry.failures < FailureThreshold THEN "closed"
    ELSE IF entry.openedAt = 0 \/ at < entry.openedAt THEN "stale"
    ELSE IF at < entry.openedAt + OpenInterval THEN "open"
    ELSE "half_open"

Init == entries = [k \in Keys |-> NoEntry] /\ log = [k \in Keys |-> <<>>]

Next == \E k \in Keys, at \in Times, failure \in BOOLEAN : Record(k, at, failure)

Spec == Init /\ [][Next]_vars

(***************************************************************************)
(* Properties.                                                             *)
(***************************************************************************)
TypeOK ==
    entries \in [Keys -> [failures : 0..FailureThreshold, openedAt : 0..MaxTime, lastAt : 0..MaxTime]]

\* A state other than stale follows from the latest outcomes alone: open or
\* half-open exactly if the last FailureThreshold of them failed with no gap of
\* StaleAfter between two of them, however late observations arrived.
StateFollowsOutcomes ==
    \A k \in Known, at \in Times : State(k, at) \in {"open", "half_open", "closed"} =>
        ((State(k, at) # "closed") =
            /\ Len(log[k]) >= FailureThreshold
            /\ \A i \in 1..FailureThreshold : log[k][i].failure
            /\ \A i \in 1..(FailureThreshold - 1) : log[k][i].at < log[k][i + 1].at + StaleAfter)

\* An entry goes only to keep the cache within its bound, and never while an
\* older one stays.
EvictsOldest ==
    LET new == {k \in Keys : entries'[k].lastAt # 0} IN
    /\ Cardinality(new) <= MaximumEntries
    /\ \A k \in Known \ new : /\ Cardinality(Known) = MaximumEntries
                             /\ \A j \in Known \cap new : entries[k].lastAt <= entries[j].lastAt

\* Time never runs backwards in an entry that stays.
LatestWins ==
    \A k \in Keys : entries'[k].lastAt # 0 => entries'[k].lastAt >= entries[k].lastAt
=============================================================================
