--------------------------- MODULE LatencyTracker ---------------------------
(***************************************************************************)
(* The latency statistics (metrics/latency_tracker.h): threads that record *)
(* a latency, and threads that take a snapshot, at the same time.          *)
(*                                                                         *)
(* record adds to two atomic counters outside the mutex, with relaxed      *)
(* ordering, so that another thread may see the two additions in either    *)
(* order; the mutex then guards the range.  snapshot loads the counters    *)
(* while it holds the mutex, again relaxed: in either order.  What a       *)
(* thread does under the mutex is in nobody's sight but for the loads.     *)
(***************************************************************************)
EXTENDS Integers, Sequences, FiniteSets, SequencesExt

CONSTANTS
    Recorders,      \* threads that call stop
    Readers,        \* threads that call snapshot
    Latencies,      \* nanoseconds between start and stop
    MaxRecords,     \* bound on the calls of stop
    None            \* no latency, no thread

ASSUME TrackerAssumption ==
    /\ Latencies \subseteq Nat /\ MaxRecords \in Nat
    /\ None \notin Nat \cup Recorders \cup Readers

VARIABLES
    total_operations_, total_latency_ns_,   \* the atomic counters
    min_latency_ns_, max_latency_ns_,       \* the range, under the mutex
    mutex,          \* the reader that holds it, or None
    latency,        \* recorder -> what it records, or None
    todo,           \* recorder -> the counters it has not added to
    loaded,         \* the counters loaded by the reader that holds the mutex
    stats,          \* the last snapshot returned
    begun,          \* history: the latencies recorded, in the order of the calls
    done,           \* history: the same, in the order of the mutex
    seen            \* history: how many were done at the last snapshot

counters == <<total_operations_, total_latency_ns_>>
range == <<min_latency_ns_, max_latency_ns_>>
recording == <<latency, todo, begun>>
vars == <<counters, range, mutex, recording, loaded, stats, done, seen>>

\* LatencyStats, as constructed.
NoStats == [total_operations |-> 0, total_latency_ns |-> 0,
            min_latency_ns |-> 0, max_latency_ns |-> 0]

Init ==
    /\ total_operations_ = 0 /\ total_latency_ns_ = 0
    /\ min_latency_ns_ = 0 /\ max_latency_ns_ = 0
    /\ mutex = None
    /\ latency = [t \in Recorders |-> None]
    /\ todo = [t \in Recorders |-> {}]
    /\ loaded = [total_operations |-> None, total_latency_ns |-> None]
    /\ stats = NoStats
    /\ begun = <<>> /\ done = <<>> /\ seen = 0

-----------------------------------------------------------------------------
(* Recording *)

\* stop: the clock is steady, so the difference is not negative.
Stop(t, ns) ==
    /\ latency[t] = None /\ Len(begun) < MaxRecords
    /\ latency' = [latency EXCEPT ![t] = ns]
    /\ todo' = [todo EXCEPT ![t] = {"operations", "latency"}]
    /\ begun' = Append(begun, ns)
    /\ UNCHANGED <<counters, range, mutex, loaded, stats, done, seen>>

AddOperation(t) ==
    /\ "operations" \in todo[t]
    /\ total_operations_' = total_operations_ + 1
    /\ todo' = [todo EXCEPT ![t] = @ \ {"operations"}]
    /\ UNCHANGED <<total_latency_ns_, range, mutex, latency, begun, loaded, stats, done, seen>>

\* Seeded fault: the sum keeps only the last latency.
StoreLatency(t) ==
    /\ "latency" \in todo[t]
    /\ total_latency_ns_' = latency[t]
    /\ todo' = [todo EXCEPT ![t] = @ \ {"latency"}]
    /\ UNCHANGED <<total_operations_, range, mutex, latency, begun, loaded, stats, done, seen>>

AddLatency(t) ==
    /\ "latency" \in todo[t]
    /\ total_latency_ns_' = total_latency_ns_ + latency[t]
    /\ todo' = [todo EXCEPT ![t] = @ \ {"latency"}]
    /\ UNCHANGED <<total_operations_, range, mutex, latency, begun, loaded, stats, done, seen>>

\* Seeded fault: nothing is smaller than the initial 0.
LowerAlways(min, ns) == IF ns < min THEN ns ELSE min

\* A minimum of 0 stands for none yet.
Lower(min, ns) == IF min = 0 \/ ns < min THEN ns ELSE min

\* The part of record under the mutex, and its return.
UpdateRange(t) ==
    /\ latency[t] # None /\ todo[t] = {} /\ mutex = None
    /\ min_latency_ns_' = Lower(min_latency_ns_, latency[t])
    /\ max_latency_ns_' = IF latency[t] > max_latency_ns_ THEN latency[t] ELSE max_latency_ns_
    /\ done' = Append(done, latency[t])
    /\ latency' = [latency EXCEPT ![t] = None]
    /\ UNCHANGED <<counters, mutex, todo, begun, loaded, stats, seen>>

-----------------------------------------------------------------------------
(* Snapshots *)

LockSnapshot(r) ==
    /\ mutex = None
    /\ mutex' = r
    /\ UNCHANGED <<counters, range, recording, loaded, stats, done, seen>>

LoadOperations(r) ==
    /\ mutex = r /\ loaded.total_operations = None
    /\ loaded' = [loaded EXCEPT !.total_operations = total_operations_]
    /\ UNCHANGED <<counters, range, mutex, recording, stats, done, seen>>

LoadLatency(r) ==
    /\ mutex = r /\ loaded.total_latency_ns = None
    /\ loaded' = [loaded EXCEPT !.total_latency_ns = total_latency_ns_]
    /\ UNCHANGED <<counters, range, mutex, recording, stats, done, seen>>

\* The range is read, the mutex released, the copy returned.
ReturnSnapshot(r) ==
    /\ mutex = r /\ loaded.total_operations # None /\ loaded.total_latency_ns # None
    /\ stats' = [total_operations |-> loaded.total_operations,
                 total_latency_ns |-> loaded.total_latency_ns,
                 min_latency_ns   |-> min_latency_ns_,
                 max_latency_ns   |-> max_latency_ns_]
    /\ loaded' = [total_operations |-> None, total_latency_ns |-> None]
    /\ seen' = Len(done)
    /\ mutex' = None
    /\ UNCHANGED <<counters, range, recording, done>>

\* average_latency_ns of a snapshot.
Average(s) == IF s.total_operations = 0 THEN 0 ELSE s.total_latency_ns \div s.total_operations

-----------------------------------------------------------------------------
Next ==
    \/ \E t \in Recorders :
          \/ \E ns \in Latencies : Stop(t, ns)
          \/ AddOperation(t) \/ AddLatency(t) \/ UpdateRange(t)
    \/ \E r \in Readers :
          LockSnapshot(r) \/ LoadOperations(r) \/ LoadLatency(r) \/ ReturnSnapshot(r)

Spec == Init /\ [][Next]_vars

-----------------------------------------------------------------------------
(* Properties *)

SumOf(log) ==
    LET sum[i \in 0..Len(log)] == IF i = 0 THEN 0 ELSE sum[i - 1] + log[i]
    IN  sum[Len(log)]

\* What was recorded after the last latency of 0, which line 110 takes for none:
\* the minimum starts anew with the next.
SinceZero(log) == {log[i] : i \in {j \in DOMAIN log : \A k \in j..Len(log) : log[k] # 0}}

\* A snapshot (latency_tracker.h:90-101) holds every latency whose record had
\* returned, and nothing that was not recorded: its counters lie between the
\* latencies done and those begun, its maximum is exactly that of the latencies
\* done, and its minimum exactly that of those done since the last 0, or 0.
SnapshotCoversFinished ==
    LET finished == SubSeq(done, 1, seen)
    IN  /\ stats.total_operations \in seen..Len(begun)
        /\ stats.total_latency_ns \in SumOf(finished)..SumOf(begun)
        /\ stats.max_latency_ns = Max({0} \cup ToSet(finished))
        /\ stats.min_latency_ns = IF SinceZero(finished) = {} THEN 0 ELSE Min(SinceZero(finished))

\* No thread sees the statistics go back: of two snapshots, taken by any threads,
\* the later has counted at least as much (latency_tracker.h:92-96, 106-118).
SnapshotsAreMonotone ==
    [][/\ stats'.total_operations >= stats.total_operations
       /\ stats'.total_latency_ns >= stats.total_latency_ns
       /\ stats'.max_latency_ns >= stats.max_latency_ns]_vars

\* "Returns consistent snapshot of latency statistics" (latency_tracker.h:88):
\* the average of a snapshot lies within its range.
AverageWithinRange ==
    Average(stats) \in stats.min_latency_ns..stats.max_latency_ns

\* "min_latency_ns" (latency_tracker.h:35): the minimum of a snapshot is that of
\* the latencies recorded, one of 0 included.
MinimumIsExact ==
    seen > 0 => stats.min_latency_ns = Min(ToSet(SubSeq(done, 1, seen)))
=============================================================================
