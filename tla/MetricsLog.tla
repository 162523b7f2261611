----------------------------- MODULE MetricsLog -----------------------------
(***************************************************************************)
(* What the metrics promise: every record call counts in full, at one      *)
(* moment, and GET /metrics answers with all counters as they are at one   *)
(* moment.                                                                 *)
(***************************************************************************)
EXTENDS Naturals, Sequences

CONSTANTS
    Window,   \* _LATENCY_WINDOW_SIZE
    Durations \* latencies of requests, in milliseconds

VARIABLES
    counts, \* the counters
    window, \* the latencies of the last requests
    cache,  \* <<hits, misses>> of the cache manager
    answer  \* the last answer of GET /metrics

logVars == <<counts, window, cache, answer>>

\* The counters, in the order in which a snapshot reads them.
DbReads == 1
DbWrites == 2
SearchEvents == 3
BatchFlushes == 4
QueriesWritten == 5
Counters == DbReads .. QueriesWritten

Zero == [c \in Counters |-> 0]

\* What a snapshot returns.
Snapshot(latencies, counters, hitsAndMisses) ==
    [latencies |-> latencies, counts |-> counters, cache |-> hitsAndMisses]

\* MUTANT: the deque has no maxlen.
AllLatencies(latencies) == latencies

\* A deque with maxlen drops the oldest element.
Latest(latencies) == IF Len(latencies) > Window THEN Tail(latencies) ELSE latencies

LogInit ==
    /\ counts = Zero
    /\ window = <<>>
    /\ cache = <<0, 0>>
    /\ answer = Snapshot(<<>>, Zero, <<0, 0>>)

\* record_db_read, record_db_write, record_search_event
RecordOne(c) ==
    /\ counts' = [counts EXCEPT ![c] = counts[c] + 1]
    /\ UNCHANGED <<window, cache, answer>>

RecordFlush ==
    /\ counts'[QueriesWritten] > counts[QueriesWritten]
    /\ counts' = [counts EXCEPT ![BatchFlushes] = counts[BatchFlushes] + 1,
                                ![QueriesWritten] = counts'[QueriesWritten]]
    /\ UNCHANGED <<window, cache, answer>>

RecordLatency(ms) ==
    /\ window' = Latest(Append(window, ms))
    /\ UNCHANGED <<counts, cache, answer>>

Lookup ==
    /\ cache' \in {<<cache[1] + 1, cache[2]>>, <<cache[1], cache[2] + 1>>}
    /\ UNCHANGED <<counts, window, answer>>

Answer ==
    /\ answer' = Snapshot(window, counts, cache)
    /\ UNCHANGED <<counts, window, cache>>

LogNext ==
    \/ \E c \in {DbReads, DbWrites, SearchEvents} : RecordOne(c)
    \/ RecordFlush
    \/ \E ms \in Durations : RecordLatency(ms)
    \/ Lookup
    \/ Answer

LogSpec == LogInit /\ [][LogNext]_logVars

=============================================================================
