------------------------------ MODULE Metrics ------------------------------
(***************************************************************************)
(* The in-process metrics.  The event loop records searches, latencies and *)
(* flushes and takes the snapshots; the threads of the pool record the     *)
(* reads and writes of database.py.  A record call takes the lock, loads a *)
(* counter, stores it, and releases the lock; a snapshot copies one        *)
(* variable after the other.  Threads switch between any two of these      *)
(* steps, and the event loop stands still while it waits for the lock.     *)
(***************************************************************************)
EXTENDS Integers, Sequences, FiniteSets, Functions

CONSTANTS
    Pool,      \* threads of the executor
    Window,    \* _LATENCY_WINDOW_SIZE
    Durations, \* latencies of requests, in milliseconds
    Percent,   \* percentile of the latency, in percent
    MaxCalls   \* bound: calls of metrics.py and cache lookups in one behaviour

Loop == "loop"
Threads == {Loop} \cup Pool
Nobody == "nobody"

ASSUME ThreadsAssumption == Loop \notin Pool /\ Nobody \notin Threads
ASSUME WindowAssumption == Window \in Nat \ {0} /\ Durations \subseteq Nat
ASSUME PercentAssumption == Percent \in 1 .. 100
ASSUME BoundsAssumption == MaxCalls \in Nat

VARIABLES
    counts,    \* the counters
    latencies, \* the deque
    cache,     \* <<hits, misses>> of the cache manager
    lock,      \* the thread that holds _lock
    at,        \* where each thread is in its call
    call,      \* its call: kind, amounts to add, latency, caller
    todo,      \* the variables its call has not dealt with
    reg,       \* the value it has loaded
    got,       \* what the snapshot under way has copied
    answer,    \* the last answer of GET /metrics
    queued,    \* search events on the queue or in the worker's buffer
    worker,    \* the batch worker's flush
    calls,     \* calls so far
    recorded,  \* history: what the calls that have returned added
    kept       \* history: the latencies they left in the window

Log == INSTANCE MetricsLog WITH counts <- recorded, window <- kept

DbReads == Log!DbReads
DbWrites == Log!DbWrites
SearchEvents == Log!SearchEvents
BatchFlushes == Log!BatchFlushes
QueriesWritten == Log!QueriesWritten
Counters == Log!Counters
Latencies == 0

\* The module's variables, and where the threads are.
store == <<counts, latencies, cache, answer>>
threads == <<lock, at, call, todo, reg, got>>
history == <<recorded, kept>>
vars == <<store, threads, queued, worker, calls, history>>

NoCall == [kind |-> "none", by |-> Log!Zero, ms |-> 0, caller |-> "none"]
NoSnapshot == Log!Snapshot(<<>>, Log!Zero, <<0, 0>>)

Init ==
    /\ counts = Log!Zero
    /\ latencies = <<>>
    /\ cache = <<0, 0>>
    /\ lock = Nobody
    /\ at = [t \in Threads |-> "idle"]
    /\ call = [t \in Threads |-> NoCall]
    /\ todo = [t \in Threads |-> {}]
    /\ reg = [t \in Threads |-> 0]
    /\ got = NoSnapshot
    /\ answer = NoSnapshot
    /\ queued = 0
    /\ worker = "rest"
    /\ calls = 0
    /\ recorded = Log!Zero
    /\ kept = <<>>

-----------------------------------------------------------------------------
(* The callers.                                                            *)

\* The amounts of a call that adds n to the counter c.
By(c, n) == [Log!Zero EXCEPT ![c] = n]

\* Thread t calls metrics.py and has to deal with these variables.
Call(t, c, fields) ==
    /\ at[t] = "idle"
    /\ calls < MaxCalls
    /\ calls' = calls + 1
    /\ at' = [at EXCEPT ![t] = "waiting"]
    /\ call' = [call EXCEPT ![t] = c]
    /\ todo' = [todo EXCEPT ![t] = fields]
    /\ UNCHANGED <<store, lock, reg, history>>

Add(t, by, caller) ==
    /\ Call(t, [kind |-> "add", by |-> by, ms |-> 0, caller |-> caller],
            {c \in Counters : by[c] > 0})
    /\ UNCHANGED got

\* POST /search: the event is on the queue when it is recorded.
Search ==
    /\ Add(Loop, By(SearchEvents, 1), "request")
    /\ queued' = queued + 1
    /\ UNCHANGED worker

\* A request, for whatever path, has been answered: the middleware records it.
Dispatch(ms) ==
    /\ Call(Loop, [kind |-> "latency", by |-> Log!Zero, ms |-> ms, caller |-> "request"],
            {Latencies})
    /\ UNCHANGED <<got, queued, worker>>

\* GET /metrics: the router reads the cache counters before the call.
Metrics ==
    /\ Call(Loop, [kind |-> "snapshot", by |-> Log!Zero, ms |-> 0, caller |-> "request"],
            Counters \cup {Latencies})
    /\ got' = [NoSnapshot EXCEPT !.cache = cache]
    /\ UNCHANGED <<queued, worker>>

\* GET /suggest counts a hit or a miss, on the event loop and without the lock.
Suggest ==
    /\ at[Loop] = "idle"
    /\ calls < MaxCalls
    /\ calls' = calls + 1
    /\ cache' \in {<<cache[1] + 1, cache[2]>>, <<cache[1], cache[2] + 1>>}
    /\ UNCHANGED <<counts, latencies, answer, threads, queued, worker, history>>

\* flush_buffer counts a batch of size queries, made of some queued events,
\* before it is written.
FlushBuffer(size, events) ==
    /\ worker = "rest"
    /\ size \in 1 .. events
    /\ events \in 1 .. queued
    /\ Add(Loop, [By(BatchFlushes, 1) EXCEPT ![QueriesWritten] = size], "worker")
    /\ queued' = queued - events
    /\ worker' = "counting"

\* MUTANT: the worker goes on after a failed flush.
WorkerSurvives == "rest"

\* An exception of increment_counts ends the worker.
AfterFailure == "dead"

\* increment_counts commits in a thread, or fails.
IncrementCounts(t) ==
    /\ worker = "writing"
    /\ \/ /\ Add(t, By(DbWrites, 1), "worker")
          /\ worker' = "recording"
       \/ /\ worker' = AfterFailure
          /\ UNCHANGED <<store, threads, calls, history>>
    /\ UNCHANGED queued

\* get_suggestions_by_prefix, get_all_queries, get_trending_queries; and
\* apply_decay, if it has changed a row.
Query(t) ==
    /\ \E c \in {DbReads, DbWrites} : Add(t, By(c, 1), "other")
    /\ UNCHANGED <<queued, worker>>

-----------------------------------------------------------------------------
(* The critical section.                                                   *)

\* MUTANT: no lock.
LockIgnored == TRUE

LockFree == lock = Nobody

Acquire(t) ==
    /\ at[t] = "waiting"
    /\ LockFree
    /\ lock' = t
    /\ at' = [at EXCEPT ![t] = "holding"]
    /\ UNCHANGED <<store, call, todo, reg, got, queued, worker, calls, history>>

\* The variables are dealt with in the order of their numbers.
First(fields) == CHOOSE f \in fields : \A g \in fields : f <= g

\* counter += amount, its load and its store.
Load(t) ==
    /\ at[t] = "holding"
    /\ call[t].kind = "add"
    /\ todo[t] # {}
    /\ reg' = [reg EXCEPT ![t] = counts[First(todo[t])]]
    /\ at' = [at EXCEPT ![t] = "loaded"]
    /\ UNCHANGED <<store, lock, call, todo, got, queued, worker, calls, history>>

Store(t) ==
    /\ at[t] = "loaded"
    /\ counts' = [counts EXCEPT ![First(todo[t])] = reg[t] + call[t].by[First(todo[t])]]
    /\ todo' = [todo EXCEPT ![t] = todo[t] \ {First(todo[t])}]
    /\ at' = [at EXCEPT ![t] = "holding"]
    /\ UNCHANGED <<latencies, cache, answer, lock, call, reg, got, queued, worker, calls,
                   history>>

AppendLatency(t) ==
    /\ at[t] = "holding"
    /\ call[t].kind = "latency"
    /\ todo[t] # {}
    /\ latencies' = Log!Latest(Append(latencies, call[t].ms))
    /\ todo' = [todo EXCEPT ![t] = {}]
    /\ UNCHANGED <<counts, cache, answer, lock, at, call, reg, got, queued, worker, calls,
                   history>>

\* get_metrics_snapshot copies the next variable.
Copy(t) ==
    /\ at[t] = "holding"
    /\ call[t].kind = "snapshot"
    /\ todo[t] # {}
    /\ got' = IF First(todo[t]) = Latencies THEN [got EXCEPT !.latencies = latencies]
              ELSE [got EXCEPT !.counts[First(todo[t])] = counts[First(todo[t])]]
    /\ todo' = [todo EXCEPT ![t] = todo[t] \ {First(todo[t])}]
    /\ UNCHANGED <<store, lock, at, call, reg, queued, worker, calls, history>>

\* MUTANT: the lock is not released.
LockKept == lock

LockAfterCall == Nobody

\* What the worker does after its call.
AfterCall == IF worker = "counting" THEN "writing" ELSE "rest"

\* The end of the with statement, and the return to the caller.
Release(t) ==
    /\ at[t] = "holding"
    /\ todo[t] = {}
    /\ lock' = LockAfterCall
    /\ at' = [at EXCEPT ![t] = "idle"]
    /\ call' = [call EXCEPT ![t] = NoCall]
    /\ reg' = [reg EXCEPT ![t] = 0]
    /\ answer' = IF call[t].kind = "snapshot" THEN got ELSE answer
    /\ got' = IF call[t].kind = "snapshot" THEN NoSnapshot ELSE got
    /\ worker' = IF call[t].caller = "worker" THEN AfterCall ELSE worker
    /\ recorded' = [c \in Counters |-> recorded[c] + call[t].by[c]]
    /\ kept' = IF call[t].kind = "latency" THEN Log!Latest(Append(kept, call[t].ms))
               ELSE kept
    /\ UNCHANGED <<counts, latencies, cache, todo, queued, calls>>

-----------------------------------------------------------------------------

LoopCall ==
    \/ Search
    \/ \E ms \in Durations : Dispatch(ms)
    \/ Metrics
    \/ Suggest
    \/ \E size, events \in 1 .. MaxCalls : FlushBuffer(size, events)

InLock(t) ==
    Acquire(t) \/ Load(t) \/ Store(t) \/ AppendLatency(t) \/ Copy(t) \/ Release(t)

Next ==
    \/ LoopCall
    \/ \E t \in Pool : IncrementCounts(t) \/ Query(t)
    \/ \E t \in Threads : InLock(t)

Spec == Init /\ [][Next]_vars

\* A thread that can run in its call runs; nobody need call.
FairSpec == Spec /\ \A t \in Threads : WF_vars(InLock(t))

-----------------------------------------------------------------------------
(* The answer.                                                             *)

\* a / b, rounded up
CeilDiv(a, b) == (a + b - 1) \div b

\* MUTANT: the rank is taken for an index.
RankAsIndex(n) == IF CeilDiv(Percent * n, 100) < n - 1 THEN CeilDiv(Percent * n, 100)
                  ELSE n - 1

\* max(0, min(math.ceil(percentile * n) - 1, n - 1)).  The product is a float,
\* whose ceiling is exact for 0.95 and all n up to the window's 1000.
Index(n) ==
    LET index == CeilDiv(Percent * n, 100) - 1
        clamped == IF index < n - 1 THEN index ELSE n - 1
    IN  IF clamped > 0 THEN clamped ELSE 0

\* sorted(values)
Ordered(values) ==
    LET order == CHOOSE p \in Bijection(DOMAIN values, DOMAIN values) :
                    \A i, j \in DOMAIN values : i < j => values[p[i]] <= values[p[j]]
    IN  [i \in DOMAIN values |-> values[order[i]]]

\* _percentile, for a window that is not empty: it is null for an empty one.
Percentile(values) == Ordered(values)[Index(Len(values)) + 1]

-----------------------------------------------------------------------------
(* Properties.                                                             *)

Amounts == [Counters -> Nat]
Snapshots == [latencies : Seq(Nat), counts : Amounts, cache : Nat \X Nat]

\* Every variable keeps to the values the program can give it.
TypeOK ==
    /\ counts \in Amounts
    /\ latencies \in Seq(Nat) /\ Len(latencies) <= Window
    /\ cache \in Nat \X Nat
    /\ lock \in Threads \cup {Nobody}
    /\ at \in [Threads -> {"idle", "waiting", "holding", "loaded"}]
    /\ call \in [Threads -> [kind : {"none", "add", "latency", "snapshot"}, by : Amounts,
                             ms : Nat, caller : {"none", "request", "worker", "other"}]]
    /\ todo \in [Threads -> SUBSET (Counters \cup {Latencies})]
    /\ reg \in [Threads -> Nat]
    /\ got \in Snapshots
    /\ answer \in Snapshots
    /\ queued \in Nat
    /\ worker \in {"rest", "counting", "writing", "recording", "dead"}
    /\ calls \in 0 .. MaxCalls
    /\ recorded \in Amounts
    /\ kept \in Seq(Nat)

\* The metrics are a log of atomic records: no call is lost to another thread's
\* load and store, and an answer of GET /metrics holds all counters, the last
\* latencies and the cache counters as they were at one moment.
LogSpec == Log!LogSpec

\* Two counters of an answer never contradict the program: at most one flush
\* that is counted is not among the writes (under way or failed, for a failed
\* one ends the worker), and no more queries are written than were searched.
CountersAgree ==
    /\ answer.counts[BatchFlushes] <= answer.counts[DbWrites] + 1
    /\ answer.counts[BatchFlushes] <= answer.counts[QueriesWritten]
    /\ answer.counts[QueriesWritten] <= answer.counts[SearchEvents]

\* The percentile of an answer is the least latency that Percent percent of the
\* window do not exceed, for short and full windows, with and without ties.
PercentileIsNearestRank ==
    LET window == answer.latencies
        Share(v) == Cardinality({i \in DOMAIN window : window[i] <= v}) * 100
        enough == Percent * Len(window)
    IN  window # <<>> =>
            /\ \E i \in DOMAIN window : window[i] = Percentile(window)
            /\ Share(Percentile(window)) >= enough
            /\ \A i \in DOMAIN window :
                  Share(window[i]) >= enough => window[i] >= Percentile(window)

\* No thread waits for ever: the lock, which the event loop blocks on, is free
\* again.
WaitersProceed == \A t \in Threads : at[t] = "waiting" ~> at[t] = "idle"

=============================================================================
