# Verification of the search typeahead system

TLA+ modules that model the program's own logic, TLC configurations that check
them on small instances, and theorems that TLAPS proves for every value of the
constants. Paths are relative to the repository.

## 1. The system

| Component | State | Operations | Talks to |
|---|---|---|---|
| Search API, `src/routers/search.py` | an unbounded `asyncio.Queue` | `POST /search`: reject blank, `put`, count the event | batch worker (queue), metrics |
| Batch worker, `src/services/batch_worker.py` | dict of counters, `last_flush_at` | receive, size flush, timer flush, drain on cancellation | SQLite in a thread, cache manager |
| Decay scheduler, `src/services/decay_scheduler.py` | none | every 24 h: decay, flush the cache, warm all | SQLite in a thread, cache manager |
| Cache manager, `src/cache/cache_manager.py` | Redis keys `suggest:<prefix>`, hit counters | get, warm one prefix, warm many, warm all, flush all | hash ring, four Redis nodes, SQLite |
| Hash ring, `src/cache/consistent_hash.py` | sorted virtual nodes | build, `get_node` | - |
| Database, `src/database.py` | table `queries`, unique without case | upsert increments, decay, prefix query, bulk insert | metrics |
| Lifespan, `src/main.py` | set of background tasks | start: init, connect, warm all, start tasks; stop: cancel, gather, close | all of the above |
| Metrics, `src/metrics.py`, `src/middleware/latency.py` | counters, rolling latency window, one lock | record, snapshot | - |
| Suggest, trending, debug, metrics APIs | none | read-only handlers | cache manager, SQLite |
| Browser page, `src/static/app.js` | box, debounce timer, request sequence, list, chosen item, hint, trending panel | listeners, timers, continuations of fetches | the APIs |
| Loader and entrypoint, `scripts/load_data.py`, `docker-entrypoint.sh` | the database file | seed if there is no file; combine CSV and generated rows, insert in batches | SQLite |

`GET /suggest` answers with what the cache holds and never asks the database.
So the correctness of the suggestions is that of the cache, and the cache is
written by three warmers (start-up, batch worker, decay scheduler) whose
coroutines interleave on one event loop and read the database in threads.

What is hard about it, and where it is looked at:

- an acknowledged search lives in memory, in the queue, in the dict or in the
  arguments of a call, until it is committed; timers, cancellation, failed
  threads and failed nodes all come in between (`BatchWorker`);
- a warm reads in a thread and stores later; warms of the same prefix overlap,
  with deletes of the decay cycle, failures, shutdowns and restarts in between
  (`PrefixCache`);
- one operation of the cache manager is many calls of many nodes, each of which
  can raise, with stores and expiry in between (`CacheNodes`);
- the event loop and the threads of the pool count in the same variables, under
  a lock on which the event loop stands still (`Metrics`);
- the answers to the page come in any order, while the list is under the keys
  (`SuggestBox`);
- the mapping of keys to nodes at its edges, and when the nodes change
  (`HashRing`);
- a seeding that stops half-way (`Seeding`).

The list "hazards" of `PROJECT.json` gives each of these at its line, with the
properties that look at it.

## 2. Modules

| Module | Models | Proofs | Instance for TLC |
|---|---|---|---|
| `EventLedger` | abstract: events are accepted, then counted or lost, once; a count grows by the searches that are counted | - | - |
| `BatchWorker` | the write path, from `POST /search` to the commit; shutdown, crash, restart | `BatchWorkerProofs` | `MCBatchWorker` |
| `AnswerCache` | abstract: a key comes to hold only what the database answered for it to a reader of the running process | - | - |
| `PrefixCache` | table, cache, the three warmers, failures of nodes and of SQLite, expiry, shutdown, crash, restart | `PrefixCacheProofs` | `MCPrefixCache` |
| `CacheNodes` | the cache manager's calls of the Redis nodes: connect, close, SET, flush, invalidation, lookup; TTLs | `CacheNodesProofs` | `MCCacheNodes` |
| `MetricsLog` | abstract: atomic records, answers of one moment | - | - |
| `Metrics` | the counters, the latency window, the lock, all their callers, `GET /metrics` | `MetricsProofs` | `MCMetrics` |
| `HashRing` | ring construction, `get_node`, change of nodes | `HashRingProofs` | `MCHashRing` |
| `SuggestBox` | the page | `SuggestBoxProofs` | `MCSuggestBox` |
| `Seeding` | entrypoint and loader | `SeedingProofs` | `MCSeeding` |
| `Ranking` | no code: ranks in a finite order, lemmas of the proofs about sorted and filtered sequences | in the module | - |

`BatchWorker` INSTANCEs `EventLedger`, `PrefixCache` `AnswerCache`, and `Metrics`
`MetricsLog`; each is shown to implement it. The modules meet where the components do. At the flush,
`BatchWorker` sees a re-warm only as something that returns or raises,
`PrefixCache` sees a batch only as a set of queries that are committed in one
step, each with what it adds to its row, and warmed afterwards, and `Metrics` sees both only as the calls they make of
`metrics.py`. At a key, `PrefixCache` says what is stored when and by whom, and
takes one call of Redis per step; `CacheNodes` says what these calls do to the
keys of a node and their TTLs, whoever makes them.

### BatchWorker

Events are numbered by acceptance; `log` holds their queries. The queue being
FIFO, it holds the events `taken + 1 .. Len(log)`. The worker's dict is the set
of events in it: its keys are their queries, its counts the number of events
per query. An action is one run of a coroutine between two awaits, or one step
of the thread in `increment_counts`:

- `Search`: the handler of `POST /search`.
- `Receive`, `AwaitEvent`, `Timeout`: the three outcomes of `wait_for`. With
  time-out 0, `wait_for` of Python 3.12 (the version of the Dockerfile) cancels
  the getter before it has run, so only `Timeout` is possible.
- `FlushBuffer` (inside `Receive`, `Timeout` and `Cancel`): `flush_buffer` up to
  its first await; `WriteReturned`, `WriteRaised`, `WarmReturned`, `WarmRaised`:
  the rest of it.
- `StartWrite`, `CommitWrite`, `FailWrite`: the thread. There are two slots,
  because the thread of a cancelled flush may still run when the handler of the
  cancellation submits the final one.
- `Cancel`, `StopWithoutWorker`, `Exit`: the lifespan after its `yield`;
  closing the event loop joins the threads. `Crash`, `Launch`: the process dies
  and is started again.
- `ApplyDecay`: the decay scheduler's thread records its write in the counter of
  database writes, which is the one thing the two tasks share in this module; what
  a decay does to the table is in `PrefixCache`.

`counted`, `added` and `lost` are what the ledger is about. `counted` and `added`
are the effect on the table: the events that are committed, and what the commits
added to each query, which `CommitWrite` takes from the counts of the dict
(`CountOf`). `lost` is a history variable, and `metrics.decays` the part of
`metrics.dbWrites` that decays recorded. The model over-approximates in one place:
when the queue is not empty `wait_for` may return without giving up the event
loop, while the model lets other actions happen between two `Receive`s.

### PrefixCache

`spelling` and `count` are the table, one row per class of queries equal
without case. `cache[p]` is empty or holds one value; the value is the set of
rows with their counts, since ties are in SQLite's order and the spelling of a
row does not change once it is stored. A warm is a fan-out of one coroutine per
prefix (`Warm`); each reads (`Load`) and stores (`Store`), or fails
(`ChildFails`), which ends its task but not its siblings, and at the start-up
the process. `Increment` is the commit of a batch with the start of its
re-warm; a batch adds to each of its rows the searches it has counted, at least
one for every query that belongs to the row (`Amounts`); `ApplyDecay`, `ScanNode`, `DeleteKeys`, `WarmAll` are the decay cycle,
whose SCAN answers in rounds with deletes in between; `Launch` and `WarmDone`
are the start-up, `Shutdown` and `Exit` the lifespan after its `yield`, with the
last batch of the worker's handler; `TaskFails` is a call of `database.py` that
raises in a task. Which tasks run, which faults may happen and which nodes may
be down are constants.

Two history variables serve the properties. `gone` holds the keys that expired
or were lost with their node since they were last stored. `raced` says that the
table changed while a coroutine held an answer it had not stored yet. Crashes
and shutdowns are bounded by the launches.

`AnswerCache` is what is left of this with no tasks and no phases: per key, the
answers the database can give now (`Current`), those that coroutines have read
and not stored (`Held`), and what is stored. A coroutine between its read and
its store is one that may still store; one that raises, is cancelled or dies
with the process has given up. What expires, is deleted or is lost with its node
is forgotten. `overtaken` maps to `raced`.

### CacheNodes

`ttl[p]` is what the TTL command answers for the key of `p`; what the key holds
is left to `PrefixCache`. SCAN is modelled by what Redis guarantees: it visits
every place of a node's key space at least once in rounds of its own choosing,
names the keys that are there, and may name a key twice. A call that raises may
have been executed (`FlushRaises`, `InvalidateRaises`). `inspect` is the prefix
of a `GET /cache/debug` between its GET and its TTL. `owed`, `due` and `went`
are history variables: the keys a flush found, those an invalidation was asked
to delete, and whether the inspected key went away. `invalidate_prefixes` is
`invalidate_queries_prefixes` with one query; nothing in `src/` calls either, so
any set of queries may come.

### Metrics

A call of `metrics.py` waits for the lock, takes it (`Acquire`), works on one
variable after the other in the order of the code (`Load` and `Store` of a
counter, `AppendLatency`, `Copy`), and releases it (`Release`). The callers are
`Search`, `Dispatch` (the middleware), `Metrics` (the router, which reads the
cache counters before), `FlushBuffer` and `IncrementCounts` (the batch worker,
which counts a flush before it writes it), `Query` (any other use of the
database) and `Suggest`, which counts hits and misses without the lock, on the
event loop. `recorded` and `kept` are the history the refinement maps to: what
the calls that have returned have added. A call blocks the event loop, so
`Loop` has one call at a time. `bulk_insert_queries` counts in the loader's own
process, where nobody reads it.

### HashRing, SuggestBox, Seeding

`HashRing` lets the hash be any function: the runs and proofs include equal
hashes of two virtual nodes, where the stable sort decides. A node is its place
in the configured list.

`SuggestBox` has one action per listener, timer and continuation. `wanted` (what
was typed last) and `answered` (which text the list answers) are history
variables. Texts are model values: only equality, and being blank, matters.

`Seeding` abstracts the seeded generator's templates and random numbers to
`Draws`, the queries its attempts yield in order; it gives up after `Attempts`
(20 in the code) attempts per query it needs. `HandRuns` says whether somebody may
also run the loader by hand. Filtering and deduplicating a
sequence of queries is keeping those at some places of it, in order (`Pick`).

## 3. What the runs show

Runs that pass:

| Run | Instance | Shows |
|---|---|---|
| `batch` | 2 queries, size 2, interval 2, 4 events, 1 decay per launch, 2 launches, every fault, fairness | each event in exactly one place (`EventsPartition`), the ledger is implemented, so that a query's count grows by its committed searches (`LedgerSpec`), only a dead worker, a withdrawn call, a failed write or a kill loses events (`LiveWorkerLosesNothing`), batches keep their size (`BatchWithinSize`), flushes and decays account for the counted writes (`FlushAccounting`), flushes never exceed the searches (`FlushesWithinSearches`), the dict is written (`BufferedEventuallyCounted`), the queue drains unless the worker stalled or died (`QueueDrainsUnlessStalled`), a shutdown ends (`ShutdownTerminates`) |
| `cache` | "a", "ab" on two nodes, of which one fails; worker and decay cycle; expiry, failing calls, shutdown, crash; 1 write of up to 2 searches, 2 launches, fairness | without a race or a second spelling the cache agrees with the table when no warm is under way (`FreshUnlessRaced`), and what trends is suggested under every prefix whose key has not expired or been lost with its node (`TrendingIsSuggested`: a key that is missing for any other reason refutes it); no warm leaves a stored query without one of its keys (`KeysPresentWhenQuiet`); nothing is stored under a key but what the database answered for it to this process (`AnswerCacheSpec`); a wrong key is repaired (`WrongKeyIsRepaired`) |
| `cache_nodes` | keys "a", "ab" on a fragile node, "b" on another; TTL 1; two operations at a time; fairness | a flush leaves no key that was there (`FlushLeavesNoOldKey`) and ends (`FlushEnds`); an invalidation leaves none of its keys on a node that answered (`InvalidatedKeysGo`); a lookup answers a hit without TTL only for a key that has gone (`HitWithoutTtlHasGone`); keys expire (`KeysExpire`) |
| `metrics` | the event loop and 2 threads, window 3, 2 latencies, median, 5 calls, fairness | the log is implemented (`LogSpec`), the counters of an answer agree (`CountersAgree`), the percentile is the nearest rank (`PercentileIsNearestRank`), no thread waits for ever (`WaitersProceed`) |
| `ring` | 3 nodes with 2 virtual nodes each, 4 hash values, all assignments | `OwnerIsNextClockwise`, `OnlyNeededKeysMove` |
| `suggest_box` | 2 texts, 3 edits, 1 of each other thing under way | `SettledListAnswersLastEdit`, `ActiveItemExists`, `HintAgrees` |
| `seeding` | every CSV of up to 3 records over 4 queries (two of them one row) and an invalid record, a generator that finds 2 queries in 6 attempts, 3 rows wanted, batches of 2, 3 starts | `FullUnlessInterrupted` |

Each of them also checks its module's `TypeOK`. Runs that end in a
counterexample show where the program does not do what the repository says:

| Run | Property | What happens |
|---|---|---|
| `batch_stall` | `AcceptedEventuallyCounted` | `flush_buffer` with an empty dict does not reset `last_flush_at`; after one idle interval the time-out is 0 for good and nothing is received until the shutdown, whose drain still saves the events |
| `batch_redis` | `ExitCountsAll` | a failing SET ends the worker; the shutdown has nobody left to drain the queue |
| `cache_race` | `FreshWhenQuiet` | the worker read before the decay and stores after the decay cycle's warm |
| `cache_case` | `FreshWhenQuiet` | a search for "A" counts in the row "a" and re-warms only the key "A" |
| `seeding_interrupted` | `ServedTableIsFull` | a container is stopped while it seeds itself, after the loader has created the file and before its last batch; started again, it finds the file and serves what is there. Nobody runs the loader by hand (`HandRuns` is FALSE) |

**Bounds.** Two queries and a size threshold of two are enough for both kinds
of flush and for repeated queries; four events reach a full batch, a partly
filled dict and a non-empty queue at the same time; two launches show a restart
over what the first run left. An interval of two ticks has a state before, at
and between. One decay in each launch (`MaxDecays`) can come at any moment of a
flush. In the cache, two prefixes on two nodes, one shared by two rows,
give each warm something of its own and something in common; `Limit` 1 makes
the top of two rows a choice. One write (`MaxWrites`), by the loop or by the
handler of the cancellation, races with the start-up's, the decay cycle's and a
failed task's coroutines; its two searches (`MaxSearches`) are of one query or of
two, and can lift a new row over an older one; decay cycles are not bounded. Two writes are in
`cache_case`, where the second search is the one spelled otherwise. In
`cache_nodes` a node with two keys makes SCAN take up to two rounds, TTL 1 lets a
key expire in the middle of each operation, and `MaxUnderWay` 2 lets every two
operations overlap. In `metrics`, five calls (`MaxCalls`) fill the window and
drop an element, let a flush, its write and a query follow two searches, and let
three threads meet at the lock; the percentile is 50 because with 95 the rank is
the maximum in every window TLC can reach. For the ring, 6 virtual nodes on 4
positions force collisions, wrap-around and keys that hit a virtual node. Three
edits are a newer request, an older one, and a timer.

`CHECK_DEADLOCK FALSE` is given where the bounds, or a process that has exited
or is served to the end, really stop the system.

**Fairness.** `BatchWorker`: the event loop runs ready tasks and the worker is
one (weak fairness of its steps), the threads of the executor make progress,
the clock advances, a shutdown finishes. Searches, cancellation and faults are
not fair. In `batch_stall` the counterexample is therefore one in which the
worker runs all the time. `PrefixCache`: each of the three tasks runs when it can
(its coroutines, their end, and for the decay task its cycle, since its interval
elapses), and a process that is down, or stopping, is started and ends. A failed
node need not return and nothing else of the environment is fair: a key on a
node that stays down fails every warm, which ends the tasks. `CacheNodes`: time
passes, the calls of a flush are answered or raise, and gather returns. Stores
are not fair, and may come at any rate. `Metrics`: a thread that can run inside
its call does; nobody need call.

**Mutants.** Each property has a changed definition beside the one it replaces
(marked `MUTANT`), a plausible slip in that line of the code, under which TLC
must refute the property.

## 4. What is proved

The proofs hold for every value of the constants that satisfies the named
assumptions; the bounds (`MaxEvents`, `MaxEdits`, ...) are constants too, so
the proofs hold for any number of events, edits, writes, launches, calls and
threads.

- **`BatchWorkerProofs`.** `IInv` is type correctness with two parts.
  `ControlInv`: which states of the worker, the two calls and the process go
  together; without it a second flush could overwrite a call under way.
  `HoldersInv`: the events taken from the queue are exactly those in the dict,
  the calls, `counted` and `lost`, pairwise disjoint; this is
  `EventsPartition` with the queue split off, which is what makes it inductive.
  From `IInv` follow `EventsPartitionCorrect`, `CleanExitCorrect` and, with an
  invariant of its own about sizes, `BatchWithinSizeCorrect`. `ImplementsLedger`
  maps every step to a step of `EventLedger` or a stutter: a call in flight holds
  events that are open in the ledger, and what its commit adds to a query is the
  number of them that are searches for it.
  Neither counter property is inductive. `AccountingInv` adds to
  `FlushAccounting` that a call in flight holds an event: that is why
  withdrawing, failing or killing it makes `lost` non-empty, the only way
  flushes and decays together run ahead of the write counter and the calls in
  flight. A decay adds one to both sides. `WrittenInv` adds to `FlushesWithinSearches` the
  events still to flush: the queries written, the dict and the queue together
  never exceed the searches of the launch. A flush keeps it because aggregating
  makes at most as many keys as events (`KeysBounds`). They give
  `FlushAccountingCorrect` and `FlushesWithinSearchesCorrect`.
  `FaultlessCountsAll` is what the run `batch_redis` refutes once a SET may
  fail: with no fault enabled (`Faults = {}`), `ExitCountsAll` holds and nothing
  is ever lost, because no call then waits for a thread or raises, and the
  worker lives until it is cancelled (`FaultlessInv`).
- **`PrefixCacheProofs`.** `CacheInv` is type correctness with three parts:
  `PhaseInv` (which task has coroutines in which phase of the process),
  `StoredInv` (what is cached or about to be stored belongs to a stored row) and
  `MissingIsPending` (while no task has died, a missing key of a stored query
  went since it was stored, or somebody is about to store it). It gives
  `KeysPresentCorrect`. `FreshInv` adds that, unless the table overtook a warm, a
  coroutine carries an answer that is still right and a stale key is about to
  be overwritten: `FreshUnlessRacedCorrect`. `FreshWithOneWarmer` shows that
  without the decay task nothing can be overtaken (`AloneInv`), so that with one
  spelling `FreshWhenQuiet` itself holds; each hypothesis is needed, as
  `cache_case` and `cache_race` show. `TrendingIsSuggestedCorrect` follows from
  `KeysPresentWhenQuiet`, by which a trending query has its keys unless they went,
  and `FreshUnlessRaced`, by which they hold an answer of the table now, with a
  counting argument: the best rows of the table that match a prefix are among the
  best that match it.
  `ImplementsAnswerCache` needs no invariant but two parts of `CacheInv`: the
  types, and `PhaseInv` (a process that starts has no coroutine left to store).
  Every action of the tasks, the nodes and the lifespan is a step of
  `AnswerCache` or a stutter, with all faults.
- **`CacheNodesProofs`.** `NodesInv`: a key that a flush found and that is still
  there is one that SCAN has yet to visit or that is about to be deleted; the
  keys an invalidation was asked for on a node are those of its DELETE; the
  inspected key is there or has gone; no key is without TTL. It gives
  `FlushCorrect`, `InvalidationCorrect` and `HitCorrect` for any keys, any nodes
  and any split into rounds.
- **`MetricsProofs`.** `MetricsInv`: only the holder of the lock is in its
  critical section (`LockInv`); what is left to do in a call (`CallInv`); the
  variables hold what the calls that have returned left, and what the call in
  the lock has added so far (`ValueInv`). It maps `Release` to the step of
  `MetricsLog` that the call stands for, `Suggest` to `Lookup`, and every other
  step to a stutter: `LogCorrect`. `CountersCorrect` adds to it that the worker
  has one call at a time, the one its flush has come to (`WorkerInv`), and that
  the queries that wait or are being counted were searched (`RecordedInv`).
  `PercentileCorrect`: every window can be sorted, since ranking its elements by
  value and place is a permutation (`Ranking`); the index the code computes by
  rounding up is the least that covers the share (`IndexCovers`); and at a place
  of a sorted sequence at least so many values are as small, and no more than
  the places before it are smaller.
- **`HashRingProofs`.** `OwnerCorrect` and `RemappingCorrect`, from the fact
  that the stable sort is a strict total order of the entries, so that the first
  of a set of entries stays first in every subset it belongs to.
- **`SuggestBoxProofs`.** `LastEditAnswered`, `ActiveItemCorrect`,
  `HintCorrect`. The invariant says that a timer is for the text wanted, that a
  request with the latest number is for it too unless a timer runs or the box
  was emptied, and that a shown list answers it unless something is pending.
- **`SeedingProofs`.** `FullUnlessInterrupted` speaks of a serving container
  only, and is not inductive: a load is many batches, and it may be stopped or
  refused in between. `FullInv` says what a load in progress has done so far (the
  keys of the rows up to `start` are in the table), and that a file no load was
  cut off from holds every prepared row. `FullCorrect` then counts: the prepared
  rows have as many distinct keys as rows when a query has one spelling
  (`OneSpelling`), and the code refuses fewer than `--min-rows`. The lemmas on
  `Pick` say which elements it returns and that it keeps distinct ones apart.
- **`Ranking`.** `RankBijection`: in a finite set with a strict total order,
  counting the elements up to one is an order-keeping bijection to the first
  numbers. It stands in for the induction that sorting and filtering would need.

Every safety property and every refinement of a passing run is stated by one of
these theorems. Only model-checked is liveness (TLAPS has no ENABLED, hence no
weak fairness): `BufferedEventuallyCounted`, `QueueDrainsUnlessStalled`,
`ShutdownTerminates`, `WrongKeyIsRepaired`, `FlushEnds`, `KeysExpire`,
`WaitersProceed`.

## 5. Not modelled

LIKE escaping and the journal mode of SQLite; the texts of the loader's query
templates, about 800 lines of lists and formats whose only effect on the program
is which queries the attempts yield (`Draws`); the configuration and the
containers, beyond failing nodes and restarts; `reset_metrics`, which only the
tests call; the two ratios of the metrics, quotients of values a snapshot holds;
the second that an append-only file may lose with a node that loses power;
markup and style. That keys in another spelling become right again is not
promised by the program. HTTP, Redis, SQLite and asyncio are modelled by what the
code relies on (entries marked external in the map).

## 6. Plan

Done, in this order: the write path with its ledger, the cache, the hash ring,
the page, the seeding; the shutdown, failing calls and SCAN rounds in the cache,
with the trending queries; the calls of the Redis nodes; the metrics with their
log; the abstract cache; the proofs of all of these.

Next:

1. `FaultlessCountsAll` fault by fault: which fault alone can lose which events.
2. `Service`: batch worker and cache in one module that refines both, so that
   "counted" and "visible in the suggestions" meet in one property, and the
   theorems of both carry over.
3. The loader refusing although the generator could yield more queries.
