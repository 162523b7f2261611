---------------------------- MODULE BatchWorker ----------------------------
(***************************************************************************)
(* The search write path: POST /search, the asyncio queue, the batch       *)
(* worker task, the thread that runs increment_counts, and the shutdown,   *)
(* crash and restart of the process that owns them.                        *)
(*                                                                         *)
(* Events are numbered in the order POST /search accepts them and log      *)
(* remembers their query.  asyncio.Queue is FIFO, so the queue always      *)
(* holds the events taken+1 .. Len(log).  The worker's dict of counters    *)
(* is the set of events added into it: buffer.get(query, 0) is the number  *)
(* of its events with that query, len(buffer) the number of distinct       *)
(* queries among them.                                                     *)
(*                                                                         *)
(* One action is one run of a coroutine from an await to the next, or one  *)
(* step of the thread that executes increment_counts.  The decay scheduler *)
(* is here only as far as it shares state with this path: the counter of   *)
(* database writes, which its thread bumps too.                            *)
(***************************************************************************)
EXTENDS Naturals, Sequences, FiniteSets

CONSTANTS
    Queries,        \* non-blank query strings, after strip()
    BatchSize,      \* BATCH_SIZE
    FlushInterval,  \* BATCH_FLUSH_INTERVAL_SECONDS, in ticks of the clock
    Faults,         \* which faults the environment may produce
    MaxEvents,      \* bound: events accepted in one behaviour
    MaxDecays,      \* bound: decays of the counts in one run of the process
    MaxLaunches     \* bound: starts of the process in one behaviour

(* "pool":  no thread of the default executor is free when work arrives    *)
(* "db":    increment_counts raises (locked database, full disk)           *)
(* "redis": re-warming raises (a Redis node is unreachable)                *)
(* "crash": the process is killed                                          *)
FaultKinds == {"pool", "db", "redis", "crash"}

ASSUME BatchSizeAssumption == BatchSize \in Nat \ {0}
ASSUME FlushIntervalAssumption == FlushInterval \in Nat \ {0}
ASSUME FaultsAssumption == Faults \subseteq FaultKinds
ASSUME BoundsAssumption ==
    MaxEvents \in Nat /\ MaxDecays \in Nat /\ MaxLaunches \in Nat \ {0}

VARIABLES
    app,        \* the process: "up", "stopping" (lifespan after yield), "exited"
    launches,   \* how often the process was started
    worker,     \* where the batch worker task is suspended
    log,        \* query of every accepted event, in order
    taken,      \* events removed from the queue (or gone with it)
    buffer,     \* events aggregated in the worker's dict
    elapsed,    \* ticks since last_flush_at, saturating at FlushInterval
    job,        \* increment_counts calls handed to the executor
    counted,    \* events whose increment is committed in SQLite
    added,      \* query -> what the commits added to its count, all told
    lost,       \* events accepted by the API that nothing holds any more
    metrics     \* the counters of metrics.py this path writes, and how many
                \* of the database writes they count are decays

vars == <<app, launches, worker, log, taken, buffer, elapsed, job, counted,
          added, lost, metrics>>

(***************************************************************************)
(* "loop": top of the while loop        "waiting": in queue.get()          *)
(* "writing": awaits increment_counts   "warming": awaits the re-warm      *)
(* "finalWriting", "finalWarming": the same inside the handler of          *)
(*   CancelledError                                                        *)
(* "ended": finished after cancellation                                    *)
(* "failed": finished with an exception that is not CancelledError         *)
(***************************************************************************)
WorkerStates == {"loop", "waiting", "writing", "warming", "finalWriting",
                 "finalWarming", "ended", "failed"}

\* A flush of the running loop, and the flush of the cancellation handler:
\* the thread of the first may still run when the second is submitted.
Slots == {"flush", "final"}

JobStates == {"none", "queued", "running", "done", "error"}

Events == 1 .. Len(log)
Queued == (taken + 1) .. Len(log)

NoJob == [events |-> {}, st |-> "none"]

Unsettled(slot) == job[slot].st \in {"queued", "running"}

\* The keys of the dict that aggregates these events.
Keys(events) == {log[e] : e \in events}

\* The count the dict holds for a query.  Counting adds one per event:
\* buffer.get(query, 0) + 1.
EventsOf(events, q) == {e \in events : log[e] = q}

\* MUTANT: the first event of a query sets its count and the others do not.
CountOnce(events, q) == IF q \in Keys(events) THEN 1 ELSE 0

CountOf(events, q) == Cardinality(EventsOf(events, q))

\* decays is no counter of the program: it is the part of dbWrites that the
\* decay scheduler's thread recorded.
NoMetrics == [searchEvents |-> 0, flushes |-> 0, written |-> 0, dbWrites |-> 0,
              decays |-> 0]

RecordSearchEvent == [metrics EXCEPT !.searchEvents = @ + 1]

RecordBatchFlush(queriesWritten) ==
    [metrics EXCEPT !.flushes = @ + 1, !.written = @ + queriesWritten]

\* MUTANT: the recorder is not called on the write path.
DbWriteUnrecorded == metrics

RecordDbWrite == [metrics EXCEPT !.dbWrites = @ + 1]

Init ==
    /\ app = "up"
    /\ launches = 1
    /\ worker = "loop"
    /\ log = <<>>
    /\ taken = 0
    /\ buffer = {}
    /\ elapsed = 0
    /\ job = [slot \in Slots |-> NoJob]
    /\ counted = {}
    /\ added = [q \in Queries |-> 0]
    /\ lost = {}
    /\ metrics = NoMetrics

-----------------------------------------------------------------------------
(***************************************************************************)
(* POST /search with a non-blank query: queue.put never blocks (the queue  *)
(* is unbounded), so accepting the event and recording it are one step. A  *)
(* blank query is answered with 400 and changes nothing.                   *)
(***************************************************************************)
Search(q) ==
    /\ app = "up"
    /\ Len(log) < MaxEvents
    /\ log' = Append(log, q)
    /\ metrics' = RecordSearchEvent
    /\ UNCHANGED <<app, launches, worker, taken, buffer, elapsed, job,
                   counted, added, lost>>

\* The put resolved the getter the worker waits on: the event loop runs the
\* worker before it looks at the timers again.
WakeupPending == worker = "waiting" /\ taken < Len(log)

\* The monotonic clock.  What matters is how it compares with the interval.
Tick ==
    /\ app # "exited"
    /\ elapsed < FlushInterval
    /\ ~WakeupPending
    /\ elapsed' = elapsed + 1
    /\ UNCHANGED <<app, launches, worker, log, taken, buffer, job, counted,
                   added, lost, metrics>>

-----------------------------------------------------------------------------
(***************************************************************************)
(* flush_buffer with a non-empty dict, up to its first await: the dict and *)
(* last_flush_at are reset and the flush is recorded before the write is   *)
(* handed to the executor.  jobs is what the executor holds at that time.  *)
(***************************************************************************)
Submitted == IF "pool" \in Faults THEN "queued" ELSE "running"

\* MUTANT: the dict is not replaced by a new one.
KeepBuffer(events, slot, jobs) ==
    /\ buffer' = events
    /\ elapsed' = 0
    /\ metrics' = RecordBatchFlush(Cardinality(Keys(events)))
    /\ job' = [jobs EXCEPT ![slot] = [events |-> events, st |-> Submitted]]

\* MUTANT: last_flush_at is given the time of the next flush.
FlushTimeAhead(events, slot, jobs) ==
    /\ buffer' = {}
    /\ elapsed' = 0 - FlushInterval
    /\ metrics' = RecordBatchFlush(Cardinality(Keys(events)))
    /\ job' = [jobs EXCEPT ![slot] = [events |-> events, st |-> Submitted]]

FlushBuffer(events, slot, jobs) ==
    /\ buffer' = {}
    /\ elapsed' = 0
    /\ metrics' = RecordBatchFlush(Cardinality(Keys(events)))
    /\ job' = [jobs EXCEPT ![slot] = [events |-> events, st |-> Submitted]]

\* MUTANT: one more key than the size allows.
BatchOverfull(events) == Cardinality(Keys(events)) > BatchSize

BatchFull(events) == Cardinality(Keys(events)) >= BatchSize

(***************************************************************************)
(* wait_for(queue.get(), timeout) can return an event.  With a positive    *)
(* timeout a non-empty queue answers at once; with timeout 0 wait_for      *)
(* cancels the getter before it has run, so nothing is received.           *)
(***************************************************************************)
GetterRuns ==
    \/ worker = "loop" /\ elapsed < FlushInterval
    \/ worker = "waiting"

Receive ==
    /\ GetterRuns
    /\ taken < Len(log)
    /\ taken' = taken + 1
    /\ LET filled == buffer \cup {taken + 1}
       IN  \/ /\ BatchFull(filled)
              /\ FlushBuffer(filled, "flush", job)
              /\ worker' = "writing"
           \/ /\ ~BatchFull(filled)
              /\ buffer' = filled
              /\ worker' = "loop"
              /\ UNCHANGED <<elapsed, job, metrics>>
    /\ UNCHANGED <<app, launches, log, counted, added, lost>>

\* The queue is empty and the timeout positive: the getter suspends.
AwaitEvent ==
    /\ worker = "loop"
    /\ elapsed < FlushInterval
    /\ taken = Len(log)
    /\ worker' = "waiting"
    /\ UNCHANGED <<app, launches, log, taken, buffer, elapsed, job, counted,
                   added, lost, metrics>>

\* MUTANT: a getter that suspended is never timed out.
TimedOutBeforeWaiting == worker = "loop" /\ elapsed = FlushInterval

TimedOut == worker \in {"loop", "waiting"} /\ elapsed = FlushInterval

(***************************************************************************)
(* wait_for raises TimeoutError, because the timer of a suspended getter   *)
(* fired or because the timeout was already 0, and flush_buffer is called. *)
(* With an empty buffer it returns early and leaves last_flush_at as it    *)
(* was.                                                                    *)
(***************************************************************************)
Timeout ==
    /\ TimedOut
    /\ \/ /\ buffer = {}
          /\ worker' = "loop"
          /\ UNCHANGED <<buffer, elapsed, job, metrics>>
       \/ /\ buffer # {}
          /\ FlushBuffer(buffer, "flush", job)
          /\ worker' = "writing"
    /\ UNCHANGED <<app, launches, log, taken, counted, added, lost>>

-----------------------------------------------------------------------------
(* increment_counts on a thread of the default executor.                   *)

StartWrite(slot) ==
    /\ app # "exited"
    /\ job[slot].st = "queued"
    /\ job' = [job EXCEPT ![slot].st = "running"]
    /\ UNCHANGED <<app, launches, worker, log, taken, buffer, elapsed,
                   counted, added, lost, metrics>>

\* One transaction for the whole batch, which adds the dict's count to each of
\* its queries, then record_db_write.
CommitWrite(slot) ==
    /\ app # "exited"
    /\ job[slot].st = "running"
    /\ counted' = counted \cup job[slot].events
    /\ added' = [q \in Queries |-> added[q] + CountOf(job[slot].events, q)]
    /\ job' = [job EXCEPT ![slot] = [events |-> {}, st |-> "done"]]
    /\ metrics' = RecordDbWrite
    /\ UNCHANGED <<app, launches, worker, log, taken, buffer, elapsed, lost>>

\* SQLite raises, the connection's context manager rolls back; the updates
\* live only in the list that was passed to the call.
FailWrite(slot) ==
    /\ "db" \in Faults
    /\ app # "exited"
    /\ job[slot].st = "running"
    /\ lost' = lost \cup job[slot].events
    /\ job' = [job EXCEPT ![slot] = [events |-> {}, st |-> "error"]]
    /\ UNCHANGED <<app, launches, worker, log, taken, buffer, elapsed,
                   counted, added, metrics>>

(***************************************************************************)
(* The decay scheduler's thread has committed apply_decay and records its  *)
(* write, in the middle of anything this path does.  It reads and writes   *)
(* nothing else here: what it does to the counts is in PrefixCache.  A     *)
(* decay that updates no row is not recorded and changes nothing.          *)
(***************************************************************************)
ApplyDecay ==
    /\ app # "exited"
    /\ metrics.decays < MaxDecays
    /\ metrics' = [RecordDbWrite EXCEPT !.decays = @ + 1]
    /\ UNCHANGED <<app, launches, worker, log, taken, buffer, elapsed, job,
                   counted, added, lost>>

-----------------------------------------------------------------------------
(* flush_buffer after its awaits.                                          *)

\* MUTANT: the handler awaits the call of the loop.
LoopSlot == "flush"

\* The write the worker awaits: in the loop, or in the cancellation handler.
AwaitedSlot == IF worker = "finalWriting" THEN "final" ELSE "flush"

WriteReturned ==
    /\ worker \in {"writing", "finalWriting"}
    /\ job[AwaitedSlot].st = "done"
    /\ job' = [job EXCEPT ![AwaitedSlot] = NoJob]
    /\ worker' = IF worker = "writing" THEN "warming" ELSE "finalWarming"
    /\ UNCHANGED <<app, launches, log, taken, buffer, elapsed, counted, added,
                   lost, metrics>>

\* Nothing in the task catches the exception.  In the cancellation handler
\* it replaces the CancelledError and the lifespan's gather discards it.
WriteRaised ==
    /\ worker \in {"writing", "finalWriting"}
    /\ job[AwaitedSlot].st = "error"
    /\ job' = [job EXCEPT ![AwaitedSlot] = NoJob]
    /\ worker' = IF worker = "writing" THEN "failed" ELSE "ended"
    /\ UNCHANGED <<app, launches, log, taken, buffer, elapsed, counted, added,
                   lost, metrics>>

\* MUTANT: the task returns after a flush instead of looping.
WarmEndsTask ==
    /\ worker \in {"warming", "finalWarming"}
    /\ worker' = "ended"
    /\ UNCHANGED <<app, launches, log, taken, buffer, elapsed, job, counted,
                   added, lost, metrics>>

WarmReturned ==
    /\ worker \in {"warming", "finalWarming"}
    /\ worker' = IF worker = "warming" THEN "loop" ELSE "ended"
    /\ UNCHANGED <<app, launches, log, taken, buffer, elapsed, job, counted,
                   added, lost, metrics>>

\* warm_prefixes_for_queries gathers without return_exceptions: one failing
\* SET raises out of the worker.
WarmRaised ==
    /\ "redis" \in Faults
    /\ worker \in {"warming", "finalWarming"}
    /\ worker' = IF worker = "warming" THEN "failed" ELSE "ended"
    /\ UNCHANGED <<app, launches, log, taken, buffer, elapsed, job, counted,
                   added, lost, metrics>>

-----------------------------------------------------------------------------
(* Shutdown, crash and restart of the process.                             *)

(***************************************************************************)
(* The lifespan cancels the worker task.  CancelledError is raised at the  *)
(* await the worker is suspended in; its handler drains the queue into the *)
(* dict and flushes what is there.  Cancelling the future of to_thread     *)
(* withdraws a call no thread has picked up yet, and leaves one that runs  *)
(* to its thread.  A task that failed earlier is tracked no longer.        *)
(***************************************************************************)
Withdrawn == IF worker = "writing" /\ job["flush"].st = "queued"
             THEN job["flush"].events ELSE {}

Abandoned == [job EXCEPT !["flush"] =
                 IF worker = "writing" /\ @.st # "running" THEN NoJob ELSE @]

\* MUTANT: the handler flushes the dict without draining the queue.
Undrained == buffer

Drained == buffer \cup Queued

Cancel ==
    /\ app = "up"
    /\ worker \in {"loop", "waiting", "writing", "warming"}
    /\ app' = "stopping"
    /\ taken' = Len(log)
    /\ lost' = lost \cup Withdrawn
    /\ \/ /\ Drained = {}
          /\ worker' = "ended"
          /\ job' = Abandoned
          /\ UNCHANGED <<buffer, elapsed, metrics>>
       \/ /\ Drained # {}
          /\ FlushBuffer(Drained, "final", Abandoned)
          /\ worker' = "finalWriting"
    /\ UNCHANGED <<launches, log, counted, added>>

StopWithoutWorker ==
    /\ app = "up"
    /\ worker = "failed"
    /\ app' = "stopping"
    /\ UNCHANGED <<launches, worker, log, taken, buffer, elapsed, job,
                   counted, added, lost, metrics>>

\* The lifespan returns; closing the event loop joins the executor's threads.
Exit ==
    /\ app = "stopping"
    /\ worker \in {"ended", "failed"}
    /\ \A slot \in Slots : ~Unsettled(slot)
    /\ app' = "exited"
    /\ lost' = lost \cup Queued
    /\ taken' = Len(log)
    /\ UNCHANGED <<launches, worker, log, buffer, elapsed, job, counted,
                   added, metrics>>

\* The queue, the dict and the calls in flight die with the process; SQLite
\* keeps exactly the transactions that committed.
Crash ==
    /\ "crash" \in Faults
    /\ app # "exited"
    /\ app' = "exited"
    /\ lost' = Events \ counted
    /\ taken' = Len(log)
    /\ buffer' = {}
    /\ job' = [slot \in Slots |-> NoJob]
    /\ UNCHANGED <<launches, worker, log, elapsed, counted, added, metrics>>

\* The next start of the process: a new queue, a new worker, new counters.
Launch ==
    /\ app = "exited"
    /\ launches < MaxLaunches
    /\ launches' = launches + 1
    /\ app' = "up"
    /\ worker' = "loop"
    /\ elapsed' = 0
    /\ job' = [slot \in Slots |-> NoJob]
    /\ metrics' = NoMetrics
    /\ UNCHANGED <<log, taken, buffer, counted, added, lost>>

-----------------------------------------------------------------------------

WorkerStep ==
    \/ Receive
    \/ AwaitEvent
    \/ Timeout
    \/ WriteReturned
    \/ WriteRaised
    \/ WarmReturned
    \/ WarmRaised

PoolStep ==
    \E slot \in Slots : StartWrite(slot) \/ CommitWrite(slot) \/ FailWrite(slot)

Next ==
    \/ \E q \in Queries : Search(q)
    \/ Tick
    \/ WorkerStep /\ app # "exited"
    \/ PoolStep
    \/ ApplyDecay
    \/ Cancel
    \/ StopWithoutWorker
    \/ Exit
    \/ Crash
    \/ Launch

Spec == Init /\ [][Next]_vars

(***************************************************************************)
(* The event loop keeps running ready tasks, the executor's threads make   *)
(* progress, the clock advances, and a shutdown that has begun finishes    *)
(* its last step.  Users need not search, nothing need decay, nobody need  *)
(* stop the process.                                                       *)
(***************************************************************************)
Fairness ==
    /\ WF_vars(WorkerStep /\ app # "exited")
    /\ WF_vars(PoolStep)
    /\ WF_vars(Tick)
    /\ WF_vars(Exit)

FairSpec == Spec /\ Fairness

-----------------------------------------------------------------------------
(* Properties.                                                             *)

MetricsType == [searchEvents : Nat, flushes : Nat, written : Nat,
                dbWrites : Nat, decays : Nat]

\* Every variable keeps to the values the program can give it.
TypeOK ==
    /\ app \in {"up", "stopping", "exited"}
    /\ launches \in 1 .. MaxLaunches
    /\ worker \in WorkerStates
    /\ log \in Seq(Queries)
    /\ Len(log) <= MaxEvents
    /\ taken \in 0 .. Len(log)
    /\ buffer \in SUBSET Events
    /\ elapsed \in 0 .. FlushInterval
    /\ job \in [Slots -> [events : SUBSET Events, st : JobStates]]
    /\ counted \in SUBSET Events
    /\ added \in [Queries -> Nat]
    /\ lost \in SUBSET Events
    /\ metrics \in MetricsType

\* Every accepted event is in exactly one place: the queue, the worker's
\* dict, one of the two calls of increment_counts that may overlap at
\* shutdown, the database, or lost.  Nothing the worker, the threads, the
\* shutdown, a crash and a restart do forgets an event or counts it twice.
EventsPartition ==
    LET places == <<Queued, buffer, job["flush"].events, job["final"].events,
                    counted, lost>>
    IN  /\ UNION {places[i] : i \in 1 .. 6} = Events
        /\ \A i, j \in 1 .. 6 : i # j => places[i] \cap places[j] = {}

\* architecture.md, shutdown: cancel the tasks, flush the remaining
\* buffer.  When the process has exited, every event it acknowledged is
\* committed, those still in the queue, in the dict or in a running thread
\* when the worker was cancelled included.
ExitCountsAll == app = "exited" => counted = Events

\* A shutdown of a live worker loses nothing: cancelling it loses no event
\* unless its call still waits for a thread, and when the process exits with
\* its calls returned, all it acknowledged is committed that was not lost
\* before.  (That call, a failed write, a dead worker and a kill do lose events.)
LiveWorkerLosesNothing ==
    [][/\ app = "up" /\ app' = "stopping" /\ job["flush"].st # "queued" =>
             lost' = lost
       /\ app = "stopping" /\ app' = "exited" /\ worker = "ended"
             /\ (\A slot \in Slots : ~Unsettled(slot)) =>
             lost' = lost /\ counted' \cup lost' = Events']_vars

\* A batch the running loop writes has at most BatchSize queries, and the
\* dict it waits with has fewer: the size threshold is never overrun, however
\* the timer and the queue interleave.
BatchWithinSize ==
    /\ Cardinality(Keys(job["flush"].events)) <= BatchSize
    /\ worker \in {"loop", "waiting"} => Cardinality(Keys(buffer)) < BatchSize

\* The write counter counts the batches and the decays.  Of the flush counter,
\* which is bumped before the write, it counts all but the calls that have not
\* returned, and those whose events were lost: the two counters and the decays
\* account for every batch in flight, whoever records in between.
FlushAccounting ==
    LET ahead == Cardinality({slot \in Slots : Unsettled(slot)})
        recorded == metrics.flushes + metrics.decays
    IN  /\ recorded >= metrics.dbWrites + ahead
        /\ lost = {} => recorded = metrics.dbWrites + ahead

\* The worker's timer has expired while its dict is empty.
Stalled ==
    /\ app = "up"
    /\ worker = "loop"
    /\ elapsed = FlushInterval
    /\ buffer = {}

\* Batching only ever reduces writes: the queries the batch metrics report as
\* written are at least one per flush, and no more than were searched, also
\* over a shutdown, a crash and a restart that resets the counters.
FlushesWithinSearches ==
    /\ metrics.flushes <= metrics.written
    /\ metrics.written <= metrics.searchEvents

\* The write path implements the ledger of accepted events: what the commits
\* add to a query is its searches, each of them once, and none that was lost.
Ledger == INSTANCE EventLedger WITH accepted <- log
LedgerSpec == Ledger!Spec

\* What the dict holds is committed in the end, even when the task dies on a
\* Redis outage, or lost to a fault: the timer flushes a dict too small for the
\* size threshold, and no event waits in it for good.
BufferedEventuallyCounted ==
    \A e \in 1 .. MaxEvents : e \in buffer ~> e \in counted \cup lost

\* The queue never keeps events for good unless the worker stalled or died.
QueueDrainsUnlessStalled ==
    taken < Len(log) ~> taken = Len(log) \/ Stalled \/ worker = "failed"

\* A shutdown comes to its end, whatever failed before or fails in it.
ShutdownTerminates == app = "stopping" ~> app = "exited"

\* architecture.md: a batch is flushed when it is full or its timer
\* elapses, so an accepted event reaches the database.
AcceptedEventuallyCounted ==
    \A e \in 1 .. MaxEvents : e \in Events ~> e \in counted

=============================================================================
