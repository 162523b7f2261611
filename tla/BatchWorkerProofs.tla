------------------------- MODULE BatchWorkerProofs -------------------------
(***************************************************************************)
(* Proofs about BatchWorker, for every set of queries, batch size, flush   *)
(* interval and set of faults.                                             *)
(***************************************************************************)
EXTENDS BatchWorker, FiniteSetTheorems, TLAPS

\* The queue holds accepted events only.
LEMMA QueuedAccepted == TypeOK => Len(log) \in Nat /\ Queued \subseteq Events
<1> SUFFICES ASSUME TypeOK PROVE Len(log) \in Nat /\ Queued \subseteq Events
  OBVIOUS
<1>1. Len(log) \in Nat /\ taken \in Nat
  BY DEF TypeOK
<1> QED  BY <1>1 DEF Queued, Events

\* The keys of a dict that aggregates accepted events are finitely many.
LEMMA KeysFinite ==
    ASSUME TypeOK, NEW S \in SUBSET Events
    PROVE  IsFiniteSet(Keys(S)) /\ Cardinality(Keys(S)) \in Nat
<1>1. IsFiniteSet(Events)
  BY FS_Interval DEF TypeOK, Events
<1>2. IsFiniteSet(S)
  BY <1>1, FS_Subset
<1> DEFINE f == [e \in S |-> log[e]]
<1>3. f \in Surjection(S, Keys(S))
  BY DEF Surjection, Keys
<1>4. IsFiniteSet(Keys(S))
  <2> HIDE DEF f
  <2> QED  BY <1>2, <1>3, FS_Surjection
<1> QED  BY <1>4, FS_CardinalityType

\* The count of a query in such a dict is a number.
LEMMA CountNat ==
    ASSUME TypeOK, NEW S \in SUBSET Events, NEW q
    PROVE  CountOf(S, q) \in Nat
<1>1. IsFiniteSet(Events)
  BY FS_Interval DEF TypeOK, Events
<1>2. EventsOf(S, q) \subseteq Events
  BY DEF EventsOf
<1> QED  BY <1>1, <1>2, FS_Subset, FS_CardinalityType DEF CountOf

-----------------------------------------------------------------------------
(* The counters.                                                           *)

LEMMA CountersType ==
    ASSUME metrics \in MetricsType
    PROVE  /\ metrics.searchEvents \in Nat /\ metrics.flushes \in Nat
           /\ metrics.written \in Nat /\ metrics.dbWrites \in Nat
           /\ metrics.decays \in Nat
  BY DEF MetricsType

\* The recorders keep the counters numbers.
LEMMA RecordersType ==
    ASSUME metrics \in MetricsType
    PROVE  /\ NoMetrics \in MetricsType
           /\ RecordSearchEvent \in MetricsType
           /\ RecordDbWrite \in MetricsType
           /\ [RecordDbWrite EXCEPT !.decays = @ + 1] \in MetricsType
           /\ \A n \in Nat : RecordBatchFlush(n) \in MetricsType
<1>1. NoMetrics \in MetricsType
  BY DEF NoMetrics, MetricsType
<1>2. RecordSearchEvent \in MetricsType
  BY DEF RecordSearchEvent, MetricsType
<1>3. RecordDbWrite \in MetricsType
  BY DEF RecordDbWrite, MetricsType
<1>4. [RecordDbWrite EXCEPT !.decays = @ + 1] \in MetricsType
  BY <1>3 DEF MetricsType
<1>5. ASSUME NEW n \in Nat PROVE RecordBatchFlush(n) \in MetricsType
  <2> DEFINE flushed == [metrics EXCEPT !.flushes = @ + 1]
  <2>1. flushed \in MetricsType
    BY DEF MetricsType
  <2>2. RecordBatchFlush(n) = [flushed EXCEPT !.written = @ + n]
    BY Zenon DEF RecordBatchFlush
  <2> HIDE DEF flushed
  <2> QED  BY <1>5, <2>1, <2>2 DEF MetricsType
<1> QED  BY <1>1, <1>2, <1>3, <1>4, <1>5

\* What they add, and what they leave.
LEMMA RecordersCount ==
    ASSUME metrics \in MetricsType
    PROVE  /\ RecordSearchEvent.searchEvents = metrics.searchEvents + 1
           /\ RecordDbWrite.dbWrites = metrics.dbWrites + 1
           /\ RecordSearchEvent.dbWrites = metrics.dbWrites
           /\ RecordDbWrite.searchEvents = metrics.searchEvents
           /\ \A m \in {RecordSearchEvent, RecordDbWrite} :
                 /\ m.flushes = metrics.flushes /\ m.written = metrics.written
                 /\ m.decays = metrics.decays
  BY DEF RecordSearchEvent, RecordDbWrite, MetricsType

LEMMA DecayCounted ==
    ASSUME metrics \in MetricsType, ApplyDecay
    PROVE  /\ metrics'.dbWrites = metrics.dbWrites + 1
           /\ metrics'.decays = metrics.decays + 1
           /\ metrics'.searchEvents = metrics.searchEvents
           /\ metrics'.flushes = metrics.flushes
           /\ metrics'.written = metrics.written
<1>1. metrics' = [RecordDbWrite EXCEPT !.decays = @ + 1]
  BY DEF ApplyDecay
<1>2. RecordDbWrite \in MetricsType
  BY RecordersType
<1>3. /\ metrics'.decays = RecordDbWrite.decays + 1
      /\ metrics'.dbWrites = RecordDbWrite.dbWrites
      /\ metrics'.searchEvents = RecordDbWrite.searchEvents
      /\ metrics'.flushes = RecordDbWrite.flushes
      /\ metrics'.written = RecordDbWrite.written
  BY <1>1, <1>2 DEF MetricsType
<1> QED  BY <1>3, RecordersCount

-----------------------------------------------------------------------------
(* Type correctness.                                                       *)

LEMMA InitType == Init => TypeOK
  BY BoundsAssumption, FlushIntervalAssumption
     DEF Init, TypeOK, MetricsType, WorkerStates, Slots, JobStates, NoJob, NoMetrics, Events

\* What flush_buffer writes has its type, whatever events it is given.
LEMMA FlushType ==
    ASSUME TypeOK, NEW S \in SUBSET Events, NEW slot \in Slots,
           NEW jobs \in [Slots -> [events : SUBSET Events, st : JobStates]],
           FlushBuffer(S, slot, jobs)
    PROVE  /\ buffer' = {}
           /\ elapsed' \in 0 .. FlushInterval
           /\ job' \in [Slots -> [events : SUBSET Events, st : JobStates]]
           /\ metrics' \in MetricsType
<1>1. Cardinality(Keys(S)) \in Nat
  BY KeysFinite
<1>2. buffer' = {} /\ elapsed' \in 0 .. FlushInterval
  BY FlushIntervalAssumption DEF FlushBuffer
<1>3. job' \in [Slots -> [events : SUBSET Events, st : JobStates]]
  BY DEF FlushBuffer, JobStates, Submitted
<1>4. metrics' \in MetricsType
  BY <1>1, RecordersType DEF FlushBuffer, TypeOK
<1> QED  BY <1>2, <1>3, <1>4

LEMMA NextType == TypeOK /\ [Next]_vars => TypeOK'
<1> SUFFICES ASSUME TypeOK, [Next]_vars PROVE TypeOK'
  OBVIOUS
<1> USE DEF TypeOK, Events
<1>1. ASSUME NEW q \in Queries, Search(q) PROVE TypeOK'
  <2>1. /\ log' \in Seq(Queries) /\ Len(log') = Len(log) + 1
        /\ Len(log') <= MaxEvents
    BY <1>1, BoundsAssumption DEF Search
  <2>2. Events \subseteq Events'
    BY <2>1
  <2>3. job' \in [Slots -> [events : SUBSET Events', st : JobStates]]
    BY <1>1, <2>2 DEF Search
  <2>4. metrics' \in MetricsType
    BY <1>1, RecordersType DEF Search
  <2> QED  BY <1>1, <2>1, <2>2, <2>3, <2>4 DEF Search
<1>2. CASE Tick
  BY <1>2, FlushIntervalAssumption DEF Tick
<1>3. CASE Receive
  <2> DEFINE filled == buffer \cup {taken + 1}
  <2>1. filled \in SUBSET Events /\ taken' \in 0 .. Len(log)
    BY <1>3 DEF Receive
  <2>2. UNCHANGED <<app, launches, log, counted, added, lost>>
    BY <1>3 DEF Receive
  <2>3. CASE FlushBuffer(filled, "flush", job) /\ worker' = "writing"
    <3>1. /\ buffer' = {}
          /\ elapsed' \in 0 .. FlushInterval
          /\ job' \in [Slots -> [events : SUBSET Events, st : JobStates]]
          /\ metrics' \in MetricsType
      <4> HIDE DEF filled
      <4> QED  BY <2>1, <2>3, FlushType DEF Slots
    <3> QED  BY <2>1, <2>2, <2>3, <3>1 DEF WorkerStates
  <2>4. CASE buffer' = filled /\ worker' = "loop"
             /\ UNCHANGED <<elapsed, job, metrics>>
    BY <2>1, <2>2, <2>4 DEF WorkerStates
  <2> QED  BY <1>3, <2>3, <2>4 DEF Receive
<1>4. CASE AwaitEvent
  BY <1>4 DEF AwaitEvent, WorkerStates
<1>5. CASE Timeout
  <2>1. CASE buffer = {} /\ worker' = "loop"
             /\ UNCHANGED <<buffer, elapsed, job, metrics>>
    BY <1>5, <2>1 DEF Timeout, WorkerStates
  <2>2. CASE FlushBuffer(buffer, "flush", job) /\ worker' = "writing"
    <3>1. /\ buffer' = {}
          /\ elapsed' \in 0 .. FlushInterval
          /\ job' \in [Slots -> [events : SUBSET Events, st : JobStates]]
          /\ metrics' \in MetricsType
      BY <2>2, FlushType DEF Slots
    <3> QED  BY <1>5, <2>2, <3>1 DEF Timeout, WorkerStates
  <2> QED  BY <1>5, <2>1, <2>2 DEF Timeout
<1>6. ASSUME NEW slot \in Slots, StartWrite(slot) PROVE TypeOK'
  BY <1>6 DEF StartWrite, JobStates
<1>7. ASSUME NEW slot \in Slots, CommitWrite(slot) PROVE TypeOK'
  <2>1. \A q \in Queries : CountOf(job[slot].events, q) \in Nat
    BY CountNat
  <2>2. added' \in [Queries -> Nat]
    BY <1>7, <2>1 DEF CommitWrite
  <2> QED  BY <1>7, <2>2, RecordersType DEF CommitWrite, JobStates
<1>8. ASSUME NEW slot \in Slots, FailWrite(slot) PROVE TypeOK'
  BY <1>8 DEF FailWrite, JobStates
<1>9. CASE WriteReturned
  BY <1>9 DEF WriteReturned, WorkerStates, AwaitedSlot, Slots, NoJob, JobStates
<1>10. CASE WriteRaised
  BY <1>10 DEF WriteRaised, WorkerStates, AwaitedSlot, Slots, NoJob, JobStates
<1>11. CASE WarmReturned
  BY <1>11 DEF WarmReturned, WorkerStates
<1>12. CASE WarmRaised
  BY <1>12 DEF WarmRaised, WorkerStates
<1>13. CASE Cancel
  <2>1. Drained \in SUBSET Events /\ lost' \in SUBSET Events
    BY <1>13, QueuedAccepted DEF Cancel, Drained, Withdrawn, Slots
  <2>2. Abandoned \in [Slots -> [events : SUBSET Events, st : JobStates]]
    BY DEF Abandoned, NoJob, JobStates
  <2>3. CASE worker' = "ended" /\ job' = Abandoned
             /\ UNCHANGED <<buffer, elapsed, metrics>>
    BY <1>13, <2>1, <2>2, <2>3 DEF Cancel, WorkerStates
  <2>4. CASE FlushBuffer(Drained, "final", Abandoned) /\ worker' = "finalWriting"
    <3>1. /\ buffer' = {}
          /\ elapsed' \in 0 .. FlushInterval
          /\ job' \in [Slots -> [events : SUBSET Events, st : JobStates]]
          /\ metrics' \in MetricsType
      BY <2>1, <2>2, <2>4, FlushType DEF Slots
    <3> QED  BY <1>13, <2>1, <2>4, <3>1 DEF Cancel, WorkerStates
  <2> QED  BY <1>13, <2>3, <2>4 DEF Cancel
<1>14. CASE StopWithoutWorker
  BY <1>14 DEF StopWithoutWorker
<1>15. CASE Exit
  <2>1. lost' \in SUBSET Events
    BY <1>15, QueuedAccepted DEF Exit
  <2>2. taken' \in 0 .. Len(log)
    BY <1>15, QueuedAccepted DEF Exit
  <2> QED  BY <1>15, <2>1, <2>2 DEF Exit
<1>16. CASE Crash
  BY <1>16 DEF Crash, NoJob, JobStates
<1>17. CASE Launch
  BY <1>17, BoundsAssumption, FlushIntervalAssumption, RecordersType
     DEF Launch, NoJob, JobStates, WorkerStates
<1>18. CASE UNCHANGED vars
  BY <1>18 DEF vars
<1>19. CASE ApplyDecay
  BY <1>19, RecordersType DEF ApplyDecay
<1> QED
  BY <1>1, <1>2, <1>3, <1>4, <1>5, <1>6, <1>7, <1>8, <1>9, <1>10, <1>11, <1>12,
     <1>13, <1>14, <1>15, <1>16, <1>17, <1>18, <1>19
     DEF Next, WorkerStep, PoolStep

\* Every variable of the write path keeps its type.
THEOREM TypeCorrect == Spec => []TypeOK
  BY InitType, NextType, PTL DEF Spec

-----------------------------------------------------------------------------
(* The invariant behind the safety properties.                             *)

Flushing == job["flush"].events
Final == job["final"].events

\* Which calls exist and who holds events, by where the worker is.
ControlInv ==
    /\ \A slot \in Slots : ~Unsettled(slot) => job[slot].events = {}
    /\ buffer # {} => app = "up" /\ worker \in {"loop", "waiting"}
    /\ app = "up" =>
          /\ worker \in {"loop", "waiting", "writing", "warming", "failed"}
          /\ job["final"] = NoJob
          /\ worker # "writing" => job["flush"] = NoJob
    /\ app = "stopping" =>
          /\ worker \in {"finalWriting", "finalWarming", "ended", "failed"}
          /\ worker # "finalWriting" => job["final"] = NoJob
          /\ worker # "failed" => taken = Len(log)
    /\ app = "exited" => taken = Len(log) /\ Flushing = {} /\ Final = {}

\* Every event taken from the queue has one holder.
HoldersInv ==
    /\ buffer \cup Flushing \cup Final \cup counted \cup lost = 1 .. taken
    /\ buffer \cap (Flushing \cup Final \cup counted \cup lost) = {}
    /\ Flushing \cap (Final \cup counted \cup lost) = {}
    /\ Final \cap (counted \cup lost) = {}
    /\ counted \cap lost = {}

IInv == TypeOK /\ ControlInv /\ HoldersInv

JobsType == [Slots -> [events : SUBSET Events, st : JobStates]]

\* What flush_buffer leaves in the executor.
LEMMA FlushJobs ==
    ASSUME NEW S, NEW slot \in Slots, NEW jobs \in JobsType,
           FlushBuffer(S, slot, jobs)
    PROVE  /\ buffer' = {}
           /\ job'[slot].events = S
           /\ job'[slot].st \in {"queued", "running"}
           /\ \A other \in Slots \ {slot} : job'[other] = jobs[other]
  BY DEF FlushBuffer, Submitted, JobsType

\* What a step of the executor's thread does to the calls.
LEMMA PoolJobs ==
    ASSUME TypeOK, NEW slot \in Slots,
           StartWrite(slot) \/ CommitWrite(slot) \/ FailWrite(slot)
    PROVE  /\ Unsettled(slot) /\ app # "exited"
           /\ \A other \in Slots \ {slot} : job'[other] = job[other]
           /\ StartWrite(slot) =>
                 job'[slot].st = "running" /\ job'[slot].events = job[slot].events
           /\ CommitWrite(slot) => job'[slot] = [events |-> {}, st |-> "done"]
           /\ FailWrite(slot) => job'[slot] = [events |-> {}, st |-> "error"]
           /\ UNCHANGED <<app, worker, log, taken, buffer>>
  BY DEF TypeOK, StartWrite, CommitWrite, FailWrite, Unsettled

\* What a cancelled await of increment_counts leaves in the executor.
LEMMA AbandonedJobs ==
    ASSUME TypeOK, ControlInv, app = "up"
    PROVE  /\ Abandoned \in JobsType
           /\ Abandoned["final"] = NoJob
           /\ Abandoned["flush"] \in {NoJob, job["flush"]}
           /\ Abandoned["flush"].events \cup Withdrawn = Flushing
           /\ Abandoned["flush"].events \cap Withdrawn = {}
           /\ Unsettled("flush") \/ Abandoned["flush"] = NoJob
           /\ Abandoned["flush"].st # "queued"
<1> USE DEF TypeOK, ControlInv, JobsType, Slots, NoJob
<1>1. Abandoned \in JobsType /\ Abandoned["final"] = NoJob
  BY DEF Abandoned, JobStates
<1>2. CASE worker # "writing"
  BY <1>1, <1>2 DEF Abandoned, Withdrawn, Flushing
<1>3. CASE worker = "writing" /\ job["flush"].st = "running"
  BY <1>1, <1>3 DEF Abandoned, Withdrawn, Flushing, Unsettled
<1>4. CASE worker = "writing" /\ job["flush"].st # "running"
  BY <1>1, <1>4 DEF Abandoned, Withdrawn, Flushing, Unsettled
<1> QED  BY <1>2, <1>3, <1>4

\* A flush of the loop leaves the final call alone.
LEMMA LoopFlush ==
    ASSUME TypeOK, NEW S, FlushBuffer(S, "flush", job)
    PROVE  /\ buffer' = {} /\ Flushing' = S /\ Final' = Final
           /\ Unsettled("flush")' /\ job'["final"] = job["final"]
<1>1. job \in JobsType
  BY DEF TypeOK, JobsType
<1>2. "flush" \in Slots /\ "final" \in Slots \ {"flush"}
  BY DEF Slots
<1>3. /\ buffer' = {} /\ job'["flush"].events = S
      /\ job'["flush"].st \in {"queued", "running"}
      /\ \A other \in Slots \ {"flush"} : job'[other] = job[other]
  BY <1>1, <1>2, FlushJobs
<1> QED  BY <1>2, <1>3 DEF Unsettled, Flushing, Final

LEMMA InitIInv == Init => IInv
<1> SUFFICES ASSUME Init PROVE IInv
  OBVIOUS
<1>1. Events = {} /\ 1 .. taken = {}
  BY DEF Init, Events
<1> QED
  BY <1>1, InitType
     DEF IInv, Init, ControlInv, HoldersInv, NoJob, Slots, Flushing, Final

LEMMA NextControl == IInv /\ [Next]_vars => ControlInv'
<1> SUFFICES ASSUME IInv, [Next]_vars PROVE ControlInv'
  OBVIOUS
<1> USE DEF IInv, ControlInv, NoJob, Slots, Flushing, Final, Unsettled
<1>1. ASSUME NEW q \in Queries, Search(q) PROVE ControlInv'
  BY <1>1 DEF Search
<1>2. CASE Tick
  BY <1>2 DEF Tick
<1>3. CASE Receive /\ app # "exited"
  <2>1. CASE FlushBuffer(buffer \cup {taken + 1}, "flush", job) /\ worker' = "writing"
    <3>1. /\ buffer' = {} /\ Unsettled("flush")' /\ job'["final"] = job["final"]
      BY <2>1, LoopFlush
    <3> QED  BY <1>3, <2>1, <3>1 DEF Receive, GetterRuns
  <2>2. CASE worker' = "loop" /\ UNCHANGED job
    BY <1>3, <2>2 DEF Receive, GetterRuns, TypeOK
  <2> QED  BY <1>3, <2>1, <2>2 DEF Receive
<1>4. CASE AwaitEvent /\ app # "exited"
  BY <1>4 DEF AwaitEvent
<1>5. CASE Timeout /\ app # "exited"
  <2>1. CASE FlushBuffer(buffer, "flush", job) /\ worker' = "writing"
    <3>1. /\ buffer' = {} /\ Unsettled("flush")' /\ job'["final"] = job["final"]
      BY <2>1, LoopFlush
    <3> QED  BY <1>5, <2>1, <3>1 DEF Timeout, TimedOut
  <2>2. CASE worker' = "loop" /\ UNCHANGED <<buffer, job>>
    BY <1>5, <2>2 DEF Timeout, TimedOut
  <2> QED  BY <1>5, <2>1, <2>2 DEF Timeout
<1>6. ASSUME NEW slot \in Slots,
             StartWrite(slot) \/ CommitWrite(slot) \/ FailWrite(slot)
      PROVE  ControlInv'
  <2>1. /\ Unsettled(slot) /\ app # "exited"
        /\ \A other \in Slots \ {slot} : job'[other] = job[other]
        /\ Unsettled(slot)' \/ job'[slot].events = {}
        /\ UNCHANGED <<app, worker, log, taken, buffer>>
    BY <1>6, PoolJobs
  <2>2. slot = "flush" => app = "stopping" \/ worker = "writing"
    BY <2>1 DEF TypeOK
  <2>3. slot = "final" => app = "stopping" /\ worker = "finalWriting"
    BY <2>1 DEF TypeOK
  <2> QED  BY <2>1, <2>2, <2>3
<1>9. CASE WriteReturned /\ app # "exited"
  BY <1>9 DEF WriteReturned, AwaitedSlot, TypeOK
<1>10. CASE WriteRaised /\ app # "exited"
  BY <1>10 DEF WriteRaised, AwaitedSlot, TypeOK
<1>11. CASE WarmReturned /\ app # "exited"
  BY <1>11 DEF WarmReturned
<1>12. CASE WarmRaised /\ app # "exited"
  BY <1>12 DEF WarmRaised
<1>13. CASE Cancel
  <2>1. /\ Abandoned \in JobsType /\ Abandoned["final"] = NoJob
        /\ Unsettled("flush") \/ Abandoned["flush"] = NoJob
        /\ Abandoned["flush"] \in {NoJob, job["flush"]}
    BY <1>13, AbandonedJobs DEF Cancel
  <2>2. CASE Drained = {} /\ worker' = "ended" /\ job' = Abandoned
             /\ UNCHANGED buffer
    BY <1>13, <2>1, <2>2 DEF Cancel, Drained
  <2>3. CASE FlushBuffer(Drained, "final", Abandoned) /\ worker' = "finalWriting"
    <3>0. "final" \in Slots /\ "flush" \in Slots \ {"final"}
      OBVIOUS
    <3>1. /\ buffer' = {} /\ Unsettled("final")'
          /\ job'["flush"] = Abandoned["flush"]
      <4>1. /\ buffer' = {} /\ job'["final"].st \in {"queued", "running"}
            /\ job'["flush"] = Abandoned["flush"]
        BY <2>1, <2>3, <3>0, FlushJobs
      <4> QED  BY <4>1
    <3>2. /\ app' = "stopping" /\ worker' = "finalWriting"
          /\ taken' = Len(log) /\ log' = log
      BY <1>13, <2>3 DEF Cancel
    <3> QED  BY <2>1, <3>1, <3>2
  <2> QED  BY <1>13, <2>2, <2>3 DEF Cancel
<1>14. CASE StopWithoutWorker
  BY <1>14 DEF StopWithoutWorker
<1>15. CASE Exit
  BY <1>15 DEF Exit
<1>16. CASE Crash
  BY <1>16 DEF Crash
<1>17. CASE Launch
  BY <1>17 DEF Launch
<1>18. CASE ApplyDecay \/ UNCHANGED vars
  BY <1>18 DEF ApplyDecay, vars
<1> QED
  BY <1>1, <1>2, <1>3, <1>4, <1>5, <1>6, <1>9, <1>10, <1>11, <1>12,
     <1>13, <1>14, <1>15, <1>16, <1>17, <1>18
     DEF Next, WorkerStep, PoolStep

LEMMA NextHolders == IInv /\ [Next]_vars => HoldersInv'
<1> SUFFICES ASSUME IInv, [Next]_vars PROVE HoldersInv'
  OBVIOUS
<1> USE DEF IInv, HoldersInv, Slots
<1>0. Len(log) \in Nat /\ taken \in 0 .. Len(log) /\ job \in JobsType
  BY QueuedAccepted DEF TypeOK, JobsType
<1>1. ASSUME NEW q \in Queries, Search(q) PROVE HoldersInv'
  BY <1>1 DEF Search, Flushing, Final
<1>2. CASE Tick
  BY <1>2 DEF Tick, Flushing, Final
<1>3. CASE Receive /\ app # "exited"
  <2> DEFINE filled == buffer \cup {taken + 1}
  <2>1. /\ taken' = taken + 1 /\ UNCHANGED <<counted, lost>>
        /\ taken + 1 \notin 1 .. taken
        /\ 1 .. (taken + 1) = (1 .. taken) \cup {taken + 1}
    BY <1>0, <1>3 DEF Receive
  <2>2. CASE FlushBuffer(filled, "flush", job)
    <3>1. buffer' = {} /\ Flushing' = filled /\ Final' = Final
      BY <2>2, LoopFlush
    <3>2. Flushing = {}
      BY <1>3 DEF Receive, GetterRuns, ControlInv, TypeOK, Flushing, NoJob
    <3> QED  BY <2>1, <3>1, <3>2
  <2>3. CASE buffer' = filled /\ UNCHANGED job
    BY <2>1, <2>3 DEF Flushing, Final
  <2> QED  BY <1>3, <2>2, <2>3 DEF Receive
<1>4. CASE AwaitEvent
  BY <1>4 DEF AwaitEvent, Flushing, Final
<1>5. CASE Timeout /\ app # "exited"
  <2>1. CASE FlushBuffer(buffer, "flush", job)
    <3>1. buffer' = {} /\ Flushing' = buffer /\ Final' = Final
      BY <2>1, LoopFlush
    <3>2. Flushing = {}
      BY <1>5 DEF Timeout, TimedOut, ControlInv, TypeOK, Flushing, NoJob
    <3> QED  BY <1>5, <3>1, <3>2 DEF Timeout
  <2>2. CASE UNCHANGED <<buffer, job>>
    BY <1>5, <2>2 DEF Timeout, Flushing, Final
  <2> QED  BY <1>5, <2>1, <2>2 DEF Timeout
<1>6. ASSUME NEW slot \in Slots, StartWrite(slot) PROVE HoldersInv'
  <2>1. Flushing' = Flushing /\ Final' = Final
    BY <1>6, PoolJobs DEF Flushing, Final
  <2> QED  BY <1>6, <2>1 DEF StartWrite
<1>7. ASSUME NEW slot \in Slots, CommitWrite(slot) PROVE HoldersInv'
  <2>1. \/ Flushing' = {} /\ Final' = Final /\ counted' = counted \cup Flushing
        \/ Final' = {} /\ Flushing' = Flushing /\ counted' = counted \cup Final
    <3>1. /\ job'[slot].events = {}
          /\ \A other \in Slots \ {slot} : job'[other] = job[other]
      BY <1>7, PoolJobs
    <3>2. counted' = counted \cup job[slot].events
      BY <1>7 DEF CommitWrite
    <3>3. CASE slot = "flush"
      BY <3>1, <3>2, <3>3 DEF Flushing, Final
    <3>4. CASE slot = "final"
      BY <3>1, <3>2, <3>4 DEF Flushing, Final
    <3> QED  BY <3>3, <3>4
  <2> QED  BY <1>7, <2>1 DEF CommitWrite
<1>8. ASSUME NEW slot \in Slots, FailWrite(slot) PROVE HoldersInv'
  <2>1. \/ Flushing' = {} /\ Final' = Final /\ lost' = lost \cup Flushing
        \/ Final' = {} /\ Flushing' = Flushing /\ lost' = lost \cup Final
    <3>1. /\ job'[slot].events = {}
          /\ \A other \in Slots \ {slot} : job'[other] = job[other]
      BY <1>8, PoolJobs
    <3>2. lost' = lost \cup job[slot].events
      BY <1>8 DEF FailWrite
    <3>3. CASE slot = "flush"
      BY <3>1, <3>2, <3>3 DEF Flushing, Final
    <3>4. CASE slot = "final"
      BY <3>1, <3>2, <3>4 DEF Flushing, Final
    <3> QED  BY <3>3, <3>4
  <2> QED  BY <1>8, <2>1 DEF FailWrite
<1>9. CASE WriteReturned \/ WriteRaised
  <2>1. /\ AwaitedSlot \in Slots
        /\ job' = [job EXCEPT ![AwaitedSlot] = NoJob]
        /\ job[AwaitedSlot].st \in {"done", "error"}
    BY <1>9 DEF WriteReturned, WriteRaised, AwaitedSlot
  <2>2. job[AwaitedSlot].events = {}
    BY <2>1 DEF ControlInv, Unsettled
  <2>3. \A slot \in Slots : job'[slot].events = job[slot].events
    BY <1>0, <2>1, <2>2 DEF JobsType, NoJob
  <2>4. Flushing' = Flushing /\ Final' = Final
    BY <2>3 DEF Flushing, Final
  <2> QED  BY <1>9, <2>4 DEF WriteReturned, WriteRaised
<1>10. CASE WarmReturned \/ WarmRaised
  BY <1>10 DEF WarmReturned, WarmRaised, Flushing, Final
<1>11. CASE Cancel
  <2>0. 1 .. Len(log) = (1 .. taken) \cup Queued /\ (1 .. taken) \cap Queued = {}
    BY <1>0 DEF Queued
  <2>1. taken' = Len(log) /\ lost' = lost \cup Withdrawn /\ UNCHANGED counted
    BY <1>11 DEF Cancel
  <2>2. /\ Abandoned \in JobsType /\ Abandoned["final"] = NoJob
        /\ Abandoned["flush"].events \cup Withdrawn = Flushing
        /\ Abandoned["flush"].events \cap Withdrawn = {}
    BY <1>11, AbandonedJobs DEF Cancel
  <2>3. Final = {}
    BY <1>11 DEF Cancel, ControlInv, NoJob, Final
  <2>4. CASE Drained = {} /\ job' = Abandoned /\ UNCHANGED buffer
    <3>1. Flushing' = Abandoned["flush"].events /\ Final' = {}
      BY <2>2, <2>4 DEF Flushing, Final, NoJob
    <3> QED  BY <2>0, <2>1, <2>2, <2>3, <2>4, <3>1 DEF Drained
  <2>5. CASE FlushBuffer(Drained, "final", Abandoned)
    <3>1. /\ buffer' = {} /\ Final' = Drained
          /\ Flushing' = Abandoned["flush"].events
      BY <2>2, <2>5, FlushJobs DEF Flushing, Final
    <3> QED  BY <2>0, <2>1, <2>2, <2>3, <3>1 DEF Drained
  <2> QED  BY <1>11, <2>4, <2>5 DEF Cancel
<1>12. CASE StopWithoutWorker
  BY <1>12 DEF StopWithoutWorker, Flushing, Final
<1>13. CASE Exit
  <2>1. 1 .. Len(log) = (1 .. taken) \cup Queued /\ (1 .. taken) \cap Queued = {}
    BY <1>0 DEF Queued
  <2> QED  BY <1>13, <2>1 DEF Exit, Flushing, Final
<1>14. CASE Crash
  <2>1. counted \subseteq Events /\ Events = 1 .. Len(log)
    BY DEF TypeOK, Events
  <2> QED  BY <1>14, <2>1 DEF Crash, Flushing, Final, NoJob
<1>15. CASE Launch
  <2>1. Flushing = {} /\ Final = {}
    BY <1>15 DEF Launch, ControlInv
  <2> QED  BY <1>15, <2>1 DEF Launch, Flushing, Final, NoJob
<1>16. CASE ApplyDecay \/ UNCHANGED vars
  BY <1>16 DEF ApplyDecay, vars, Flushing, Final
<1> QED
  BY <1>1, <1>2, <1>3, <1>4, <1>5, <1>6, <1>7, <1>8, <1>9, <1>10, <1>11, <1>12,
     <1>13, <1>14, <1>15, <1>16
     DEF Next, WorkerStep, PoolStep

\* The invariant holds in every reachable state.
THEOREM InductiveInvariant == Spec => []IInv
<1>1. IInv /\ [Next]_vars => IInv'
  BY NextType, NextControl, NextHolders DEF IInv
<1> QED  BY InitIInv, <1>1, PTL DEF Spec

\* Every accepted event is always in exactly one place, for every batch size
\* and under every fault.
THEOREM EventsPartitionCorrect == Spec => []EventsPartition
<1>1. IInv => EventsPartition
  <2> SUFFICES ASSUME IInv PROVE EventsPartition
    OBVIOUS
  <2> DEFINE places == <<Queued, buffer, job["flush"].events,
                         job["final"].events, counted, lost>>
  <2>1. Events = (1 .. taken) \cup Queued /\ (1 .. taken) \cap Queued = {}
    <3>1. Len(log) \in Nat /\ taken \in 0 .. Len(log)
      BY QueuedAccepted DEF IInv, TypeOK
    <3> QED  BY <3>1 DEF Events, Queued
  <2>2. /\ buffer \cup Flushing \cup Final \cup counted \cup lost = 1 .. taken
        /\ buffer \cap (Flushing \cup Final \cup counted \cup lost) = {}
        /\ Flushing \cap (Final \cup counted \cup lost) = {}
        /\ Final \cap (counted \cup lost) = {}
        /\ counted \cap lost = {}
    BY DEF IInv, HoldersInv
  <2>3. UNION {places[i] : i \in 1 .. 6}
          = Queued \cup buffer \cup Flushing \cup Final \cup counted \cup lost
    BY DEF Flushing, Final
  <2>4. \A i, j \in 1 .. 6 : i # j => places[i] \cap places[j] = {}
    BY <2>1, <2>2 DEF Flushing, Final
  <2> HIDE DEF places
  <2>5. UNION {places[i] : i \in 1 .. 6} = Events
    BY <2>1, <2>2, <2>3
  <2> QED  BY <2>4, <2>5 DEF EventsPartition, places
<1> QED  BY InductiveInvariant, <1>1, PTL

\* A shutdown at any await of a live worker loses no event, unless its call
\* still waits for a thread, and commits all that was acknowledged and not lost
\* earlier, under every fault.
THEOREM CleanExitCorrect == Spec => LiveWorkerLosesNothing
<1> DEFINE CancelKeeps ==
              app = "up" /\ app' = "stopping" /\ job["flush"].st # "queued" =>
                 lost' = lost
           ExitCounts ==
              /\ app = "stopping" /\ app' = "exited" /\ worker = "ended"
              /\ \A slot \in Slots : ~Unsettled(slot)
              => lost' = lost /\ counted' \cup lost' = Events'
<1>1. ASSUME [Next]_vars, app = "up", app' = "stopping", job["flush"].st # "queued"
      PROVE  lost' = lost
  <2>1. Cancel \/ StopWithoutWorker
    BY <1>1 DEF Next, WorkerStep, PoolStep, Search, Tick, Receive, AwaitEvent,
                Timeout, WriteReturned, WriteRaised, WarmReturned, WarmRaised,
                StartWrite, CommitWrite, FailWrite, ApplyDecay, Exit, Crash,
                Launch, vars
  <2>2. Withdrawn = {}
    BY <1>1 DEF Withdrawn
  <2> QED  BY <2>1, <2>2 DEF Cancel, StopWithoutWorker
<1>2. ASSUME IInv, [Next]_vars, app = "stopping", app' = "exited",
             worker = "ended", \A slot \in Slots : ~Unsettled(slot)
      PROVE  lost' = lost /\ counted' \cup lost' = Events'
  <2>1. Exit \/ Crash
    BY <1>2 DEF Next, WorkerStep, PoolStep, Search, Tick, Receive, AwaitEvent,
                Timeout, WriteReturned, WriteRaised, WarmReturned, WarmRaised,
                StartWrite, CommitWrite, FailWrite, ApplyDecay, Cancel,
                StopWithoutWorker, Launch, vars
  <2>2. taken = Len(log) /\ Queued = {}
    BY <1>2 DEF IInv, ControlInv, TypeOK, Queued
  <2>3. buffer = {} /\ Flushing = {} /\ Final = {}
    BY <1>2 DEF IInv, ControlInv, Slots, Flushing, Final
  <2>4. counted \cup lost = Events /\ counted \cap lost = {}
    BY <1>2, <2>2, <2>3 DEF IInv, HoldersInv, Events
  <2>5. UNCHANGED <<log, counted>> /\ lost' = lost
    BY <2>1, <2>2, <2>4 DEF Exit, Crash
  <2> QED  BY <2>4, <2>5 DEF Events
<1>3. IInv /\ [Next]_vars => [CancelKeeps /\ ExitCounts]_vars
  BY <1>1, <1>2
<1> QED
  BY <1>3, InductiveInvariant, PTL DEF Spec, LiveWorkerLosesNothing

-----------------------------------------------------------------------------
(* The size of a batch.                                                    *)

LEMMA NoKeys == Cardinality(Keys({})) = 0
<1>1. Keys({}) = {}
  BY DEF Keys
<1> QED  BY <1>1, FS_EmptySet

\* One more event adds at most one key.
LEMMA OneMoreKey ==
    ASSUME TypeOK, taken < Len(log)
    PROVE  Cardinality(Keys(buffer \cup {taken + 1})) <= Cardinality(Keys(buffer)) + 1
<1>1. Keys(buffer \cup {taken + 1}) = Keys(buffer) \cup {log[taken + 1]}
  BY DEF Keys
<1>2. IsFiniteSet(Keys(buffer)) /\ Cardinality(Keys(buffer)) \in Nat
  BY KeysFinite DEF TypeOK
<1> DEFINE K == Keys(buffer)
           q == log[taken + 1]
<1>3. Cardinality(K \cup {q}) = IF q \in K THEN Cardinality(K) ELSE Cardinality(K) + 1
  <2>1. IsFiniteSet(K)
    BY <1>2
  <2> HIDE DEF K, q
  <2> QED  BY <2>1, FS_AddElement
<1>4. /\ Keys(buffer \cup {taken + 1}) = K \cup {q}
      /\ Keys(buffer) = K /\ Cardinality(K) \in Nat
  BY <1>1, <1>2
<1> HIDE DEF K, q
<1>5. Cardinality(K \cup {q}) <= Cardinality(K) + 1
  BY <1>3, <1>4
<1> QED  BY <1>4, <1>5, Zenon

LEMMA NextSize == IInv /\ BatchWithinSize /\ [Next]_vars => BatchWithinSize'
<1> SUFFICES ASSUME IInv, BatchWithinSize, [Next]_vars PROVE BatchWithinSize'
  OBVIOUS
<1> USE DEF IInv
<1>0. /\ Cardinality(Keys(buffer)) \in Nat /\ Cardinality(Keys(Flushing)) \in Nat
      /\ BatchSize \in Nat \ {0} /\ job \in JobsType
  BY KeysFinite, BatchSizeAssumption DEF TypeOK, Flushing, Slots, JobsType
<1>1. ASSUME NEW q \in Queries, Search(q) PROVE BatchWithinSize'
  <2>1. \A S \in SUBSET Events : Keys(S)' = Keys(S)
    BY <1>1 DEF Search, Keys, Events, TypeOK
  <2>2. buffer \in SUBSET Events /\ job["flush"].events \in SUBSET Events
    BY DEF TypeOK, Slots
  <2>3. UNCHANGED <<buffer, job, worker>>
    BY <1>1 DEF Search
  <2>4. Keys(buffer)' = Keys(buffer)
    BY <2>1, <2>2, <2>3 DEF Keys
  <2>5. Keys(job["flush"].events)' = Keys(job["flush"].events)
    BY <2>1, <2>2, <2>3 DEF Keys
  <2> QED  BY <2>3, <2>4, <2>5 DEF BatchWithinSize
<1>2. ASSUME UNCHANGED log, Flushing' \in {{}, Flushing},
             worker' \in {"loop", "waiting"} =>
                \/ buffer' = {}
                \/ buffer' = buffer /\ worker \in {"loop", "waiting"}
      PROVE  BatchWithinSize'
  <2>0. Cardinality({}) = 0
    BY FS_EmptySet
  <2>1. Cardinality(Keys(Flushing))' <= BatchSize
    <3>1. Keys(Flushing)' = {} \/ Keys(Flushing)' = Keys(Flushing)
      BY <1>2 DEF Keys
    <3> QED  BY <1>0, <2>0, <3>1 DEF BatchWithinSize, Flushing
  <2>2. ASSUME worker' \in {"loop", "waiting"}
        PROVE  Cardinality(Keys(buffer))' < BatchSize
    <3>1. Keys(buffer)' = {} \/ (Keys(buffer)' = Keys(buffer)
                                 /\ worker \in {"loop", "waiting"})
      BY <1>2, <2>2 DEF Keys
    <3> QED  BY <1>0, <2>0, <3>1 DEF BatchWithinSize
  <2> QED  BY <2>1, <2>2 DEF BatchWithinSize, Flushing
<1>3. CASE Receive /\ app # "exited"
  <2> DEFINE filled == buffer \cup {taken + 1}
  <2>1. /\ taken < Len(log) /\ UNCHANGED log
        /\ Cardinality(Keys(buffer)) < BatchSize
    BY <1>3 DEF Receive, GetterRuns, BatchWithinSize
  <2>2. filled \in SUBSET Events
    BY <2>1 DEF TypeOK, Events
  <2>3. /\ Cardinality(Keys(filled)) \in Nat
        /\ Cardinality(Keys(filled)) <= BatchSize
    BY <1>0, <2>1, <2>2, KeysFinite, OneMoreKey
  <2>5. CASE FlushBuffer(filled, "flush", job) /\ worker' = "writing"
    <3>1. Flushing' = filled
      BY <2>5, LoopFlush
    <3>2. Keys(Flushing)' = Keys(filled)
      BY <2>1, <3>1 DEF Keys
    <3> QED  BY <2>3, <2>5, <3>2 DEF BatchWithinSize, Flushing
  <2>6. CASE /\ ~BatchFull(filled) /\ buffer' = filled /\ worker' = "loop"
             /\ UNCHANGED job
    <3>1. Keys(buffer)' = Keys(filled) /\ Keys(Flushing)' = Keys(Flushing)
      BY <2>1, <2>6 DEF Keys, Flushing
    <3>2. Cardinality(Keys(filled)) < BatchSize
      BY <1>0, <2>3, <2>6 DEF BatchFull
    <3> QED  BY <3>1, <3>2 DEF BatchWithinSize, Flushing
  <2> QED  BY <1>3, <2>5, <2>6 DEF Receive
<1>4. CASE Timeout /\ app # "exited"
  <2>1. CASE FlushBuffer(buffer, "flush", job) /\ worker' = "writing"
    <3>1. Flushing' = buffer /\ UNCHANGED log
      BY <1>4, <2>1, LoopFlush DEF Timeout
    <3>2. Keys(Flushing)' = Keys(buffer)
      BY <3>1 DEF Keys
    <3>3. Cardinality(Keys(buffer)) < BatchSize
      BY <1>4 DEF Timeout, TimedOut, BatchWithinSize
    <3> QED  BY <1>0, <2>1, <3>2, <3>3 DEF BatchWithinSize, Flushing
  <2>2. CASE worker' = "loop" /\ UNCHANGED <<buffer, job>>
    BY <1>2, <1>4, <2>2 DEF Timeout, TimedOut, Flushing
  <2> QED  BY <1>4, <2>1, <2>2 DEF Timeout
<1>5. ASSUME NEW slot \in Slots,
             StartWrite(slot) \/ CommitWrite(slot) \/ FailWrite(slot)
      PROVE  BatchWithinSize'
  <2>1. /\ UNCHANGED <<worker, log, buffer>>
        /\ job'[slot].events \in {{}, job[slot].events}
        /\ \A other \in Slots \ {slot} : job'[other] = job[other]
    BY <1>5, PoolJobs
  <2>2. Flushing' \in {{}, Flushing}
    BY <2>1 DEF Flushing, Slots
  <2> QED  BY <1>2, <2>1, <2>2
<1>6. CASE (WriteReturned \/ WriteRaised) /\ app # "exited"
  <2>1. /\ AwaitedSlot \in Slots /\ job' = [job EXCEPT ![AwaitedSlot] = NoJob]
        /\ UNCHANGED <<log, buffer>> /\ worker' \notin {"loop", "waiting"}
    BY <1>6 DEF WriteReturned, WriteRaised, AwaitedSlot, Slots
  <2>2. Flushing' \in {{}, Flushing}
    BY <1>0, <2>1 DEF Flushing, Slots, JobsType, NoJob
  <2> QED  BY <1>2, <2>1, <2>2
<1>7. CASE (WarmReturned \/ WarmRaised) /\ app # "exited"
  <2>1. buffer = {}
    BY <1>7 DEF ControlInv, WarmReturned, WarmRaised
  <2> QED  BY <1>2, <1>7, <2>1 DEF WarmReturned, WarmRaised, Flushing
<1>8. CASE Cancel
  <2>1. /\ Abandoned \in JobsType /\ Abandoned["flush"] \in {NoJob, job["flush"]}
    BY <1>8, AbandonedJobs DEF Cancel
  <2>2. CASE job' = Abandoned
    BY <1>2, <1>8, <2>1, <2>2 DEF Cancel, Flushing, NoJob
  <2>3. CASE FlushBuffer(Drained, "final", Abandoned)
    <3>1. job'["flush"] = Abandoned["flush"]
      BY <2>1, <2>3, FlushJobs DEF Slots
    <3> QED  BY <1>2, <1>8, <2>1, <3>1 DEF Cancel, Flushing, NoJob
  <2> QED  BY <1>8, <2>2, <2>3 DEF Cancel
<1>9. CASE Crash
  BY <1>2, <1>9 DEF Crash, Flushing, NoJob, Slots
<1>10. CASE Launch
  <2>1. buffer = {}
    BY <1>10 DEF Launch, ControlInv
  <2> QED  BY <1>2, <1>10, <2>1 DEF Launch, Flushing, NoJob, Slots
<1>11. CASE Tick \/ AwaitEvent \/ ApplyDecay \/ StopWithoutWorker \/ Exit
            \/ UNCHANGED vars
  BY <1>2, <1>11 DEF Tick, AwaitEvent, ApplyDecay, StopWithoutWorker, Exit, vars,
                     Flushing
<1> QED
  BY <1>1, <1>3, <1>4, <1>5, <1>6, <1>7, <1>8, <1>9, <1>10, <1>11
     DEF Next, WorkerStep, PoolStep

\* No flush of the running loop exceeds the batch size, and no timer or
\* restart makes the worker wait with a dict that is already full.
THEOREM BatchWithinSizeCorrect == Spec => []BatchWithinSize
<1>1. Init => BatchWithinSize
  <2> SUFFICES ASSUME Init PROVE BatchWithinSize
    OBVIOUS
  <2>1. buffer = {} /\ job["flush"].events = {}
    BY DEF Init, Slots, NoJob
  <2> QED  BY <2>1, NoKeys, BatchSizeAssumption DEF BatchWithinSize
<1> QED  BY <1>1, NextSize, InductiveInvariant, PTL DEF Spec

-----------------------------------------------------------------------------
(* The write path implements EventLedger.                                  *)

\* The ledger counts with the same operator.
LEMMA LedgerCardinality == ASSUME NEW S PROVE Ledger!Cardinality(S) = Cardinality(S)
  BY DEF Ledger!Cardinality, Cardinality

LEMMA LedgerStep ==
    IInv /\ [Next]_vars => [Ledger!Next]_(Ledger!ledgerVars)
<1> SUFFICES ASSUME IInv, [Next]_vars
             PROVE  Ledger!Next \/ UNCHANGED <<log, counted, lost, added>>
  BY DEF Ledger!ledgerVars
<1> USE DEF IInv
<1>0. /\ Len(log) \in Nat
      /\ \A slot \in Slots : job[slot].events \subseteq Ledger!Open
      /\ Queued \subseteq Ledger!Open
  <2>1. Len(log) \in Nat /\ taken \in 0 .. Len(log)
    BY QueuedAccepted DEF TypeOK
  <2>2. 1 .. taken \subseteq 1 .. Len(log) /\ Queued \cap (1 .. taken) = {}
        /\ Queued \subseteq 1 .. Len(log)
    BY <2>1 DEF Queued
  <2> QED  BY <2>1, <2>2 DEF HoldersInv, Ledger!Open, Flushing, Final, Slots
<1>1. ASSUME NEW q \in Queries, Search(q)
      PROVE  Ledger!Next
  <2>1. Ledger!Accept
    BY <1>1 DEF Search, Ledger!Accept
  <2> QED  BY <2>1 DEF Ledger!Next
<1>2. ASSUME NEW slot \in Slots, CommitWrite(slot)
      PROVE  Ledger!Next
  <2>1. \A q \in Queries : CountOf(job[slot].events, q)
                    = Ledger!Cardinality(Ledger!Searches(job[slot].events, q))
    <3> TAKE q \in Queries
    <3>1. EventsOf(job[slot].events, q) = Ledger!Searches(job[slot].events, q)
      BY DEF EventsOf, Ledger!Searches
    <3> QED  BY <3>1, LedgerCardinality DEF CountOf
  <2>2. Ledger!Count(job[slot].events)
    <3> DEFINE batch == job[slot].events
               n(q) == Ledger!Cardinality(Ledger!Searches(batch, q))
    <3>1. /\ counted' = counted \cup batch /\ UNCHANGED <<log, lost>>
          /\ added' = [q \in Queries |-> added[q] + CountOf(batch, q)]
      BY <1>2 DEF CommitWrite
    <3>2. \A q \in Queries : CountOf(batch, q) = n(q)
      BY <2>1
    <3> HIDE DEF batch, n
    <3>3. added' = [q \in Queries |-> added[q] + n(q)]
      BY <3>1, <3>2
    <3>4. Ledger!Count(batch)
      BY <3>1, <3>3 DEF Ledger!Count, n
    <3> QED  BY <3>4 DEF batch
  <2> QED  BY <1>0, <2>2 DEF Ledger!Next
<1>3. ASSUME NEW slot \in Slots, FailWrite(slot)
      PROVE  Ledger!Next
  <2>1. Ledger!Lose(job[slot].events)
    BY <1>3 DEF FailWrite, Ledger!Lose
  <2> QED  BY <1>0, <2>1 DEF Ledger!Next
<1>4. CASE Cancel
  <2>1. Ledger!Lose(Withdrawn)
    BY <1>4 DEF Cancel, Ledger!Lose
  <2>2. Withdrawn \subseteq Ledger!Open
    BY <1>0 DEF Withdrawn, Slots
  <2> QED  BY <2>1, <2>2 DEF Ledger!Next
<1>5. CASE Exit
  <2>1. Ledger!Lose(Queued)
    BY <1>5 DEF Exit, Ledger!Lose
  <2> QED  BY <1>0, <2>1 DEF Ledger!Next
<1>6. CASE Crash
  <2>1. Events \ counted = lost \cup Ledger!Open
    BY DEF TypeOK, HoldersInv, Events, Ledger!Open
  <2>2. Ledger!Lose(Ledger!Open)
    BY <1>6, <2>1 DEF Crash, Ledger!Lose
  <2> QED  BY <2>2 DEF Ledger!Next
<1>7. CASE WorkerStep
  BY <1>7 DEF WorkerStep, Receive, AwaitEvent, Timeout, WriteReturned,
              WriteRaised, WarmReturned, WarmRaised
<1>8. ASSUME NEW slot \in Slots, StartWrite(slot)
      PROVE  UNCHANGED <<log, counted, lost, added>>
  BY <1>8 DEF StartWrite
<1>9. CASE Tick \/ ApplyDecay \/ StopWithoutWorker \/ Launch \/ UNCHANGED vars
  BY <1>9 DEF Tick, ApplyDecay, StopWithoutWorker, Launch, vars
<1> QED
  BY <1>1, <1>2, <1>3, <1>4, <1>5, <1>6, <1>7, <1>8, <1>9 DEF Next, PoolStep

\* Every behaviour of the worker, its threads, the shutdown, the crashes and
\* the restarts is one of the ledger: an event is counted at most once, never
\* after it was lost, and a commit adds to every query exactly the searches of
\* its batch.
THEOREM ImplementsLedger == Spec => LedgerSpec
<1>1. Init => Ledger!Init
  BY DEF Init, Ledger!Init
<1> QED
  BY <1>1, LedgerStep, InductiveInvariant, PTL DEF Spec, LedgerSpec, Ledger!Spec

-----------------------------------------------------------------------------
(* Without faults nothing is lost.                                         *)

\* The worker never fails, no call waits for a thread, none raises.
FaultlessInv ==
    /\ lost = {}
    /\ worker # "failed"
    /\ \A slot \in Slots : job[slot].st \notin {"queued", "error"}

LEMMA FaultlessStep ==
    ASSUME Faults = {}, IInv, FaultlessInv, [Next]_vars
    PROVE  FaultlessInv'
<1> USE DEF FaultlessInv, Slots, NoJob
<1>1. TypeOK /\ ControlInv /\ job \in JobsType
  BY DEF IInv, TypeOK, JobsType
<1>2. ASSUME NEW S, NEW slot \in Slots, NEW jobs \in JobsType, FlushBuffer(S, slot, jobs),
             \A other \in Slots : jobs[other].st \notin {"queued", "error"}
      PROVE  \A other \in Slots : job'[other].st \notin {"queued", "error"}
  BY <1>2 DEF FlushBuffer, Submitted, JobsType
<1>3. CASE \E q \in Queries : Search(q)
  BY <1>3 DEF Search
<1>4. CASE Tick
  BY <1>4 DEF Tick
<1>5. CASE Receive
  <2>1. CASE FlushBuffer(buffer \cup {taken + 1}, "flush", job)
    BY <1>1, <1>2, <1>5, <2>1 DEF Receive
  <2>2. CASE UNCHANGED job
    BY <1>5, <2>2 DEF Receive
  <2> QED  BY <1>5, <2>1, <2>2 DEF Receive
<1>6. CASE AwaitEvent
  BY <1>6 DEF AwaitEvent
<1>7. CASE Timeout
  <2>1. CASE FlushBuffer(buffer, "flush", job)
    BY <1>1, <1>2, <1>7, <2>1 DEF Timeout
  <2>2. CASE UNCHANGED job
    BY <1>7, <2>2 DEF Timeout
  <2> QED  BY <1>7, <2>1, <2>2 DEF Timeout
<1>8. CASE PoolStep
  BY <1>1, <1>8 DEF PoolStep, StartWrite, CommitWrite, FailWrite, JobsType
<1>9. CASE WriteReturned \/ WriteRaised
  <2>1. AwaitedSlot \in Slots
    BY DEF AwaitedSlot
  <2> QED  BY <1>1, <1>9, <2>1 DEF WriteReturned, WriteRaised, JobsType
<1>10. CASE WarmReturned \/ WarmRaised
  BY <1>10 DEF WarmReturned, WarmRaised
<1>11. CASE Cancel
  <2>1. Withdrawn = {}
    BY DEF Withdrawn
  <2>2. Abandoned \in JobsType /\ \A slot \in Slots : Abandoned[slot].st \notin {"queued", "error"}
    BY <1>1, <1>11, AbandonedJobs DEF Cancel, JobsType
  <2>3. CASE FlushBuffer(Drained, "final", Abandoned)
    BY <1>2, <1>11, <2>1, <2>2, <2>3 DEF Cancel
  <2>4. CASE job' = Abandoned
    BY <1>11, <2>1, <2>2, <2>4 DEF Cancel
  <2> QED  BY <1>11, <2>3, <2>4 DEF Cancel
<1>12. CASE StopWithoutWorker
  BY <1>12 DEF StopWithoutWorker
<1>13. CASE Exit
  <2>1. Queued = {}
    BY <1>1, <1>13 DEF Exit, ControlInv, Queued, TypeOK
  <2> QED  BY <1>13, <2>1 DEF Exit
<1>14. CASE Crash
  BY <1>14 DEF Crash
<1>15. CASE Launch
  BY <1>15 DEF Launch
<1>16. CASE ApplyDecay \/ UNCHANGED vars
  BY <1>16 DEF ApplyDecay, vars
<1> QED
  BY <1>3, <1>4, <1>5, <1>6, <1>7, <1>8, <1>9, <1>10, <1>11, <1>12, <1>13, <1>14,
     <1>15, <1>16 DEF Next, WorkerStep

\* If no fault occurs, what architecture.md says of the shutdown holds: no event
\* is ever lost, and a process that has exited has committed all it accepted,
\* over any searches, timers, stalls, shutdowns and restarts.
THEOREM FaultlessCountsAll ==
    ASSUME Faults = {}
    PROVE  Spec => [](lost = {} /\ ExitCountsAll)
<1>1. Init => FaultlessInv
  BY DEF Init, FaultlessInv, NoJob, Slots
<1>2. IInv /\ FaultlessInv /\ [Next]_vars => FaultlessInv'
  BY FaultlessStep
<1>3. IInv /\ FaultlessInv => lost = {} /\ ExitCountsAll
  <2> SUFFICES ASSUME IInv, FaultlessInv, app = "exited" PROVE counted = Events
    BY DEF FaultlessInv, ExitCountsAll
  <2>1. taken = Len(log) /\ Flushing = {} /\ Final = {} /\ buffer = {} /\ lost = {}
    BY DEF IInv, ControlInv, FaultlessInv
  <2> QED  BY <2>1 DEF IInv, HoldersInv, Events
<1> QED  BY <1>1, <1>2, <1>3, InductiveInvariant, PTL DEF Spec

-----------------------------------------------------------------------------
(* Flushes and database writes.                                            *)

\* The calls of increment_counts that have not returned, slot by slot.
Ahead(slot) == IF Unsettled(slot) THEN 1 ELSE 0

LEMMA AheadCount ==
    Cardinality({slot \in Slots : Unsettled(slot)}) = Ahead("flush") + Ahead("final")
<1> DEFINE S == {slot \in Slots : Unsettled(slot)}
<1>1. CASE Unsettled("flush") /\ Unsettled("final")
  <2>1. S = {"flush"} \cup {"final"} /\ "final" \notin {"flush"}
    BY <1>1 DEF Slots
  <2>2. IsFiniteSet({"flush"}) /\ Cardinality({"flush"}) = 1
    BY FS_Singleton
  <2>3. Cardinality({"flush"} \cup {"final"}) = 2
    BY <2>1, <2>2, FS_AddElement
  <2> QED  BY <1>1, <2>1, <2>3 DEF Ahead
<1>2. CASE Unsettled("flush") /\ ~Unsettled("final")
  <2>1. S = {"flush"}
    BY <1>2 DEF Slots
  <2>2. Cardinality({"flush"}) = 1
    BY FS_Singleton
  <2> QED  BY <1>2, <2>1, <2>2 DEF Ahead
<1>3. CASE ~Unsettled("flush") /\ Unsettled("final")
  <2>1. S = {"final"}
    BY <1>3 DEF Slots
  <2>2. Cardinality({"final"}) = 1
    BY FS_Singleton
  <2> QED  BY <1>3, <2>1, <2>2 DEF Ahead
<1>4. CASE ~Unsettled("flush") /\ ~Unsettled("final")
  <2>1. S = {}
    BY <1>4 DEF Slots
  <2>2. Cardinality({}) = 0
    BY FS_EmptySet
  <2> QED  BY <1>4, <2>1, <2>2 DEF Ahead
<1> QED  BY <1>1, <1>2, <1>3, <1>4

\* The batches and decays that were reported, by the recorder of the flush or
\* by the scheduler's thread.
Recorded == metrics.flushes + metrics.decays

\* The counters against the calls in flight.  A call in flight holds an
\* event, so that withdrawing it, failing it or killing it loses one.
AccountingInv ==
    /\ \A slot \in Slots : Unsettled(slot) => job[slot].events # {}
    /\ Recorded >= metrics.dbWrites + Ahead("flush") + Ahead("final")
    /\ lost = {} => Recorded = metrics.dbWrites + Ahead("flush") + Ahead("final")

LEMMA AccountingImplies == TypeOK /\ AccountingInv => FlushAccounting
<1> SUFFICES ASSUME TypeOK, AccountingInv PROVE FlushAccounting
  OBVIOUS
<1>1. /\ metrics.flushes \in Nat /\ metrics.dbWrites \in Nat
      /\ metrics.decays \in Nat
      /\ Ahead("flush") \in Nat /\ Ahead("final") \in Nat
  BY CountersType DEF TypeOK, Ahead
<1> QED  BY <1>1, AheadCount DEF AccountingInv, FlushAccounting, Recorded

\* What flush_buffer does to the counters.
LEMMA FlushCounters ==
    ASSUME TypeOK, NEW S \in SUBSET Events, NEW slot, NEW jobs,
           FlushBuffer(S, slot, jobs)
    PROVE  /\ metrics'.flushes = metrics.flushes + 1
           /\ metrics'.written = metrics.written + Cardinality(Keys(S))
           /\ metrics'.dbWrites = metrics.dbWrites
           /\ metrics'.searchEvents = metrics.searchEvents
           /\ metrics'.decays = metrics.decays
<1> DEFINE n == Cardinality(Keys(S))
           flushed == [metrics EXCEPT !.flushes = @ + 1]
<1>1. metrics' = RecordBatchFlush(n)
  BY DEF FlushBuffer
<1> HIDE DEF n
<1>2. metrics' = [flushed EXCEPT !.written = @ + n]
  BY <1>1, Zenon DEF RecordBatchFlush
<1>3. metrics \in MetricsType
  BY DEF TypeOK
<1>4. /\ flushed \in MetricsType
      /\ flushed.flushes = metrics.flushes + 1
      /\ flushed.written = metrics.written
      /\ flushed.dbWrites = metrics.dbWrites
      /\ flushed.searchEvents = metrics.searchEvents
      /\ flushed.decays = metrics.decays
  BY <1>3 DEF MetricsType
<1> HIDE DEF flushed
<1>5. /\ metrics'.flushes = metrics.flushes + 1
      /\ metrics'.written = metrics.written + n
      /\ metrics'.dbWrites = metrics.dbWrites
      /\ metrics'.searchEvents = metrics.searchEvents
      /\ metrics'.decays = metrics.decays
  BY <1>2, <1>4 DEF MetricsType
<1> QED  BY <1>5 DEF n

\* A non-empty flush into a slot that is free puts one more call in flight.
LEMMA FlushAccounted ==
    ASSUME TypeOK, AccountingInv, job["flush"] = NoJob, job["final"] = NoJob,
           NEW S \in SUBSET Events, S # {}, FlushBuffer(S, "flush", job),
           UNCHANGED lost
    PROVE  AccountingInv'
<1>1. /\ Unsettled("flush")' /\ job'["final"] = job["final"]
      /\ job'["flush"].events = S
  BY LoopFlush DEF Flushing
<1>2. ~Unsettled("flush") /\ ~Unsettled("final") /\ ~Unsettled("final")'
  BY <1>1 DEF Unsettled, NoJob
<1>3. /\ Ahead("flush") = 0 /\ Ahead("final") = 0
      /\ Ahead("flush")' = 1 /\ Ahead("final")' = 0
  BY <1>1, <1>2 DEF Ahead
<1>4. \A slot \in Slots : Unsettled(slot)' => job'[slot].events # {}
  BY <1>1, <1>2 DEF Slots
<1>5. /\ metrics'.flushes = metrics.flushes + 1
      /\ metrics'.dbWrites = metrics.dbWrites /\ metrics'.decays = metrics.decays
      /\ metrics.flushes \in Nat /\ metrics.dbWrites \in Nat
      /\ metrics.decays \in Nat
  BY FlushCounters, CountersType DEF TypeOK
<1> QED  BY <1>3, <1>4, <1>5 DEF AccountingInv, Recorded

LEMMA NextAccounting == IInv /\ AccountingInv /\ [Next]_vars => AccountingInv'
<1> SUFFICES ASSUME IInv, AccountingInv, [Next]_vars PROVE AccountingInv'
  OBVIOUS
<1>0. /\ TypeOK /\ ControlInv /\ HoldersInv
      /\ metrics.flushes \in Nat /\ metrics.dbWrites \in Nat
      /\ metrics.decays \in Nat
      /\ "flush" \in Slots /\ "final" \in Slots /\ job \in JobsType
      /\ Slots = {"flush", "final"} /\ metrics \in MetricsType
  BY CountersType DEF IInv, TypeOK, Slots, JobsType
\* Steps that do not touch the calls, and the counters in the same measure.
<1>1. ASSUME UNCHANGED <<job, lost>>, metrics'.flushes = metrics.flushes,
             \/ /\ metrics'.dbWrites = metrics.dbWrites
                /\ metrics'.decays = metrics.decays
             \/ /\ metrics'.dbWrites = metrics.dbWrites + 1
                /\ metrics'.decays = metrics.decays + 1
      PROVE  AccountingInv'
  <2>1. /\ Ahead("flush")' = Ahead("flush") /\ Ahead("final")' = Ahead("final")
        /\ \A slot \in Slots : Unsettled(slot)' <=> Unsettled(slot)
        /\ Ahead("flush") \in Nat /\ Ahead("final") \in Nat
    BY <1>1 DEF Ahead, Unsettled
  <2> QED  BY <1>0, <1>1, <2>1 DEF AccountingInv, Recorded
\* Steps that leave the same calls in flight, with the same events.
<1>2. ASSUME \A slot \in Slots : Unsettled(slot)' <=> Unsettled(slot),
             \A slot \in Slots : Unsettled(slot) =>
                                    job'[slot].events = job[slot].events,
             UNCHANGED <<metrics, lost>>
      PROVE  AccountingInv'
  <2>1. Ahead("flush")' = Ahead("flush") /\ Ahead("final")' = Ahead("final")
    BY <1>0, <1>2 DEF Ahead
  <2> QED  BY <1>2, <2>1 DEF AccountingInv, Recorded
<1>3. ASSUME NEW q \in Queries, Search(q) PROVE AccountingInv'
  BY <1>0, <1>1, <1>3, RecordersCount DEF Search
<1>4. CASE Receive /\ app # "exited"
  <2> DEFINE filled == buffer \cup {taken + 1}
  <2>1. filled \in SUBSET Events /\ filled # {} /\ UNCHANGED lost
    BY <1>0, <1>4 DEF Receive, TypeOK, Events
  <2>2. job["flush"] = NoJob /\ job["final"] = NoJob
    BY <1>0, <1>4 DEF Receive, GetterRuns, ControlInv, TypeOK
  <2>3. CASE FlushBuffer(filled, "flush", job)
    <3> HIDE DEF filled
    <3> QED  BY <1>0, <2>1, <2>2, <2>3, FlushAccounted
  <2>4. CASE UNCHANGED <<job, metrics>>
    BY <1>1, <2>1, <2>4
  <2> QED  BY <1>4, <2>3, <2>4 DEF Receive
<1>5. CASE Timeout /\ app # "exited"
  <2>1. CASE UNCHANGED <<job, metrics>>
    BY <1>1, <1>5, <2>1 DEF Timeout
  <2>2. CASE buffer # {} /\ FlushBuffer(buffer, "flush", job)
    <3>1. job["flush"] = NoJob /\ job["final"] = NoJob
      BY <1>0, <1>5 DEF Timeout, TimedOut, ControlInv, TypeOK
    <3>2. buffer \in SUBSET Events /\ UNCHANGED lost
      BY <1>0, <1>5 DEF Timeout, TypeOK
    <3> QED  BY <1>0, <2>2, <3>1, <3>2, FlushAccounted
  <2> QED  BY <1>5, <2>1, <2>2 DEF Timeout
<1>6. ASSUME NEW slot \in Slots, StartWrite(slot) PROVE AccountingInv'
  <2>1. /\ Unsettled(slot) /\ UNCHANGED <<metrics, lost>>
        /\ \A other \in Slots \ {slot} : job'[other] = job[other]
        /\ job'[slot].st = "running" /\ job'[slot].events = job[slot].events
    BY <1>0, <1>6, PoolJobs DEF StartWrite
  <2>2. \A s \in Slots : Unsettled(s)' <=> Unsettled(s)
    BY <2>1 DEF Unsettled
  <2>3. \A s \in Slots : Unsettled(s) => job'[s].events = job[s].events
    BY <2>1
  <2> QED  BY <1>2, <2>1, <2>2, <2>3
<1>7. ASSUME NEW slot \in Slots, CommitWrite(slot) \/ FailWrite(slot)
      PROVE  AccountingInv'
  <2>1. /\ Unsettled(slot) /\ ~Unsettled(slot)'
        /\ \A other \in Slots \ {slot} : job'[other] = job[other]
    BY <1>0, <1>7, PoolJobs DEF Unsettled
  <2>2. \A other \in Slots \ {slot} : Unsettled(other)' <=> Unsettled(other)
    BY <2>1 DEF Unsettled
  <2>3. Ahead("flush")' + Ahead("final")' + 1 = Ahead("flush") + Ahead("final")
    <3>1. CASE slot = "flush"
      BY <1>0, <2>1, <2>2, <3>1 DEF Ahead
    <3>2. CASE slot = "final"
      BY <1>0, <2>1, <2>2, <3>2 DEF Ahead
    <3> QED  BY <1>0, <3>1, <3>2
  <2>4. \A s \in Slots : Unsettled(s)' => job'[s].events # {}
    BY <2>1, <2>2 DEF AccountingInv
  <2>5. Ahead("flush") \in Nat /\ Ahead("final") \in Nat
        /\ Ahead("flush")' \in Nat /\ Ahead("final")' \in Nat
    BY DEF Ahead
  <2>6. CASE CommitWrite(slot)
    <3>1. /\ UNCHANGED lost
          /\ metrics'.dbWrites = metrics.dbWrites + 1
          /\ metrics'.flushes = metrics.flushes /\ metrics'.decays = metrics.decays
      BY <1>0, <2>6, RecordersCount DEF CommitWrite
    <3> QED  BY <1>0, <2>3, <2>4, <2>5, <3>1 DEF AccountingInv, Recorded
  <2>7. CASE FailWrite(slot)
    <3>1. lost' # {} /\ UNCHANGED metrics
      BY <2>1, <2>7 DEF FailWrite, AccountingInv
    <3> QED  BY <1>0, <2>3, <2>4, <2>5, <3>1 DEF AccountingInv, Recorded
  <2> QED  BY <1>7, <2>6, <2>7
<1>8. CASE (WriteReturned \/ WriteRaised) /\ app # "exited"
  <2>1. PICK slot \in Slots : /\ job[slot].st \in {"done", "error"}
                              /\ job' = [job EXCEPT ![slot] = NoJob]
    BY <1>8 DEF WriteReturned, WriteRaised, AwaitedSlot, Slots
  <2>2. /\ \A other \in Slots \ {slot} : job'[other] = job[other]
        /\ job'[slot] = NoJob
    BY <1>0, <2>1 DEF JobsType
  <2>3. \A s \in Slots : Unsettled(s)' <=> Unsettled(s)
    BY <2>1, <2>2 DEF Unsettled, NoJob
  <2>4. \A s \in Slots : Unsettled(s) => job'[s].events = job[s].events
    BY <2>1, <2>2 DEF Unsettled
  <2>5. UNCHANGED <<metrics, lost>>
    BY <1>8 DEF WriteReturned, WriteRaised
  <2> QED  BY <1>2, <2>3, <2>4, <2>5
<1>9. CASE Cancel
  <2>1. ~Unsettled("final") /\ Ahead("final") = 0
    BY <1>0, <1>9 DEF Cancel, ControlInv, Unsettled, NoJob, Ahead
  <2>2. /\ Abandoned \in JobsType /\ Abandoned["final"] = NoJob
        /\ Abandoned["flush"] \in {NoJob, job["flush"]}
        /\ Abandoned["flush"].events \cup Withdrawn = Flushing
    BY <1>0, <1>9, AbandonedJobs DEF Cancel
  \* The call of the loop either stays as it was or is withdrawn unfinished.
  <2>3. ASSUME job'["flush"] = Abandoned["flush"]
        PROVE  /\ Unsettled("flush")' => job'["flush"].events # {}
               /\ Ahead("flush")' \in Nat /\ Ahead("flush")' <= Ahead("flush")
               /\ lost' = {} => lost = {} /\ Ahead("flush")' = Ahead("flush")
    <3>1. lost' = lost \cup Withdrawn
      BY <1>9 DEF Cancel
    <3>2. CASE Abandoned["flush"] = job["flush"]
      <4>1. Unsettled("flush")' <=> Unsettled("flush")
        BY <2>3, <3>2 DEF Unsettled
      <4> QED  BY <1>0, <2>3, <3>1, <3>2, <4>1 DEF Ahead, AccountingInv
    <3>3. CASE Abandoned["flush"] = NoJob
      <4>1. ~Unsettled("flush")'
        BY <2>3, <3>3 DEF Unsettled, NoJob
      <4>2. Withdrawn = Flushing
        BY <2>2, <3>3 DEF NoJob
      <4>3. Unsettled("flush") => lost' # {}
        BY <1>0, <3>1, <4>2 DEF AccountingInv, Flushing
      <4> QED  BY <3>1, <4>1, <4>3 DEF Ahead
    <3> QED  BY <2>2, <3>2, <3>3
  <2>4. Ahead("flush") \in Nat
    BY DEF Ahead
  <2>5. CASE job' = Abandoned /\ UNCHANGED metrics
    <3>1. ~Unsettled("final")' /\ Ahead("final")' = 0
      BY <2>2, <2>5 DEF Unsettled, NoJob, Ahead
    <3>2. \A slot \in Slots : Unsettled(slot)' => job'[slot].events # {}
      BY <1>0, <2>3, <2>5, <3>1
    <3> QED  BY <1>0, <2>1, <2>3, <2>4, <2>5, <3>1, <3>2 DEF AccountingInv, Recorded
  <2>6. CASE Drained # {} /\ FlushBuffer(Drained, "final", Abandoned)
    <3>1. /\ job'["final"].events = Drained
          /\ job'["final"].st \in {"queued", "running"}
          /\ job'["flush"] = Abandoned["flush"]
      BY <1>0, <2>2, <2>6, FlushJobs
    <3>2. Unsettled("final")' /\ Ahead("final")' = 1
      BY <3>1 DEF Unsettled, Ahead
    <3>3. \A slot \in Slots : Unsettled(slot)' => job'[slot].events # {}
      BY <1>0, <2>3, <2>6, <3>1
    <3>4. Drained \in SUBSET Events
      BY <1>0, QueuedAccepted DEF Drained, TypeOK
    <3>5. /\ metrics'.flushes = metrics.flushes + 1
          /\ metrics'.dbWrites = metrics.dbWrites
          /\ metrics'.decays = metrics.decays
      BY <1>0, <2>6, <3>4, FlushCounters
    <3> QED
      BY <1>0, <2>1, <2>3, <2>4, <3>1, <3>2, <3>3, <3>5 DEF AccountingInv, Recorded
  <2> QED  BY <1>9, <2>5, <2>6 DEF Cancel
<1>10. CASE Exit
  <2>1. /\ UNCHANGED <<job, metrics>> /\ lost' = lost \cup Queued
        /\ ~Unsettled("flush") /\ ~Unsettled("final")
    BY <1>0, <1>10 DEF Exit
  <2>2. ~Unsettled("flush")' /\ ~Unsettled("final")'
    BY <2>1 DEF Unsettled
  <2> QED  BY <1>0, <2>1, <2>2 DEF AccountingInv, Recorded, Ahead
<1>11. CASE Crash
  <2>1. /\ job' = [slot \in Slots |-> NoJob] /\ UNCHANGED metrics
        /\ lost' = Events \ counted
    BY <1>11 DEF Crash
  <2>2. \A slot \in Slots : ~Unsettled(slot)'
    BY <2>1 DEF Unsettled, NoJob
  <2>3. Ahead("flush")' = 0 /\ Ahead("final")' = 0
    BY <1>0, <2>2 DEF Ahead
  <2>4. lost' = {} => lost = {} /\ Flushing = {} /\ Final = {}
    BY <1>0, <2>1 DEF HoldersInv, TypeOK, Flushing, Final, Slots
  <2>5. lost' = {} => lost = {} /\ Ahead("flush") = 0 /\ Ahead("final") = 0
    BY <1>0, <2>4 DEF AccountingInv, Flushing, Final, Ahead
  <2>6. Ahead("flush") \in Nat /\ Ahead("final") \in Nat
    BY DEF Ahead
  <2> QED  BY <1>0, <2>1, <2>2, <2>3, <2>5, <2>6 DEF AccountingInv, Recorded
<1>12. CASE Launch
  <2>1. job' = [slot \in Slots |-> NoJob] /\ metrics' = NoMetrics
    BY <1>12 DEF Launch
  <2>2. \A slot \in Slots : ~Unsettled(slot)'
    BY <2>1 DEF Unsettled, NoJob
  <2>3. Ahead("flush")' = 0 /\ Ahead("final")' = 0
    BY <1>0, <2>2 DEF Ahead
  <2> QED  BY <2>1, <2>2, <2>3 DEF AccountingInv, Recorded, NoMetrics
<1>13. CASE Tick \/ AwaitEvent \/ WarmReturned \/ WarmRaised
            \/ StopWithoutWorker \/ UNCHANGED vars
  BY <1>1, <1>13 DEF Tick, AwaitEvent, WarmReturned, WarmRaised,
                     StopWithoutWorker, vars
<1>14. CASE ApplyDecay
  BY <1>0, <1>1, <1>14, DecayCounted DEF ApplyDecay
<1> QED
  BY <1>3, <1>4, <1>5, <1>6, <1>7, <1>8, <1>9, <1>10, <1>11, <1>12, <1>13, <1>14
     DEF Next, WorkerStep, PoolStep

\* The flush counter and the decays never fall behind the write counter, which
\* counts both, and the calls in flight; only an event lost to a fault lets
\* them run ahead.
THEOREM FlushAccountingCorrect == Spec => []FlushAccounting
<1>1. Init => AccountingInv
  <2> SUFFICES ASSUME Init PROVE AccountingInv
    OBVIOUS
  <2>1. \A slot \in Slots : ~Unsettled(slot)
    BY DEF Init, Unsettled, NoJob
  <2>2. Ahead("flush") = 0 /\ Ahead("final") = 0
    BY <2>1 DEF Ahead, Slots
  <2> QED  BY <2>1, <2>2 DEF Init, AccountingInv, Recorded, NoMetrics
<1>2. IInv /\ AccountingInv => FlushAccounting
  BY AccountingImplies DEF IInv
<1> QED  BY <1>1, <1>2, NextAccounting, InductiveInvariant, PTL DEF Spec

-----------------------------------------------------------------------------
(* Queries written and searches.                                           *)

\* Aggregating events never makes more keys than events, nor none of some.
LEMMA KeysBounds ==
    ASSUME TypeOK, NEW S \in SUBSET Events
    PROVE  /\ IsFiniteSet(S) /\ Cardinality(S) \in Nat
           /\ Cardinality(Keys(S)) \in Nat
           /\ Cardinality(Keys(S)) <= Cardinality(S)
           /\ S # {} => Cardinality(Keys(S)) >= 1
<1>1. IsFiniteSet(Events)
  BY FS_Interval DEF TypeOK, Events
<1>2. IsFiniteSet(S)
  BY <1>1, FS_Subset
<1> DEFINE f == [e \in S |-> log[e]]
<1>3. f \in Surjection(S, Keys(S))
  BY DEF Surjection, Keys
<1>4. Cardinality(Keys(S)) <= Cardinality(S) /\ IsFiniteSet(Keys(S))
  <2> HIDE DEF f
  <2> QED  BY <1>2, <1>3, FS_Surjection
<1>5. Cardinality(S) \in Nat /\ Cardinality(Keys(S)) \in Nat
  BY <1>2, <1>4, FS_CardinalityType
<1>6. ASSUME S # {} PROVE Cardinality(Keys(S)) # 0
  <2>1. Keys(S) # {}
    BY <1>6 DEF Keys
  <2> QED  BY <1>4, <2>1, FS_EmptySet
<1> QED  BY <1>2, <1>4, <1>5, <1>6

\* The searches of this launch that no flush has taken yet.
Unflushed == Cardinality(buffer) + (Len(log) - taken)

\* No query is reported as written twice: what is still to flush fits
\* between the queries written and the searches.
WrittenInv ==
    /\ metrics.flushes <= metrics.written
    /\ metrics.written + Unflushed <= metrics.searchEvents

\* A flush of at most the unflushed events that leaves fewer keeps the bounds.
LEMMA FlushWithin ==
    ASSUME TypeOK, WrittenInv, UNCHANGED log, taken' \in 0 .. Len(log),
           NEW S \in SUBSET Events, S # {}, NEW slot, NEW jobs,
           FlushBuffer(S, slot, jobs),
           Cardinality(S) + (Len(log) - taken') <= Unflushed
    PROVE  WrittenInv'
<1>1. /\ Cardinality(S) \in Nat /\ Cardinality(Keys(S)) \in Nat
      /\ Cardinality(Keys(S)) <= Cardinality(S)
      /\ Cardinality(Keys(S)) >= 1
  BY KeysBounds
<1>2. /\ metrics'.flushes = metrics.flushes + 1
      /\ metrics'.written = metrics.written + Cardinality(Keys(S))
      /\ metrics'.searchEvents = metrics.searchEvents
  BY FlushCounters
<1>3. Cardinality(buffer') = 0
  BY FS_EmptySet DEF FlushBuffer
<1>4. /\ metrics.flushes \in Nat /\ metrics.written \in Nat
      /\ metrics.searchEvents \in Nat /\ Len(log) \in Nat
      /\ Cardinality(buffer) \in Nat /\ taken \in Nat /\ taken' \in Nat
  <2>1. buffer \in SUBSET Events /\ Len(log) \in Nat
    BY DEF TypeOK
  <2>2. Cardinality(buffer) \in Nat
    BY <2>1, KeysBounds
  <2> QED  BY <2>1, <2>2, CountersType DEF TypeOK
<1> DEFINE n == Cardinality(Keys(S))
           c == Cardinality(S)
<1>5. n \in Nat /\ c \in Nat /\ n <= c /\ n >= 1
  BY <1>1
<1>6. metrics'.written = metrics.written + n
  BY <1>2
<1>7. c + (Len(log) - taken') <= Unflushed
  OBVIOUS
<1>8. Unflushed' = Len(log) - taken'
  BY <1>3, <1>4 DEF Unflushed
<1>9. Unflushed = Cardinality(buffer) + (Len(log) - taken) /\ Unflushed \in Int
  BY <1>4 DEF Unflushed
<1>10. /\ metrics.flushes <= metrics.written
       /\ metrics.written + Unflushed <= metrics.searchEvents
  BY DEF WrittenInv
<1>11. /\ metrics'.flushes = metrics.flushes + 1
       /\ metrics'.searchEvents = metrics.searchEvents
  BY <1>2
<1> HIDE DEF n, c
<1>12. metrics'.flushes <= metrics'.written
  BY <1>4, <1>5, <1>6, <1>10, <1>11
<1>13. metrics'.written + (Len(log) - taken') <= metrics'.searchEvents
  <2> DEFINE left == Len(log) - taken'
             w == metrics.written
             u == Unflushed
  <2>1. left \in Int /\ w \in Int /\ u \in Int
    BY <1>4, <1>9
  <2>2. c + left <= u /\ w + u <= metrics.searchEvents
    BY <1>7, <1>10
  <2> HIDE DEF left, w, u
  <2>3. (w + n) + left <= metrics.searchEvents
    BY <1>4, <1>5, <2>1, <2>2
  <2> QED  BY <1>6, <1>11, <2>3 DEF left, w
<1> QED  BY <1>8, <1>12, <1>13 DEF WrittenInv

LEMMA NextWritten == IInv /\ WrittenInv /\ [Next]_vars => WrittenInv'
<1> SUFFICES ASSUME IInv, WrittenInv, [Next]_vars PROVE WrittenInv'
  OBVIOUS
<1>0. /\ TypeOK /\ ControlInv
      /\ metrics.flushes \in Nat /\ metrics.written \in Nat
      /\ metrics.searchEvents \in Nat /\ Len(log) \in Nat
      /\ Cardinality(buffer) \in Nat /\ taken \in 0 .. Len(log)
      /\ IsFiniteSet(buffer) /\ buffer \in SUBSET Events
      /\ metrics \in MetricsType
  <2>1. TypeOK /\ ControlInv /\ buffer \in SUBSET Events /\ metrics \in MetricsType
        /\ Len(log) \in Nat /\ taken \in 0 .. Len(log)
    BY DEF IInv, TypeOK
  <2>2. IsFiniteSet(buffer) /\ Cardinality(buffer) \in Nat
    BY <2>1, KeysBounds
  <2> QED  BY <2>1, <2>2, CountersType
<1>1. ASSUME UNCHANGED <<log, taken, buffer>>,
             metrics'.flushes = metrics.flushes,
             metrics'.written = metrics.written,
             metrics'.searchEvents = metrics.searchEvents
      PROVE  WrittenInv'
  BY <1>1 DEF WrittenInv, Unflushed
<1>2. ASSUME NEW q \in Queries, Search(q) PROVE WrittenInv'
  <2>1. /\ Len(log') = Len(log) + 1 /\ UNCHANGED <<taken, buffer>>
        /\ metrics'.flushes = metrics.flushes
        /\ metrics'.written = metrics.written
        /\ metrics'.searchEvents = metrics.searchEvents + 1
    BY <1>0, <1>2, RecordersCount DEF Search, TypeOK
  <2> QED  BY <1>0, <2>1 DEF WrittenInv, Unflushed
<1>3. CASE Receive /\ app # "exited"
  <2> DEFINE filled == buffer \cup {taken + 1}
  <2>1. /\ UNCHANGED log /\ taken < Len(log) /\ taken' = taken + 1
        /\ taken' \in 0 .. Len(log)
    BY <1>0, <1>3 DEF Receive
  <2>2. filled \in SUBSET Events /\ filled # {}
    BY <1>0, <2>1 DEF Events
  <2>3. Cardinality(filled) \in Nat
    BY <1>0, <2>2, KeysBounds
  <2>4. Cardinality(filled) <= Cardinality(buffer) + 1
    <3>1. Cardinality(filled) = IF taken + 1 \in buffer
                                THEN Cardinality(buffer)
                                ELSE Cardinality(buffer) + 1
      BY <1>0, FS_AddElement
    <3> HIDE DEF filled
    <3> QED  BY <1>0, <3>1
  <2> HIDE DEF filled
  <2>5. Cardinality(filled) + (Len(log) - taken') <= Unflushed
    BY <1>0, <2>1, <2>3, <2>4 DEF Unflushed
  <2>6. CASE FlushBuffer(filled, "flush", job)
    BY <1>0, <2>1, <2>2, <2>5, <2>6, FlushWithin
  <2>7. CASE buffer' = filled /\ UNCHANGED metrics
    <3>1. Unflushed' = Cardinality(filled) + (Len(log) - taken')
      BY <2>1, <2>7 DEF Unflushed
    <3>2. Unflushed' \in Int /\ Unflushed \in Int /\ Unflushed' <= Unflushed
      BY <1>0, <2>1, <2>3, <2>5, <3>1 DEF Unflushed
    <3> QED  BY <1>0, <2>7, <3>2 DEF WrittenInv
  <2> QED  BY <1>3, <2>6, <2>7 DEF Receive, filled
<1>4. CASE Timeout /\ app # "exited"
  <2>1. CASE UNCHANGED <<buffer, metrics>>
    BY <1>1, <1>4, <2>1 DEF Timeout
  <2>2. CASE buffer # {} /\ FlushBuffer(buffer, "flush", job)
    <3>1. UNCHANGED <<log, taken>>
      BY <1>4 DEF Timeout
    <3>2. Cardinality(buffer) + (Len(log) - taken') <= Unflushed
      BY <1>0, <3>1 DEF Unflushed
    <3> QED  BY <1>0, <2>2, <3>1, <3>2, FlushWithin
  <2> QED  BY <1>4, <2>1, <2>2 DEF Timeout
<1>5. CASE PoolStep \/ ApplyDecay
  BY <1>0, <1>1, <1>5, RecordersCount, DecayCounted
     DEF PoolStep, StartWrite, CommitWrite, FailWrite, ApplyDecay
<1>6. CASE Cancel
  <2>1. /\ UNCHANGED log /\ taken' = Len(log) /\ taken' \in 0 .. Len(log)
    BY <1>0, <1>6 DEF Cancel
  <2>2. IsFiniteSet(Queued) /\ Cardinality(Queued) = Len(log) - taken
    <3>1. taken + 1 \in Int /\ Len(log) \in Int
      BY <1>0
    <3>2. /\ IsFiniteSet(Queued)
          /\ Cardinality(Queued) = IF taken + 1 > Len(log) THEN 0
                                   ELSE Len(log) - (taken + 1) + 1
      BY <3>1, FS_Interval DEF Queued
    <3> QED  BY <1>0, <3>2
  <2>3. Drained \in SUBSET Events
    BY <1>0, QueuedAccepted DEF Drained
  <2>4. Cardinality(Drained) <= Cardinality(buffer) + Cardinality(Queued)
    <3>1. IsFiniteSet(buffer \cap Queued)
      BY <1>0, FS_Subset
    <3>2. /\ Cardinality(buffer \cap Queued) \in Nat
          /\ Cardinality(Queued) \in Nat
      BY <2>2, <3>1, FS_CardinalityType
    <3>3. Cardinality(Drained) = Cardinality(buffer) + Cardinality(Queued)
                                   - Cardinality(buffer \cap Queued)
      BY <1>0, <2>2, FS_Union DEF Drained
    <3> QED  BY <1>0, <3>2, <3>3
  <2>5. Cardinality(Drained) \in Nat
    BY <1>0, <2>3, KeysBounds
  <2>6. Cardinality(Drained) + (Len(log) - taken') <= Unflushed
    BY <1>0, <2>1, <2>2, <2>4, <2>5 DEF Unflushed
  <2>7. CASE UNCHANGED <<buffer, metrics>>
    BY <1>0, <2>1, <2>7 DEF WrittenInv, Unflushed
  <2>8. CASE Drained # {} /\ FlushBuffer(Drained, "final", Abandoned)
    BY <1>0, <2>1, <2>3, <2>6, <2>8, FlushWithin
  <2> QED  BY <1>6, <2>7, <2>8 DEF Cancel
<1>7. CASE Exit
  BY <1>0, <1>7 DEF Exit, WrittenInv, Unflushed
<1>8. CASE Crash
  <2>1. Cardinality(buffer') = 0
    BY <1>8, FS_EmptySet DEF Crash
  <2> QED  BY <1>0, <1>8, <2>1 DEF Crash, WrittenInv, Unflushed
<1>9. CASE Launch
  <2>1. buffer = {} /\ taken = Len(log)
    BY <1>0, <1>9 DEF Launch, ControlInv
  <2>2. Cardinality(buffer) = 0
    BY <2>1, FS_EmptySet
  <2> QED  BY <1>0, <1>9, <2>1, <2>2 DEF Launch, NoMetrics, WrittenInv, Unflushed
<1>10. CASE \/ AwaitEvent \/ WriteReturned \/ WriteRaised \/ WarmReturned
            \/ WarmRaised \/ Tick \/ StopWithoutWorker \/ UNCHANGED vars
  BY <1>1, <1>10 DEF AwaitEvent, WriteReturned, WriteRaised, WarmReturned,
                     WarmRaised, Tick, StopWithoutWorker, vars
<1> QED
  BY <1>2, <1>3, <1>4, <1>5, <1>6, <1>7, <1>8, <1>9, <1>10
     DEF Next, WorkerStep

\* A flush reports at least one query and no query is reported that was not
\* searched in the same launch, whatever the timer, the queue, a shutdown, a
\* crash and a restart do.
THEOREM FlushesWithinSearchesCorrect == Spec => []FlushesWithinSearches
<1>1. Init => WrittenInv
  <2> SUFFICES ASSUME Init PROVE WrittenInv
    OBVIOUS
  <2>1. Cardinality(buffer) = 0 /\ Len(log) = 0 /\ taken = 0
    BY FS_EmptySet DEF Init
  <2> QED  BY <2>1 DEF Init, NoMetrics, WrittenInv, Unflushed
<1>2. IInv /\ WrittenInv => FlushesWithinSearches
  <2> SUFFICES ASSUME IInv, WrittenInv PROVE FlushesWithinSearches
    OBVIOUS
  <2>1. /\ Cardinality(buffer) \in Nat /\ Len(log) \in Nat
        /\ taken \in 0 .. Len(log)
        /\ metrics.written \in Nat /\ metrics.searchEvents \in Nat
    <3>1. TypeOK /\ buffer \in SUBSET Events
      BY DEF IInv, TypeOK
    <3>2. Cardinality(buffer) \in Nat
      BY <3>1, KeysBounds
    <3> QED  BY <3>1, <3>2, CountersType DEF TypeOK
  <2>2. Unflushed \in Nat
    BY <2>1 DEF Unflushed
  <2> QED  BY <2>1, <2>2 DEF WrittenInv, FlushesWithinSearches
<1> QED  BY <1>1, <1>2, NextWritten, InductiveInvariant, PTL DEF Spec

=============================================================================
