--------------------------- MODULE MetricsProofs ---------------------------
(***************************************************************************)
(* Proofs about Metrics, for any number of threads and calls: type         *)
(* correctness, and that the metrics are a log of atomic records.          *)
(***************************************************************************)
EXTENDS Metrics, Ranking, TLAPS

CallType == [kind : {"none", "add", "latency", "snapshot"}, by : Amounts,
             ms : Nat, caller : {"none", "request", "worker", "other"}]
Fields == Counters \cup {Latencies}

\* What one of the record calls of metrics.py can add.
RecordedAmounts ==
    {By(c, 1) : c \in {DbReads, DbWrites, SearchEvents}}
        \cup {[By(BatchFlushes, 1) EXCEPT ![QueriesWritten] = n] : n \in Nat \ {0}}

LEMMA FieldsAre == Counters = 1 .. 5 /\ Fields = 0 .. 5
  BY DEF Counters, Fields, Latencies, Log!Counters, Log!DbReads, Log!QueriesWritten

\* Some field comes first.
LEMMA FirstIn ==
    ASSUME NEW S \in SUBSET Fields, S # {}
    PROVE  First(S) \in S
<1>1. \E f \in S : \A g \in S : f <= g
  <2>1. S \subseteq 0 .. 5
    BY FieldsAre
  <2>2. CASE 0 \in S
    BY <2>1, <2>2
  <2>3. CASE 0 \notin S /\ 1 \in S
    BY <2>1, <2>3
  <2>4. CASE S \cap 0 .. 1 = {} /\ 2 \in S
    BY <2>1, <2>4
  <2>5. CASE S \cap 0 .. 2 = {} /\ 3 \in S
    BY <2>1, <2>5
  <2>6. CASE S \cap 0 .. 3 = {}
    <3>1. S \subseteq {4, 5}
      BY <2>1, <2>6
    <3>2. CASE 4 \in S
      BY <3>1, <3>2
    <3>3. CASE S = {5}
      BY <3>3
    <3> QED  BY <3>1, <3>2, <3>3
  <2> QED  BY <2>2, <2>3, <2>4, <2>5, <2>6
<1> QED  BY <1>1 DEF First

LEMMA ZeroType == Log!Zero \in Amounts
  BY DEF Log!Zero, Amounts, Counters

LEMMA ByType ==
    /\ \A c \in Counters, n \in Nat : By(c, n) \in Amounts
    /\ RecordedAmounts \subseteq Amounts
<1>1. \A c \in Counters, n \in Nat : By(c, n) \in Amounts
  BY ZeroType DEF By, Amounts
<1>2. {DbReads, DbWrites, SearchEvents, BatchFlushes, QueriesWritten} \subseteq Counters
  BY DEF Counters, Log!Counters, DbReads, DbWrites, SearchEvents, BatchFlushes, QueriesWritten,
         Log!DbReads, Log!DbWrites, Log!SearchEvents, Log!BatchFlushes, Log!QueriesWritten
<1>3. \A n \in Nat : [By(BatchFlushes, 1) EXCEPT ![QueriesWritten] = n] \in Amounts
  BY <1>1, <1>2 DEF Amounts
<1> QED  BY <1>1, <1>2, <1>3 DEF RecordedAmounts

LEMMA NoCallType == NoCall \in CallType /\ NoSnapshot \in Snapshots
  BY ZeroType DEF NoCall, CallType, NoSnapshot, Snapshots, Log!Snapshot

LEMMA LatestType ==
    ASSUME NEW s \in Seq(Nat), Len(s) <= Window, NEW ms \in Nat
    PROVE  Log!Latest(Append(s, ms)) \in Seq(Nat) /\ Len(Log!Latest(Append(s, ms))) <= Window
  BY WindowAssumption DEF Log!Latest


-----------------------------------------------------------------------------
(* Types.                                                                  *)

LEMMA InitType == Init => TypeOK
  BY ZeroType, NoCallType, BoundsAssumption, WindowAssumption
     DEF Init, TypeOK, Amounts, CallType, Threads

\* A call leaves everything but the thread's own place alone.
LEMMA CallKeeps ==
    ASSUME TypeOK, NEW t \in Threads, NEW c \in CallType, NEW fields \in SUBSET Fields,
           Call(t, c, fields)
    PROVE  /\ at' \in [Threads -> {"idle", "waiting", "holding", "loaded"}]
           /\ call' \in [Threads -> CallType]
           /\ todo' \in [Threads -> SUBSET Fields]
           /\ calls' \in 0 .. MaxCalls
           /\ UNCHANGED <<counts, latencies, cache, answer, lock, reg, recorded, kept>>
           /\ at[t] = "idle" /\ at'[t] = "waiting" /\ call'[t] = c /\ todo'[t] = fields
           /\ \A u \in Threads \ {t} :
                 at'[u] = at[u] /\ call'[u] = call[u] /\ todo'[u] = todo[u]
<1>1. /\ at' = [at EXCEPT ![t] = "waiting"] /\ call' = [call EXCEPT ![t] = c]
      /\ todo' = [todo EXCEPT ![t] = fields] /\ calls' = calls + 1
      /\ calls < MaxCalls /\ at[t] = "idle"
      /\ UNCHANGED <<counts, latencies, cache, answer, lock, reg, recorded, kept>>
  BY DEF Call, store, history
<1>2. calls' \in 0 .. MaxCalls
  BY <1>1, BoundsAssumption DEF TypeOK
<1> QED  BY <1>1, <1>2 DEF TypeOK, CallType, Fields

\* The calls the program makes.
Calls(t) ==
    {c \in CallType :
        \/ c.kind = "add" /\ c.by \in RecordedAmounts
        \/ c.kind = "latency" /\ t = Loop /\ c.ms \in Durations /\ c.by = Log!Zero
        \/ c.kind = "snapshot" /\ t = Loop /\ c.by = Log!Zero}

\* What a call has to deal with at first.
FieldsOf(c) ==
    IF c.kind = "add" THEN {x \in Counters : c.by[x] > 0}
    ELSE IF c.kind = "latency" THEN {Latencies}
    ELSE Fields

\* Every step outside the lock is a call, a lookup in the cache, or the failure
\* of a flush.
CallStep ==
    \/ \E t \in Threads : \E c \in Calls(t) :
          /\ Call(t, c, FieldsOf(c))
          /\ got' = IF c.kind = "snapshot" THEN [NoSnapshot EXCEPT !.cache = cache] ELSE got
    \/ Suggest
    \/ UNCHANGED <<store, threads, calls, history>>

LEMMA AddCalls ==
    ASSUME NEW t \in Threads, NEW by \in RecordedAmounts,
           NEW caller \in {"request", "worker", "other"}, Add(t, by, caller)
    PROVE  CallStep
<1> DEFINE c == [kind |-> "add", by |-> by, ms |-> 0, caller |-> caller]
<1>1. c \in Calls(t)
  BY ByType DEF Calls, CallType
<1>2. FieldsOf(c) = {x \in Counters : by[x] > 0}
  BY DEF FieldsOf
<1>3. Call(t, c, FieldsOf(c)) /\ got' = got
  BY <1>2 DEF Add
<1> QED  BY <1>1, <1>3 DEF CallStep

LEMMA CallersCall ==
    ASSUME TypeOK, LoopCall \/ \E t \in Pool : IncrementCounts(t) \/ Query(t)
    PROVE  /\ CallStep
           /\ queued' \in Nat
           /\ worker' \in {"rest", "counting", "writing", "recording", "dead"}
<1>0. Loop \in Threads /\ Pool \subseteq Threads
  BY DEF Threads
<1>a. {By(DbReads, 1), By(DbWrites, 1), By(SearchEvents, 1)} \subseteq RecordedAmounts
  BY DEF RecordedAmounts
<1>1. CASE Search
  BY <1>0, <1>1, <1>a, AddCalls DEF Search, TypeOK
<1>2. ASSUME NEW ms \in Durations, Dispatch(ms)
      PROVE  CallStep /\ UNCHANGED <<queued, worker>>
  <2> DEFINE c == [kind |-> "latency", by |-> Log!Zero, ms |-> ms, caller |-> "request"]
  <2>1. c \in Calls(Loop)
    BY ZeroType, WindowAssumption DEF Calls, CallType
  <2>2. FieldsOf(c) = {Latencies}
    BY DEF FieldsOf
  <2>3. Call(Loop, c, FieldsOf(c)) /\ got' = got /\ UNCHANGED <<queued, worker>>
    BY <1>2, <2>2 DEF Dispatch
  <2> QED  BY <1>0, <2>1, <2>3 DEF CallStep
<1>3. CASE Metrics
  <2> DEFINE c == [kind |-> "snapshot", by |-> Log!Zero, ms |-> 0, caller |-> "request"]
  <2>1. c \in Calls(Loop)
    BY ZeroType DEF Calls, CallType
  <2>2. FieldsOf(c) = Fields
    BY DEF FieldsOf
  <2>3. /\ Call(Loop, c, FieldsOf(c)) /\ got' = [NoSnapshot EXCEPT !.cache = cache]
        /\ UNCHANGED <<queued, worker>>
    BY <1>3, <2>2 DEF Metrics, Fields
  <2> QED  BY <1>0, <2>1, <2>3 DEF CallStep, TypeOK
<1>4. CASE Suggest
  BY <1>4 DEF CallStep, Suggest, TypeOK
<1>5. ASSUME NEW size \in 1 .. MaxCalls, NEW events \in 1 .. MaxCalls,
             FlushBuffer(size, events)
      PROVE  CallStep /\ queued' \in Nat /\ worker' = "counting"
  <2>1. [By(BatchFlushes, 1) EXCEPT ![QueriesWritten] = size] \in RecordedAmounts
    BY DEF RecordedAmounts
  <2>2. Add(Loop, [By(BatchFlushes, 1) EXCEPT ![QueriesWritten] = size], "worker")
    BY <1>5 DEF FlushBuffer
  <2>3. events \in 1 .. queued /\ queued' = queued - events /\ worker' = "counting"
    BY <1>5 DEF FlushBuffer
  <2> QED  BY <1>0, <2>1, <2>2, <2>3, AddCalls DEF TypeOK
<1>6. ASSUME NEW t \in Pool, IncrementCounts(t)
      PROVE  CallStep /\ queued' = queued /\ worker' \in {"recording", "dead"}
  <2>1. CASE Add(t, By(DbWrites, 1), "worker")
    BY <1>0, <1>6, <1>a, <2>1, AddCalls DEF IncrementCounts, AfterFailure
  <2>2. CASE UNCHANGED <<store, threads, calls, history>>
    BY <1>6, <2>2 DEF IncrementCounts, AfterFailure, CallStep
  <2> QED  BY <1>6, <2>1, <2>2 DEF IncrementCounts
<1>7. ASSUME NEW t \in Pool, Query(t) PROVE CallStep /\ UNCHANGED <<queued, worker>>
  BY <1>0, <1>7, <1>a, AddCalls DEF Query
<1> QED  BY <1>1, <1>2, <1>3, <1>4, <1>5, <1>6, <1>7 DEF LoopCall, TypeOK

-----------------------------------------------------------------------------
(* What a step in the lock does.                                           *)

\* The fields that name what is left to do.
LEMMA FirstField ==
    ASSUME TypeOK, NEW t \in Threads, todo[t] # {}
    PROVE  First(todo[t]) \in todo[t] /\ First(todo[t]) \in Fields
<1>1. todo[t] \in SUBSET Fields
  BY DEF TypeOK, Fields
<1> QED  BY <1>1, FirstIn

\* Only the holder of the lock is in its critical section.
LockInv == \A t \in Threads : at[t] \in {"holding", "loaded"} <=> lock = t

\* What is left to do in a call.
CallInv ==
    \A t \in Threads : at[t] # "idle" =>
        /\ call[t] \in Calls(t)
        /\ todo[t] \subseteq FieldsOf(call[t])
        /\ at[t] = "waiting" => todo[t] = FieldsOf(call[t])
        /\ at[t] = "loaded" => /\ call[t].kind = "add" /\ todo[t] # {}
                               /\ reg[t] = counts[First(todo[t])]
        /\ call[t].kind = "snapshot" => got.cache = cache

\* The variables hold what the calls that have returned have left, and what the
\* call in the lock has added so far.
ValueInv ==
    /\ lock = Nobody => counts = recorded /\ latencies = kept
    /\ \A t \in Threads : lock = t =>
        /\ call[t].kind = "add" =>
            /\ latencies = kept
            /\ \A c \in Counters :
                  counts[c] = recorded[c] + IF c \in todo[t] THEN 0 ELSE call[t].by[c]
        /\ call[t].kind = "latency" =>
            /\ counts = recorded
            /\ latencies = IF todo[t] = {} THEN Log!Latest(Append(kept, call[t].ms)) ELSE kept
        /\ call[t].kind = "snapshot" =>
            /\ counts = recorded /\ latencies = kept
            /\ \A c \in Counters \ todo[t] : got.counts[c] = counts[c]
            /\ Latencies \notin todo[t] => got.latencies = latencies

MetricsInv == TypeOK /\ LockInv /\ CallInv /\ ValueInv

LEMMA InitMetrics == Init => MetricsInv
<1> SUFFICES ASSUME Init PROVE MetricsInv
  OBVIOUS
<1>1. LockInv
  BY ThreadsAssumption DEF Init, LockInv
<1>2. CallInv
  BY DEF Init, CallInv
<1>3. ValueInv
  BY ThreadsAssumption DEF Init, ValueInv
<1> QED  BY <1>1, <1>2, <1>3, InitType DEF MetricsInv

LEMMA CallStepKeeps ==
    ASSUME MetricsInv, CallStep, queued' \in Nat,
           worker' \in {"rest", "counting", "writing", "recording", "dead"}
    PROVE  MetricsInv'
<1> USE DEF MetricsInv
<1>1. ASSUME NEW t \in Threads, NEW c \in Calls(t), Call(t, c, FieldsOf(c)),
             got' = IF c.kind = "snapshot" THEN [NoSnapshot EXCEPT !.cache = cache] ELSE got
      PROVE  MetricsInv'
  <2>1. c \in CallType /\ FieldsOf(c) \in SUBSET Fields /\ c.kind # "none"
    BY DEF Calls, FieldsOf, Fields
  <2>2. /\ at' \in [Threads -> {"idle", "waiting", "holding", "loaded"}]
        /\ call' \in [Threads -> CallType]
        /\ todo' \in [Threads -> SUBSET Fields]
        /\ calls' \in 0 .. MaxCalls
        /\ UNCHANGED <<counts, latencies, cache, answer, lock, reg, recorded, kept>>
        /\ at[t] = "idle" /\ at'[t] = "waiting" /\ call'[t] = c /\ todo'[t] = FieldsOf(c)
        /\ \A u \in Threads \ {t} :
              at'[u] = at[u] /\ call'[u] = call[u] /\ todo'[u] = todo[u]
    BY <1>1, <2>1, CallKeeps
  <2>3. got' \in Snapshots
    BY <1>1, NoCallType DEF TypeOK, Snapshots
  <2>4. TypeOK'
    BY <2>2, <2>3 DEF TypeOK, CallType, Fields
  <2>5. LockInv'
    BY <2>2 DEF LockInv
  <2>6. lock # t
    BY <2>2 DEF LockInv
  <2>7. CallInv'
    <3> SUFFICES ASSUME NEW u \in Threads, at'[u] # "idle"
                 PROVE  /\ call'[u] \in Calls(u)
                        /\ todo'[u] \subseteq FieldsOf(call'[u])
                        /\ at'[u] = "waiting" => todo'[u] = FieldsOf(call'[u])
                        /\ at'[u] = "loaded" => /\ call'[u].kind = "add" /\ todo'[u] # {}
                                                /\ reg'[u] = counts'[First(todo'[u])]
                        /\ call'[u].kind = "snapshot" => got'.cache = cache'
      BY DEF CallInv
    <3>1. CASE u = t
      <4>1. c.kind = "snapshot" => got'.cache = cache
        BY <1>1 DEF NoSnapshot, Log!Snapshot
      <4> QED  BY <2>2, <3>1, <4>1
    <3>2. CASE u # t
      <4>1. at[u] # "idle" /\ call'[u] = call[u] /\ todo'[u] = todo[u] /\ at'[u] = at[u]
        BY <2>2, <3>2
      <4>2. call[u].kind = "snapshot" => got' = got
        <5> SUFFICES ASSUME call[u].kind = "snapshot", c.kind = "snapshot" PROVE FALSE
          BY <1>1
        <5>1. u = Loop /\ t = Loop
          BY <4>1 DEF CallInv, Calls
        <5> QED  BY <3>2, <5>1
      <4> QED  BY <2>2, <4>1, <4>2 DEF CallInv
    <3> QED  BY <3>1, <3>2
  <2>8. ValueInv'
    <3> SUFFICES ASSUME NEW u \in Threads, lock = u, u # t,
                        call[u].kind = "snapshot"
                 PROVE  got' = got
      BY <2>2, <2>6 DEF ValueInv
    <3>1. at[u] # "idle"
      BY DEF LockInv
    <3>2. u = Loop
      BY <3>1 DEF CallInv, Calls
    <3>3. t # Loop
      BY <3>2
    <3>4. c.kind # "snapshot"
      BY <3>3 DEF Calls
    <3> QED  BY <1>1, <3>4
  <2> QED  BY <2>4, <2>5, <2>7, <2>8
<1>2. CASE Suggest
  <2>1. /\ UNCHANGED <<counts, latencies, answer, lock, at, call, todo, reg, got, recorded, kept>>
        /\ at[Loop] = "idle" /\ calls' = calls + 1 /\ calls < MaxCalls
        /\ cache' \in {<<cache[1] + 1, cache[2]>>, <<cache[1], cache[2] + 1>>}
    BY <1>2 DEF Suggest, threads, history
  <2>2. cache' \in Nat \X Nat /\ calls' \in 0 .. MaxCalls
    BY <2>1, BoundsAssumption DEF TypeOK
  <2>3. TypeOK'
    BY <2>1, <2>2 DEF TypeOK
  <2>4. \A u \in Threads : at[u] # "idle" => call[u].kind # "snapshot"
    BY <2>1 DEF CallInv, Calls
  <2>5. CallInv'
    BY <2>1, <2>4 DEF CallInv
  <2>6. LockInv' /\ ValueInv'
    BY <2>1 DEF LockInv, ValueInv
  <2> QED  BY <2>3, <2>5, <2>6
<1>3. CASE UNCHANGED <<store, threads, calls, history>>
  <2>1. UNCHANGED <<counts, latencies, cache, answer, lock, at, call, todo, reg, got,
                    calls, recorded, kept>>
    BY <1>3 DEF store, threads, history
  <2> QED  BY <2>1 DEF TypeOK, LockInv, CallInv, ValueInv
<1> QED  BY <1>1, <1>2, <1>3 DEF CallStep

\* The thread in the lock works on a call the program makes.
LEMMA Holder ==
    ASSUME MetricsInv, NEW t \in Threads, at[t] \in {"holding", "loaded"}
    PROVE  /\ lock = t /\ lock # Nobody
           /\ call[t] \in Calls(t) /\ call[t] \in CallType
           /\ call[t].kind \in {"add", "latency", "snapshot"}
           /\ todo[t] \in SUBSET Fields /\ todo[t] \subseteq FieldsOf(call[t])
           /\ \A u \in Threads \ {t} : at[u] \notin {"holding", "loaded"}
<1>1. lock = t /\ \A u \in Threads \ {t} : at[u] \notin {"holding", "loaded"}
  BY DEF MetricsInv, LockInv
<1>2. call[t] \in Calls(t) /\ todo[t] \subseteq FieldsOf(call[t])
  BY DEF MetricsInv, CallInv
<1>3. call[t] \in CallType /\ call[t].kind \in {"add", "latency", "snapshot"}
  BY <1>2 DEF Calls
<1>4. todo[t] \in SUBSET Fields
  BY DEF MetricsInv, TypeOK, Fields
<1> QED  BY <1>1, <1>2, <1>3, <1>4, ThreadsAssumption

\* What the others are about to do does not depend on the lock's variables.
LEMMA OthersCall ==
    ASSUME MetricsInv, NEW t \in Threads, lock = t, NEW u \in Threads \ {t}, at[u] # "idle"
    PROVE  /\ at[u] = "waiting"
           /\ call[u] \in Calls(u) /\ todo[u] = FieldsOf(call[u])
           /\ call[u].kind = "snapshot" => got.cache = cache
<1>1. at[u] = "waiting"
  BY DEF MetricsInv, LockInv, TypeOK
<1> QED  BY <1>1 DEF MetricsInv, CallInv

LEMMA AcquireKeeps ==
    ASSUME MetricsInv, NEW t \in Threads, Acquire(t)
    PROVE  MetricsInv'
<1> USE DEF MetricsInv
<1>1. /\ at[t] = "waiting" /\ lock = Nobody /\ lock' = t
      /\ at' = [at EXCEPT ![t] = "holding"]
      /\ UNCHANGED <<counts, latencies, cache, answer, call, todo, reg, got, queued, worker,
                     calls, recorded, kept>>
  BY DEF Acquire, LockFree, store, history
<1>2. TypeOK'
  BY <1>1 DEF TypeOK
<1>3. LockInv'
  BY <1>1, ThreadsAssumption DEF LockInv, TypeOK
<1>4. CallInv'
  BY <1>1 DEF CallInv, TypeOK
<1>5. call[t] \in Calls(t) /\ todo[t] = FieldsOf(call[t])
  BY <1>1 DEF CallInv
<1>6. counts = recorded /\ latencies = kept
  BY <1>1 DEF ValueInv
<1>7. ASSUME call[t].kind = "add", NEW c \in Counters
      PROVE  counts[c] = recorded[c] + IF c \in todo[t] THEN 0 ELSE call[t].by[c]
  <2>1. c \in todo[t] <=> call[t].by[c] > 0
    BY <1>5, <1>7 DEF FieldsOf
  <2>2. call[t].by[c] \in Nat /\ recorded[c] \in Nat
    BY <1>5 DEF TypeOK, Amounts, Calls, CallType
  <2> QED  BY <1>6, <2>1, <2>2
<1>8. call[t].kind = "latency" => todo[t] # {}
  BY <1>5 DEF FieldsOf
<1>9. call[t].kind = "snapshot" => todo[t] = Fields
  BY <1>5 DEF FieldsOf
<1>10. ValueInv'
  BY <1>1, <1>6, <1>7, <1>8, <1>9, ThreadsAssumption DEF ValueInv, Fields
<1> QED  BY <1>2, <1>3, <1>4, <1>10

LEMMA LoadKeeps ==
    ASSUME MetricsInv, NEW t \in Threads, Load(t)
    PROVE  MetricsInv'
<1> USE DEF MetricsInv
<1>1. /\ at[t] = "holding" /\ call[t].kind = "add" /\ todo[t] # {}
      /\ reg' = [reg EXCEPT ![t] = counts[First(todo[t])]]
      /\ at' = [at EXCEPT ![t] = "loaded"]
      /\ UNCHANGED <<counts, latencies, cache, answer, lock, call, todo, got, queued, worker,
                     calls, recorded, kept>>
  BY DEF Load, store, history
<1>2. lock = t
  BY <1>1, Holder
<1>3. First(todo[t]) \in Counters
  <2>1. First(todo[t]) \in todo[t] /\ todo[t] \subseteq FieldsOf(call[t])
    BY <1>1, Holder, FirstField
  <2> QED  BY <1>1, <2>1 DEF FieldsOf
<1>4. counts[First(todo[t])] \in Nat
  BY <1>3 DEF TypeOK, Amounts
<1>5. TypeOK'
  BY <1>1, <1>4 DEF TypeOK
<1>6. LockInv'
  BY <1>1 DEF LockInv, TypeOK
<1>7. CallInv'
  BY <1>1 DEF CallInv, TypeOK
<1>8. ValueInv'
  BY <1>1 DEF ValueInv
<1> QED  BY <1>5, <1>6, <1>7, <1>8

LEMMA StoreKeeps ==
    ASSUME MetricsInv, NEW t \in Threads, Store(t)
    PROVE  MetricsInv'
<1> USE DEF MetricsInv
<1> DEFINE first == First(todo[t])
<1>1. /\ at[t] = "loaded"
      /\ counts' = [counts EXCEPT ![first] = reg[t] + call[t].by[first]]
      /\ todo' = [todo EXCEPT ![t] = todo[t] \ {first}]
      /\ at' = [at EXCEPT ![t] = "holding"]
      /\ UNCHANGED <<latencies, cache, answer, lock, call, reg, got, queued, worker, calls,
                     recorded, kept>>
  BY DEF Store, history
<1>2. /\ call[t].kind = "add" /\ todo[t] # {} /\ reg[t] = counts[first]
  BY <1>1 DEF CallInv
<1>3. lock = t /\ call[t] \in CallType /\ todo[t] \in SUBSET Fields /\ lock # Nobody
  BY <1>1, Holder
<1>4. first \in todo[t] /\ first \in Counters
  <2>1. first \in todo[t] /\ todo[t] \subseteq FieldsOf(call[t])
    BY <1>1, <1>2, Holder, FirstField
  <2> QED  BY <1>2, <2>1 DEF FieldsOf
<1>5. counts[first] \in Nat /\ call[t].by[first] \in Nat
  BY <1>3, <1>4 DEF TypeOK, Amounts, CallType
<1>6. counts' \in Amounts
  BY <1>1, <1>2, <1>4, <1>5 DEF TypeOK, Amounts
<1>7. TypeOK'
  BY <1>1, <1>3, <1>6 DEF TypeOK, Fields
<1>8. LockInv'
  BY <1>1 DEF LockInv, TypeOK
<1>9. CallInv'
  <2> SUFFICES ASSUME NEW u \in Threads, at'[u] # "idle"
               PROVE  /\ call[u] \in Calls(u)
                      /\ todo'[u] \subseteq FieldsOf(call[u])
                      /\ at'[u] = "waiting" => todo'[u] = FieldsOf(call[u])
                      /\ at'[u] # "loaded"
                      /\ call[u].kind = "snapshot" => got.cache = cache
    BY <1>1 DEF CallInv
  <2>1. CASE u = t
    BY <1>1, <1>3, <2>1 DEF CallInv, TypeOK
  <2>2. CASE u # t
    <3>1. at'[u] = at[u] /\ todo'[u] = todo[u]
      BY <1>1, <2>2 DEF TypeOK
    <3> QED  BY <1>3, <2>2, <3>1, OthersCall
  <2> QED  BY <2>1, <2>2
<1>10. ValueInv'
  <2>1. todo'[t] = todo[t] \ {first}
    BY <1>1 DEF TypeOK
  <2>2. latencies = kept
        /\ \A c \in Counters :
              counts[c] = recorded[c] + IF c \in todo[t] THEN 0 ELSE call[t].by[c]
    BY <1>2, <1>3 DEF ValueInv
  <2>3. \A c \in Counters :
           counts'[c] = recorded[c] + IF c \in todo'[t] THEN 0 ELSE call[t].by[c]
    <3> SUFFICES ASSUME NEW c \in Counters
                 PROVE  counts'[c] = recorded[c] + IF c \in todo'[t] THEN 0 ELSE call[t].by[c]
      OBVIOUS
    <3>1. CASE c = first
      <4>1. recorded[first] \in Nat
        BY <1>4 DEF TypeOK, Amounts
      <4>2. counts[first] = recorded[first]
        BY <1>4, <2>2, <4>1
      <4>3. counts'[first] = counts[first] + call[t].by[first]
        BY <1>1, <1>2, <1>4 DEF TypeOK, Amounts
      <4> QED  BY <2>1, <3>1, <4>2, <4>3
    <3>2. CASE c # first
      <4>1. counts'[c] = counts[c]
        BY <1>1, <3>2 DEF TypeOK, Amounts
      <4>2. c \in todo'[t] <=> c \in todo[t]
        BY <2>1, <3>2
      <4> QED  BY <2>2, <4>1, <4>2
    <3> QED  BY <3>1, <3>2
  <2> QED  BY <1>1, <1>2, <1>3, <2>2, <2>3 DEF ValueInv
<1> QED  BY <1>7, <1>8, <1>9, <1>10

LEMMA AppendLatencyKeeps ==
    ASSUME MetricsInv, NEW t \in Threads, AppendLatency(t)
    PROVE  MetricsInv'
<1> USE DEF MetricsInv
<1>1. /\ at[t] = "holding" /\ call[t].kind = "latency" /\ todo[t] # {}
      /\ latencies' = Log!Latest(Append(latencies, call[t].ms))
      /\ todo' = [todo EXCEPT ![t] = {}]
      /\ UNCHANGED <<counts, cache, answer, lock, at, call, reg, got, queued, worker, calls,
                     recorded, kept>>
  BY DEF AppendLatency, history
<1>2. lock = t /\ call[t] \in CallType /\ lock # Nobody
  BY <1>1, Holder
<1>3. latencies' \in Seq(Nat) /\ Len(latencies') <= Window
  BY <1>1, <1>2, LatestType DEF TypeOK, CallType
<1>4. TypeOK'
  BY <1>1, <1>3 DEF TypeOK
<1>5. LockInv'
  BY <1>1 DEF LockInv
<1>6. CallInv'
  BY <1>1 DEF CallInv, TypeOK
<1>7. counts = recorded /\ latencies = kept
  BY <1>1, <1>2 DEF ValueInv
<1>8. ValueInv'
  BY <1>1, <1>2, <1>7 DEF ValueInv, TypeOK
<1> QED  BY <1>4, <1>5, <1>6, <1>8

LEMMA CopyKeeps ==
    ASSUME MetricsInv, NEW t \in Threads, Copy(t)
    PROVE  MetricsInv'
<1> USE DEF MetricsInv
<1> DEFINE first == First(todo[t])
<1>1. /\ at[t] = "holding" /\ call[t].kind = "snapshot" /\ todo[t] # {}
      /\ got' = IF first = Latencies THEN [got EXCEPT !.latencies = latencies]
                ELSE [got EXCEPT !.counts[first] = counts[first]]
      /\ todo' = [todo EXCEPT ![t] = todo[t] \ {first}]
      /\ UNCHANGED <<counts, latencies, cache, answer, lock, at, call, reg, queued, worker,
                     calls, recorded, kept>>
  BY DEF Copy, store, history
<1>2. lock = t /\ todo[t] \in SUBSET Fields /\ lock # Nobody
  BY <1>1, Holder
<1>3. first \in todo[t] /\ first \in Fields
  BY <1>1, FirstField
<1>4. first # Latencies => first \in Counters /\ counts[first] \in Nat
  BY <1>3 DEF TypeOK, Amounts, Fields
<1>5. got' \in Snapshots
  BY <1>1, <1>4 DEF TypeOK, Snapshots, Amounts
<1>6. TypeOK'
  BY <1>1, <1>2, <1>5 DEF TypeOK, Fields
<1>7. LockInv'
  BY <1>1 DEF LockInv
<1>8. got'.cache = got.cache
  BY <1>1 DEF TypeOK, Snapshots
<1>9. CallInv'
  <2> SUFFICES ASSUME NEW u \in Threads, at[u] # "idle"
               PROVE  /\ call[u] \in Calls(u)
                      /\ todo'[u] \subseteq FieldsOf(call[u])
                      /\ at[u] = "waiting" => todo'[u] = FieldsOf(call[u])
                      /\ at[u] # "loaded"
                      /\ call[u].kind = "snapshot" => got'.cache = cache
    BY <1>1 DEF CallInv
  <2>1. CASE u = t
    BY <1>1, <1>2, <1>8, <2>1 DEF CallInv, TypeOK
  <2>2. CASE u # t
    <3>1. todo'[u] = todo[u]
      BY <1>1, <2>2 DEF TypeOK
    <3> QED  BY <1>2, <1>8, <2>2, <3>1, OthersCall
  <2> QED  BY <2>1, <2>2
<1>10. ValueInv'
  <2>1. todo'[t] = todo[t] \ {first}
    BY <1>1 DEF TypeOK
  <2>2. /\ counts = recorded /\ latencies = kept
        /\ \A c \in Counters \ todo[t] : got.counts[c] = counts[c]
        /\ Latencies \notin todo[t] => got.latencies = latencies
    BY <1>1, <1>2 DEF ValueInv
  <2>3. \A c \in Counters \ todo'[t] : got'.counts[c] = counts[c]
    <3> SUFFICES ASSUME NEW c \in Counters \ todo'[t] PROVE got'.counts[c] = counts[c]
      OBVIOUS
    <3>1. c # Latencies
      BY FieldsAre DEF Latencies
    <3>2. CASE c = first
      BY <1>1, <3>1, <3>2 DEF TypeOK, Snapshots, Amounts
    <3>3. CASE c # first
      <4>1. got'.counts[c] = got.counts[c]
        BY <1>1, <3>3 DEF TypeOK, Snapshots, Amounts
      <4> QED  BY <2>1, <2>2, <3>3, <4>1
    <3> QED  BY <3>2, <3>3
  <2>4. Latencies \notin todo'[t] => got'.latencies = latencies
    <3>1. CASE first = Latencies
      BY <1>1, <3>1 DEF TypeOK, Snapshots
    <3>2. CASE first # Latencies
      <4>1. got'.latencies = got.latencies
        BY <1>1, <3>2 DEF TypeOK, Snapshots
      <4> QED  BY <2>1, <2>2, <3>2, <4>1
    <3> QED  BY <3>1, <3>2
  <2> QED  BY <1>1, <1>2, <2>2, <2>3, <2>4 DEF ValueInv
<1> QED  BY <1>6, <1>7, <1>9, <1>10

\* What a call leaves when it returns.
LEMMA ReleaseValues ==
    ASSUME MetricsInv, NEW t \in Threads, Release(t)
    PROVE  /\ recorded' = counts /\ kept' = latencies
           /\ recorded' \in Amounts /\ kept' \in Seq(Nat)
           /\ call[t].kind # "add" => recorded' = recorded
           /\ call[t].kind # "latency" => kept' = kept
<1> USE DEF MetricsInv
<1>1. /\ at[t] = "holding" /\ todo[t] = {}
      /\ recorded' = [c \in Counters |-> recorded[c] + call[t].by[c]]
      /\ kept' = IF call[t].kind = "latency" THEN Log!Latest(Append(kept, call[t].ms))
                 ELSE kept
  BY DEF Release
<1>2. lock = t /\ lock # Nobody /\ call[t] \in Calls(t) /\ call[t] \in CallType
  BY <1>1, Holder
<1>3. recorded \in Amounts /\ counts \in Amounts /\ kept \in Seq(Nat) /\ latencies \in Seq(Nat)
  BY DEF TypeOK
<1>4. CASE call[t].kind = "add"
  <2>1. latencies = kept /\ \A c \in Counters : counts[c] = recorded[c] + call[t].by[c]
    BY <1>1, <1>2, <1>4 DEF ValueInv
  <2>2. recorded' = counts
    BY <1>1, <1>3, <2>1 DEF Amounts
  <2> QED  BY <1>1, <1>3, <1>4, <2>1, <2>2
<1>5. CASE call[t].kind # "add"
  <2>1. call[t].by = Log!Zero
    BY <1>2, <1>5 DEF Calls
  <2>2. \A c \in Counters : call[t].by[c] = 0
    BY <2>1 DEF Log!Zero, Counters
  <2>3. recorded' = recorded
    BY <1>1, <1>3, <2>2 DEF Amounts
  <2>4. CASE call[t].kind = "latency"
    BY <1>1, <1>2, <1>3, <2>3, <2>4 DEF ValueInv
  <2>5. CASE call[t].kind = "snapshot"
    BY <1>1, <1>2, <1>3, <2>3, <2>5 DEF ValueInv
  <2> QED  BY <1>2, <1>5, <2>4, <2>5 DEF Calls
<1> QED  BY <1>4, <1>5

LEMMA ReleaseKeeps ==
    ASSUME MetricsInv, NEW t \in Threads, Release(t)
    PROVE  MetricsInv'
<1> USE DEF MetricsInv
<1>1. /\ at[t] = "holding" /\ lock' = Nobody
      /\ at' = [at EXCEPT ![t] = "idle"]
      /\ call' = [call EXCEPT ![t] = NoCall]
      /\ reg' = [reg EXCEPT ![t] = 0]
      /\ answer' = IF call[t].kind = "snapshot" THEN got ELSE answer
      /\ got' = IF call[t].kind = "snapshot" THEN NoSnapshot ELSE got
      /\ worker' = IF call[t].caller = "worker" THEN AfterCall ELSE worker
      /\ UNCHANGED <<counts, latencies, cache, todo, queued, calls>>
  BY DEF Release, LockAfterCall
<1>2. lock = t /\ call[t] \in Calls(t)
  BY <1>1, Holder
<1>3. recorded' = counts /\ kept' = latencies /\ recorded' \in Amounts /\ kept' \in Seq(Nat)
  BY ReleaseValues
<1>4. /\ at' \in [Threads -> {"idle", "waiting", "holding", "loaded"}]
      /\ call' \in [Threads -> CallType] /\ reg' \in [Threads -> Nat]
  BY <1>1, NoCallType DEF TypeOK, CallType
<1>5. answer' \in Snapshots /\ got' \in Snapshots
  BY <1>1, NoCallType DEF TypeOK
<1>6. worker' \in {"rest", "counting", "writing", "recording", "dead"}
  BY <1>1 DEF TypeOK, AfterCall
<1>7. TypeOK'
  BY <1>1, <1>3, <1>4, <1>5, <1>6 DEF TypeOK, CallType
<1>8. LockInv'
  BY <1>1, <1>2, ThreadsAssumption DEF LockInv, TypeOK
<1>9. CallInv'
  <2> SUFFICES ASSUME NEW u \in Threads, at'[u] # "idle"
               PROVE  /\ call'[u] \in Calls(u)
                      /\ todo[u] \subseteq FieldsOf(call'[u])
                      /\ at'[u] = "waiting" => todo[u] = FieldsOf(call'[u])
                      /\ at'[u] # "loaded"
                      /\ call'[u].kind = "snapshot" => got'.cache = cache
    BY <1>1 DEF CallInv
  <2>1. u # t
    BY <1>1 DEF TypeOK
  <2>2. at'[u] = at[u] /\ call'[u] = call[u]
    BY <1>1, <2>1 DEF TypeOK
  <2>3. /\ at[u] = "waiting" /\ call[u] \in Calls(u) /\ todo[u] = FieldsOf(call[u])
        /\ call[u].kind = "snapshot" => got.cache = cache
    BY <1>2, <2>1, <2>2, OthersCall
  <2>4. call[u].kind = "snapshot" => call[t].kind # "snapshot"
    BY <1>2, <2>1, <2>3 DEF Calls
  <2> QED  BY <1>1, <2>2, <2>3, <2>4
<1>10. ValueInv'
  BY <1>1, <1>3, ThreadsAssumption DEF ValueInv
<1> QED  BY <1>7, <1>8, <1>9, <1>10

LEMMA NextMetrics == MetricsInv /\ [Next]_vars => MetricsInv'
<1> SUFFICES ASSUME MetricsInv, [Next]_vars PROVE MetricsInv'
  OBVIOUS
<1>1. CASE LoopCall \/ \E t \in Pool : IncrementCounts(t) \/ Query(t)
  BY <1>1, CallersCall, CallStepKeeps DEF MetricsInv
<1>2. ASSUME NEW t \in Threads, InLock(t) PROVE MetricsInv'
  BY <1>2, AcquireKeeps, LoadKeeps, StoreKeeps, AppendLatencyKeeps, CopyKeeps, ReleaseKeeps
     DEF InLock
<1>3. CASE UNCHANGED vars
  <2>1. UNCHANGED <<counts, latencies, cache, answer, lock, at, call, todo, reg, got, queued,
                    worker, calls, recorded, kept>>
    BY <1>3 DEF vars, store, threads, history
  <2> QED  BY <2>1 DEF MetricsInv, TypeOK, LockInv, CallInv, ValueInv
<1> QED  BY <1>1, <1>2, <1>3 DEF Next

LEMMA MetricsInvCorrect == Spec => []MetricsInv
  BY InitMetrics, NextMetrics, PTL DEF Spec

-----------------------------------------------------------------------------
(* Theorems.                                                               *)

\* The counters are numbers, the deque keeps to its length, and a thread that is
\* in its critical section holds _lock (metrics.py).
THEOREM MetricsTypeCorrect == Spec => []TypeOK
<1>1. MetricsInv => TypeOK
  BY DEF MetricsInv
<1> QED  BY <1>1, MetricsInvCorrect, PTL

\* The loads, stores and copies of all threads implement the log: every call of
\* metrics.py takes effect in full at its return, none is lost to another, and a
\* snapshot answers with the values of one moment.
THEOREM LogCorrect == Spec => LogSpec
<1>1. Init => Log!LogInit
  BY DEF Init, Log!LogInit, NoSnapshot
<1>2. ASSUME MetricsInv, CallStep PROVE [Log!LogNext]_(Log!logVars)
  <2>1. CASE Suggest
    BY <2>1 DEF Suggest, history, Log!LogNext, Log!Lookup
  <2>2. CASE UNCHANGED <<store, threads, calls, history>>
    BY <2>2 DEF store, history, Log!logVars
  <2>3. ASSUME NEW t \in Threads, NEW c \in Calls(t), Call(t, c, FieldsOf(c))
        PROVE  UNCHANGED Log!logVars
    BY <2>3 DEF Call, store, history, Log!logVars
  <2> QED  BY <1>2, <2>1, <2>2, <2>3 DEF CallStep
<1>3. ASSUME MetricsInv, NEW t \in Threads, Release(t) PROVE [Log!LogNext]_(Log!logVars)
  <2>1. /\ at[t] = "holding" /\ todo[t] = {}
        /\ answer' = IF call[t].kind = "snapshot" THEN got ELSE answer
        /\ recorded' = [c \in Counters |-> recorded[c] + call[t].by[c]]
        /\ kept' = IF call[t].kind = "latency" THEN Log!Latest(Append(kept, call[t].ms))
                   ELSE kept
        /\ cache' = cache
    BY <1>3 DEF Release
  <2>2. lock = t /\ lock # Nobody /\ call[t] \in Calls(t)
    BY <1>3, <2>1, Holder
  <2>3. /\ recorded' = counts /\ kept' = latencies
        /\ call[t].kind # "add" => recorded' = recorded
        /\ call[t].kind # "latency" => kept' = kept
    BY <1>3, ReleaseValues
  <2>4. recorded \in Amounts
    BY <1>3 DEF MetricsInv, TypeOK
  <2>5. CASE call[t].kind = "add"
    <3>1. UNCHANGED <<kept, cache, answer>>
      BY <2>1, <2>5
    <3>2. call[t].by \in RecordedAmounts
      BY <2>2, <2>5 DEF Calls
    <3>3. ASSUME NEW c \in {DbReads, DbWrites, SearchEvents}, call[t].by = By(c, 1)
          PROVE  Log!RecordOne(c)
      <4>1. \A d \in Counters : By(c, 1)[d] = IF d = c THEN 1 ELSE 0
        BY DEF By, Log!Zero, Counters
      <4>2. \A d \in Counters : recorded[d] \in Nat
        BY <2>4 DEF Amounts
      <4>3. \A d \in Counters : recorded[d] + call[t].by[d]
                              = IF d = c THEN recorded[c] + 1 ELSE recorded[d]
        BY <3>3, <4>1, <4>2
      <4>4. recorded' = [d \in Counters |-> IF d = c THEN recorded[c] + 1 ELSE recorded[d]]
        BY <2>1, <4>3
      <4>5. recorded' = [recorded EXCEPT ![c] = recorded[c] + 1]
        BY <2>4, <4>4 DEF Amounts
      <4> QED  BY <3>1, <4>5 DEF Log!RecordOne
    <3>4. ASSUME NEW n \in Nat \ {0},
                 call[t].by = [By(BatchFlushes, 1) EXCEPT ![QueriesWritten] = n]
          PROVE  Log!RecordFlush
      <4>1. /\ BatchFlushes \in Counters /\ QueriesWritten \in Counters
            /\ BatchFlushes # QueriesWritten
        BY DEF BatchFlushes, QueriesWritten, Counters, Log!BatchFlushes, Log!QueriesWritten,
               Log!Counters, Log!DbReads
      <4>2. \A d \in Counters : call[t].by[d] = IF d = QueriesWritten THEN n
                                               ELSE IF d = BatchFlushes THEN 1 ELSE 0
        BY <3>4, <4>1 DEF By, Log!Zero, Counters
      <4>3. recorded' \in Amounts /\ recorded'[QueriesWritten] = recorded[QueriesWritten] + n
        BY <2>1, <2>4, <4>1, <4>2 DEF Amounts
      <4>4. recorded' = [recorded EXCEPT ![BatchFlushes] = recorded[BatchFlushes] + 1,
                                         ![QueriesWritten] = recorded'[QueriesWritten]]
        <5>1. \A d \in Counters : recorded[d] \in Nat
          BY <2>4 DEF Amounts
        <5>2. \A d \in Counters : recorded[d] + call[t].by[d]
                                = IF d = QueriesWritten THEN recorded'[QueriesWritten]
                                  ELSE IF d = BatchFlushes THEN recorded[BatchFlushes] + 1
                                  ELSE recorded[d]
          BY <4>2, <4>3, <5>1
        <5>3. recorded' = [d \in Counters |-> IF d = QueriesWritten THEN recorded'[QueriesWritten]
                                              ELSE IF d = BatchFlushes
                                              THEN recorded[BatchFlushes] + 1
                                              ELSE recorded[d]]
          BY <2>1, <5>2
        <5> QED  BY <2>4, <4>1, <5>3 DEF Amounts
      <4>5. recorded'[QueriesWritten] > recorded[QueriesWritten]
        BY <2>4, <4>1, <4>3 DEF Amounts
      <4> QED  BY <3>1, <4>4, <4>5
               DEF Log!RecordFlush, BatchFlushes, QueriesWritten
    <3> QED  BY <3>2, <3>3, <3>4
             DEF RecordedAmounts, Log!LogNext, DbReads, DbWrites, SearchEvents
  <2>6. CASE call[t].kind = "latency"
    <3>1. call[t].ms \in Durations
      BY <2>2, <2>6 DEF Calls
    <3>2. Log!RecordLatency(call[t].ms)
      BY <2>1, <2>3, <2>6 DEF Log!RecordLatency
    <3> QED  BY <3>1, <3>2 DEF Log!LogNext
  <2>7. CASE call[t].kind = "snapshot"
    <3>1. /\ counts = recorded /\ latencies = kept
          /\ \A c \in Counters : got.counts[c] = counts[c]
          /\ got.latencies = latencies
      BY <1>3, <2>1, <2>2, <2>7 DEF MetricsInv, ValueInv
    <3>2. got.cache = cache
      BY <1>3, <2>1, <2>7 DEF MetricsInv, CallInv
    <3>3. got = [latencies |-> kept, counts |-> recorded, cache |-> cache]
      BY <1>3, <2>4, <3>1, <3>2 DEF MetricsInv, TypeOK, Snapshots, Amounts
    <3>4. Log!Answer
      BY <2>1, <2>3, <2>7, <3>3 DEF Log!Answer, Log!Snapshot
    <3> QED  BY <3>4 DEF Log!LogNext
  <2> QED  BY <2>2, <2>5, <2>6, <2>7 DEF Calls
<1>4. ASSUME NEW t \in Threads, InLock(t) PROVE Release(t) \/ UNCHANGED Log!logVars
  <2>1. ASSUME Acquire(t) \/ Load(t) \/ Store(t) \/ AppendLatency(t) \/ Copy(t)
        PROVE  UNCHANGED Log!logVars
    BY <2>1 DEF Acquire, Load, Store, AppendLatency, Copy, store, history, Log!logVars
  <2> QED  BY <1>4, <2>1 DEF InLock
<1>5. MetricsInv /\ [Next]_vars => [Log!LogNext]_(Log!logVars)
  <2> SUFFICES ASSUME MetricsInv, [Next]_vars PROVE [Log!LogNext]_(Log!logVars)
    OBVIOUS
  <2>1. CASE LoopCall \/ \E t \in Pool : IncrementCounts(t) \/ Query(t)
    BY <1>2, <2>1, CallersCall DEF MetricsInv
  <2>2. ASSUME NEW t \in Threads, InLock(t) PROVE [Log!LogNext]_(Log!logVars)
    BY <1>3, <1>4, <2>2
  <2>3. CASE UNCHANGED vars
    BY <2>3 DEF vars, store, history, Log!logVars
  <2> QED  BY <2>1, <2>2, <2>3 DEF Next
<1> QED  BY <1>1, <1>5, MetricsInvCorrect, PTL DEF Spec, LogSpec, Log!LogSpec

-----------------------------------------------------------------------------
(* The counters of an answer agree.                                        *)

LEMMA Names ==
    /\ DbReads = 1 /\ DbWrites = 2 /\ SearchEvents = 3 /\ BatchFlushes = 4
    /\ QueriesWritten = 5 /\ Counters = 1 .. 5
  BY DEF DbReads, DbWrites, SearchEvents, BatchFlushes, QueriesWritten, Counters,
         Log!DbReads, Log!DbWrites, Log!SearchEvents, Log!BatchFlushes, Log!QueriesWritten,
         Log!Counters

LEMMA AddsOnly ==
    /\ \A c, d \in Counters, n \in Nat : By(c, n)[d] = IF d = c THEN n ELSE 0
    /\ \A d \in Counters : Log!Zero[d] = 0
  BY DEF By, Log!Zero, Counters

\* What thread t may call: flushes are counted by the worker on the event loop,
\* with as many queries as are written, and its writes by another thread.
FairCall(t, c) ==
    /\ c.by[BatchFlushes] <= 1 /\ c.by[BatchFlushes] <= c.by[QueriesWritten]
    /\ t # Loop => /\ c.by[BatchFlushes] = 0 /\ c.by[QueriesWritten] = 0
                   /\ c.by[SearchEvents] = 0
    /\ t # Loop /\ c.caller = "worker" => c.by[DbWrites] = 1
    /\ c.by[BatchFlushes] > 0 => c.caller = "worker"

\* The worker's call is the one its flush has come to.
WorkerInv ==
    /\ \A t \in Threads : at[t] = "idle" => call[t] = NoCall
    /\ \A t \in Threads : FairCall(t, call[t])
    /\ \A t \in Threads : call[t].caller = "worker" =>
          worker = IF t = Loop THEN "counting" ELSE "recording"
    /\ \A t, u \in Threads :
          call[t].caller = "worker" /\ call[u].caller = "worker" => t = u

\* At most one flush is counted that is not written, and the queries that were
\* written or wait are no more than those that were searched.
RecordedInv ==
    /\ recorded[BatchFlushes] <= recorded[DbWrites]
          + IF worker \in {"writing", "recording", "dead"} THEN 1 ELSE 0
    /\ recorded[BatchFlushes] <= recorded[QueriesWritten]
    /\ recorded[QueriesWritten] + call[Loop].by[QueriesWritten] + queued
          <= recorded[SearchEvents] + call[Loop].by[SearchEvents]

AgreeInv == WorkerInv /\ RecordedInv /\ CountersAgree

LEMMA NoCallIsFair ==
    \A t \in Threads : FairCall(t, NoCall) /\ NoCall.caller = "none"
  BY AddsOnly, Names DEF FairCall, NoCall

LEMMA InitAgree == Init => AgreeInv
<1> SUFFICES ASSUME Init PROVE AgreeInv
  OBVIOUS
<1>1. \A t \in Threads : call[t] = NoCall
  BY DEF Init
<1>2. WorkerInv
  BY <1>1, NoCallIsFair DEF WorkerInv
<1>3. recorded = Log!Zero /\ worker = "rest" /\ queued = 0 /\ call[Loop].by = Log!Zero
  BY <1>1 DEF Init, NoCall, Threads
<1>4. RecordedInv
  BY <1>3, AddsOnly, Names DEF RecordedInv
<1>5. answer.counts = Log!Zero
  BY DEF Init, NoSnapshot, Log!Snapshot
<1>6. CountersAgree
  BY <1>5, AddsOnly, Names DEF CountersAgree
<1> QED  BY <1>2, <1>4, <1>6 DEF AgreeInv

LEMMA CallAgrees ==
    ASSUME MetricsInv, AgreeInv, queued' \in Nat,
           NEW t \in Threads, NEW c \in CallType, NEW fields, Call(t, c, fields),
           FairCall(t, c),
           IF t = Loop
           THEN c.by[QueriesWritten] + queued' <= c.by[SearchEvents] + queued
           ELSE queued' = queued,
           \/ c.caller # "worker" /\ worker' = worker
           \/ /\ c.caller = "worker" /\ t = Loop
              /\ worker = "rest" /\ worker' = "counting"
           \/ /\ c.caller = "worker" /\ t # Loop
              /\ worker = "writing" /\ worker' = "recording"
    PROVE  AgreeInv'
<1>1. /\ at[t] = "idle" /\ at' = [at EXCEPT ![t] = "waiting"]
      /\ call' = [call EXCEPT ![t] = c] /\ UNCHANGED <<answer, recorded>>
  BY DEF Call, store, history
<1>2. /\ at \in [Threads -> {"idle", "waiting", "holding", "loaded"}]
      /\ call \in [Threads -> CallType] /\ queued \in Nat
  BY DEF MetricsInv, TypeOK, CallType
<1>3. call'[t] = c /\ at'[t] # "idle" /\ call[t] = NoCall
  BY <1>1, <1>2 DEF AgreeInv, WorkerInv
<1>4. \A u \in Threads \ {t} : call'[u] = call[u] /\ at'[u] = at[u]
  BY <1>1, <1>2
<1>5. worker \in {"rest", "writing"} => \A u \in Threads : call[u].caller # "worker"
  BY DEF AgreeInv, WorkerInv
<1>6. WorkerInv'
  <2>1. \A u \in Threads : at'[u] = "idle" => call'[u] = NoCall
    BY <1>3, <1>4 DEF AgreeInv, WorkerInv
  <2>2. \A u \in Threads : FairCall(u, call'[u])
    BY <1>3, <1>4 DEF AgreeInv, WorkerInv
  <2>3. \A u \in Threads : call'[u].caller = "worker" =>
           worker' = IF u = Loop THEN "counting" ELSE "recording"
    BY <1>3, <1>4, <1>5 DEF AgreeInv, WorkerInv
  <2>4. \A u, v \in Threads :
           call'[u].caller = "worker" /\ call'[v].caller = "worker" => u = v
    BY <1>3, <1>4, <1>5 DEF AgreeInv, WorkerInv
  <2> QED  BY <2>1, <2>2, <2>3, <2>4 DEF WorkerInv, FairCall
<1>7. Loop \in Threads /\ recorded \in Amounts
  BY DEF Threads, MetricsInv, TypeOK
<1>8. /\ recorded[BatchFlushes] <= recorded[DbWrites]
            + IF worker \in {"writing", "recording", "dead"} THEN 1 ELSE 0
      /\ recorded[BatchFlushes] <= recorded[QueriesWritten]
      /\ recorded[QueriesWritten] + call[Loop].by[QueriesWritten] + queued
            <= recorded[SearchEvents] + call[Loop].by[SearchEvents]
  BY DEF AgreeInv, RecordedInv
<1>9. recorded[QueriesWritten] + call'[Loop].by[QueriesWritten] + queued'
         <= recorded[SearchEvents] + call'[Loop].by[SearchEvents]
  <2>1. CASE t = Loop
    <3>1. call[Loop].by[QueriesWritten] = 0 /\ call[Loop].by[SearchEvents] = 0
      BY <1>3, <2>1, AddsOnly, Names DEF NoCall
    <3>2. /\ recorded[QueriesWritten] \in Nat /\ recorded[SearchEvents] \in Nat
          /\ c.by[QueriesWritten] \in Nat /\ c.by[SearchEvents] \in Nat
      BY <1>7, Names DEF Amounts, CallType
    <3> QED  BY <1>2, <1>3, <1>8, <2>1, <3>1, <3>2
  <2>2. CASE t # Loop
    BY <1>4, <1>7, <1>8, <2>2
  <2> QED  BY <2>1, <2>2
<1>10. RecordedInv'
  BY <1>1, <1>8, <1>9 DEF RecordedInv
<1>11. CountersAgree'
  BY <1>1 DEF AgreeInv, CountersAgree
<1> QED  BY <1>6, <1>10, <1>11 DEF AgreeInv

LEMMA AddAgrees ==
    ASSUME MetricsInv, AgreeInv, queued' \in Nat,
           NEW t \in Threads, NEW by \in Amounts,
           NEW caller \in {"request", "worker", "other"}, Add(t, by, caller),
           by[BatchFlushes] <= 1, by[BatchFlushes] <= by[QueriesWritten],
           t # Loop => /\ by[BatchFlushes] = 0 /\ by[QueriesWritten] = 0
                       /\ by[SearchEvents] = 0,
           t # Loop /\ caller = "worker" => by[DbWrites] = 1,
           by[BatchFlushes] > 0 => caller = "worker",
           IF t = Loop
           THEN by[QueriesWritten] + queued' <= by[SearchEvents] + queued
           ELSE queued' = queued,
           \/ caller # "worker" /\ worker' = worker
           \/ /\ caller = "worker" /\ t = Loop
              /\ worker = "rest" /\ worker' = "counting"
           \/ /\ caller = "worker" /\ t # Loop
              /\ worker = "writing" /\ worker' = "recording"
    PROVE  AgreeInv'
<1> DEFINE c == [kind |-> "add", by |-> by, ms |-> 0, caller |-> caller]
<1>1. c \in CallType /\ c.by = by /\ c.caller = caller
  BY DEF CallType
<1>2. FairCall(t, c)
  BY <1>1 DEF FairCall
<1>3. Call(t, c, {x \in Counters : by[x] > 0})
  BY DEF Add
<1> HIDE DEF c
<1> QED  BY <1>1, <1>2, <1>3, CallAgrees

LEMMA CallersAgree ==
    ASSUME MetricsInv, AgreeInv, queued' \in Nat,
           LoopCall \/ \E t \in Pool : IncrementCounts(t) \/ Query(t)
    PROVE  AgreeInv'
<1>0. Loop \in Threads /\ Pool \subseteq Threads /\ Loop \notin Pool /\ queued \in Nat
  BY ThreadsAssumption DEF Threads, MetricsInv, TypeOK
<1>a. \A c \in {DbReads, DbWrites, SearchEvents} : By(c, 1) \in Amounts
  BY ByType, Names
<1>1. CASE Search
  <2>1. /\ By(SearchEvents, 1)[BatchFlushes] = 0 /\ By(SearchEvents, 1)[QueriesWritten] = 0
        /\ By(SearchEvents, 1)[SearchEvents] = 1
    BY AddsOnly, Names
  <2>2. Add(Loop, By(SearchEvents, 1), "request") /\ queued' = queued + 1 /\ worker' = worker
    BY <1>1 DEF Search
  <2> QED  BY <1>0, <1>a, <2>1, <2>2, AddAgrees
<1>b. \A kind \in {"latency", "snapshot"}, ms \in Nat :
         LET c == [kind |-> kind, by |-> Log!Zero, ms |-> ms, caller |-> "request"]
         IN  /\ c \in CallType /\ FairCall(Loop, c) /\ c.caller # "worker"
             /\ c.by[QueriesWritten] = 0 /\ c.by[SearchEvents] = 0
  BY ZeroType, AddsOnly, Names DEF CallType, FairCall
<1>2. ASSUME NEW ms \in Durations, Dispatch(ms) PROVE AgreeInv'
  <2> DEFINE c == [kind |-> "latency", by |-> Log!Zero, ms |-> ms, caller |-> "request"]
  <2>1. /\ c \in CallType /\ FairCall(Loop, c) /\ c.caller # "worker"
        /\ c.by[QueriesWritten] = 0 /\ c.by[SearchEvents] = 0
    BY <1>b, WindowAssumption
  <2>2. Call(Loop, c, {Latencies}) /\ queued' = queued /\ worker' = worker
    BY <1>2 DEF Dispatch
  <2> HIDE DEF c
  <2> QED  BY <1>0, <2>1, <2>2, CallAgrees
<1>3. CASE Metrics
  <2> DEFINE c == [kind |-> "snapshot", by |-> Log!Zero, ms |-> 0, caller |-> "request"]
  <2>1. /\ c \in CallType /\ FairCall(Loop, c) /\ c.caller # "worker"
        /\ c.by[QueriesWritten] = 0 /\ c.by[SearchEvents] = 0
    BY <1>b
  <2>2. Call(Loop, c, Counters \cup {Latencies}) /\ queued' = queued /\ worker' = worker
    BY <1>3 DEF Metrics
  <2> HIDE DEF c
  <2> QED  BY <1>0, <2>1, <2>2, CallAgrees
<1>4. CASE UNCHANGED <<at, call, answer, queued, worker, recorded>>
  BY <1>4 DEF AgreeInv, WorkerInv, FairCall, RecordedInv, CountersAgree
<1>5. CASE Suggest
  BY <1>4, <1>5 DEF Suggest, threads, history
<1>6. ASSUME NEW size \in 1 .. MaxCalls, NEW events \in 1 .. MaxCalls,
             FlushBuffer(size, events)
      PROVE  AgreeInv'
  <2> DEFINE by == [By(BatchFlushes, 1) EXCEPT ![QueriesWritten] = size]
  <2>1. /\ size \in Nat /\ size >= 1 /\ size <= events /\ events <= queued
        /\ events \in Nat /\ worker = "rest" /\ worker' = "counting"
        /\ queued' = queued - events /\ Add(Loop, by, "worker")
    BY <1>0, <1>6 DEF FlushBuffer
  <2>2. By(BatchFlushes, 1) \in Amounts /\ by \in Amounts
    <3>1. by \in RecordedAmounts
      BY <2>1 DEF RecordedAmounts
    <3> QED  BY <3>1, ByType, Names
  <2>3. by[BatchFlushes] = 1 /\ by[QueriesWritten] = size /\ by[SearchEvents] = 0
    BY <2>2, AddsOnly, Names DEF Amounts
  <2> HIDE DEF by
  <2>4. by[QueriesWritten] + queued' <= by[SearchEvents] + queued
    BY <1>0, <2>1, <2>3
  <2> QED  BY <1>0, <2>1, <2>2, <2>3, <2>4, AddAgrees
<1>7. ASSUME NEW t \in Pool, NEW c \in {DbReads, DbWrites}
      PROVE  /\ By(c, 1) \in Amounts /\ By(c, 1)[BatchFlushes] = 0
             /\ By(c, 1)[QueriesWritten] = 0 /\ By(c, 1)[SearchEvents] = 0
             /\ By(DbWrites, 1)[DbWrites] = 1 /\ t \in Threads /\ t # Loop
  BY <1>0, <1>a, AddsOnly, Names
<1>8. ASSUME NEW t \in Pool, IncrementCounts(t) PROVE AgreeInv'
  <2>1. worker = "writing" /\ queued' = queued
    BY <1>8 DEF IncrementCounts
  <2>2. CASE Add(t, By(DbWrites, 1), "worker") /\ worker' = "recording"
    BY <1>7, <2>1, <2>2, AddAgrees
  <2>3. CASE worker' = "dead" /\ UNCHANGED <<store, threads, calls, history>>
    <3>1. UNCHANGED <<at, call, answer, queued, recorded>>
      BY <2>1, <2>3 DEF store, threads, history
    <3>2. \A u \in Threads : call[u].caller # "worker"
      BY <2>1 DEF AgreeInv, WorkerInv
    <3> QED  BY <2>1, <2>3, <3>1, <3>2
             DEF AgreeInv, WorkerInv, FairCall, RecordedInv, CountersAgree
  <2> QED  BY <1>8, <2>2, <2>3 DEF IncrementCounts, AfterFailure
<1>9. ASSUME NEW t \in Pool, Query(t) PROVE AgreeInv'
  <2>1. PICK c \in {DbReads, DbWrites} : Add(t, By(c, 1), "other")
    BY <1>9 DEF Query
  <2>2. queued' = queued /\ worker' = worker
    BY <1>9 DEF Query
  <2> QED  BY <1>7, <2>1, <2>2, AddAgrees
<1> QED  BY <1>1, <1>2, <1>3, <1>5, <1>6, <1>8, <1>9 DEF LoopCall

LEMMA ReleaseAgrees ==
    ASSUME MetricsInv, AgreeInv, NEW t \in Threads, Release(t)
    PROVE  AgreeInv'
<1>1. /\ at[t] = "holding" /\ todo[t] = {}
      /\ at' = [at EXCEPT ![t] = "idle"] /\ call' = [call EXCEPT ![t] = NoCall]
      /\ answer' = IF call[t].kind = "snapshot" THEN got ELSE answer
      /\ worker' = IF call[t].caller = "worker" THEN AfterCall ELSE worker
      /\ recorded' = [c \in Counters |-> recorded[c] + call[t].by[c]]
      /\ queued' = queued
  BY DEF Release
<1>2. /\ at \in [Threads -> {"idle", "waiting", "holding", "loaded"}]
      /\ call \in [Threads -> CallType] /\ queued \in Nat /\ recorded \in Amounts
      /\ Loop \in Threads
  BY DEF MetricsInv, TypeOK, CallType, Threads
<1>3. lock = t /\ call[t] \in Calls(t)
  BY <1>1, Holder
<1>4. call'[t] = NoCall /\ \A u \in Threads \ {t} : call'[u] = call[u] /\ at'[u] = at[u]
  BY <1>1, <1>2
<1>5. WorkerInv'
  <2>1. \A u \in Threads : at'[u] = "idle" => call'[u] = NoCall
    BY <1>4 DEF AgreeInv, WorkerInv
  <2>2. \A u \in Threads : FairCall(u, call'[u])
    BY <1>4, NoCallIsFair DEF AgreeInv, WorkerInv
  <2>3. ASSUME NEW u \in Threads, call'[u].caller = "worker"
        PROVE  u # t /\ call[u].caller = "worker" /\ call[t].caller # "worker"
               /\ worker' = worker
    <3>1. u # t
      BY <1>4, <2>3, NoCallIsFair
    <3>2. call[u].caller = "worker"
      BY <1>4, <2>3, <3>1
    <3> QED  BY <1>1, <3>1, <3>2 DEF AgreeInv, WorkerInv
  <2>4. \A u \in Threads : call'[u].caller = "worker" =>
           worker' = IF u = Loop THEN "counting" ELSE "recording"
    BY <2>3 DEF AgreeInv, WorkerInv
  <2>5. \A u, v \in Threads :
           call'[u].caller = "worker" /\ call'[v].caller = "worker" => u = v
    BY <2>3 DEF AgreeInv, WorkerInv
  <2> QED  BY <2>1, <2>2, <2>4, <2>5 DEF WorkerInv, FairCall
<1> DEFINE by == call[t].by
<1>6. /\ by \in Amounts /\ FairCall(t, call[t])
      /\ call[t].caller = "worker" =>
            worker = IF t = Loop THEN "counting" ELSE "recording"
  BY <1>2 DEF CallType, AgreeInv, WorkerInv
<1>7. /\ \A c \in Counters : by[c] \in Nat /\ recorded[c] \in Nat
      /\ \A c \in Counters : recorded'[c] = recorded[c] + by[c]
  BY <1>1, <1>2, <1>6 DEF Amounts
<1>8. /\ recorded[BatchFlushes] <= recorded[DbWrites]
            + IF worker \in {"writing", "recording", "dead"} THEN 1 ELSE 0
      /\ recorded[BatchFlushes] <= recorded[QueriesWritten]
      /\ recorded[QueriesWritten] + call[Loop].by[QueriesWritten] + queued
            <= recorded[SearchEvents] + call[Loop].by[SearchEvents]
  BY DEF AgreeInv, RecordedInv
<1>9. /\ by[BatchFlushes] <= 1 /\ by[BatchFlushes] <= by[QueriesWritten]
      /\ t # Loop => /\ by[BatchFlushes] = 0 /\ by[QueriesWritten] = 0
                     /\ by[SearchEvents] = 0
      /\ t # Loop /\ call[t].caller = "worker" => by[DbWrites] = 1
      /\ by[BatchFlushes] > 0 => call[t].caller = "worker"
  BY <1>6 DEF FairCall
<1>10. RecordedInv'
  <2>1. recorded'[BatchFlushes] <= recorded'[DbWrites]
           + IF worker' \in {"writing", "recording", "dead"} THEN 1 ELSE 0
    <3>1. CASE call[t].caller = "worker" /\ t = Loop
      <4>1. worker = "counting" /\ worker' = "writing"
        BY <1>1, <1>6, <3>1 DEF AfterCall
      <4> QED  BY <1>7, <1>8, <1>9, <4>1, Names
    <3>2. CASE call[t].caller = "worker" /\ t # Loop
      <4>1. worker = "recording" /\ worker' = "rest"
        BY <1>1, <1>6, <3>2 DEF AfterCall
      <4> QED  BY <1>7, <1>8, <1>9, <3>2, <4>1, Names
    <3>3. CASE call[t].caller # "worker"
      <4>1. worker' = worker /\ by[BatchFlushes] = 0
        BY <1>1, <1>7, <1>9, <3>3, Names
      <4> QED  BY <1>7, <1>8, <4>1, Names
    <3> QED  BY <3>1, <3>2, <3>3
  <2>2. recorded'[BatchFlushes] <= recorded'[QueriesWritten]
    BY <1>7, <1>8, <1>9, Names
  <2>3. recorded'[QueriesWritten] + call'[Loop].by[QueriesWritten] + queued'
           <= recorded'[SearchEvents] + call'[Loop].by[SearchEvents]
    <3>1. CASE t = Loop
      <4>1. call'[Loop].by[QueriesWritten] = 0 /\ call'[Loop].by[SearchEvents] = 0
        BY <1>4, <3>1, AddsOnly, Names DEF NoCall
      <4> QED  BY <1>1, <1>2, <1>7, <1>8, <3>1, <4>1, Names
    <3>2. CASE t # Loop
      <4>1. call'[Loop] = call[Loop]
        BY <1>2, <1>4, <3>2
      <4>2. /\ recorded'[QueriesWritten] = recorded[QueriesWritten]
            /\ recorded'[SearchEvents] = recorded[SearchEvents]
        BY <1>7, <1>9, <3>2, Names
      <4> QED  BY <1>1, <1>8, <4>1, <4>2
    <3> QED  BY <3>1, <3>2
  <2> QED  BY <2>1, <2>2, <2>3 DEF RecordedInv
<1>11. CountersAgree'
  <2>1. CASE call[t].kind = "snapshot"
    <3>1. t = Loop /\ by = Log!Zero
      BY <1>3, <2>1 DEF Calls
    <3>2. answer' = got /\ \A c \in Counters : got.counts[c] = recorded[c]
      BY <1>1, <1>3, <2>1 DEF MetricsInv, ValueInv
    <3>3. /\ recorded[BatchFlushes] <= recorded[DbWrites] + 1
          /\ recorded[BatchFlushes] <= recorded[QueriesWritten]
      BY <1>7, <1>8, Names
    <3>4. recorded[QueriesWritten] <= recorded[SearchEvents]
      <4>1. call[Loop].by[QueriesWritten] = 0 /\ call[Loop].by[SearchEvents] = 0
        BY <3>1, AddsOnly, Names
      <4> QED  BY <1>2, <1>7, <1>8, <4>1, Names
    <3> QED  BY <3>2, <3>3, <3>4, Names DEF CountersAgree
  <2>2. CASE call[t].kind # "snapshot"
    BY <1>1, <2>2 DEF AgreeInv, CountersAgree
  <2> QED  BY <2>1, <2>2
<1> QED  BY <1>5, <1>10, <1>11 DEF AgreeInv

\* In every answer of GET /metrics, whatever threads record meanwhile, the
\* flushes are at most one ahead of the writes and no more than the queries
\* written, and these no more than the searches.
THEOREM CountersCorrect == Spec => []CountersAgree
<1>1. MetricsInv /\ AgreeInv /\ [Next]_vars => AgreeInv'
  <2> SUFFICES ASSUME MetricsInv, AgreeInv, [Next]_vars PROVE AgreeInv'
    OBVIOUS
  <2>1. CASE LoopCall \/ \E t \in Pool : IncrementCounts(t) \/ Query(t)
    BY <2>1, CallersCall, CallersAgree DEF MetricsInv
  <2>2. ASSUME NEW t \in Threads,
               Acquire(t) \/ Load(t) \/ Store(t) \/ AppendLatency(t) \/ Copy(t)
        PROVE  AgreeInv'
    <3>1. /\ UNCHANGED <<call, answer, queued, worker, recorded>>
          /\ \A u \in Threads : at'[u] = "idle" => at[u] = "idle"
      BY <2>2 DEF Acquire, Load, Store, AppendLatency, Copy, store, history, MetricsInv,
                  TypeOK
    <3> QED  BY <3>1 DEF AgreeInv, WorkerInv, FairCall, RecordedInv, CountersAgree
  <2>3. ASSUME NEW t \in Threads, InLock(t) PROVE AgreeInv'
    BY <2>2, <2>3, ReleaseAgrees DEF InLock
  <2>4. CASE UNCHANGED vars
    BY <2>4 DEF vars, store, threads, history, AgreeInv, WorkerInv, FairCall, RecordedInv,
                CountersAgree
  <2> QED  BY <2>1, <2>3, <2>4 DEF Next
<1>2. AgreeInv => CountersAgree
  BY DEF AgreeInv
<1> QED  BY <1>1, <1>2, InitAgree, MetricsInvCorrect, PTL DEF Spec

-----------------------------------------------------------------------------
(* The percentile.                                                         *)

\* Equal values keep the order of their places.
Before(values, i, j) == values[i] < values[j] \/ (values[i] = values[j] /\ i < j)

Smaller(values) ==
    {pair \in (DOMAIN values) \X (DOMAIN values) : Before(values, pair[1], pair[2])}

Sorts(p, values) ==
    /\ p \in Bijection(DOMAIN values, DOMAIN values)
    /\ \A i, j \in DOMAIN values : i < j => values[p[i]] <= values[p[j]]

LEMMA SmallerPair ==
    ASSUME NEW values, NEW i \in DOMAIN values, NEW j \in DOMAIN values
    PROVE  <<i, j>> \in Smaller(values) <=>
              values[i] < values[j] \/ (values[i] = values[j] /\ i < j)
  BY DEF Smaller, Before

LEMMA SmallerIsOrder ==
    ASSUME NEW values \in Seq(Nat)
    PROVE  IsStrictOrder(Smaller(values), DOMAIN values)
<1>1. \A i, j \in DOMAIN values :
         <<i, j>> \in Smaller(values) <=>
            values[i] < values[j] \/ (values[i] = values[j] /\ i < j)
  BY SmallerPair
<1>2. \A i \in DOMAIN values : i \in Nat /\ values[i] \in Nat
  OBVIOUS
<1>3. \A i \in DOMAIN values : <<i, i>> \notin Smaller(values)
  BY <1>1, <1>2
<1>4. \A i, j, k \in DOMAIN values :
         <<i, j>> \in Smaller(values) /\ <<j, k>> \in Smaller(values) =>
            <<i, k>> \in Smaller(values)
  BY <1>1, <1>2
<1>5. \A i, j \in DOMAIN values :
         i = j \/ <<i, j>> \in Smaller(values) \/ <<j, i>> \in Smaller(values)
  <2> TAKE i, j \in DOMAIN values
  <2>1. \/ i = j \/ values[i] < values[j] \/ values[j] < values[i]
        \/ values[i] = values[j] /\ (i < j \/ j < i)
    BY <1>2
  <2> QED  BY <1>1, <2>1
<1> QED  BY <1>3, <1>4, <1>5 DEF IsStrictOrder

\* Every sequence can be sorted: the element at a place is that with this rank.
LEMMA SortingExists ==
    ASSUME NEW values \in Seq(Nat)
    PROVE  \E p : Sorts(p, values)
<1> DEFINE D == DOMAIN values
           R == Smaller(values)
           f == Rank(R, D)
<1>1. IsFiniteSet(D) /\ D = 1 .. Cardinality(D)
  <2>1. D = 1 .. Len(values) /\ Len(values) \in Nat
    OBVIOUS
  <2>2. IsFiniteSet(1 .. Len(values)) /\ Cardinality(1 .. Len(values)) = Len(values)
    <3> DEFINE n == Len(values)
    <3>1. n \in Nat
      OBVIOUS
    <3> HIDE DEF n
    <3>2. /\ IsFiniteSet(1 .. n)
          /\ Cardinality(1 .. n) = IF 1 > n THEN 0 ELSE n - 1 + 1
      BY <3>1, FS_Interval
    <3>3. IsFiniteSet(1 .. n) /\ Cardinality(1 .. n) = n
      BY <3>1, <3>2
    <3> QED  BY <3>3 DEF n
  <2> QED  BY <2>1, <2>2
<1>2. \A i \in D : i \in Nat /\ values[i] \in Nat
  OBVIOUS
<1>3. \A i, j \in D : <<i, j>> \in R => values[i] <= values[j]
  BY <1>2, SmallerPair
<1>4. IsStrictOrder(R, D)
  BY SmallerIsOrder
<1> HIDE DEF D, R
<1>5. /\ f \in Bijection(D, 1 .. Cardinality(D))
      /\ \A i, k \in D : f[i] < f[k] <=> <<i, k>> \in R
  BY <1>1, <1>4, RankBijection
<1>6. f \in Bijection(D, D)
  BY <1>1, <1>5
<1> HIDE DEF f
<1>7. /\ \A i \in D : f[i] \in D
      /\ \A i, k \in D : f[i] = f[k] => i = k
      /\ \A m \in D : \E i \in D : f[i] = m
  BY <1>6 DEF Bijection, Injection, Surjection, IsInjective
<1> DEFINE p == [m \in D |-> CHOOSE i \in D : f[i] = m]
<1>8. \A m \in D : p[m] \in D /\ f[p[m]] = m
  BY <1>7
<1>9. p \in [D -> D]
  BY <1>8
<1> HIDE DEF p
<1>10. p \in Injection(D, D)
  BY <1>8, <1>9 DEF Injection, IsInjective
<1>11. p \in Surjection(D, D)
  <2>1. \A i \in D : p[f[i]] = i
    BY <1>7, <1>8
  <2> QED  BY <1>7, <1>9, <2>1 DEF Surjection
<1>12. \A i, j \in D : i < j => values[p[i]] <= values[p[j]]
  BY <1>3, <1>5, <1>8
<1>13. Sorts(p, values)
  BY <1>10, <1>11, <1>12 DEF Sorts, Bijection, D
<1> QED  BY <1>13

\* sorted() returns the values in order.
LEMMA OrderedSorts ==
    ASSUME NEW values \in Seq(Nat)
    PROVE  \E p : Sorts(p, values) /\ Ordered(values) = [i \in DOMAIN values |-> values[p[i]]]
<1> DEFINE order == CHOOSE p \in Bijection(DOMAIN values, DOMAIN values) :
                       \A i, j \in DOMAIN values : i < j => values[p[i]] <= values[p[j]]
<1>1. \E p \in Bijection(DOMAIN values, DOMAIN values) :
         \A i, j \in DOMAIN values : i < j => values[p[i]] <= values[p[j]]
  BY SortingExists DEF Sorts
<1>2. Sorts(order, values)
  BY <1>1, Zenon DEF Sorts
<1>3. Ordered(values) = [i \in DOMAIN values |-> values[order[i]]]
  BY Zenon DEF Ordered
<1> HIDE DEF order
<1> QED  BY <1>2, <1>3

\* The place the percentile is read at is the least that covers the share.
LEMMA IndexCovers ==
    ASSUME NEW n \in Nat \ {0}
    PROVE  /\ Index(n) \in Nat /\ Index(n) + 1 \in 1 .. n
           /\ (Index(n) + 1) * 100 >= Percent * n
           /\ Index(n) * 100 < Percent * n
<1> DEFINE m == Percent * n
           c == CeilDiv(m, 100)
<1>1. m \in Nat /\ m >= 1 /\ m <= 100 * n
  BY PercentAssumption
<1> HIDE DEF m
<1>2. c \in Nat /\ c >= 1 /\ c * 100 >= m /\ (c - 1) * 100 < m
  BY <1>1 DEF CeilDiv
<1>3. c <= n
  BY <1>1, <1>2
<1>4. Index(n) = IF c - 1 < n - 1 THEN IF c - 1 > 0 THEN c - 1 ELSE 0
                 ELSE IF n - 1 > 0 THEN n - 1 ELSE 0
  BY DEF Index, m
<1> HIDE DEF c
<1>5. Index(n) = c - 1
  BY <1>2, <1>3, <1>4
<1> QED  BY <1>2, <1>3, <1>5 DEF m

\* The percentile of a window is the nearest rank, with and without ties, for
\* windows of any length and any percent.
LEMMA NearestRank ==
    ASSUME NEW window \in Seq(Nat), window # <<>>
    PROVE  LET Share(v) == Cardinality({i \in DOMAIN window : window[i] <= v}) * 100
               enough == Percent * Len(window)
           IN  /\ \E i \in DOMAIN window : window[i] = Percentile(window)
               /\ Share(Percentile(window)) >= enough
               /\ \A i \in DOMAIN window :
                     Share(window[i]) >= enough => window[i] >= Percentile(window)
<1> DEFINE D == DOMAIN window
           n == Len(window)
           k == Index(n) + 1
           v == Percentile(window)
           Below(x) == {i \in D : window[i] <= x}
<1>1. n \in Nat \ {0} /\ D = 1 .. n /\ \A i \in D : window[i] \in Nat
  OBVIOUS
<1>2. k \in 1 .. n /\ k * 100 >= Percent * n /\ (k - 1) * 100 < Percent * n
  <2> HIDE DEF n
  <2>1. /\ Index(n) \in Nat /\ Index(n) + 1 \in 1 .. n
        /\ (Index(n) + 1) * 100 >= Percent * n
        /\ Index(n) * 100 < Percent * n
    BY <1>1, IndexCovers
  <2>2. k - 1 = Index(n)
    BY <2>1
  <2> QED  BY <2>1, <2>2
<1>3. PICK p : /\ Sorts(p, window)
               /\ Ordered(window) = [i \in D |-> window[p[i]]]
  BY OrderedSorts
<1>4. /\ \A i \in D : p[i] \in D
      /\ \A i, j \in D : p[i] = p[j] => i = j
      /\ \A x \in D : \E i \in D : p[i] = x
      /\ \A i, j \in D : i < j => window[p[i]] <= window[p[j]]
  BY <1>3 DEF Sorts, Bijection, Injection, Surjection, IsInjective
<1>5. v = window[p[k]] /\ p[k] \in D /\ v \in Nat
  <2>1. k \in D
    BY <1>1, <1>2
  <2>2. v = Ordered(window)[k]
    BY DEF Percentile
  <2> HIDE DEF k, v, D
  <2>3. v = window[p[k]] /\ p[k] \in D
    BY <1>3, <1>4, <2>1, <2>2
  <2> QED  BY <1>1, <2>3
<1>6. IsFiniteSet(D)
  BY <1>1, FS_Interval
<1>7. \A x : IsFiniteSet(Below(x)) /\ Cardinality(Below(x)) \in Nat
  <2> TAKE x
  <2>1. Below(x) \in SUBSET D
    OBVIOUS
  <2> HIDE DEF Below, D
  <2> QED  BY <1>6, <2>1, FS_Subset, FS_CardinalityType
<1>8. k \in Nat /\ n \in Nat /\ Percent * n \in Nat
  BY <1>1, <1>2, PercentAssumption
<1> HIDE DEF D, v, k, n
\* The first k places of the sorted sequence hold values up to v.
<1>9. Cardinality(Below(v)) >= k
  <2> DEFINE g == [i \in 1 .. k |-> p[i]]
  <2>1. \A i \in 1 .. k : i \in D /\ p[i] \in Below(v)
    <3> TAKE i \in 1 .. k
    <3>1. i \in D /\ k \in D /\ (i < k \/ i = k)
      BY <1>1, <1>2, <1>8
    <3>2. window[p[i]] <= v
      <4>1. CASE i < k
        BY <1>4, <1>5, <3>1, <4>1
      <4>2. CASE i = k
        BY <1>5, <4>2
      <4> QED  BY <3>1, <4>1, <4>2
    <3> QED  BY <1>4, <3>1, <3>2
  <2>2. g \in Injection(1 .. k, Below(v))
    <3> HIDE DEF Below
    <3>1. g \in [1 .. k -> Below(v)]
      BY <2>1
    <3>2. \A i, j \in 1 .. k : g[i] = g[j] => i = j
      BY <1>4, <2>1
    <3> HIDE DEF g
    <3> QED  BY <3>1, <3>2 DEF Injection, IsInjective
  <2> HIDE DEF g, Below
  <2>3. Cardinality(1 .. k) <= Cardinality(Below(v))
    BY <1>7, <2>2, FS_Injection
  <2>4. Cardinality(1 .. k) = IF 1 > k THEN 0 ELSE k - 1 + 1
    BY <1>8, FS_Interval
  <2> QED  BY <1>7, <1>8, <2>3, <2>4
\* A smaller value has its equals and smaller ones in the places before k.
<1>10. ASSUME NEW i \in D, window[i] < v
       PROVE  Cardinality(Below(window[i])) <= k - 1
  <2> DEFINE low == Below(window[i])
             g == [x \in low |-> CHOOSE m \in D : p[m] = x]
  <2>1. \A x \in low : x \in D /\ g[x] \in D /\ p[g[x]] = x
    BY <1>4
  <2>2. \A x \in low : g[x] \in 1 .. k - 1
    <3> TAKE x \in low
    <3>1. window[x] <= window[i]
      OBVIOUS
    <3>2. x \in D /\ g[x] \in D /\ p[g[x]] = x
      BY <2>1
    <3> DEFINE m == g[x]
    <3>3. m \in D /\ p[m] = x
      BY <3>2
    <3> HIDE DEF g, low, m
    <3>4. /\ window[x] \in Nat /\ window[i] \in Nat /\ window[p[k]] \in Nat
          /\ k \in D /\ m \in Nat /\ m >= 1
      BY <1>1, <1>2, <1>5, <1>10, <3>2, <3>3
    <3>5. window[p[m]] < window[p[k]]
      BY <1>5, <1>10, <3>1, <3>3, <3>4
    <3>6. ~(k < m)
      <4>1. k < m => window[p[k]] <= window[p[m]]
        BY <1>4, <3>3, <3>4
      <4>2. window[p[m]] \in Nat
        BY <3>3, <3>4
      <4> QED  BY <3>4, <3>5, <4>1, <4>2
    <3>7. k # m
      BY <3>4, <3>5
    <3>8. m \in 1 .. k - 1
      BY <1>8, <3>4, <3>6, <3>7
    <3> QED  BY <3>8 DEF m
  <2>3. g \in Injection(low, 1 .. k - 1)
    <3>1. g \in [low -> 1 .. k - 1]
      BY <2>2
    <3>2. \A x, y \in low : g[x] = g[y] => x = y
      BY <2>1
    <3> HIDE DEF g, low
    <3> QED  BY <3>1, <3>2 DEF Injection, IsInjective
  <2> HIDE DEF g
  <2>4. IsFiniteSet(1 .. k - 1) /\ Cardinality(1 .. k - 1) = k - 1
    <3> DEFINE j == k - 1
    <3>1. j \in Int /\ 0 <= j
      BY <1>2, <1>8
    <3> HIDE DEF j
    <3>2. /\ IsFiniteSet(1 .. j)
          /\ Cardinality(1 .. j) = IF 1 > j THEN 0 ELSE j - 1 + 1
      BY <3>1, FS_Interval
    <3>3. IsFiniteSet(1 .. j) /\ Cardinality(1 .. j) = j
      BY <3>1, <3>2
    <3> QED  BY <3>3 DEF j
  <2> HIDE DEF low
  <2>6. Cardinality(low) <= Cardinality(1 .. k - 1)
    BY <2>3, <2>4, FS_Injection
  <2> QED  BY <2>4, <2>6 DEF low
<1>11. \E i \in D : window[i] = v
  BY <1>5
<1>12. Cardinality(Below(v)) * 100 >= Percent * n
  <2> DEFINE c == Cardinality(Below(v))
             m == Percent * n
  <2>1. c \in Nat /\ c >= k /\ m \in Nat /\ k * 100 >= m
    BY <1>2, <1>7, <1>8, <1>9
  <2> HIDE DEF c, m
  <2>2. c * 100 >= m
    BY <1>8, <2>1
  <2> QED  BY <2>2 DEF c, m
<1>13. ASSUME NEW i \in D, Cardinality(Below(window[i])) * 100 >= Percent * n
       PROVE  window[i] >= v
  <2>1. CASE window[i] < v
    <3>1. Cardinality(Below(window[i])) <= k - 1
      BY <1>10, <2>1
    <3>2. Cardinality(Below(window[i])) \in Nat
      BY <1>7
    <3> DEFINE c == Cardinality(Below(window[i]))
               m == Percent * n
    <3>3. c \in Nat /\ c <= k - 1 /\ c * 100 >= m /\ m \in Nat /\ (k - 1) * 100 < m
      BY <1>2, <1>8, <1>13, <3>1, <3>2
    <3> HIDE DEF c, m
    <3> QED  BY <1>8, <3>3
  <2>2. CASE ~(window[i] < v)
    BY <1>1, <1>5, <2>2
  <2> QED  BY <2>1, <2>2
<1> QED  BY <1>11, <1>12, <1>13 DEF D, n, v

\* Every answer's percentile is the least latency that its share of the window
\* does not exceed.
THEOREM PercentileCorrect == Spec => []PercentileIsNearestRank
<1>1. TypeOK => PercentileIsNearestRank
  <2> SUFFICES ASSUME TypeOK, answer.latencies # <<>> PROVE PercentileIsNearestRank
    BY DEF PercentileIsNearestRank
  <2>1. answer.latencies \in Seq(Nat)
    BY DEF TypeOK, Snapshots
  <2> QED  BY <2>1, NearestRank DEF PercentileIsNearestRank
<1> QED  BY <1>1, MetricsTypeCorrect, PTL

=============================================================================
