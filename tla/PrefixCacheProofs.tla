------------------------- MODULE PrefixCacheProofs -------------------------
(***************************************************************************)
(* Proofs about PrefixCache, for every instance: type correctness, the     *)
(* freshness of the cache while one spelling per row is in use and no warm *)
(* is overtaken by the table, what it means for /trending, and that no     *)
(* warm leaves a stored query without its keys.                            *)
(***************************************************************************)
EXTENDS PrefixCache, FiniteSetTheorems, TLAPS

ChildType == [Warmers -> [Prefixes -> {"none", "loading", "storing"}]]
LoadedType == [Warmers -> [Prefixes -> AnswerSet]]
TaskType == [Warmers -> {"rest", "warming", "flushing", "failed"}]
FlushEntry == [st : {"scan", "delete", "done"},
               left : SUBSET Prefixes, keys : SUBSET Prefixes]
FlushType == [Nodes -> FlushEntry]

\* Nothing is under way in a process that does not run.
LEMMA RestType ==
    /\ Idle \in TaskType
    /\ NoChildren \in ChildType
    /\ NothingLoaded \in LoadedType
    /\ NoFlush \in FlushType
  BY DEF Idle, NoChildren, NothingLoaded, NoFlush, FlushOver, TaskType, ChildType,
         LoadedType, FlushType, FlushEntry, AnswerSet, Warmers

LEMMA ReplyType ==
    /\ FlushOver \in FlushEntry
    /\ \A left, keys \in SUBSET Prefixes : AfterReply(left, keys) \in FlushEntry
  BY DEF FlushOver, AfterReply, FlushEntry

LEMMA InitType == Init => TypeOK
<1> SUFFICES ASSUME Init PROVE TypeOK
  OBVIOUS
<1>1. spelling \in [Rows -> Queries \cup {NoQuery}]
  BY SeedAssumption DEF Init
<1>2. count \in [Rows -> Nat]
  BY SeedAssumption DEF Init
<1>3. raced \in BOOLEAN
  BY DEF Init
<1> QED
  BY <1>1, <1>2, <1>3, RestType, BoundsAssumption
     DEF Init, TypeOK, Miss, TaskType, ChildType, LoadedType, FlushType, FlushEntry

LEMMA WarmType ==
    ASSUME TypeOK, NEW w \in Warmers, NEW prefixes, Warm(w, prefixes)
    PROVE  task' \in TaskType /\ child' \in ChildType /\ loaded' \in LoadedType
  BY DEF TypeOK, Warm, Children, TaskType, ChildType, LoadedType

LEMMA AnswersType ==
    ASSUME TypeOK, NEW p \in Prefixes
    PROVE  Answers(p) \subseteq AnswerSet
<1> SUFFICES ASSUME NEW answer \in Answers(p) PROVE answer \in AnswerSet
  OBVIOUS
<1>1. PICK best \in Top(p) : answer = {<<r, count[r]>> : r \in best}
  BY DEF Answers
<1>2. best \subseteq Rows
  BY DEF Top, Leading, Hits, Stored
<1>3. \A r \in best : <<r, count[r]>> \in Rows \X Nat
  BY <1>2 DEF TypeOK
<1> QED  BY <1>1, <1>3 DEF AnswerSet

\* The part of the type that a committed batch concerns.
TableType ==
    /\ writes \in 0 .. MaxWrites
    /\ spelling \in [Rows -> Queries \cup {NoQuery}]
    /\ count \in [Rows -> Nat]
    /\ raced \in BOOLEAN

LEMMA WriteType ==
    ASSUME TypeOK, NEW batch \in Batches, Write(batch)
    PROVE  TableType'
<1>2. count' \in [Rows -> Nat]
  <2>1. PICK amount \in [Rows -> 0 .. MaxSearches] :
           count' = [r \in Rows |-> count[r] + amount[r]]
    BY DEF Write, Amounts
  <2> QED  BY <2>1, BoundsAssumption DEF TypeOK
<1>3. spelling' \in [Rows -> Queries \cup {NoQuery}]
  BY DEF Write, Inserted
<1>4. writes' \in 0 .. MaxWrites
  BY BoundsAssumption DEF Write, TypeOK
<1>5. raced' \in BOOLEAN
  BY DEF Write, AnswerHeld, TypeOK
<1> QED  BY <1>2, <1>3, <1>4, <1>5 DEF TableType

LEMMA EndType == ASSUME TypeOK, ProcessEnds PROVE TypeOK'
<1>1. phase' = "down"
  BY DEF ProcessEnds
<1>2. /\ task' \in TaskType /\ child' \in ChildType /\ loaded' \in LoadedType
      /\ flush' \in FlushType
  BY RestType DEF ProcessEnds
<1>3. UNCHANGED <<launches, writes, spelling, count, cache, gone, nodeUp>>
  BY DEF ProcessEnds, table
<1>4. raced' \in BOOLEAN
  BY DEF ProcessEnds, TypeOK
<1> QED
  BY <1>1, <1>2, <1>3, <1>4 DEF TypeOK, TaskType, ChildType, LoadedType, FlushType, FlushEntry

LEMMA NextType == TypeOK /\ [Next]_vars => TypeOK'
<1> SUFFICES ASSUME TypeOK, [Next]_vars PROVE TypeOK'
  OBVIOUS
<1>1. CASE Launch
  <2>1. task' \in TaskType /\ child' \in ChildType /\ loaded' \in LoadedType
    BY <1>1, WarmType DEF Launch, Warmers
  <2>2. raced' \in BOOLEAN
    BY <1>1 DEF Launch
  <2> QED
    BY <1>1, <2>1, <2>2, BoundsAssumption
       DEF Launch, TypeOK, table, TaskType, ChildType, LoadedType
<1>2. ASSUME NEW w \in Warmers, NEW p \in Prefixes, Load(w, p) PROVE TypeOK'
  <2>1. PICK answer \in AnswerSet : loaded' = [loaded EXCEPT ![w][p] = answer]
    BY <1>2, AnswersType DEF Load
  <2>2. loaded' \in LoadedType
    BY <2>1 DEF TypeOK, LoadedType
  <2>3. child' \in ChildType
    BY <1>2 DEF Load, TypeOK, ChildType
  <2> QED  BY <1>2, <2>2, <2>3 DEF Load, TypeOK, table, LoadedType, ChildType
<1>3. ASSUME NEW w \in Warmers, NEW p \in Prefixes, Store(w, p) PROVE TypeOK'
  <2>1. cache' \in [Prefixes -> SUBSET AnswerSet]
    BY <1>3 DEF Store, TypeOK
  <2>2. child' \in ChildType /\ loaded' \in LoadedType
    BY <1>3 DEF Store, TypeOK, ChildType, LoadedType, AnswerSet
  <2> QED  BY <1>3, <2>1, <2>2 DEF Store, TypeOK, table, LoadedType, ChildType
<1>4. ASSUME NEW w \in Warmers, NEW p \in Prefixes, ChildFails(w, p) PROVE TypeOK'
  <2>1. CASE ProcessEnds
    BY <2>1, EndType
  <2>2. CASE /\ task' = [task EXCEPT ![w] = "failed"]
             /\ child' = [child EXCEPT ![w][p] = "none"]
             /\ loaded' = [loaded EXCEPT ![w][p] = {}]
             /\ UNCHANGED <<phase, launches, table, cache, gone, nodeUp, flush, raced>>
    <3>1. child' \in ChildType
      BY <2>2 DEF TypeOK, ChildType
    <3>2. loaded' \in LoadedType
      BY <2>2 DEF TypeOK, LoadedType, AnswerSet
    <3> QED  BY <2>2, <3>1, <3>2 DEF TypeOK, table, ChildType, LoadedType
  <2> QED  BY <1>4, <2>1, <2>2 DEF ChildFails
<1>5. ASSUME NEW w \in Warmers, WarmDone(w) PROVE TypeOK'
  BY <1>5 DEF WarmDone, TypeOK, table
<1>6. ASSUME NEW batch \in Batches, Increment(batch) PROVE TypeOK'
  <2>1. task' \in TaskType /\ child' \in ChildType /\ loaded' \in LoadedType
    BY <1>6, WarmType DEF Increment, Warmers
  <2>2. TableType'
    BY <1>6, WriteType DEF Increment
  <2> QED
    BY <1>6, <2>1, <2>2
       DEF Increment, TypeOK, TableType, TaskType, ChildType, LoadedType
<1>7. CASE ApplyDecay
  <2>1. \A c \in Nat : Decayed(c) \in Nat
    BY DEF Decayed
  <2>2. count' \in [Rows -> Nat]
    BY <1>7, <2>1 DEF ApplyDecay, TypeOK
  <2>3. raced' \in BOOLEAN
    BY <1>7 DEF ApplyDecay, AnswerHeld, TypeOK
  <2>4. flush' \in FlushType
    BY <1>7 DEF ApplyDecay, FlushType, FlushEntry, PlacesOn
  <2>5. task' \in TaskType
    BY <1>7 DEF ApplyDecay, TypeOK, TaskType
  <2> QED  BY <1>7, <2>2, <2>3, <2>4, <2>5 DEF ApplyDecay, TypeOK, TaskType, FlushType, FlushEntry
<1>8. ASSUME NEW n \in Nodes, ScanNode(n) PROVE TypeOK'
  <2>1. \E reply : /\ reply \in FlushEntry
                   /\ flush' = [flush EXCEPT ![n] = reply]
    <3>1. flush[n].left \subseteq Prefixes /\ KeysOn(n) \subseteq Prefixes
      BY DEF TypeOK, KeysOn, PlacesOn
    <3>2. CASE ~nodeUp[n]
      BY <1>8, <3>2, ReplyType DEF ScanNode
    <3>3. CASE nodeUp[n]
      <4>1. PICK part \in SUBSET flush[n].left :
               flush' = [flush EXCEPT ![n] =
                           AfterReply(flush[n].left \ part, part \cap KeysOn(n))]
        BY <1>8, <3>3 DEF ScanNode
      <4>2. /\ flush[n].left \ part \in SUBSET Prefixes
            /\ part \cap KeysOn(n) \in SUBSET Prefixes
        BY <3>1
      <4> QED  BY <4>1, <4>2, ReplyType
    <3> QED  BY <3>2, <3>3
  <2>2. flush' \in FlushType
    BY <2>1 DEF TypeOK, FlushType, FlushEntry
  <2> QED  BY <1>8, <2>2 DEF ScanNode, TypeOK, table, warming, FlushType, FlushEntry
<1>9. ASSUME NEW n \in Nodes, DeleteKeys(n) PROVE TypeOK'
  <2>1. \E reply : /\ reply \in FlushEntry
                   /\ flush' = [flush EXCEPT ![n] = reply]
    <3>1. flush[n].left \in SUBSET Prefixes /\ {} \in SUBSET Prefixes
      BY DEF TypeOK
    <3>2. AfterReply(flush[n].left, {}) \in FlushEntry
      BY <3>1, ReplyType
    <3> QED  BY <1>9, <3>2, ReplyType DEF DeleteKeys
  <2>2. cache' \in [Prefixes -> SUBSET AnswerSet]
    BY <1>9 DEF DeleteKeys, TypeOK, Miss
  <2>3. flush' \in FlushType
    BY <2>1 DEF TypeOK, FlushType, FlushEntry
  <2> QED
    BY <1>9, <2>2, <2>3 DEF DeleteKeys, TypeOK, table, warming, FlushType, FlushEntry
<1>10. CASE WarmAll
  <2>1. task' \in TaskType /\ child' \in ChildType /\ loaded' \in LoadedType
    BY <1>10, WarmType DEF WarmAll, Warmers
  <2> QED  BY <1>10, <2>1 DEF WarmAll, TypeOK, table, TaskType, ChildType, LoadedType
<1>11. ASSUME NEW p \in Prefixes, Expire(p) PROVE TypeOK'
  BY <1>11 DEF Expire, TypeOK, table, warming, Miss
<1>12. ASSUME NEW n \in Nodes, NodeFails(n) \/ NodeReturns(n) PROVE TypeOK'
  BY <1>12 DEF NodeFails, NodeReturns, TypeOK, table, warming, Miss, KeysOn, PlacesOn
<1>13. CASE Crash \/ Exit
  BY <1>13, EndType DEF Crash, Exit
<1>14. CASE Shutdown
  <2>0. /\ Cancelled(task, Idle) \in TaskType
        /\ Cancelled(child, NoChildren) \in ChildType
        /\ Cancelled(loaded, NothingLoaded) \in LoadedType
    BY RestType DEF Cancelled, TypeOK, TaskType, ChildType, LoadedType
  <2>1. loaded' \in LoadedType
    BY <1>14, <2>0 DEF Shutdown
  <2>2. task' \in TaskType /\ child' \in ChildType
    BY <1>14, <2>0 DEF Shutdown, Children, TaskType, ChildType, Warmers
  <2>3. flush' \in FlushType
    BY <1>14, RestType DEF Shutdown
  <2>4. TableType'
    <3>1. CASE UNCHANGED <<table, raced>>
      BY <3>1 DEF TypeOK, TableType, table
    <3>2. CASE \E batch \in Batches : Write(batch)
      BY <3>2, WriteType
    <3> QED  BY <1>14, <3>1, <3>2 DEF Shutdown
  <2>5. phase' = "stopping" /\ UNCHANGED <<launches, cache, gone, nodeUp>>
    BY <1>14 DEF Shutdown
  <2> QED
    BY <2>1, <2>2, <2>3, <2>4, <2>5
       DEF TypeOK, TableType, TaskType, ChildType, LoadedType, FlushType,
           FlushEntry
<1>15. ASSUME NEW w \in Warmers, TaskFails(w) PROVE TypeOK'
  BY <1>15 DEF TaskFails, TypeOK, table
<1>16. CASE UNCHANGED vars
  BY <1>16 DEF vars, table, warming, TypeOK
<1> QED
  BY <1>1, <1>2, <1>3, <1>4, <1>5, <1>6, <1>7, <1>8, <1>9, <1>10, <1>11, <1>12,
     <1>13, <1>14, <1>15, <1>16
     DEF Next, ChildStep, FlushStep, DecayStep

\* Every variable of the cache keeps its type.
THEOREM CacheTypeCorrect == Spec => []TypeOK
  BY InitType, NextType, PTL DEF Spec

-----------------------------------------------------------------------------
(* The tasks and what they are about to store.                             *)

Started == phase \in {"starting", "up"}
NoneFailed == \A w \in Warmers : task[w] # "failed"

\* Some task is going to store the key, unless it fails.
Pending(p) == task["decay"] = "flushing" \/ \E w \in Warmers : child[w][p] # "none"

\* Which warmer has coroutines, by the phase of the process.
PhaseInv ==
    /\ phase = "down" => task = Idle /\ child = NoChildren
    /\ phase = "starting" =>
          task["startup"] = "warming" /\ task["worker"] = "rest" /\ task["decay"] = "rest"
    /\ phase \in {"up", "stopping"} => task["startup"] = "rest"
    /\ \A w \in Warmers : task[w] \in {"rest", "flushing"} => NoneLeft(w)
    /\ \A w \in Warmers : task[w] = "flushing" => w = "decay"
    /\ \A n \in Nodes : flush[n].st # "done" => task["decay"] = "flushing"

\* What the cache holds, and what a coroutine is about to store, belongs to a
\* stored row, and a row is stored under a spelling of its own.
StoredInv ==
    /\ \A r \in Stored : spelling[r] \in Queries /\ RowOf[spelling[r]] = r
    /\ \A p \in Prefixes :
          cache[p] # Miss \/ (\E w \in Warmers : child[w][p] # "none") => Hits(p) # {}

\* Unless a task has died, a missing key is pending or was there and went.
MissingIsPending ==
    Started /\ NoneFailed =>
        \A p \in KeysOfAll(StoredQueries) : cache[p] # Miss \/ p \in gone \/ Pending(p)

CacheInv == TypeOK /\ PhaseInv /\ StoredInv /\ MissingIsPending

\* Nothing a step leaves alone of the table changes an answer.
LEMMA SameTable ==
    ASSUME UNCHANGED <<spelling, count>>
    PROVE  /\ Stored' = Stored /\ StoredQueries' = StoredQueries
           /\ \A p \in Prefixes : Answers(p)' = Answers(p) /\ Hits(p)' = Hits(p)
  BY DEF Stored, StoredQueries, Hits, Answers, Top, Leading

\* The keys of the stored queries are keys that match a stored row.
LEMMA StoredKeys ==
    ASSUME StoredInv
    PROVE  \A p \in KeysOfAll(StoredQueries) : p \in Prefixes /\ Hits(p) # {}
<1> SUFFICES ASSUME NEW p \in KeysOfAll(StoredQueries)
             PROVE  p \in Prefixes /\ Hits(p) # {}
  OBVIOUS
<1>1. PICK r \in Stored : p \in KeysOf[spelling[r]]
  BY DEF KeysOfAll, StoredQueries
<1>2. spelling[r] \in Queries /\ RowOf[spelling[r]] = r /\ r \in Rows
  BY DEF StoredInv, Stored
<1>3. p \in Prefixes /\ p \in MatchedBy[r]
  BY <1>1, <1>2, MappingAssumption
<1> QED  BY <1>1, <1>3 DEF Hits

\* What a batch does to the table.
LEMMA WriteRows ==
    ASSUME TypeOK, StoredInv, NEW batch \in Batches, Write(batch)
    PROVE  /\ \A r \in Stored' : spelling'[r] \in Queries /\ RowOf[spelling'[r]] = r
           /\ \A p \in Prefixes : Hits(p) \subseteq Hits(p)'
           /\ \A p \in KeysOfAll(batch) : Hits(p)' # {}
           /\ KeysOfAll(StoredQueries)' \subseteq KeysOfAll(StoredQueries) \cup KeysOfAll(batch)
           /\ \A r \in Rows : {q \in batch : RowOf[q] = r} = {} =>
                 spelling'[r] = spelling[r] /\ count'[r] = count[r]
<1>1. spelling' \in Inserted(batch)
  BY DEF Write
<1>2. \A r \in Rows :
        /\ spelling[r] # NoQuery => spelling'[r] = spelling[r]
        /\ {q \in batch : RowOf[q] = r} = {} => spelling'[r] = spelling[r]
        /\ spelling'[r] = spelling[r] \/ spelling'[r] \in {q \in batch : RowOf[q] = r}
  BY <1>1 DEF Inserted
<1>3. batch \subseteq Queries
  BY DEF Batches
<1>4. \A r \in Stored' : spelling'[r] \in Queries /\ RowOf[spelling'[r]] = r
  BY <1>2, <1>3 DEF Stored, StoredInv
<1>5. \A p \in Prefixes : Hits(p) \subseteq Hits(p)'
  BY <1>2 DEF Hits, Stored
<1>6. ASSUME NEW p \in KeysOfAll(batch) PROVE Hits(p)' # {}
  <2>1. PICK q \in batch : p \in KeysOf[q]
    BY <1>6 DEF KeysOfAll
  <2>2. RowOf[q] \in Rows /\ p \in MatchedBy[RowOf[q]]
    BY <1>3, <2>1, MappingAssumption
  <2>3. spelling'[RowOf[q]] # NoQuery
    <3>1. {x \in batch : RowOf[x] = RowOf[q]} # {}
      BY <2>1
    <3>2. CASE spelling[RowOf[q]] # NoQuery
      BY <1>2, <2>2, <3>2
    <3>3. CASE spelling[RowOf[q]] = NoQuery
      <4>1. spelling'[RowOf[q]] \in {x \in batch : RowOf[x] = RowOf[q]}
        BY <1>1, <2>2, <3>1, <3>3 DEF Inserted
      <4> QED  BY <1>3, <4>1, NoQueryAssumption
    <3> QED  BY <3>2, <3>3
  <2> QED  BY <2>2, <2>3 DEF Hits, Stored
<1>7. KeysOfAll(StoredQueries)' \subseteq KeysOfAll(StoredQueries) \cup KeysOfAll(batch)
  <2>1. \A r \in Stored' : spelling'[r] \in batch \/ (r \in Stored /\ spelling'[r] = spelling[r])
    BY <1>2 DEF Stored
  <2>2. StoredQueries' = {spelling'[r] : r \in Stored'}
    BY DEF StoredQueries
  <2>3. StoredQueries' \subseteq StoredQueries \cup batch
    BY <2>1, <2>2 DEF StoredQueries
  <2> QED  BY <2>3 DEF KeysOfAll
<1>8. ASSUME NEW r \in Rows, {q \in batch : RowOf[q] = r} = {}
      PROVE  spelling'[r] = spelling[r] /\ count'[r] = count[r]
  <2>1. PICK amount \in Amounts(batch) : count' = [x \in Rows |-> count[x] + amount[x]]
    BY DEF Write
  <2>2. count'[r] = count[r] + 0
    BY <1>8, <2>1 DEF Amounts
  <2> QED  BY <1>2, <1>8, <2>2 DEF TypeOK
<1> QED  BY <1>4, <1>5, <1>6, <1>7, <1>8

LEMMA ChildrenAfterWarm ==
    ASSUME TypeOK, NEW w \in Warmers, NEW prefixes, Warm(w, prefixes)
    PROVE  /\ \A p \in Prefixes :
                child'[w][p] = IF p \in prefixes THEN "loading" ELSE "none"
           /\ \A x \in Warmers \ {w} : child'[x] = child[x] /\ task'[x] = task[x]
           /\ task'[w] = "warming" /\ loaded' = loaded
  BY DEF Warm, Children, TypeOK

\* What a coroutine's step does to the coroutines.
LEMMA ChildAfterStep ==
    ASSUME TypeOK, NEW w \in Warmers, NEW p \in Prefixes, Load(w, p) \/ Store(w, p)
    PROVE  /\ \A x \in Warmers, y \in Prefixes :
                x # w \/ y # p => child'[x][y] = child[x][y] /\ loaded'[x][y] = loaded[x][y]
           /\ child[w][p] # "none"
           /\ Load(w, p) => child'[w][p] = "storing" /\ loaded'[w][p] \in Answers(p)
           /\ Store(w, p) => /\ child[w][p] = "storing" /\ child'[w][p] = "none"
                             /\ cache'[p] = {loaded[w][p]}
           /\ \A y \in Prefixes \ {p} : cache'[y] = cache[y] /\ (y \in gone' <=> y \in gone)
           /\ Load(w, p) => cache' = cache /\ gone' = gone
           /\ UNCHANGED <<phase, spelling, count, task, flush>>
           /\ raced' = raced
<1>1. CASE Load(w, p)
  BY <1>1 DEF Load, TypeOK, table, Store
<1>2. CASE Store(w, p)
  BY <1>2 DEF Store, TypeOK, table, Load
<1> QED  BY <1>1, <1>2

\* A coroutine that fails ends the process or its task.
LEMMA ChildAfterFailure ==
    ASSUME TypeOK, PhaseInv, NEW w \in Warmers, NEW p \in Prefixes, ChildFails(w, p)
    PROVE  \/ ProcessEnds
           \/ /\ w # "startup" /\ task'[w] = "failed" /\ child[w][p] # "none"
              /\ \A x \in Warmers \ {w} : task'[x] = task[x] /\ child'[x] = child[x]
              /\ \A x \in Warmers, y \in Prefixes :
                    /\ child'[x][y] \in {"none", child[x][y]}
                    /\ child'[x][y] # "none" => loaded'[x][y] = loaded[x][y]
              /\ UNCHANGED <<phase, spelling, count, cache, gone, flush>>
              /\ raced' = raced
<1>1. CASE ProcessEnds
  BY <1>1
<1>2. CASE /\ w # "startup" /\ child[w][p] # "none"
           /\ task' = [task EXCEPT ![w] = "failed"]
           /\ child' = [child EXCEPT ![w][p] = "none"]
           /\ loaded' = [loaded EXCEPT ![w][p] = {}]
           /\ UNCHANGED <<phase, launches, table, cache, gone, nodeUp, flush, raced>>
  <2>1. /\ task'[w] = "failed"
        /\ \A x \in Warmers \ {w} : task'[x] = task[x] /\ child'[x] = child[x]
    BY <1>2 DEF TypeOK
  <2>2. \A x \in Warmers, y \in Prefixes :
            /\ child'[x][y] \in {"none", child[x][y]}
            /\ child'[x][y] # "none" => loaded'[x][y] = loaded[x][y]
    BY <1>2 DEF TypeOK
  <2> QED  BY <1>2, <2>1, <2>2 DEF table
<1> QED  BY <1>1, <1>2 DEF ChildFails

\* What a shutdown leaves of the tasks.
LEMMA AfterShutdown ==
    ASSUME TypeOK, Shutdown
    PROVE  /\ phase' = "stopping" /\ flush' = NoFlush /\ cache' = cache
           /\ \A x \in Warmers \ {"worker"} :
                 task'[x] = Cancelled(task, Idle)[x] /\ child'[x] = Cancelled(child, NoChildren)[x]
           /\ \/ /\ task' = Cancelled(task, Idle) /\ child' = Cancelled(child, NoChildren)
                 /\ UNCHANGED <<spelling, count>> /\ raced' = raced
              \/ \E batch \in Batches :
                    /\ Write(batch) /\ task'["worker"] = "warming"
                    /\ child'["worker"] = Children(KeysOfAll(batch))
<1>1. Cancelled(task, Idle) \in [Warmers -> {"rest", "warming", "flushing", "failed"}]
  BY RestType DEF Cancelled, TypeOK, TaskType
<1>2. Cancelled(child, NoChildren) \in ChildType
  BY RestType DEF Cancelled, TypeOK, ChildType
<1>3. phase' = "stopping" /\ flush' = NoFlush /\ cache' = cache
  BY DEF Shutdown
<1>4. ASSUME NEW batch \in Batches, Write(batch),
             task' = [Cancelled(task, Idle) EXCEPT !["worker"] = "warming"],
             child' = [Cancelled(child, NoChildren) EXCEPT !["worker"] =
                           Children(KeysOfAll(batch))]
      PROVE  /\ \A x \in Warmers \ {"worker"} : /\ task'[x] = Cancelled(task, Idle)[x]
                                                /\ child'[x] = Cancelled(child, NoChildren)[x]
             /\ task'["worker"] = "warming" /\ child'["worker"] = Children(KeysOfAll(batch))
  BY <1>1, <1>2, <1>4 DEF ChildType, Warmers
<1>5. CASE /\ task' = Cancelled(task, Idle) /\ child' = Cancelled(child, NoChildren)
           /\ UNCHANGED <<table, raced>>
  BY <1>3, <1>5 DEF table
<1>6. CASE \E batch \in Batches :
              /\ Write(batch)
              /\ task' = [Cancelled(task, Idle) EXCEPT !["worker"] = "warming"]
              /\ child' = [Cancelled(child, NoChildren) EXCEPT !["worker"] =
                              Children(KeysOfAll(batch))]
  BY <1>3, <1>4, <1>6
<1> QED  BY <1>5, <1>6 DEF Shutdown

LEMMA InitCache == Init => CacheInv
<1> SUFFICES ASSUME Init PROVE CacheInv
  OBVIOUS
<1>1. PhaseInv
  BY DEF Init, PhaseInv, Idle, NoChildren, NoneLeft, NoFlush, FlushOver, Warmers
<1>2. StoredInv
  <2>1. \A r \in Stored : spelling[r] \in Queries /\ RowOf[spelling[r]] = r
    BY SeedAssumption DEF Init, Stored
  <2>2. \A p \in Prefixes :
          cache[p] = Miss /\ \A w \in Warmers : child[w][p] = "none"
    BY DEF Init, NoChildren
  <2> QED  BY <2>1, <2>2 DEF StoredInv
<1>3. MissingIsPending
  BY DEF Init, MissingIsPending, Started
<1> QED  BY <1>1, <1>2, <1>3, InitType DEF CacheInv

LEMMA NextPhase == CacheInv /\ [Next]_vars => PhaseInv'
<1> SUFFICES ASSUME CacheInv, [Next]_vars PROVE PhaseInv'
  OBVIOUS
<1> USE DEF CacheInv, PhaseInv, NoneLeft
<1>1. CASE Launch
  <2>1. /\ phase' = "starting" /\ task = Idle /\ flush' = flush
        /\ Warm("startup", KeysOfAll(StoredQueries))
    BY <1>1 DEF Launch
  <2> QED  BY <1>1, <2>1, ChildrenAfterWarm DEF Launch, Idle, NoChildren, Warmers
<1>2. ASSUME NEW w \in Warmers, NEW p \in Prefixes, Load(w, p) \/ Store(w, p)
      PROVE  PhaseInv'
  BY <1>2, ChildAfterStep DEF Idle, NoChildren
<1>3. ASSUME ProcessEnds PROVE PhaseInv'
  BY <1>3 DEF ProcessEnds, Idle, NoChildren, NoFlush, FlushOver, Warmers
<1>4. ASSUME NEW w \in Warmers, NEW p \in Prefixes, ChildFails(w, p), ~ProcessEnds
      PROVE  PhaseInv'
  <2>1. /\ w # "startup" /\ task'[w] = "failed" /\ child[w][p] # "none"
        /\ \A x \in Warmers \ {w} : task'[x] = task[x] /\ child'[x] = child[x]
        /\ UNCHANGED <<phase, flush>>
    BY <1>4, ChildAfterFailure
  <2>2. phase \in {"up", "stopping"} /\ task[w] \notin {"rest", "flushing"}
    BY <2>1 DEF Idle, NoChildren, TypeOK, Warmers
  <2> QED  BY <2>1, <2>2 DEF Warmers
<1>5. ASSUME NEW w \in Warmers, WarmDone(w) PROVE PhaseInv'
  BY <1>5 DEF WarmDone, TypeOK, Idle, Warmers
<1>6. ASSUME NEW batch \in Batches, Increment(batch) PROVE PhaseInv'
  <2>1. phase = "up" /\ phase' = "up" /\ flush' = flush /\ Warm("worker", KeysOfAll(batch))
    BY <1>6 DEF Increment
  <2> QED  BY <2>1, ChildrenAfterWarm DEF Warmers
<1>7. CASE ApplyDecay
  BY <1>7 DEF ApplyDecay, TypeOK, Warmers
<1>8. ASSUME NEW n \in Nodes, ScanNode(n) \/ DeleteKeys(n) PROVE PhaseInv'
  <2>1. UNCHANGED <<phase, task, child>> /\ task["decay"] = "flushing"
    BY <1>8 DEF ScanNode, DeleteKeys, warming
  <2> QED  BY <2>1
<1>9. CASE WarmAll
  <2>1. UNCHANGED <<phase, flush>> /\ Warm("decay", KeysOfAll(StoredQueries))
    BY <1>9 DEF WarmAll
  <2>2. task["decay"] = "flushing" /\ \A n \in Nodes : flush[n].st = "done"
    BY <1>9 DEF WarmAll, Flushed
  <2>3. phase \in {"up", "stopping"}
    BY <2>2 DEF Idle, TypeOK, Warmers
  <2> QED  BY <2>1, <2>2, <2>3, ChildrenAfterWarm DEF Warmers
<1>10. ASSUME NEW w \in Warmers, TaskFails(w) PROVE PhaseInv'
  <2>1. /\ phase = "up" /\ task' = [task EXCEPT ![w] = "failed"]
        /\ UNCHANGED <<phase, child, flush>> /\ w # "startup"
    BY <1>10, TasksAssumption DEF TaskFails
  <2>2. \A n \in Nodes : flush[n].st # "done" => w # "decay"
    BY <1>10 DEF TaskFails, Flushed
  <2> QED  BY <2>1, <2>2 DEF TypeOK, Warmers
<1>11. CASE Shutdown
  <2>1. /\ phase' = "stopping" /\ flush' = NoFlush
        /\ \A x \in Warmers \ {"worker"} :
              /\ task'[x] = Cancelled(task, Idle)[x]
              /\ child'[x] = Cancelled(child, NoChildren)[x]
        /\ \/ /\ task'["worker"] = Cancelled(task, Idle)["worker"]
              /\ child'["worker"] = Cancelled(child, NoChildren)["worker"]
           \/ task'["worker"] = "warming"
    BY <1>11, AfterShutdown
  <2>2. task["startup"] # "failed"
    BY <1>11 DEF Shutdown
  <2>3. \A x \in Warmers :
            /\ Cancelled(task, Idle)[x] \in {"rest", "failed"}
            /\ Cancelled(task, Idle)[x] = "rest" =>
                  \A p \in Prefixes : Cancelled(child, NoChildren)[x][p] = "none"
    BY DEF Cancelled, Idle, NoChildren
  <2>4. task'["startup"] = "rest"
    BY <2>1, <2>2 DEF Cancelled, Idle, Warmers
  <2>5. \A n \in Nodes : flush'[n].st = "done"
    BY <2>1 DEF NoFlush, FlushOver
  <2>6. \A x \in Warmers :
            /\ task'[x] \in {"rest", "failed", "warming"}
            /\ task'[x] = "rest" => \A p \in Prefixes : child'[x][p] = "none"
    BY <2>1, <2>3 DEF Warmers
  <2> QED  BY <2>1, <2>4, <2>5, <2>6
<1>12. CASE \/ \E p \in Prefixes : Expire(p)
            \/ \E n \in Nodes : NodeFails(n) \/ NodeReturns(n)
            \/ UNCHANGED vars
  BY <1>12 DEF Expire, NodeFails, NodeReturns, vars, table, warming
<1> QED
  BY <1>1, <1>2, <1>3, <1>4, <1>5, <1>6, <1>7, <1>8, <1>9, <1>10, <1>11, <1>12
     DEF Next, ChildStep, FlushStep, DecayStep, Exit, Crash

\* A step that leaves the table and the coroutines alone and at most removes
\* keys keeps what is stored in order.
LEMMA ShrinkStored ==
    ASSUME StoredInv, UNCHANGED <<spelling, count>>,
           \A p \in Prefixes : cache'[p] \in {Miss, cache[p]},
           \A w \in Warmers, p \in Prefixes :
               child'[w][p] # "none" => child[w][p] # "none" \/ Hits(p) # {}
    PROVE  StoredInv'
  BY SameTable DEF StoredInv

LEMMA NextStored == CacheInv /\ [Next]_vars => StoredInv'
<1> SUFFICES ASSUME CacheInv, [Next]_vars PROVE StoredInv'
  OBVIOUS
<1> USE DEF CacheInv
<1>1. CASE Launch \/ WarmAll
  <2>1. UNCHANGED <<spelling, count, cache>>
    BY <1>1 DEF Launch, WarmAll, table
  <2>2. PICK w \in Warmers : Warm(w, KeysOfAll(StoredQueries))
    BY <1>1 DEF Launch, WarmAll, Warmers
  <2>3. \A x \in Warmers, p \in Prefixes :
            child'[x][p] # "none" => child[x][p] # "none" \/ Hits(p) # {}
    BY <2>2, ChildrenAfterWarm, StoredKeys
  <2> QED  BY <2>1, <2>3, ShrinkStored
<1>2. ASSUME NEW w \in Warmers, NEW p \in Prefixes, Load(w, p) \/ Store(w, p)
      PROVE  StoredInv'
  <2>1. /\ child[w][p] # "none" /\ UNCHANGED <<spelling, count>>
        /\ \A y \in Prefixes \ {p} : cache'[y] = cache[y]
        /\ \A x \in Warmers, y \in Prefixes :
              child'[x][y] # "none" => child[x][y] # "none"
    BY <1>2, ChildAfterStep
  <2>2. Hits(p) # {}
    BY <2>1 DEF StoredInv
  <2> QED  BY <2>1, <2>2, SameTable DEF StoredInv
<1>3. ASSUME ProcessEnds PROVE StoredInv'
  <2>1. child' = NoChildren /\ UNCHANGED <<spelling, count, cache>>
    BY <1>3 DEF ProcessEnds, table
  <2> QED  BY <2>1, ShrinkStored DEF NoChildren
<1>4. ASSUME NEW w \in Warmers, NEW p \in Prefixes, ChildFails(w, p), ~ProcessEnds
      PROVE  StoredInv'
  <2>1. /\ UNCHANGED <<spelling, count, cache>>
        /\ \A x \in Warmers, y \in Prefixes : child'[x][y] \in {"none", child[x][y]}
    BY <1>4, ChildAfterFailure
  <2> QED  BY <2>1, ShrinkStored
<1>5. ASSUME NEW batch \in Batches, Increment(batch) PROVE StoredInv'
  <2>1. cache' = cache /\ Write(batch) /\ Warm("worker", KeysOfAll(batch))
    BY <1>5 DEF Increment
  <2>2. \A x \in Warmers, p \in Prefixes :
            child'[x][p] # "none" => child[x][p] # "none" \/ p \in KeysOfAll(batch)
    BY <2>1, ChildrenAfterWarm DEF Warmers
  <2> QED  BY <2>1, <2>2, WriteRows DEF StoredInv
<1>6. CASE ApplyDecay
  <2>1. UNCHANGED <<spelling, cache, child>>
    BY <1>6 DEF ApplyDecay
  <2>2. Stored' = Stored /\ \A p \in Prefixes : Hits(p)' = Hits(p)
    BY <2>1 DEF Stored, Hits
  <2> QED  BY <2>1, <2>2 DEF StoredInv
<1>7. CASE Shutdown
  <2>1. /\ cache' = cache
        /\ \A x \in Warmers \ {"worker"} : child'[x] = Cancelled(child, NoChildren)[x]
        /\ \/ /\ child' = Cancelled(child, NoChildren)
              /\ UNCHANGED <<spelling, count>>
           \/ \E batch \in Batches :
                 Write(batch) /\ child'["worker"] = Children(KeysOfAll(batch))
    BY <1>7, AfterShutdown
  <2>2. \A x \in Warmers, p \in Prefixes :
            Cancelled(child, NoChildren)[x][p] # "none" => child[x][p] # "none"
    BY DEF Cancelled, NoChildren
  <2>3. CASE child' = Cancelled(child, NoChildren) /\ UNCHANGED <<spelling, count>>
    BY <2>1, <2>2, <2>3, ShrinkStored
  <2>4. ASSUME NEW batch \in Batches, Write(batch),
               child'["worker"] = Children(KeysOfAll(batch))
        PROVE  StoredInv'
    <3>1. \A x \in Warmers, p \in Prefixes :
              child'[x][p] # "none" => child[x][p] # "none" \/ p \in KeysOfAll(batch)
      BY <2>1, <2>2, <2>4 DEF Children, Warmers
    <3> QED  BY <2>1, <2>4, <3>1, WriteRows DEF StoredInv
  <2> QED  BY <2>1, <2>3, <2>4
<1>8. ASSUME UNCHANGED <<spelling, count, child>>,
             \A p \in Prefixes : cache'[p] \in {Miss, cache[p]}
      PROVE  StoredInv'
  BY <1>8, ShrinkStored
<1>9. ASSUME NEW w \in Warmers, WarmDone(w) \/ TaskFails(w) PROVE StoredInv'
  BY <1>8, <1>9 DEF WarmDone, TaskFails, table
<1>10. ASSUME NEW n \in Nodes,
              ScanNode(n) \/ DeleteKeys(n) \/ NodeFails(n) \/ NodeReturns(n)
       PROVE  StoredInv'
  BY <1>8, <1>10
     DEF ScanNode, DeleteKeys, NodeFails, NodeReturns, table, warming, TypeOK
<1>11. ASSUME NEW p \in Prefixes, Expire(p) PROVE StoredInv'
  BY <1>8, <1>11 DEF Expire, table, warming, TypeOK
<1>12. CASE UNCHANGED vars
  BY <1>8, <1>12 DEF vars, table, warming
<1> QED
  BY <1>1, <1>2, <1>3, <1>4, <1>5, <1>6, <1>7, <1>9, <1>10, <1>11, <1>12
     DEF Next, ChildStep, FlushStep, DecayStep, Exit, Crash

\* A step that leaves the table alone, removes no key that does not count as
\* gone, and keeps what is pending.
LEMMA KeepMissing ==
    ASSUME MissingIsPending, Started' /\ NoneFailed' => Started /\ NoneFailed,
           StoredQueries' = StoredQueries,
           \A p \in KeysOfAll(StoredQueries) :
               \/ cache'[p] = cache[p] /\ (p \in gone => p \in gone') /\ (Pending(p) => Pending(p)')
               \/ cache'[p] # Miss \/ p \in gone' \/ Pending(p)'
    PROVE  MissingIsPending'
  BY DEF MissingIsPending, KeysOfAll

LEMMA NextMissing == CacheInv /\ [Next]_vars => MissingIsPending'
<1> SUFFICES ASSUME CacheInv, [Next]_vars PROVE MissingIsPending'
  OBVIOUS
<1> USE DEF CacheInv
<1>0. \A p \in KeysOfAll(StoredQueries) : p \in Prefixes
  BY StoredKeys
<1>1. CASE Launch \/ WarmAll
  <2>1. UNCHANGED <<spelling, count>>
    BY <1>1 DEF Launch, WarmAll, table
  <2>2. PICK w \in Warmers : Warm(w, KeysOfAll(StoredQueries))
    BY <1>1 DEF Launch, WarmAll, Warmers
  <2>3. \A p \in KeysOfAll(StoredQueries) : child'[w][p] = "loading"
    BY <1>0, <2>2, ChildrenAfterWarm
  <2>4. KeysOfAll(StoredQueries)' = KeysOfAll(StoredQueries)
    BY <2>1, SameTable DEF KeysOfAll
  <2> QED  BY <2>3, <2>4 DEF MissingIsPending, Pending
<1>2. ASSUME NEW w \in Warmers, NEW p \in Prefixes, Load(w, p) \/ Store(w, p)
      PROVE  MissingIsPending'
  <2>1. /\ \A x \in Warmers, y \in Prefixes :
              x # w \/ y # p => child'[x][y] = child[x][y]
        /\ Load(w, p) => child'[w][p] = "storing" /\ cache' = cache /\ gone' = gone
        /\ Store(w, p) => cache'[p] = {loaded[w][p]}
        /\ \A y \in Prefixes \ {p} : cache'[y] = cache[y] /\ (y \in gone' <=> y \in gone)
        /\ UNCHANGED <<phase, spelling, count, task>>
    BY <1>2, ChildAfterStep
  <2>2. \A y \in Prefixes \ {p} : Pending(y) => Pending(y)'
    BY <2>1 DEF Pending
  <2>3. CASE Load(w, p)
    <3>1. Pending(p)'
      BY <2>1, <2>3 DEF Pending
    <3> QED  BY <1>0, <2>1, <2>2, <3>1, SameTable, KeepMissing DEF Started, NoneFailed
  <2>4. CASE Store(w, p)
    <3>1. cache'[p] # Miss
      BY <2>1, <2>4 DEF Miss
    <3> QED  BY <1>0, <2>1, <2>2, <3>1, SameTable, KeepMissing DEF Started, NoneFailed
  <2> QED  BY <1>2, <2>3, <2>4
<1>3. CASE ProcessEnds \/ Shutdown
  BY <1>3 DEF ProcessEnds, Shutdown, MissingIsPending, Started
<1>4. ASSUME NEW w \in Warmers, NEW p \in Prefixes, ChildFails(w, p), ~ProcessEnds
      PROVE  MissingIsPending'
  BY <1>4, ChildAfterFailure DEF MissingIsPending, NoneFailed
<1>5. ASSUME NEW w \in Warmers, WarmDone(w) PROVE MissingIsPending'
  <2>1. UNCHANGED <<spelling, count, cache, gone, child>>
    BY <1>5 DEF WarmDone, table
  <2>2. Started' /\ NoneFailed' => Started /\ NoneFailed
    BY <1>5 DEF WarmDone, Started, NoneFailed, PhaseInv, TypeOK, Idle, Warmers
  <2>3. task["decay"] = "flushing" => task'["decay"] = "flushing"
    BY <1>5 DEF WarmDone, TypeOK, Warmers
  <2> QED  BY <2>1, <2>2, <2>3, SameTable, KeepMissing DEF Pending
<1>6. ASSUME NEW batch \in Batches, Increment(batch) PROVE MissingIsPending'
  <2>1. /\ UNCHANGED <<phase, cache, gone>> /\ Write(batch) /\ phase = "up"
        /\ task["worker"] = "rest" /\ Warm("worker", KeysOfAll(batch))
    BY <1>6 DEF Increment
  <2>2. /\ \A p \in Prefixes :
              child'["worker"][p] = IF p \in KeysOfAll(batch) THEN "loading" ELSE "none"
        /\ \A x \in Warmers \ {"worker"} : child'[x] = child[x] /\ task'[x] = task[x]
        /\ task'["worker"] = "warming"
    BY <2>1, ChildrenAfterWarm DEF Warmers
  <2>3. \A p \in KeysOfAll(batch) : p \in Prefixes
    BY MappingAssumption DEF KeysOfAll, Batches
  <2>4. \A p \in KeysOfAll(batch) : Pending(p)'
    BY <2>2, <2>3 DEF Pending, Warmers
  <2>5. \A p \in KeysOfAll(StoredQueries) : Pending(p) => Pending(p)'
    <3>1. \A p \in Prefixes : child["worker"][p] = "none"
      BY <2>1 DEF PhaseInv, NoneLeft, Warmers
    <3> QED  BY <1>0, <2>2, <3>1 DEF Pending, Warmers
  <2>6. NoneFailed' => NoneFailed
    BY <2>1, <2>2 DEF NoneFailed
  <2>7. KeysOfAll(StoredQueries)' \subseteq KeysOfAll(StoredQueries) \cup KeysOfAll(batch)
    BY <2>1, WriteRows
  <2> QED
    BY <2>1, <2>4, <2>5, <2>6, <2>7 DEF MissingIsPending, Started
<1>7. CASE ApplyDecay
  <2>1. task'["decay"] = "flushing"
    BY <1>7 DEF ApplyDecay, TypeOK, Warmers
  <2> QED  BY <2>1 DEF MissingIsPending, Pending
<1>8. ASSUME UNCHANGED <<phase, spelling, count, task, child>>,
             \A p \in Prefixes :
                 \/ cache'[p] = cache[p] /\ (p \in gone => p \in gone')
                 \/ p \in gone' \/ task["decay"] = "flushing"
      PROVE  MissingIsPending'
  BY <1>0, <1>8, SameTable, KeepMissing DEF Started, NoneFailed, Pending
<1>9. ASSUME NEW n \in Nodes, ScanNode(n) \/ DeleteKeys(n) PROVE MissingIsPending'
  <2>1. task["decay"] = "flushing"
    BY <1>9 DEF ScanNode, DeleteKeys, PhaseInv
  <2> QED  BY <1>8, <1>9, <2>1 DEF ScanNode, DeleteKeys, table, warming
<1>10. ASSUME NEW n \in Nodes, NodeFails(n) \/ NodeReturns(n) PROVE MissingIsPending'
  BY <1>8, <1>10 DEF NodeFails, NodeReturns, table, warming, TypeOK, KeysOn, PlacesOn
<1>11. ASSUME NEW p \in Prefixes, Expire(p) PROVE MissingIsPending'
  BY <1>8, <1>11 DEF Expire, table, warming, TypeOK
<1>12. ASSUME NEW w \in Warmers, TaskFails(w) PROVE MissingIsPending'
  BY <1>12 DEF TaskFails, TypeOK, MissingIsPending, NoneFailed
<1>13. CASE UNCHANGED vars
  BY <1>8, <1>13 DEF vars, table, warming
<1> QED
  BY <1>1, <1>2, <1>3, <1>4, <1>5, <1>6, <1>7, <1>9, <1>10, <1>11, <1>12, <1>13
     DEF Next, ChildStep, FlushStep, DecayStep, Exit, Crash

LEMMA NextCache == CacheInv /\ [Next]_vars => CacheInv'
  BY NextType, NextPhase, NextStored, NextMissing DEF CacheInv

\* No warm leaves a stored query without one of its keys, however the warms,
\* the deletes of the decay cycle, failures, a shutdown, a crash and a restart
\* interleave, unless the key expired or its node lost it.
THEOREM KeysPresentCorrect == Spec => []KeysPresentWhenQuiet
<1>1. CacheInv => KeysPresentWhenQuiet
  <2> SUFFICES ASSUME CacheInv, Quiet, NEW p \in KeysOfAll(StoredQueries)
               PROVE  cache[p] # Miss \/ p \in gone
    BY DEF KeysPresentWhenQuiet
  <2>1. p \in Prefixes
    BY StoredKeys DEF CacheInv
  <2>2. Started /\ NoneFailed /\ ~Pending(p)
    BY <2>1 DEF Quiet, Started, NoneFailed, Pending, NoneLeft, Warmers
  <2> QED  BY <2>2 DEF CacheInv, MissingIsPending
<1> QED  BY InitCache, NextCache, <1>1, PTL DEF Spec

-----------------------------------------------------------------------------
(* Freshness, while queries are spelled in one way.                        *)

\* Unless the table overtook a warm, coroutines carry the database's answer.
CarriesFresh ==
    ~raced => \A w \in Warmers, p \in Prefixes :
                  child[w][p] = "storing" => loaded[w][p] \in Answers(p)

\* Unless the table overtook a warm or a task has died, a stale key is about to
\* be overwritten.
StaleIsPending ==
    Started /\ NoneFailed /\ ~raced => \A p \in Prefixes : Stale(p) => Pending(p)

FreshInv == CacheInv /\ CarriesFresh /\ StaleIsPending

LEMMA InitFresh == Init => FreshInv
<1> SUFFICES ASSUME Init PROVE FreshInv
  OBVIOUS
<1>1. CarriesFresh /\ StaleIsPending
  BY DEF Init, CarriesFresh, StaleIsPending, NoChildren, Started
<1> QED  BY <1>1, InitCache DEF FreshInv

\* An answer depends on the rows that match the prefix only.
LEMMA SameRows ==
    ASSUME NEW p \in Prefixes,
           \A r \in Rows : p \in MatchedBy[r] =>
               spelling'[r] = spelling[r] /\ count'[r] = count[r]
    PROVE  Answers(p)' = Answers(p)
<1>1. Hits(p)' = Hits(p)
  BY DEF Hits, Stored
<1>2. \A r \in Hits(p) : count'[r] = count[r]
  BY DEF Hits, Stored
<1>3. Top(p)' = Top(p)
  BY <1>1, <1>2 DEF Top, Leading
<1>4. \A best \in Top(p) : {<<r, count'[r]>> : r \in best} = {<<r, count[r]>> : r \in best}
  BY <1>2 DEF Top, Leading
<1>5. Answers(p)' = {{<<r, count'[r]>> : r \in best} : best \in Top(p)'}
  BY DEF Answers
<1> QED  BY <1>3, <1>4, <1>5 DEF Answers

\* A batch leaves the answers of all prefixes it does not warm as they were.
LEMMA WriteAnswers ==
    ASSUME TypeOK, OneSpelling, StoredInv, NEW batch \in Batches, Write(batch),
           NEW p \in Prefixes \ KeysOfAll(batch)
    PROVE  Answers(p)' = Answers(p)
<1>1. ASSUME NEW r \in Rows, p \in MatchedBy[r]
      PROVE  spelling'[r] = spelling[r] /\ count'[r] = count[r]
  <2>1. {q \in batch : RowOf[q] = r} = {}
    BY <1>1 DEF KeysOfAll, OneSpelling, Batches
  <2> QED  BY <2>1, WriteRows
<1> QED  BY <1>1, SameRows

\* A prefix that matches a stored row is among the keys of the stored queries.
LEMMA MatchedKeys ==
    ASSUME OneSpelling, StoredInv, NEW p \in Prefixes, Hits(p) # {}
    PROVE  p \in KeysOfAll(StoredQueries)
<1>1. \A r \in Stored : KeysOf[spelling[r]] = MatchedBy[r]
  BY DEF StoredInv, OneSpelling
<1> QED  BY <1>1 DEF Hits, KeysOfAll, StoredQueries

\* Steps that leave the table and what is pending alone, and change a cached
\* value only to nothing.
LEMMA KeepFresh ==
    ASSUME CarriesFresh, StaleIsPending, UNCHANGED <<spelling, count>>,
           raced' = raced,
           Started' /\ NoneFailed' => Started /\ NoneFailed,
           \A p \in Prefixes : cache'[p] \in {Miss, cache[p]},
           \A p \in Prefixes : Pending(p) => Pending(p)',
           \A w \in Warmers, p \in Prefixes :
               child'[w][p] = "storing" =>
                   child[w][p] = "storing" /\ loaded'[w][p] = loaded[w][p]
    PROVE  CarriesFresh' /\ StaleIsPending'
<1>1. \A p \in Prefixes : Answers(p)' = Answers(p)
  BY SameTable
<1>2. \A p \in Prefixes : Stale(p)' => Stale(p)
  BY <1>1 DEF Stale, Miss
<1> QED  BY <1>1, <1>2 DEF CarriesFresh, StaleIsPending

LEMMA NextFresh ==
    ASSUME OneSpelling
    PROVE  FreshInv /\ [Next]_vars => FreshInv'
<1> SUFFICES ASSUME FreshInv, [Next]_vars PROVE CarriesFresh' /\ StaleIsPending'
  BY NextCache DEF FreshInv
<1> USE DEF FreshInv, CacheInv
<1>1. CASE Launch
  <2>1. /\ phase = "down" /\ UNCHANGED <<spelling, count, cache>> /\ child = NoChildren
        /\ Warm("startup", KeysOfAll(StoredQueries))
    BY <1>1 DEF Launch, PhaseInv, table
  <2>2. /\ \A p \in Prefixes : p \in KeysOfAll(StoredQueries) =>
                 child'["startup"][p] = "loading"
        /\ \A x \in Warmers, p \in Prefixes : child'[x][p] # "storing"
    BY <2>1, ChildrenAfterWarm DEF NoChildren, Warmers
  <2>3. \A p \in Prefixes : Stale(p)' => p \in KeysOfAll(StoredQueries)
    <3>1. \A p \in Prefixes : Stale(p)' => cache[p] # Miss
      BY <2>1 DEF Stale, Miss
    <3> QED  BY <3>1, MatchedKeys DEF StoredInv
  <2> QED  BY <2>2, <2>3 DEF CarriesFresh, StaleIsPending, Pending, Warmers
<1>2. CASE WarmAll
  <2>1. /\ UNCHANGED <<phase, spelling, count, cache>> /\ task["decay"] = "flushing"
        /\ Warm("decay", KeysOfAll(StoredQueries))
    BY <1>2 DEF WarmAll, table
  <2>2. raced' = raced
    BY <1>2 DEF WarmAll
  <2>3. /\ \A p \in Prefixes : p \in KeysOfAll(StoredQueries) =>
                 child'["decay"][p] = "loading"
        /\ \A x \in Warmers, p \in Prefixes :
              child'[x][p] = "storing" => child[x][p] = "storing"
        /\ loaded' = loaded
    BY <2>1, ChildrenAfterWarm DEF Warmers
  <2>4. \A p \in Prefixes : Stale(p)' => p \in KeysOfAll(StoredQueries)
    <3>1. \A p \in Prefixes : Stale(p)' => cache[p] # Miss
      BY <2>1 DEF Stale, Miss
    <3> QED  BY <3>1, MatchedKeys DEF StoredInv
  <2>5. \A p \in Prefixes : Answers(p)' = Answers(p)
    BY <2>1, SameTable
  <2>6. CarriesFresh'
    BY <2>2, <2>3, <2>5 DEF CarriesFresh
  <2> QED  BY <2>3, <2>4, <2>6 DEF StaleIsPending, Pending, Warmers
<1>3. ASSUME NEW w \in Warmers, NEW p \in Prefixes, Load(w, p) \/ Store(w, p)
      PROVE  CarriesFresh' /\ StaleIsPending'
  <2>1. /\ \A x \in Warmers, y \in Prefixes :
              x # w \/ y # p => child'[x][y] = child[x][y] /\ loaded'[x][y] = loaded[x][y]
        /\ Load(w, p) => child'[w][p] = "storing" /\ loaded'[w][p] \in Answers(p)
        /\ Store(w, p) => child[w][p] = "storing" /\ child'[w][p] = "none"
        /\ Store(w, p) => cache'[p] = {loaded[w][p]}
        /\ \A y \in Prefixes \ {p} : cache'[y] = cache[y]
        /\ UNCHANGED <<phase, spelling, count, task>>
        /\ raced' = raced
    BY <1>3, ChildAfterStep
  <2>2. \A y \in Prefixes : Answers(y)' = Answers(y)
    BY <2>1, SameTable
  <2>3. CarriesFresh'
    BY <1>3, <2>1, <2>2 DEF CarriesFresh
  <2>4. StaleIsPending'
    <3> SUFFICES ASSUME Started, NoneFailed, ~raced, NEW y \in Prefixes, Stale(y)'
                 PROVE  Pending(y)'
      BY <2>1 DEF StaleIsPending, Started, NoneFailed
    <3>1. CASE y # p
      <4>1. Stale(y)
        BY <2>1, <2>2, <3>1 DEF Stale
      <4> QED  BY <2>1, <3>1, <4>1 DEF StaleIsPending, Pending
    <3>2. CASE y = p /\ Load(w, p)
      BY <2>1, <3>2 DEF Pending
    <3>3. CASE y = p /\ Store(w, p)
      <4>1. loaded[w][p] \in Answers(p)
        BY <2>1, <3>3 DEF CarriesFresh
      <4> QED  BY <2>1, <2>2, <3>3, <4>1 DEF Stale
    <3> QED  BY <1>3, <3>1, <3>2, <3>3
  <2> QED  BY <2>3, <2>4
<1>4. ASSUME ProcessEnds PROVE CarriesFresh' /\ StaleIsPending'
  BY <1>4 DEF ProcessEnds, CarriesFresh, StaleIsPending, NoChildren, Started
<1>5. ASSUME NEW w \in Warmers, NEW p \in Prefixes, ChildFails(w, p), ~ProcessEnds
      PROVE  CarriesFresh' /\ StaleIsPending'
  <2>1. /\ task'[w] = "failed" /\ UNCHANGED <<spelling, count>> /\ raced' = raced
        /\ \A x \in Warmers, y \in Prefixes :
              /\ child'[x][y] \in {"none", child[x][y]}
              /\ child'[x][y] # "none" => loaded'[x][y] = loaded[x][y]
    BY <1>5, ChildAfterFailure
  <2>2. CarriesFresh'
    BY <2>1, SameTable DEF CarriesFresh
  <2> QED  BY <2>1, <2>2 DEF StaleIsPending, NoneFailed
<1>6. ASSUME NEW w \in Warmers, WarmDone(w) PROVE CarriesFresh' /\ StaleIsPending'
  <2>1. UNCHANGED <<spelling, count, cache, child, loaded>> /\ raced' = raced
    BY <1>6 DEF WarmDone, table
  <2>2. Started' /\ NoneFailed' => Started /\ NoneFailed
    BY <1>6 DEF WarmDone, Started, NoneFailed, PhaseInv, TypeOK, Idle, Warmers
  <2>3. task["decay"] = "flushing" => task'["decay"] = "flushing"
    BY <1>6 DEF WarmDone, TypeOK, Warmers
  <2> QED  BY <2>1, <2>2, <2>3, KeepFresh DEF Pending
<1>7. ASSUME NEW batch \in Batches, Increment(batch)
      PROVE  CarriesFresh' /\ StaleIsPending'
  <2>1. /\ UNCHANGED <<phase, cache>> /\ Write(batch) /\ phase = "up"
        /\ task["worker"] = "rest" /\ Warm("worker", KeysOfAll(batch))
    BY <1>7 DEF Increment
  <2>2. /\ \A p \in Prefixes :
              child'["worker"][p] = IF p \in KeysOfAll(batch) THEN "loading" ELSE "none"
        /\ \A x \in Warmers \ {"worker"} : child'[x] = child[x] /\ task'[x] = task[x]
        /\ task'["worker"] = "warming"
    BY <2>1, ChildrenAfterWarm DEF Warmers
  <2>3. raced' = (raced \/ AnswerHeld)
    BY <2>1 DEF Write
  <2>4. CarriesFresh' /\ (~raced' => ~raced)
    BY <2>2, <2>3 DEF CarriesFresh, AnswerHeld, Warmers
  <2>5. StaleIsPending'
    <3> SUFFICES ASSUME NoneFailed, ~raced, NEW p \in Prefixes, Stale(p)'
                 PROVE  Pending(p)'
      BY <2>1, <2>2, <2>4 DEF StaleIsPending, NoneFailed
    <3>1. CASE p \in KeysOfAll(batch)
      BY <2>2, <3>1 DEF Pending, Warmers
    <3>2. CASE p \notin KeysOfAll(batch)
      <4>1. Stale(p)
        BY <2>1, <3>2, WriteAnswers DEF Stale
      <4>2. Pending(p)
        BY <2>1, <4>1 DEF StaleIsPending, Started
      <4>3. child["worker"][p] = "none"
        BY <2>1 DEF PhaseInv, NoneLeft, Warmers
      <4> QED  BY <2>2, <4>2, <4>3 DEF Pending, Warmers
    <3> QED  BY <3>1, <3>2
  <2> QED  BY <2>4, <2>5
<1>8. CASE ApplyDecay
  <2>1. task'["decay"] = "flushing"
    BY <1>8 DEF ApplyDecay, TypeOK, Warmers
  <2>2. child' = child /\ raced' = (raced \/ AnswerHeld)
    BY <1>8 DEF ApplyDecay
  <2>3. CarriesFresh'
    BY <2>2 DEF CarriesFresh, AnswerHeld
  <2> QED  BY <2>1, <2>3 DEF StaleIsPending, Pending
<1>9. CASE Shutdown
  <2>1. StaleIsPending'
    BY <1>9 DEF Shutdown, StaleIsPending, Started
  <2>2. CASE child' = Cancelled(child, NoChildren) /\ UNCHANGED <<spelling, count>>
             /\ raced' = raced
    <3>1. \A x \in Warmers, p \in Prefixes :
              child'[x][p] = "storing" =>
                  child[x][p] = "storing" /\ loaded'[x][p] = loaded[x][p]
      BY <1>9, <2>2 DEF Shutdown, Cancelled, NoChildren
    <3> QED  BY <2>1, <2>2, <3>1, SameTable DEF CarriesFresh
  <2>3. ASSUME NEW batch \in Batches, Write(batch),
               child'["worker"] = Children(KeysOfAll(batch)),
               \A x \in Warmers \ {"worker"} : child'[x] = Cancelled(child, NoChildren)[x]
        PROVE  CarriesFresh'
    <3>1. \A x \in Warmers, p \in Prefixes :
              child'[x][p] = "storing" => child[x][p] = "storing"
      BY <2>3 DEF Cancelled, NoChildren, Children
    <3>2. raced' = (raced \/ AnswerHeld)
      BY <2>3 DEF Write
    <3> QED  BY <3>1, <3>2 DEF CarriesFresh, AnswerHeld
  <2> QED  BY <1>9, <2>1, <2>2, <2>3, AfterShutdown
<1>10. ASSUME UNCHANGED <<phase, spelling, count, task, child, loaded>>, raced' = raced,
              \A p \in Prefixes : cache'[p] \in {Miss, cache[p]}
       PROVE  CarriesFresh' /\ StaleIsPending'
  BY <1>10, KeepFresh DEF Pending, Started, NoneFailed
<1>11. ASSUME NEW n \in Nodes, ScanNode(n) \/ DeleteKeys(n)
       PROVE  CarriesFresh' /\ StaleIsPending'
  BY <1>10, <1>11 DEF ScanNode, DeleteKeys, table, warming, TypeOK
<1>12. ASSUME NEW n \in Nodes, NodeFails(n) \/ NodeReturns(n)
       PROVE  CarriesFresh' /\ StaleIsPending'
  BY <1>10, <1>12 DEF NodeFails, NodeReturns, table, warming, TypeOK
<1>13. ASSUME NEW p \in Prefixes, Expire(p) PROVE CarriesFresh' /\ StaleIsPending'
  BY <1>10, <1>13 DEF Expire, table, warming, TypeOK
<1>14. ASSUME NEW w \in Warmers, TaskFails(w) PROVE CarriesFresh' /\ StaleIsPending'
  <2>1. UNCHANGED <<spelling, count, child, loaded>> /\ raced' = raced /\ task'[w] = "failed"
    BY <1>14 DEF TaskFails, table, TypeOK
  <2> QED  BY <2>1, SameTable DEF CarriesFresh, StaleIsPending, NoneFailed
<1>15. CASE UNCHANGED vars
  BY <1>10, <1>15 DEF vars, table, warming
<1> QED
  BY <1>1, <1>2, <1>3, <1>4, <1>5, <1>6, <1>7, <1>8, <1>9, <1>11, <1>12, <1>13,
     <1>14, <1>15
     DEF Next, ChildStep, FlushStep, DecayStep, Exit, Crash

\* While queries are spelled in one way and the table never overtakes a warm,
\* /suggest serves no outdated answer once the warms have ended, whatever
\* failed, expired, was stopped or killed before.
THEOREM FreshUnlessRacedCorrect == Spec => []FreshUnlessRaced
<1>1. CASE OneSpelling
  <2>1. FreshInv => FreshUnlessRaced
    BY DEF FreshInv, StaleIsPending, FreshUnlessRaced, Quiet, NoneLeft, Started,
           NoneFailed, Pending, Warmers
  <2>2. FreshInv /\ [Next]_vars => FreshInv'
    BY <1>1, NextFresh
  <2> QED  BY InitFresh, <2>1, <2>2, PTL DEF Spec
<1>2. CASE ~OneSpelling
  <2>1. FreshUnlessRaced
    BY <1>2 DEF FreshUnlessRaced
  <2> QED  BY <2>1, PTL
<1> QED  BY <1>1, <1>2

-----------------------------------------------------------------------------
(* One warmer alone never races: the worker adds to the table only when    *)
(* the answers of its last flush are stored.                               *)

AloneInv ==
    /\ task["decay"] = "rest"
    /\ Started => ~raced

LEMMA NextAlone ==
    ASSUME "decay" \notin Tasks
    PROVE  CacheInv /\ AloneInv /\ [Next]_vars => AloneInv'
<1> SUFFICES ASSUME CacheInv, AloneInv, [Next]_vars PROVE AloneInv'
  OBVIOUS
<1> USE DEF AloneInv, CacheInv
<1>1. CASE Launch
  <2>1. phase = "down" /\ ~raced' /\ Warm("startup", KeysOfAll(StoredQueries))
    BY <1>1 DEF Launch
  <2> QED  BY <2>1, ChildrenAfterWarm DEF Warmers
<1>2. ASSUME NEW batch \in Batches, Increment(batch) PROVE AloneInv'
  <2>1. /\ phase = "up" /\ phase' = phase /\ task["worker"] = "rest"
        /\ Warm("worker", KeysOfAll(batch))
    BY <1>2 DEF Increment
  <2>2. ~AnswerHeld
    <3>1. \A w \in Warmers : task[w] = "rest"
      BY <2>1 DEF PhaseInv, Warmers
    <3> QED  BY <3>1 DEF PhaseInv, NoneLeft, AnswerHeld
  <2>3. raced' = (raced \/ AnswerHeld)
    BY <1>2 DEF Increment, Write
  <2>4. task'["decay"] = "rest"
    BY <2>1, ChildrenAfterWarm DEF Warmers
  <2>5. ~raced'
    BY <2>1, <2>2, <2>3 DEF Started
  <2> QED  BY <2>4, <2>5
<1>3. CASE ApplyDecay \/ WarmAll
  BY <1>3 DEF ApplyDecay, WarmAll
<1>4. ASSUME NEW w \in Warmers, NEW p \in Prefixes, Load(w, p) \/ Store(w, p)
      PROVE  AloneInv'
  BY <1>4, ChildAfterStep DEF Started
<1>5. ASSUME ProcessEnds PROVE AloneInv'
  <2>1. task' = Idle /\ phase' = "down"
    BY <1>5 DEF ProcessEnds
  <2> QED  BY <2>1 DEF Idle, Warmers, Started
<1>6. ASSUME NEW w \in Warmers, NEW p \in Prefixes, ChildFails(w, p), ~ProcessEnds
      PROVE  AloneInv'
  <2>1. w # "decay"
    BY <1>6 DEF PhaseInv, NoneLeft, ChildFails
  <2>2. task'["decay"] = task["decay"] /\ phase' = phase
    BY <1>6, <2>1, ChildAfterFailure DEF Warmers
  <2>3. raced' = raced
    BY <1>6, ChildAfterFailure
  <2> QED  BY <2>2, <2>3 DEF Started
<1>7. ASSUME NEW w \in Warmers, WarmDone(w) PROVE AloneInv'
  <2>1. raced' = raced
    BY <1>7 DEF WarmDone
  <2>2. task'["decay"] = "rest"
    BY <1>7 DEF WarmDone, TypeOK, Warmers
  <2>3. Started' => Started
    BY <1>7 DEF WarmDone, Started, PhaseInv, TypeOK, Idle, Warmers
  <2> QED  BY <2>1, <2>2, <2>3
<1>8. ASSUME NEW w \in Warmers, TaskFails(w) PROVE AloneInv'
  <2>1. w # "decay"
    BY <1>8 DEF TaskFails
  <2>2. task'["decay"] = task["decay"] /\ phase' = phase
    BY <1>8, <2>1 DEF TaskFails, TypeOK, Warmers
  <2>3. raced' = raced
    BY <1>8 DEF TaskFails
  <2> QED  BY <2>2, <2>3 DEF Started
<1>9. CASE Shutdown
  <2>1. task'["decay"] = "rest"
    BY <1>9, AfterShutdown DEF Cancelled, Idle, Warmers
  <2>2. ~Started'
    BY <1>9, AfterShutdown DEF Started
  <2> QED  BY <2>1, <2>2
<1>10. ASSUME UNCHANGED <<phase, task>>, raced' = raced PROVE AloneInv'
  BY <1>10 DEF Started
<1>11. ASSUME NEW n \in Nodes,
              ScanNode(n) \/ DeleteKeys(n) \/ NodeFails(n) \/ NodeReturns(n)
       PROVE  AloneInv'
  BY <1>10, <1>11 DEF ScanNode, DeleteKeys, NodeFails, NodeReturns, warming
<1>12. ASSUME NEW p \in Prefixes, Expire(p) PROVE AloneInv'
  BY <1>10, <1>12 DEF Expire, warming
<1>13. CASE UNCHANGED vars
  BY <1>10, <1>13 DEF vars, warming
<1> QED
  BY <1>1, <1>2, <1>3, <1>4, <1>5, <1>6, <1>7, <1>8, <1>9, <1>11, <1>12, <1>13
     DEF Next, ChildStep, FlushStep, DecayStep, Exit, Crash

\* Without the decay task, and while queries are spelled in one way, /suggest
\* serves the database's answers once the worker's warm has ended: the race is
\* one of the worker with the decay cycle, not of a flush with the next.
THEOREM FreshWithOneWarmer ==
    ASSUME OneSpelling, "decay" \notin Tasks
    PROVE  Spec => []FreshWhenQuiet
<1>1. Init => FreshInv /\ AloneInv
  BY InitFresh DEF Init, AloneInv, Idle, Warmers, Started
<1>2. FreshInv /\ AloneInv /\ [Next]_vars => (FreshInv /\ AloneInv)'
  BY NextFresh, NextAlone DEF FreshInv
<1>3. FreshInv /\ AloneInv => FreshWhenQuiet
  BY DEF FreshInv, AloneInv, StaleIsPending, FreshWhenQuiet, Quiet, NoneLeft, Started,
         NoneFailed, Pending, Warmers
<1> QED  BY <1>1, <1>2, <1>3, PTL DEF Spec

-----------------------------------------------------------------------------
(* What /trending lists, /suggest returns.                                 *)

\* Of two rankings by the same counts, one of which ranks among more rows above
\* the row r, the other cannot leave r out for rows that all count more.
LEMMA LeadersShared ==
    ASSUME TypeOK, NEW above \in SUBSET Rows, NEW rows \in Leading(above), NEW r \in rows,
           NEW hits \in SUBSET Rows, NEW best \in Leading(hits), r \in hits,
           \A s \in hits : count[s] > count[r] => s \in above
    PROVE  \E s \in best : count[s] = count[r]
<1> SUFFICES ASSUME \A s \in best : count[s] # count[r] PROVE FALSE
  OBVIOUS
<1>1. /\ IsFiniteSet(hits) /\ IsFiniteSet(rows) /\ IsFiniteSet(best) /\ IsFiniteSet(above)
      /\ best \subseteq hits /\ rows \subseteq above
  BY RowsAssumption, FS_Subset DEF Leading
<1>2. /\ Cardinality(hits) \in Nat /\ Cardinality(rows) \in Nat
      /\ Cardinality(best) \in Nat /\ Cardinality(above) \in Nat
  BY <1>1, FS_CardinalityType
<1>3. r \notin best
  OBVIOUS
<1>4. \A s \in best : count[s] > count[r]
  <2> TAKE s \in best
  <2>1. count[r] <= count[s]
    BY <1>3 DEF Leading
  <2>2. count[r] \in Nat /\ count[s] \in Nat /\ count[s] # count[r]
    BY <1>1 DEF TypeOK
  <2> QED  BY <2>1, <2>2
<1>5. best \subseteq rows \ {r}
  <2> SUFFICES ASSUME NEW s \in best, s \notin rows PROVE FALSE
    BY <1>3
  <2>1. s \in above
    BY <1>1, <1>4
  <2>2. count[s] <= count[r]
    BY <2>1 DEF Leading
  <2> QED  BY <1>1, <1>4, <2>2 DEF TypeOK
<1>6. Cardinality(best) < Cardinality(rows)
  <2>1. Cardinality(rows \ {r}) = Cardinality(rows) - 1
    BY <1>1, FS_RemoveElement
  <2>2. IsFiniteSet(rows \ {r})
    BY <1>1, FS_Subset
  <2>3. Cardinality(best) <= Cardinality(rows \ {r})
    BY <1>5, <2>2, FS_Subset
  <2>4. Cardinality(rows \ {r}) \in Nat
    BY <2>2, FS_CardinalityType
  <2> QED  BY <1>2, <2>1, <2>3, <2>4
<1>7. Cardinality(rows) <= Limit
  BY <1>2, LimitAssumption DEF Leading
<1>8. Cardinality(best) = Cardinality(hits)
  BY <1>2, <1>6, <1>7, LimitAssumption DEF Leading
<1>9. best = hits
  BY <1>1, <1>8, FS_Subset
<1> QED  BY <1>3, <1>9

\* While queries are spelled in one way and the table never overtakes a warm,
\* every trending query, or one that ties with it, is among what /suggest
\* returns for each of its prefixes once the warms have ended: no answer is
\* stale, and none is missing that was not lost since it was stored.
THEOREM TrendingIsSuggestedCorrect == Spec => []TrendingIsSuggested
<1>1. CacheInv /\ FreshUnlessRaced /\ KeysPresentWhenQuiet => TrendingIsSuggested
  <2> SUFFICES ASSUME CacheInv, FreshUnlessRaced, KeysPresentWhenQuiet,
                      OneSpelling, ~raced, Quiet,
                      NEW p \in Prefixes, NEW rows \in Trending, NEW r \in rows,
                      p \in MatchedBy[r], p \notin gone
               PROVE  \E answer \in cache[p], s \in Rows : <<s, count[r]>> \in answer
    BY DEF TrendingIsSuggested
  <2> DEFINE above == {s \in Stored : count[s] > 0}
  <2>1. rows \in Leading(above) /\ above \subseteq Rows /\ Hits(p) \subseteq Rows
    BY DEF Trending, Stored, Hits
  <2>2. r \in above /\ r \in Hits(p)
    BY <2>1 DEF Leading, Hits
  <2>3. p \in KeysOfAll(StoredQueries)
    <3>1. r \in Stored /\ spelling[r] \in Queries /\ RowOf[spelling[r]] = r
      BY <2>2 DEF CacheInv, StoredInv
    <3>2. p \in KeysOf[spelling[r]]
      BY <3>1 DEF OneSpelling
    <3> QED  BY <3>1, <3>2 DEF KeysOfAll, StoredQueries
  <2>4. PICK answer \in cache[p] : TRUE
    BY <2>3 DEF KeysPresentWhenQuiet, Miss
  <2>5. answer \in Answers(p)
    BY <2>4 DEF FreshUnlessRaced, Stale
  <2>6. PICK best \in Leading(Hits(p)) : answer = {<<s, count[s]>> : s \in best}
    BY <2>5 DEF Answers, Top
  <2>7. \A s \in Hits(p) : count[s] > count[r] => s \in above
    BY <2>1, <2>2 DEF Hits, Stored, CacheInv, TypeOK
  <2>8. \E s \in best : count[s] = count[r]
    <3>1. TypeOK
      BY DEF CacheInv
    <3> HIDE DEF above
    <3> QED  BY <2>1, <2>2, <2>6, <2>7, <3>1, LeadersShared
  <2>9. best \subseteq Rows
    BY <2>1, <2>6 DEF Leading
  <2> QED  BY <2>4, <2>6, <2>8, <2>9
<1>2. Spec => []CacheInv
  BY InitCache, NextCache, PTL DEF Spec
<1> QED  BY <1>1, <1>2, FreshUnlessRacedCorrect, KeysPresentCorrect, PTL

-----------------------------------------------------------------------------
(* The cache implements AnswerCache.                                       *)

HeldFor(p) == {loaded[w][p] : w \in {x \in Warmers : child[x][p] = "storing"}}

LEMMA HeldIs ==
    /\ Held = [p \in Prefixes |-> HeldFor(p)]
    /\ Held' = [p \in Prefixes |-> HeldFor(p)']
  BY DEF Held, HeldFor

LEMMA SomethingHeld == AnswerHeld <=> \E p \in Prefixes : Held[p] # {}
  BY DEF AnswerHeld, Held

\* The table is as it was.
LEMMA SameCurrent ==
    ASSUME UNCHANGED <<spelling, count>>
    PROVE  Current' = Current
<1>1. \A p \in Prefixes : Answers(p)' = Answers(p)
  BY SameTable
<1>2. Current' = [p \in Prefixes |-> Answers(p)']
  BY DEF Current
<1> QED  BY <1>1, <1>2 DEF Current

\* No coroutine comes to hold an answer.
LEMMA HoldersEnd ==
    ASSUME \A w \in Warmers, p \in Prefixes :
               child'[w][p] = "storing" =>
                   child[w][p] = "storing" /\ loaded'[w][p] = loaded[w][p]
    PROVE  Abstract!Fewer
<1>1. \A p \in Prefixes : HeldFor(p)' \subseteq HeldFor(p)
  BY DEF HeldFor
<1>2. DOMAIN Held' = Prefixes /\ \A p \in Prefixes : Held'[p] \subseteq Held[p]
  BY <1>1, HeldIs
<1> QED  BY <1>2 DEF Abstract!Fewer

\* The coroutines hold what they held.
LEMMA HoldersStay ==
    ASSUME \A w \in Warmers, p \in Prefixes :
               /\ child'[w][p] = "storing" <=> child[w][p] = "storing"
               /\ child[w][p] = "storing" => loaded'[w][p] = loaded[w][p]
    PROVE  Held' = Held
<1>1. \A p \in Prefixes : HeldFor(p)' = HeldFor(p)
  BY DEF HeldFor
<1> QED  BY <1>1, HeldIs

\* Steps of the environment and of the deletes.
LEMMA ForgetStep ==
    ASSUME TypeOK, UNCHANGED <<spelling, count, child, loaded, raced>>,
           \A p \in Prefixes : cache'[p] \in {Miss, cache[p]},
           TypeOK'
    PROVE  Abstract!Next
<1> DEFINE keys == {p \in Prefixes : cache'[p] = Miss}
<1>1. Current' = Current /\ Held' = Held
  BY SameCurrent, HoldersStay
<1>2. \A p \in Prefixes : cache'[p] = IF p \in keys THEN {} ELSE cache[p]
  BY DEF Miss
<1>3. cache' \in [Prefixes -> SUBSET AnswerSet]
  BY DEF TypeOK
<1>4. cache' = [p \in Prefixes |-> IF p \in keys THEN {} ELSE cache[p]]
  BY <1>2, <1>3
<1>5. keys \in SUBSET Prefixes
  OBVIOUS
<1> HIDE DEF keys
<1> QED  BY <1>1, <1>4, <1>5 DEF Abstract!Next, Abstract!Forget

LEMMA EndStep ==
    ASSUME ProcessEnds
    PROVE  Abstract!Next
<1>1. \A w \in Warmers, p \in Prefixes : child'[w][p] # "storing"
  BY DEF ProcessEnds, NoChildren
<1>2. Abstract!Fewer
  BY <1>1, HoldersEnd
<1>3. Current' = Current /\ UNCHANGED <<cache, raced>>
  BY SameCurrent DEF ProcessEnds, table
<1> QED  BY <1>2, <1>3 DEF Abstract!Next, Abstract!GiveUp

LEMMA ReadStep ==
    ASSUME TypeOK, NEW w \in Warmers, NEW p \in Prefixes, Load(w, p)
    PROVE  Abstract!Next
<1>1. /\ \A x \in Warmers, y \in Prefixes :
            x # w \/ y # p => child'[x][y] = child[x][y] /\ loaded'[x][y] = loaded[x][y]
      /\ child'[w][p] = "storing" /\ loaded'[w][p] \in Answers(p)
      /\ cache' = cache /\ raced' = raced /\ UNCHANGED <<spelling, count>>
  BY ChildAfterStep
<1>2. child[w][p] # "storing"
  BY DEF Load
<1>3. \A y \in Prefixes \ {p} : HeldFor(y)' = HeldFor(y)
  BY <1>1 DEF HeldFor
<1>4. HeldFor(p)' = HeldFor(p) \cup {loaded'[w][p]}
  BY <1>1, <1>2 DEF HeldFor
<1>5. Held' = [Held EXCEPT ![p] = @ \cup {loaded'[w][p]}]
  BY <1>3, <1>4, HeldIs
<1>6. loaded'[w][p] \in Current[p]
  BY <1>1 DEF Current
<1>7. Current' = Current
  BY <1>1, SameCurrent
<1>8. Abstract!Read(p)
  BY <1>1, <1>5, <1>6, <1>7 DEF Abstract!Read
<1> QED  BY <1>8 DEF Abstract!Next

LEMMA StoreStep ==
    ASSUME TypeOK, NEW w \in Warmers, NEW p \in Prefixes, Store(w, p)
    PROVE  Abstract!Next
<1> DEFINE answer == loaded[w][p]
<1>1. /\ \A x \in Warmers, y \in Prefixes :
            x # w \/ y # p => child'[x][y] = child[x][y] /\ loaded'[x][y] = loaded[x][y]
      /\ child[w][p] = "storing" /\ child'[w][p] = "none"
      /\ raced' = raced /\ UNCHANGED <<spelling, count>>
  BY ChildAfterStep
<1>2. cache' = [cache EXCEPT ![p] = {answer}]
  BY DEF Store
<1>3. \A y \in Prefixes \ {p} : HeldFor(y)' = HeldFor(y)
  BY <1>1 DEF HeldFor
<1>4. answer \in HeldFor(p)
  BY <1>1 DEF HeldFor
<1>5. HeldFor(p)' \in {HeldFor(p), HeldFor(p) \ {answer}}
  <2>1. HeldFor(p)' = {loaded[x][p] : x \in {y \in Warmers \ {w} : child[y][p] = "storing"}}
    BY <1>1 DEF HeldFor
  <2>2. HeldFor(p) = HeldFor(p)' \cup {answer}
    BY <1>1, <2>1 DEF HeldFor
  <2> QED  BY <2>2
<1> HIDE DEF answer
<1>6. Held' \in {Held, [Held EXCEPT ![p] = @ \ {answer}]}
  <2>1. CASE HeldFor(p)' = HeldFor(p)
    BY <1>3, <2>1, HeldIs
  <2>2. CASE HeldFor(p)' = HeldFor(p) \ {answer}
    BY <1>3, <2>2, HeldIs
  <2> QED  BY <1>5, <2>1, <2>2
<1>7. answer \in Held[p]
  BY <1>4, HeldIs
<1>8. Current' = Current
  BY <1>1, SameCurrent
<1>9. Abstract!Store(p)
  BY <1>1, <1>2, <1>6, <1>7, <1>8 DEF Abstract!Store
<1> QED  BY <1>9 DEF Abstract!Next

\* Every step of the process is one of AnswerCache, or of no concern to it.
LEMMA AbstractStep ==
    ASSUME CacheInv, [Next]_vars
    PROVE  Abstract!Next \/ UNCHANGED <<Current, Held, cache, raced>>
<1> USE DEF CacheInv
<1>0. TypeOK'
  BY NextType
<1>1. CASE Launch
  <2>1. /\ child = NoChildren /\ UNCHANGED <<spelling, count, cache>> /\ raced' = FALSE
        /\ Warm("startup", KeysOfAll(StoredQueries))
    BY <1>1 DEF Launch, PhaseInv, table
  <2>2. \A x \in Warmers, p \in Prefixes : child[x][p] # "storing" /\ child'[x][p] # "storing"
    BY <2>1, ChildrenAfterWarm DEF NoChildren, Warmers
  <2>3. (\A p \in Prefixes : Held[p] = {}) /\ Held' = Held /\ Current' = Current
    BY <2>1, <2>2, HoldersStay, SameCurrent, SomethingHeld DEF AnswerHeld
  <2> QED  BY <2>1, <2>3 DEF Abstract!Next, Abstract!Restart
<1>2. ASSUME NEW w \in Warmers, NEW p \in Prefixes, Load(w, p) \/ Store(w, p) \/ ChildFails(w, p)
      PROVE  Abstract!Next
  <2>1. CASE Load(w, p)
    BY <2>1, ReadStep
  <2>2. CASE Store(w, p)
    BY <2>2, StoreStep
  <2>3. CASE ProcessEnds
    BY <2>3, EndStep
  <2>4. CASE /\ \A x \in Warmers \ {w} : task'[x] = task[x] /\ child'[x] = child[x]
             /\ \A x \in Warmers, y \in Prefixes :
                   /\ child'[x][y] \in {"none", child[x][y]}
                   /\ child'[x][y] # "none" => loaded'[x][y] = loaded[x][y]
             /\ UNCHANGED <<phase, spelling, count, cache, gone, flush>>
             /\ raced' = raced
    <3>1. Abstract!Fewer /\ Current' = Current
      BY <2>4, HoldersEnd, SameCurrent
    <3> QED  BY <2>4, <3>1 DEF Abstract!Next, Abstract!GiveUp
  <2> QED  BY <1>2, <2>1, <2>2, <2>3, <2>4, ChildAfterFailure
<1>3. ASSUME NEW w \in Warmers, WarmDone(w) \/ TaskFails(w)
      PROVE  UNCHANGED <<Current, Held, cache, raced>>
  <2>1. UNCHANGED <<spelling, count, child, loaded, cache, raced>>
    BY <1>3 DEF WarmDone, TaskFails, table
  <2> QED  BY <2>1, SameCurrent, HoldersStay
<1>4. ASSUME NEW batch \in Batches, Increment(batch)
      PROVE  Abstract!Next
  <2>1. /\ Warm("worker", KeysOfAll(batch)) /\ raced' = (raced \/ AnswerHeld)
        /\ cache' = cache /\ task["worker"] = "rest"
    BY <1>4 DEF Increment, Write
  <2>2. \A x \in Warmers, p \in Prefixes :
           child'[x][p] = "storing" => child[x][p] = "storing" /\ loaded'[x][p] = loaded[x][p]
    BY <2>1, ChildrenAfterWarm DEF Warmers
  <2>3. Abstract!Change
    BY <2>1, <2>2, HoldersEnd, SomethingHeld DEF Abstract!Change
  <2> QED  BY <2>3 DEF Abstract!Next
<1>5. CASE ApplyDecay
  <2>1. UNCHANGED <<child, loaded, cache>> /\ raced' = (raced \/ AnswerHeld)
    BY <1>5 DEF ApplyDecay
  <2>2. Abstract!Change
    BY <2>1, HoldersEnd, SomethingHeld DEF Abstract!Change
  <2> QED  BY <2>2 DEF Abstract!Next
<1>6. CASE WarmAll
  <2>1. /\ Warm("decay", KeysOfAll(StoredQueries)) /\ task["decay"] = "flushing"
        /\ UNCHANGED <<spelling, count, cache, raced>>
    BY <1>6 DEF WarmAll, table
  <2>2. \A p \in Prefixes : child["decay"][p] = "none"
    BY <2>1 DEF PhaseInv, NoneLeft, Warmers
  <2>3. \A x \in Warmers, p \in Prefixes :
           /\ child'[x][p] = "storing" <=> child[x][p] = "storing"
           /\ loaded'[x][p] = loaded[x][p]
    BY <2>1, <2>2, ChildrenAfterWarm DEF Warmers
  <2> QED  BY <2>1, <2>3, HoldersStay, SameCurrent
<1>7. CASE Shutdown
  <2>1. loaded' = Cancelled(loaded, NothingLoaded) /\ cache' = cache
    BY <1>7 DEF Shutdown
  <2>2. CASE child' = Cancelled(child, NoChildren) /\ UNCHANGED <<spelling, count>>
             /\ raced' = raced
    <3>1. \A x \in Warmers, p \in Prefixes :
             child'[x][p] = "storing" => child[x][p] = "storing" /\ loaded'[x][p] = loaded[x][p]
      BY <2>1, <2>2 DEF Cancelled, NoChildren
    <3>2. Abstract!GiveUp
      BY <2>1, <2>2, <3>1, HoldersEnd, SameCurrent DEF Abstract!GiveUp
    <3> QED  BY <3>2 DEF Abstract!Next
  <2>3. ASSUME NEW batch \in Batches, Write(batch),
               child'["worker"] = Children(KeysOfAll(batch)),
               \A x \in Warmers \ {"worker"} : child'[x] = Cancelled(child, NoChildren)[x]
        PROVE  Abstract!Next
    <3>1. \A x \in Warmers, p \in Prefixes :
             child'[x][p] = "storing" => child[x][p] = "storing" /\ loaded'[x][p] = loaded[x][p]
      BY <2>1, <2>3 DEF Cancelled, NoChildren, Children
    <3>2. raced' = (raced \/ AnswerHeld)
      BY <2>3 DEF Write
    <3>3. Abstract!Change
      BY <2>1, <3>1, <3>2, HoldersEnd, SomethingHeld DEF Abstract!Change
    <3> QED  BY <3>3 DEF Abstract!Next
  <2> QED  BY <1>7, <2>2, <2>3, AfterShutdown
<1>8. CASE Exit \/ Crash
  BY <1>8, EndStep DEF Exit, Crash
<1>9. ASSUME NEW n \in Nodes, ScanNode(n) \/ DeleteKeys(n) \/ NodeFails(n) \/ NodeReturns(n)
      PROVE  Abstract!Next
  BY <1>0, <1>9, ForgetStep
     DEF ScanNode, DeleteKeys, NodeFails, NodeReturns, table, warming, TypeOK
<1>10. ASSUME NEW p \in Prefixes, Expire(p) PROVE Abstract!Next
  BY <1>0, <1>10, ForgetStep DEF Expire, table, warming, TypeOK
<1>11. CASE UNCHANGED vars
  <2>1. UNCHANGED <<spelling, count, child, loaded, cache, raced>>
    BY <1>11 DEF vars, table, warming
  <2> QED  BY <2>1, SameCurrent, HoldersStay
<1> QED
  BY <1>1, <1>2, <1>3, <1>4, <1>5, <1>6, <1>7, <1>8, <1>9, <1>10, <1>11
     DEF Next, ChildStep, FlushStep, DecayStep

\* Over any flushes, decay cycles, failures, stops, kills and restarts, a warm
\* stores under a key what the database answered for this key to a coroutine
\* of the running process, and the table overtakes none unless raced says so.
THEOREM ImplementsAnswerCache == Spec => AnswerCacheSpec
<1>1. Init => Abstract!Init
  <2> SUFFICES ASSUME Init PROVE Abstract!Init
    OBVIOUS
  <2>1. \A p \in Prefixes : HeldFor(p) = {}
    BY DEF Init, NoChildren, HeldFor
  <2>2. Held = [p \in Prefixes |-> {}]
    BY <2>1, HeldIs
  <2> QED  BY <2>2 DEF Init, Abstract!Init, Miss
<1>2. CacheInv /\ [Next]_vars => [Abstract!Next]_(Abstract!cacheVars)
  <2> SUFFICES ASSUME CacheInv, [Next]_vars
               PROVE  Abstract!Next \/ UNCHANGED <<Current, Held, cache, raced>>
    BY DEF Abstract!cacheVars
  <2> QED  BY AbstractStep
<1>3. Spec => []CacheInv
  BY InitCache, NextCache, PTL DEF Spec
<1> QED  BY <1>1, <1>2, <1>3, PTL DEF Spec, AnswerCacheSpec, Abstract!Spec

=============================================================================
