---------------------------- MODULE PrefixCache ----------------------------
(***************************************************************************)
(* The suggestion cache: what is stored under each prefix in the Redis     *)
(* nodes, the SQLite table it is computed from, and the tasks that warm    *)
(* it: the startup of the process, the batch worker after each flush, and  *)
(* the decay scheduler.  GET /suggest answers with what the cache holds    *)
(* and never asks the database, so all its correctness lies here.          *)
(*                                                                         *)
(* A warm is a fan-out of one coroutine per prefix; each loads its answer  *)
(* from the database in a thread and later stores it with a SET, and the   *)
(* coroutines of all tasks interleave freely at these two points.          *)
(*                                                                         *)
(* SQLite compares queries without case, Redis keys are compared exactly:  *)
(* RowOf gives the row a query is counted in, KeysOf the keys a task warms *)
(* for it (its prefixes, exactly as spelled), MatchedBy the keys whose     *)
(* answer the row can appear in.                                           *)
(***************************************************************************)
EXTENDS Naturals, FiniteSets, Functions

CONSTANTS
    Queries,     \* query strings
    Rows,        \* classes of queries that are equal without case
    Prefixes,    \* prefix strings, the cache keys without "suggest:"
    Nodes,       \* Redis nodes
    NodeOf,      \* prefix -> node, by the consistent hash ring
    RowOf,       \* query -> row
    KeysOf,      \* query -> its own prefixes
    MatchedBy,   \* row -> the prefixes that match it without case
    NoQuery,     \* spelling of a row that is not stored
    Limit,       \* SUGGESTION_LIMIT
    Seeds,       \* queries the table holds before the first start
    SeedCount,   \* and their count
    Tasks,       \* which background tasks run
    Faults,      \* which faults the environment may produce
    Fragile,     \* which Redis nodes may be down
    MaxWrites,   \* bound: batches committed in one behaviour
    MaxSearches, \* bound: searches counted in one batch
    MaxLaunches  \* bound: starts of the process in one behaviour

(* "expiry": a key reaches its TTL                                         *)
(* "db":     a call of database.py raises (locked database, full disk)     *)
(* "crash":  the process is killed                                         *)
FaultKinds == {"expiry", "db", "crash"}

Warmers == {"startup", "worker", "decay"}

ASSUME MappingAssumption ==
    /\ NodeOf \in [Prefixes -> Nodes]
    /\ RowOf \in [Queries -> Rows]
    /\ KeysOf \in [Queries -> SUBSET Prefixes]
    /\ MatchedBy \in [Rows -> SUBSET Prefixes]
    /\ \A q \in Queries : KeysOf[q] \subseteq MatchedBy[RowOf[q]]
ASSUME RowsAssumption == IsFiniteSet(Rows)
ASSUME NoQueryAssumption == NoQuery \notin Queries
ASSUME SeedAssumption ==
    /\ Seeds \subseteq Queries
    /\ \A q1, q2 \in Seeds : RowOf[q1] = RowOf[q2] => q1 = q2
    /\ SeedCount \in Nat
ASSUME LimitAssumption == Limit \in Nat \ {0}
ASSUME TasksAssumption == Tasks \subseteq {"worker", "decay"}
ASSUME FaultsAssumption == Faults \subseteq FaultKinds /\ Fragile \subseteq Nodes
ASSUME BoundsAssumption ==
    MaxWrites \in Nat /\ MaxSearches \in Nat /\ MaxLaunches \in Nat \ {0}

VARIABLES
    phase,     \* the process: "down", "starting" (lifespan before yield), "up",
               \* "stopping" (lifespan after yield)
    launches,  \* how often the process was started
    writes,    \* batches committed
    spelling,  \* query column of each row, NoQuery while it is not stored
    count,     \* count column
    cache,     \* {the value under the key} on the node the ring gives, or {}
    gone,      \* keys that expired or went with their node, and are not back
    nodeUp,    \* which Redis nodes answer
    task,      \* where each warmer is
    child,     \* its coroutine for each prefix: "none", "loading", "storing"
    loaded,    \* what that coroutine read from the database
    flush,     \* the decay task's SCAN and DELETE on each node
    raced      \* history: since the start of the process, the table changed
               \* while a coroutine held an answer it had not stored

table == <<spelling, count, writes>>
warming == <<task, child, loaded>>
vars == <<phase, launches, table, cache, gone, nodeUp, warming, flush, raced>>

-----------------------------------------------------------------------------
(* The database.                                                           *)

Stored == {r \in Rows : spelling[r] # NoQuery}

Hits(p) == {r \in Stored : p \in MatchedBy[r]}

\* ORDER BY count DESC LIMIT ?: ties are broken in an order of SQLite's own.
Leading(rows) ==
    {best \in SUBSET rows :
        /\ Cardinality(best) = IF Cardinality(rows) < Limit
                               THEN Cardinality(rows) ELSE Limit
        /\ \A r \in best, s \in rows \ best : count[s] <= count[r]}

\* MUTANT: the SELECT of the suggestions has lost its DESC.
TopAscending(p) ==
    {best \in SUBSET Hits(p) :
        /\ Cardinality(best) = IF Cardinality(Hits(p)) < Limit
                               THEN Cardinality(Hits(p)) ELSE Limit
        /\ \A r \in best, s \in Hits(p) \ best : count[s] >= count[r]}

Top(p) == Leading(Hits(p))

\* What get_suggestions_by_prefix can return now.
Answers(p) == {{<<r, count[r]>> : r \in best} : best \in Top(p)}

\* The rows get_trending_queries can return, by default as many as suggestions.
Trending == Leading({r \in Stored : count[r] > 0})

\* MUTANT: the prefixes of one query stand for those of the whole batch.
KeysOfFirst(queries) ==
    UNION {KeysOf[q] : q \in {x \in queries : x = CHOOSE y \in queries : TRUE}}

\* The keys warm_prefixes_for_queries warms for these queries.
KeysOfAll(queries) == UNION {KeysOf[q] : q \in queries}

\* MUTANT: get_all_queries leaves out rows that decayed to 0.
CountedQueries == {spelling[r] : r \in {s \in Stored : count[s] > 0}}

\* The queries get_all_queries returns.
StoredQueries == {spelling[r] : r \in Stored}

-----------------------------------------------------------------------------

Miss == {}

Idle == [w \in Warmers |-> "rest"]
NoChildren == [w \in Warmers |-> [p \in Prefixes |-> "none"]]
NothingLoaded == [w \in Warmers |-> [p \in Prefixes |-> {}]]
FlushOver == [st |-> "done", left |-> {}, keys |-> {}]
NoFlush == [n \in Nodes |-> FlushOver]

Children(prefixes) ==
    [p \in Prefixes |-> IF p \in prefixes THEN "loading" ELSE "none"]

\* gather(*(warm_prefix(p) for p in prefixes)) starts the coroutines of warmer
\* w.  Until they end the task w awaits them.
Warm(w, prefixes) ==
    /\ task' = [task EXCEPT ![w] = "warming"]
    /\ child' = [child EXCEPT ![w] = Children(prefixes)]
    /\ UNCHANGED loaded

Init ==
    /\ phase = "down"
    /\ launches = 0
    /\ writes = 0
    /\ spelling = [r \in Rows |->
                      IF \E q \in Seeds : RowOf[q] = r
                      THEN CHOOSE q \in Seeds : RowOf[q] = r ELSE NoQuery]
    /\ count = [r \in Rows |->
                   IF \E q \in Seeds : RowOf[q] = r THEN SeedCount ELSE 0]
    /\ cache = [p \in Prefixes |-> Miss]
    /\ gone = {}
    /\ nodeUp = [n \in Nodes |-> TRUE]
    /\ task = Idle
    /\ child = NoChildren
    /\ loaded = NothingLoaded
    /\ flush = NoFlush
    /\ raced = FALSE

(***************************************************************************)
(* The process starts: init_db keeps an existing table, connect only logs  *)
(* a failed ping, and warm_all_from_db must end before requests are        *)
(* served.  The Redis nodes may still hold keys of an earlier run.         *)
(***************************************************************************)
Launch ==
    /\ phase = "down"
    /\ launches < MaxLaunches
    /\ launches' = launches + 1
    /\ phase' = "starting"
    /\ gone' = {}
    /\ raced' = FALSE
    /\ Warm("startup", KeysOfAll(StoredQueries))
    /\ UNCHANGED <<table, cache, nodeUp, flush>>

\* The tasks end with the process; SQLite and Redis keep what they have.
ProcessEnds ==
    /\ phase' = "down"
    /\ task' = Idle
    /\ child' = NoChildren
    /\ loaded' = NothingLoaded
    /\ flush' = NoFlush
    /\ UNCHANGED <<launches, table, cache, gone, nodeUp, raced>>

-----------------------------------------------------------------------------
(* The coroutines of a warm.                                               *)

\* MUTANT: a SELECT that raises is taken for an empty answer.
LoadOrNothing(w, p) ==
    /\ child[w][p] = "loading"
    /\ child' = [child EXCEPT ![w][p] = "storing"]
    /\ \E answer \in Answers(p) \cup (IF "db" \in Faults THEN {{}} ELSE {}) :
          loaded' = [loaded EXCEPT ![w][p] = answer]
    /\ UNCHANGED <<phase, launches, table, cache, gone, nodeUp, task, flush, raced>>

\* The SELECT in the thread sees one committed state of the table.
Load(w, p) ==
    /\ child[w][p] = "loading"
    /\ child' = [child EXCEPT ![w][p] = "storing"]
    /\ \E answer \in Answers(p) : loaded' = [loaded EXCEPT ![w][p] = answer]
    /\ UNCHANGED <<phase, launches, table, cache, gone, nodeUp, task, flush, raced>>

Store(w, p) ==
    /\ child[w][p] = "storing"
    /\ nodeUp[NodeOf[p]]
    /\ cache' = [cache EXCEPT ![p] = {loaded[w][p]}]
    /\ gone' = gone \ {p}
    /\ child' = [child EXCEPT ![w][p] = "none"]
    /\ loaded' = [loaded EXCEPT ![w][p] = {}]
    /\ UNCHANGED <<phase, launches, table, nodeUp, task, flush, raced>>

(***************************************************************************)
(* A SELECT or a SET that raises.  The first raises out of gather and ends *)
(* the task; at startup, where get_all_queries may raise as well, it ends  *)
(* the process.  The other coroutines of the gather run on.                *)
(***************************************************************************)
ChildFails(w, p) ==
    /\ \/ child[w][p] = "loading" /\ "db" \in Faults
       \/ child[w][p] = "storing" /\ ~nodeUp[NodeOf[p]]
    /\ \/ w = "startup" /\ ProcessEnds
       \/ /\ w # "startup"
          /\ task' = [task EXCEPT ![w] = "failed"]
          /\ child' = [child EXCEPT ![w][p] = "none"]
          /\ loaded' = [loaded EXCEPT ![w][p] = {}]
          /\ UNCHANGED <<phase, launches, table, cache, gone, nodeUp, flush, raced>>

NoneLeft(w) == \A p \in Prefixes : child[w][p] = "none"

WarmDone(w) ==
    /\ task[w] = "warming"
    /\ NoneLeft(w)
    /\ task' = [task EXCEPT ![w] = "rest"]
    /\ phase' = IF w = "startup" THEN "up" ELSE phase
    /\ UNCHANGED <<launches, table, cache, gone, nodeUp, child, loaded, flush,
                   raced>>

-----------------------------------------------------------------------------
(***************************************************************************)
(* The batch worker's flush: one transaction adds the batch to the table.  *)
(* A conflict with a stored row that differs only in case updates that     *)
(* row and keeps its spelling; a new row takes the spelling inserted       *)
(* first.  Then every prefix of the batch's queries, as typed, is warmed.  *)
(***************************************************************************)
Inserted(batch) ==
    {names \in [Rows -> Queries \cup {NoQuery}] :
        \A r \in Rows :
            LET typed == {q \in batch : RowOf[q] = r}
            IN  IF spelling[r] # NoQuery \/ typed = {}
                THEN names[r] = spelling[r]
                ELSE names[r] \in typed}

\* What the dict's counts add to each row: at least one for each of its queries.
Amounts(batch) ==
    {amount \in [Rows -> 0 .. MaxSearches] :
        /\ FoldFunction(+, 0, amount) <= MaxSearches
        /\ \A r \in Rows :
              LET typed == {q \in batch : RowOf[q] = r}
              IN  IF typed = {} THEN amount[r] = 0
                  ELSE amount[r] >= Cardinality(typed)}

\* The keys of a dict that is flushed.
Batches == {batch \in SUBSET Queries : batch # {} /\ IsFiniteSet(batch)}

\* Some coroutine has read the table and not stored what it read.
AnswerHeld == \E w \in Warmers, p \in Prefixes : child[w][p] = "storing"

\* increment_counts commits the batch.
Write(batch) ==
    /\ writes < MaxWrites
    /\ writes' = writes + 1
    /\ spelling' \in Inserted(batch)
    /\ \E amount \in Amounts(batch) :
          count' = [r \in Rows |-> count[r] + amount[r]]
    /\ raced' = (raced \/ AnswerHeld)

Increment(batch) ==
    /\ phase = "up"
    /\ "worker" \in Tasks
    /\ task["worker"] = "rest"
    /\ Write(batch)
    /\ Warm("worker", KeysOfAll(batch))
    /\ UNCHANGED <<phase, launches, cache, gone, nodeUp, flush>>

-----------------------------------------------------------------------------
(* The decay cycle: decay the counts, delete every key, warm everything.   *)

\* MUTANT: every count goes down by one.
DecayedByOne(c) == c - 1

\* CAST(count * 0.9 AS INTEGER)
Decayed(c) == (9 * c) \div 10

\* The places of a node's key space that SCAN visits, one for each key.
PlacesOn(n) == {p \in Prefixes : NodeOf[p] = n}

ApplyDecay ==
    /\ phase = "up"
    /\ "decay" \in Tasks
    /\ task["decay"] = "rest"
    /\ count' = [r \in Rows |-> Decayed(count[r])]
    /\ task' = [task EXCEPT !["decay"] = "flushing"]
    /\ flush' = [n \in Nodes |-> [st |-> "scan", left |-> PlacesOn(n), keys |-> {}]]
    /\ raced' = (raced \/ AnswerHeld)
    /\ UNCHANGED <<phase, launches, spelling, writes, cache, gone, nodeUp, child,
                   loaded>>

KeysOn(n) == {p \in PlacesOn(n) : cache[p] # Miss}

\* A reply of SCAN leaves these places to visit and names these keys.
AfterReply(left, keys) ==
    [st |-> IF keys # {} THEN "delete" ELSE IF left # {} THEN "scan" ELSE "done",
     left |-> left, keys |-> keys]

\* A round of SCAN visits some places and returns the keys it finds there.  A
\* dead node ends its part of the flush, which is only logged.
ScanNode(n) ==
    /\ flush[n].st = "scan"
    /\ \/ /\ nodeUp[n]
          /\ \E part \in SUBSET flush[n].left :
                /\ part # {} \/ flush[n].left = {}
                /\ flush' = [flush EXCEPT ![n] =
                                AfterReply(flush[n].left \ part, part \cap KeysOn(n))]
       \/ /\ ~nodeUp[n]
          /\ flush' = [flush EXCEPT ![n] = FlushOver]
    /\ UNCHANGED <<phase, launches, table, cache, gone, nodeUp, warming, raced>>

DeleteKeys(n) ==
    /\ flush[n].st = "delete"
    /\ \/ /\ nodeUp[n]
          /\ cache' = [p \in Prefixes |-> IF p \in flush[n].keys THEN Miss ELSE cache[p]]
          /\ flush' = [flush EXCEPT ![n] = AfterReply(flush[n].left, {})]
       \/ /\ ~nodeUp[n]
          /\ cache' = cache
          /\ flush' = [flush EXCEPT ![n] = FlushOver]
    /\ UNCHANGED <<phase, launches, table, gone, nodeUp, warming, raced>>

\* MUTANT: the warm does not wait for the deletes.
FlushNotAwaited == TRUE

Flushed == \A n \in Nodes : flush[n].st = "done"

\* warm_all_from_db at its read of the queries.  Its coroutines start later,
\* like any coroutine whose thread has not read yet; a query committed in
\* between is warmed by the worker that committed it.
WarmAll ==
    /\ task["decay"] = "flushing"
    /\ Flushed
    /\ gone' = {}
    /\ Warm("decay", KeysOfAll(StoredQueries))
    /\ UNCHANGED <<phase, launches, table, cache, nodeUp, flush, raced>>

\* increment_counts, apply_decay or get_all_queries raises in a task, and
\* nothing in the task catches it.
TaskFails(w) ==
    /\ "db" \in Faults
    /\ phase = "up"
    /\ \/ w \in Tasks /\ task[w] = "rest"
       \/ task[w] = "flushing" /\ Flushed
    /\ task' = [task EXCEPT ![w] = "failed"]
    /\ UNCHANGED <<phase, launches, table, cache, gone, nodeUp, child, loaded,
                   flush, raced>>

-----------------------------------------------------------------------------
(* Shutdown.                                                               *)

\* Cancelling a task that awaits a gather cancels its coroutines; those of a
\* task that failed earlier run on.
Cancelled(running, none) ==
    [w \in Warmers |-> IF task[w] = "failed" THEN running[w] ELSE none[w]]

\* The lifespan cancels the tasks.  The worker's handler may have a last batch
\* to write and to warm.  The bound leaves out stops that nothing could follow.
Shutdown ==
    /\ phase = "up"
    /\ launches < MaxLaunches
    /\ phase' = "stopping"
    /\ flush' = NoFlush
    /\ loaded' = Cancelled(loaded, NothingLoaded)
    /\ \/ /\ task' = Cancelled(task, Idle)
          /\ child' = Cancelled(child, NoChildren)
          /\ UNCHANGED <<table, raced>>
       \/ \E batch \in Batches :
             /\ "worker" \in Tasks
             /\ task["worker"] # "failed"
             /\ Write(batch)
             /\ task' = [Cancelled(task, Idle) EXCEPT !["worker"] = "warming"]
             /\ child' = [Cancelled(child, NoChildren) EXCEPT !["worker"] =
                             Children(KeysOfAll(batch))]
    /\ UNCHANGED <<launches, cache, gone, nodeUp>>

\* The worker has ended, the lifespan closes the Redis clients and returns.
Exit ==
    /\ phase = "stopping"
    /\ task["worker"] # "warming"
    /\ ProcessEnds

-----------------------------------------------------------------------------
(* The environment.                                                        *)

Expire(p) ==
    /\ "expiry" \in Faults
    /\ cache[p] # Miss
    /\ cache' = [cache EXCEPT ![p] = Miss]
    /\ gone' = gone \cup {p}
    /\ UNCHANGED <<phase, launches, table, nodeUp, warming, flush, raced>>

NodeFails(n) ==
    /\ n \in Fragile
    /\ nodeUp[n]
    /\ nodeUp' = [nodeUp EXCEPT ![n] = FALSE]
    /\ UNCHANGED <<phase, launches, table, cache, gone, warming, flush, raced>>

\* A node returns with its append-only file, or with nothing.
NodeReturns(n) ==
    /\ ~nodeUp[n]
    /\ nodeUp' = [nodeUp EXCEPT ![n] = TRUE]
    /\ \/ UNCHANGED <<cache, gone>>
       \/ /\ cache' = [p \in Prefixes |-> IF NodeOf[p] = n THEN Miss ELSE cache[p]]
          /\ gone' = gone \cup KeysOn(n)
    /\ UNCHANGED <<phase, launches, table, warming, flush, raced>>

\* The process dies anywhere.  The bound leaves out crashes that nothing could
\* follow.
Crash ==
    /\ "crash" \in Faults
    /\ phase # "down"
    /\ launches < MaxLaunches
    /\ ProcessEnds

-----------------------------------------------------------------------------

ChildStep(w) ==
    \E p \in Prefixes : Load(w, p) \/ Store(w, p) \/ ChildFails(w, p)

FlushStep == \E n \in Nodes : ScanNode(n) \/ DeleteKeys(n)

DecayStep == ApplyDecay \/ FlushStep \/ WarmAll

Next ==
    \/ Launch
    \/ \E w \in Warmers : ChildStep(w) \/ WarmDone(w) \/ TaskFails(w)
    \/ \E batch \in Batches : Increment(batch)
    \/ DecayStep
    \/ Shutdown
    \/ Exit
    \/ \E p \in Prefixes : Expire(p)
    \/ \E n \in Nodes : NodeFails(n) \/ NodeReturns(n)
    \/ Crash

Spec == Init /\ [][Next]_vars

\* The event loop and the executor run what is ready, for every task; the
\* decay interval elapses; the process is started, and ends once it stops.
\* Nobody need search or stop it, and nothing need fail or expire.
Fairness ==
    /\ WF_vars(Launch \/ Exit)
    /\ WF_vars(ChildStep("startup") \/ WarmDone("startup"))
    /\ WF_vars(ChildStep("worker") \/ WarmDone("worker"))
    /\ WF_vars(ChildStep("decay") \/ WarmDone("decay") \/ DecayStep)

FairSpec == Spec /\ Fairness

-----------------------------------------------------------------------------
(* Properties.                                                             *)

AnswerSet == SUBSET (Rows \X Nat)

\* Every variable keeps to the values the program can give it.
TypeOK ==
    /\ phase \in {"down", "starting", "up", "stopping"}
    /\ launches \in 0 .. MaxLaunches
    /\ writes \in 0 .. MaxWrites
    /\ spelling \in [Rows -> Queries \cup {NoQuery}]
    /\ count \in [Rows -> Nat]
    /\ cache \in [Prefixes -> SUBSET AnswerSet]
    /\ gone \subseteq Prefixes
    /\ nodeUp \in [Nodes -> BOOLEAN]
    /\ task \in [Warmers -> {"rest", "warming", "flushing", "failed"}]
    /\ child \in [Warmers -> [Prefixes -> {"none", "loading", "storing"}]]
    /\ loaded \in [Warmers -> [Prefixes -> AnswerSet]]
    /\ flush \in [Nodes -> [st : {"scan", "delete", "done"},
                         left : SUBSET Prefixes, keys : SUBSET Prefixes]]
    /\ raced \in BOOLEAN

\* The value under p is not what the database would answer.
Stale(p) == ~(cache[p] \subseteq Answers(p))

\* No two queries in use differ only in case: the keys a query warms are all
\* the keys its row is matched by.
OneSpelling == \A q \in Queries : KeysOf[q] = MatchedBy[RowOf[q]]

\* The process serves and no task has anything under way, or has died.
Quiet ==
    /\ phase = "up"
    /\ \A w \in Warmers : task[w] = "rest" /\ NoneLeft(w)

\* architecture.md, cache warming: a flush overwrites the affected keys, a
\* decay cycle rebuilds the cache from the decayed counts.  So with no warm
\* under way, what /suggest finds under a key is the database's answer,
\* whichever flushes, restarts, outages and expiries came before.
FreshWhenQuiet == Quiet => \A p \in Prefixes : ~Stale(p)

\* Only two things break FreshWhenQuiet, queries that differ only in case and a
\* table that changes while a coroutine holds an answer it has not stored.
\* Without them it holds, although flushes and decay cycles overlap, nodes miss
\* deletes and come back with old keys, calls fail, and the process is stopped
\* or killed anywhere and restarted.
FreshUnlessRaced ==
    OneSpelling /\ ~raced /\ Quiet => \A p \in Prefixes : ~Stale(p)

\* What /trending lists, /suggest returns: a trending query is in the answer
\* under each of its prefixes, with the same count, or one that ties with it,
\* and the answer is there to be found unless its key expired or its node lost
\* it: /suggest answers nothing for a missing key.
TrendingIsSuggested ==
    OneSpelling /\ ~raced /\ Quiet =>
        \A p \in Prefixes, rows \in Trending : \A r \in rows :
            p \in MatchedBy[r] /\ p \notin gone =>
                \E answer \in cache[p], s \in Rows : <<s, count[r]>> \in answer

\* No warm, however it interleaves with the deletes of the decay cycle, another
\* warm, a crash and a restart, leaves a stored query without one of its keys,
\* unless the key has expired or its node lost it since: /suggest, which never
\* asks the database, would not find it.
KeysPresentWhenQuiet ==
    Quiet => \A p \in KeysOfAll(StoredQueries) : cache[p] # Miss \/ p \in gone

Current == [p \in Prefixes |-> Answers(p)]

\* What the coroutines have read for each prefix and not stored yet.
Held == [p \in Prefixes |->
            {loaded[w][p] : w \in {x \in Warmers : child[x][p] = "storing"}}]

\* Every warm, whatever fails or stops it, leaves under a key what the database
\* answered for it since the start of the process, or what was there, and the
\* table overtakes nobody unless raced says so: the cache implements AnswerCache.
Abstract == INSTANCE AnswerCache WITH
    Keys <- Prefixes, answers <- Current, held <- Held, stored <- cache, overtaken <- raced
AnswerCacheSpec == Abstract!Spec

\* What /suggest finds under p is not what the database would answer, or it is
\* nothing although the database stores a query with this prefix.
Wrong(p) == Stale(p) \/ (cache[p] = Miss /\ p \in KeysOfAll(StoredQueries))

\* A wrong key, left by a race of two warms, a failed warm, a TTL, a node or
\* the deletes of the decay cycle, is right again some time, by the next decay
\* cycle or the next start, unless the process stays down or its decay task
\* has died.
WrongKeyIsRepaired ==
    \A p \in Prefixes :
        Wrong(p) ~> ~Wrong(p) \/ phase = "down" \/ task["decay"] = "failed"

=============================================================================
