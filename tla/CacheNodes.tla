----------------------------- MODULE CacheNodes -----------------------------
(***************************************************************************)
(* The cache manager and its Redis nodes, call by call: the keys with      *)
(* their TTLs, the flush that runs SCAN and DELETE rounds on all nodes at  *)
(* once, the invalidation of the prefixes of some queries, and GET         *)
(* /cache/debug, which reads a key in two calls.  Between any two calls of *)
(* one operation the others run.  What the keys hold, and who stores them  *)
(* when, is the subject of PrefixCache; here a store is only a SET.        *)
(***************************************************************************)
EXTENDS Integers, FiniteSets

CONSTANTS
    Queries,    \* query strings
    Prefixes,   \* prefix strings, the keys without "suggest:"
    PrefixesOf, \* query -> its prefixes
    Nodes,      \* Redis nodes
    NodeOf,     \* prefix -> node, by the consistent hash ring
    Fragile,    \* nodes whose calls may raise and that may restart
    Ttl,        \* CACHE_TTL_SECONDS, in ticks
    MaxUnderWay \* bound: flushes, invalidations and inspections at a time

ASSUME KeysAssumption ==
    /\ PrefixesOf \in [Queries -> SUBSET Prefixes]
    /\ NodeOf \in [Prefixes -> Nodes]
    /\ Fragile \subseteq Nodes
ASSUME BoundsAssumption == Ttl \in Nat \ {0} /\ MaxUnderWay \in Nat

VARIABLES
    clients,  \* nodes the manager has a client for
    ttl,      \* what TTL answers for each key
    flush,    \* the flush on each node: where it is, the places of the key
              \* space that SCAN has to visit, the keys to delete
    owed,     \* history: keys the flush found on a node that has not restarted
              \* since, and that were not stored since
    inval,    \* the invalidation on each node: where it is, the keys to delete
    due,      \* history: keys it was asked to delete, not stored since
    inspect,  \* {the prefix} an inspection has found, before it asks for its TTL
    went      \* history: the inspected key if it went away since

flushVars == <<flush, owed>>
invalVars == <<inval, due>>
inspectVars == <<inspect, went>>
vars == <<clients, ttl, flushVars, invalVars, inspectVars>>

-----------------------------------------------------------------------------

Gone == -2  \* what TTL answers for a key that is not there

Present == {p \in Prefixes : ttl[p] # Gone}

\* The places of a node's key space, one for each key.
PlacesOn(n) == {p \in Prefixes : NodeOf[p] = n}

NoFlush == [st |-> "off", left |-> {}, keys |-> {}]
NoInval == [st |-> "off", keys |-> {}]

Flushing == \E n \in Nodes : flush[n].st # "off"
Invalidating == \E n \in Nodes : inval[n].st # "off"
Inspecting == inspect # {}

\* The lifespan lets nobody use the manager before connect has ended.
Connected == clients = Nodes

UnderWay == {op \in {"flush", "invalidate", "inspect"} :
                \/ op = "flush" /\ Flushing
                \/ op = "invalidate" /\ Invalidating
                \/ op = "inspect" /\ Inspecting}

Ready == Connected /\ Cardinality(UnderWay) < MaxUnderWay

Init ==
    /\ clients = {}
    /\ ttl = [p \in Prefixes |-> Gone]
    /\ flush = [n \in Nodes |-> NoFlush]
    /\ owed = {}
    /\ inval = [n \in Nodes |-> NoInval]
    /\ due = {}
    /\ inspect = {}
    /\ went = {}

-----------------------------------------------------------------------------
(* The clients.                                                            *)

\* A client for one more node; a ping that fails is only logged.
Connect(n) ==
    /\ clients' = clients \cup {n}
    /\ UNCHANGED <<ttl, flushVars, invalVars, inspectVars>>

\* At shutdown the requests have been answered and the decay task, perhaps with
\* a flush, has been cancelled.
Close ==
    /\ Connected
    /\ ~Invalidating /\ ~Inspecting
    /\ clients' = {}
    /\ flush' = [n \in Nodes |-> NoFlush]
    /\ owed' = {}
    /\ UNCHANGED <<ttl, invalVars, inspectVars>>

-----------------------------------------------------------------------------
(* The keys.                                                               *)

\* MUTANT: the key is stored without ex.
StoredForever == -1

StoredTtl == Ttl

\* A SET that raises, executed or not, is for the caller to handle.
SetSuggestions(p) ==
    /\ Connected
    /\ ttl' = [ttl EXCEPT ![p] = StoredTtl]
    /\ owed' = owed \ {p}
    /\ due' = due \ {p}
    /\ UNCHANGED <<clients, flush, inval, inspectVars>>

\* These keys go.
Remove(keys) ==
    /\ ttl' = [p \in Prefixes |-> IF p \in keys THEN Gone ELSE ttl[p]]
    /\ went' = went \cup (inspect \cap keys)

\* A second passes: every TTL falls, a key at 0 goes.
Tick ==
    /\ ttl' = [p \in Prefixes |-> CASE ttl[p] > 0 -> ttl[p] - 1
                                    [] ttl[p] = 0 -> Gone
                                    [] OTHER -> ttl[p]]
    /\ went' = went \cup {p \in inspect : ttl[p] = 0}
    /\ UNCHANGED <<clients, flushVars, invalVars, inspect>>

\* A node restarts between two calls, with its append-only file or with
\* nothing.  SCAN goes on with its cursor in another order of the key space.
Restart(n) ==
    /\ n \in Fragile
    /\ Remove({}) \/ Remove(PlacesOn(n))
    /\ \E left \in SUBSET PlacesOn(n) :
          /\ Cardinality(left) = Cardinality(flush[n].left)
          /\ flush' = [flush EXCEPT ![n].left = left]
    /\ owed' = owed \ PlacesOn(n)
    /\ UNCHANGED <<clients, invalVars, inspect>>

-----------------------------------------------------------------------------
(* flush_all_suggestion_cache, called by the decay scheduler.              *)

StartFlush ==
    /\ Ready
    /\ ~Flushing
    /\ flush' = [n \in Nodes |-> [st |-> "scan", left |-> PlacesOn(n), keys |-> {}]]
    /\ owed' = Present
    /\ UNCHANGED <<clients, ttl, invalVars, inspectVars>>

\* MUTANT: a reply without keys ends the loop.
AfterEmptyReply(left, keys) ==
    [st |-> IF keys # {} THEN "delete" ELSE "done",
     left |-> left, keys |-> keys]

\* A reply of SCAN with these keys, and these places left to visit: the cursor
\* is 0 if there are none.
AfterReply(left, keys) ==
    [st |-> IF keys # {} THEN "delete" ELSE IF left # {} THEN "scan" ELSE "done",
     left |-> left, keys |-> keys]

\* MUTANT: every SCAN starts at cursor 0.
FromTheStart(left, part) == left

\* The next SCAN passes the cursor of the last reply.
Unvisited(left, part) == left \ part

\* SCAN visits some places and returns the keys it finds there, and perhaps
\* others once more, as Redis may when it resizes its table.
Scan(n) ==
    /\ flush[n].st = "scan"
    /\ \E part \in SUBSET flush[n].left, again \in SUBSET (PlacesOn(n) \cap Present) :
          /\ part # {} \/ flush[n].left = {}
          /\ flush' = [flush EXCEPT ![n] =
                          AfterReply(Unvisited(flush[n].left, part),
                                     (part \cap Present) \cup again)]
    /\ UNCHANGED <<clients, ttl, owed, invalVars, inspectVars>>

DeleteScanned(n) ==
    /\ flush[n].st = "delete"
    /\ Remove(flush[n].keys)
    /\ flush' = [flush EXCEPT ![n] = AfterReply(flush[n].left, {})]
    /\ UNCHANGED <<clients, owed, invalVars, inspect>>

\* A call raises, and a DELETE may have been executed: the other nodes go on.
FlushRaises(n) ==
    /\ n \in Fragile
    /\ flush[n].st \in {"scan", "delete"}
    /\ Remove({}) \/ Remove(flush[n].keys)
    /\ flush' = [flush EXCEPT ![n] = [NoFlush EXCEPT !.st = "raised"]]
    /\ UNCHANGED <<clients, owed, invalVars, inspect>>

\* gather has all results; those that are exceptions are logged.
EndFlush ==
    /\ \A n \in Nodes : flush[n].st \in {"done", "raised"}
    /\ flush' = [n \in Nodes |-> NoFlush]
    /\ owed' = {}
    /\ UNCHANGED <<clients, ttl, invalVars, inspectVars>>

-----------------------------------------------------------------------------
(* invalidate_prefixes and invalidate_queries_prefixes.                    *)

\* MUTANT: a further key of a node takes the place of the one before.
LastKeyOn(n, queries) ==
    {p \in PlacesOn(n) : /\ \E q \in queries : p \in PrefixesOf[q]
                         /\ p = CHOOSE x \in PlacesOn(n) :
                                    \E q \in queries : x \in PrefixesOf[q]}

\* keys_by_node[n]
KeysByNode(n, queries) ==
    {p \in PlacesOn(n) : \E q \in queries : p \in PrefixesOf[q]}

\* The nodes that have none of the keys are not called.
StartInvalidate(queries) ==
    /\ Ready
    /\ ~Invalidating
    /\ inval' = [n \in Nodes |-> IF KeysByNode(n, queries) = {} THEN NoInval
                                 ELSE [st |-> "delete", keys |-> KeysByNode(n, queries)]]
    /\ due' = UNION {PrefixesOf[q] : q \in queries}
    /\ UNCHANGED <<clients, ttl, flushVars, inspectVars>>

DeleteNamed(n) ==
    /\ inval[n].st = "delete"
    /\ Remove(inval[n].keys)
    /\ inval' = [inval EXCEPT ![n] = [st |-> "done", keys |-> {}]]
    /\ UNCHANGED <<clients, flushVars, due, inspect>>

InvalidateRaises(n) ==
    /\ n \in Fragile
    /\ inval[n].st = "delete"
    /\ Remove({}) \/ Remove(inval[n].keys)
    /\ inval' = [inval EXCEPT ![n] = [st |-> "raised", keys |-> {}]]
    /\ UNCHANGED <<clients, flushVars, due, inspect>>

EndInvalidate ==
    /\ Invalidating
    /\ \A n \in Nodes : inval[n].st # "delete"
    /\ inval' = [n \in Nodes |-> NoInval]
    /\ due' = {}
    /\ UNCHANGED <<clients, ttl, flushVars, inspectVars>>

-----------------------------------------------------------------------------
(* GET /cache/debug                                                        *)

\* GET finds the key: hit.  A miss, or a prefix too short to ask for, is
\* answered at once and leaves nothing behind.
InspectGet(p) ==
    /\ Ready
    /\ ~Inspecting
    /\ p \in Present
    /\ inspect' = {p}
    /\ went' = {}
    /\ UNCHANGED <<clients, ttl, flushVars, invalVars>>

\* MUTANT: a TTL of 0 seconds counts as none.
TtlIsFalsy(p) == ttl[p] <= 0

\* ttl_remaining is null in the answer to a hit.
TtlIsNull(p) == ttl[p] < 0

\* TTL is answered, or raises.
InspectTtl ==
    /\ Inspecting
    /\ inspect' = {}
    /\ went' = {}
    /\ UNCHANGED <<clients, ttl, flushVars, invalVars>>

-----------------------------------------------------------------------------

FlushCall == \E n \in Nodes : Scan(n) \/ DeleteScanned(n) \/ FlushRaises(n)

Invalidate ==
    \/ \E queries \in SUBSET Queries : StartInvalidate(queries)
    \/ \E n \in Nodes : DeleteNamed(n) \/ InvalidateRaises(n)
    \/ EndInvalidate

Inspect ==
    \/ \E p \in Prefixes : InspectGet(p)
    \/ InspectTtl

Next ==
    \/ \E n \in Nodes : Connect(n)
    \/ Close
    \/ \E p \in Prefixes : SetSuggestions(p)
    \/ Tick
    \/ \E n \in Nodes : Restart(n)
    \/ StartFlush
    \/ FlushCall
    \/ EndFlush
    \/ Invalidate
    \/ Inspect

Spec == Init /\ [][Next]_vars

\* Time passes, and the calls of a flush are answered or raise.
FairSpec == Spec /\ WF_vars(Tick) /\ WF_vars(FlushCall) /\ WF_vars(EndFlush)

-----------------------------------------------------------------------------
(* Properties.                                                             *)

\* Every variable keeps to the values the program can give it.
TypeOK ==
    /\ clients \subseteq Nodes
    /\ ttl \in [Prefixes -> {Gone} \cup 0 .. Ttl]
    /\ flush \in [Nodes -> [st : {"off", "scan", "delete", "done", "raised"},
                            left : SUBSET Prefixes, keys : SUBSET Prefixes]]
    /\ owed \subseteq Prefixes
    /\ inval \in [Nodes -> [st : {"off", "delete", "done", "raised"},
                            keys : SUBSET Prefixes]]
    /\ due \subseteq Prefixes
    /\ inspect \subseteq Prefixes
    /\ went \subseteq Prefixes

\* flush_all_suggestion_cache deletes all suggestion keys: on a node whose part
\* has ended without an exception, no key is left of those that were there when
\* the flush began, although SCAN answers in rounds with deletes, stores and
\* expiries in between.  Only a key stored meanwhile may be there, or one of a
\* node that restarted.
FlushLeavesNoOldKey ==
    \A n \in Nodes : flush[n].st = "done" => owed \cap PlacesOn(n) \cap Present = {}

\* An invalidation deletes the key of every prefix of every query it is given,
\* on all nodes whose DELETE has not raised, unless it was stored since.
InvalidatedKeysGo ==
    \A n \in Nodes :
        inval[n].st \in {"off", "done"} => due \cap PlacesOn(n) \cap Present = {}

\* /cache/debug answers a hit without ttl_remaining only if the key went away
\* between its two calls: no key is without a TTL.
HitWithoutTtlHasGone ==
    \A p \in inspect : TtlIsNull(p) => p \in went

\* The SCAN loops end, however many keys are stored meanwhile: the decay cycle
\* comes to its warm.
FlushEnds == Flushing ~> ~Flushing

\* A key that is not stored again and again goes: what a failed flush or a dead
\* decay task leaves behind is not served for ever.
KeysExpire ==
    \A p \in Prefixes :
        []<>(p \notin Present) \/ []<><<SetSuggestions(p)>>_vars

=============================================================================
