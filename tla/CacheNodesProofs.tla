-------------------------- MODULE CacheNodesProofs --------------------------
(***************************************************************************)
(* Proofs about CacheNodes, for every instance: type correctness, that a   *)
(* flush leaves no old key and an invalidation none of its keys, and that  *)
(* a hit without a TTL is a key that went away.                            *)
(***************************************************************************)
EXTENDS CacheNodes, TLAPS

FlushEntry == [st : {"off", "scan", "delete", "done", "raised"},
               left : SUBSET Prefixes, keys : SUBSET Prefixes]
InvalEntry == [st : {"off", "delete", "done", "raised"}, keys : SUBSET Prefixes]

\* The keys of the flush that are still there.
Kept(n) == owed \cap PlacesOn(n) \cap Present

\* A key of the flush that is still there has been returned by SCAN and not yet
\* been deleted, or is in a place that SCAN has yet to visit.
FlushInv ==
    \A n \in Nodes :
        /\ flush[n].st = "scan" => Kept(n) \subseteq flush[n].left
        /\ flush[n].st = "delete" => Kept(n) \subseteq flush[n].left \cup flush[n].keys
        /\ flush[n].st = "done" => Kept(n) = {}

\* A key of the invalidation that is still there is in the DELETE of its node.
InvalInv ==
    \A n \in Nodes :
        /\ inval[n].st = "delete" => due \cap PlacesOn(n) \subseteq inval[n].keys
        /\ inval[n].st \in {"off", "done"} => due \cap PlacesOn(n) \cap Present = {}

\* An inspected key that is not there went away.
InspectInv == inspect \subseteq Present \cup went

NodesInv == TypeOK /\ FlushInv /\ InvalInv /\ InspectInv

-----------------------------------------------------------------------------
(* What the calls do to the keys.                                          *)

LEMMA RemovedKeys ==
    ASSUME TypeOK, NEW keys, Remove(keys)
    PROVE  /\ ttl' \in [Prefixes -> {Gone} \cup 0 .. Ttl]
           /\ Present' = Present \ keys
           /\ went' \subseteq Prefixes
           /\ InspectInv => inspect \subseteq Present' \cup went'
  BY DEF Remove, TypeOK, Present, InspectInv

LEMMA StoredKeys ==
    ASSUME TypeOK, NEW p \in Prefixes, SetSuggestions(p)
    PROVE  /\ ttl' \in [Prefixes -> {Gone} \cup 0 .. Ttl]
           /\ Present' = Present \cup {p}
<1>1. Ttl \in 0 .. Ttl /\ Ttl # Gone
  BY BoundsAssumption DEF Gone
<1>2. ttl' = [ttl EXCEPT ![p] = Ttl]
  BY DEF SetSuggestions, StoredTtl
<1> QED  BY <1>1, <1>2 DEF TypeOK, Present

LEMMA AgedKeys ==
    ASSUME TypeOK, Tick
    PROVE  /\ ttl' \in [Prefixes -> {Gone} \cup 0 .. Ttl]
           /\ Present' \subseteq Present
           /\ went' \subseteq Prefixes
           /\ InspectInv => inspect \subseteq Present' \cup went'
<1>1. \A p \in Prefixes :
        /\ ttl[p] \in {Gone} \cup 0 .. Ttl
        /\ ttl[p] = Gone => ttl'[p] = Gone
        /\ ttl[p] = 0 => ttl'[p] = Gone
        /\ ttl[p] \in 1 .. Ttl => ttl'[p] = ttl[p] - 1
  <2> TAKE p \in Prefixes
  <2>1. ttl[p] \in {Gone} \cup 0 .. Ttl
    BY DEF TypeOK
  <2>2. ttl'[p] = CASE ttl[p] > 0 -> ttl[p] - 1
                    [] ttl[p] = 0 -> Gone
                    [] OTHER -> ttl[p]
    BY DEF Tick
  <2> QED  BY <2>1, <2>2, BoundsAssumption DEF Gone
<1>2. \A p \in Prefixes : ttl'[p] \in {Gone} \cup 0 .. Ttl
  BY <1>1, BoundsAssumption
<1>3. ttl' \in [Prefixes -> {Gone} \cup 0 .. Ttl]
  BY <1>2 DEF Tick
<1>4. \A p \in Prefixes : ttl'[p] = Gone => ttl[p] \in {Gone, 0}
  BY <1>1, BoundsAssumption DEF Gone
<1>5. Present' \subseteq Present
  BY <1>1 DEF Present
<1>6. went' \subseteq Prefixes
  BY DEF Tick, TypeOK
<1>7. ASSUME InspectInv PROVE inspect \subseteq Present' \cup went'
  <2> SUFFICES ASSUME NEW p \in inspect, p \notin Present' PROVE p \in went'
    OBVIOUS
  <2>1. p \in Prefixes
    BY DEF TypeOK
  <2>2. ttl[p] \in {Gone, 0}
    BY <1>4, <2>1 DEF Present
  <2>3. CASE ttl[p] = Gone
    BY <1>7, <2>3 DEF InspectInv, Present, Tick
  <2>4. CASE ttl[p] = 0
    BY <2>4 DEF Tick
  <2> QED  BY <2>2, <2>3, <2>4
<1> QED  BY <1>3, <1>5, <1>6, <1>7

\* Keys that go, or are stored, break nothing as long as the histories follow.
LEMMA KeepFlush ==
    ASSUME FlushInv, flush' = flush, owed' \cap Present' \subseteq owed \cap Present
    PROVE  FlushInv'
<1>1. \A n \in Nodes : Kept(n)' \subseteq Kept(n)
  BY DEF Kept, PlacesOn
<1> QED  BY <1>1 DEF FlushInv

LEMMA KeepInval ==
    ASSUME InvalInv, inval' = inval, due' \subseteq due,
           due' \cap Present' \subseteq due \cap Present
    PROVE  InvalInv'
  BY DEF InvalInv, PlacesOn

-----------------------------------------------------------------------------
(* The rounds of the flush.                                                *)

\* A part of the flush after a reply that leaves these places and these keys.
LEMMA ReplyKeeps ==
    ASSUME TypeOK, FlushInv, NEW n \in Nodes,
           NEW left \in SUBSET Prefixes, NEW keys \in SUBSET Prefixes,
           flush' = [flush EXCEPT ![n] = AfterReply(left, keys)], owed' = owed,
           Present' \subseteq Present, Kept(n)' \subseteq left \cup keys
    PROVE  flush' \in [Nodes -> FlushEntry] /\ FlushInv'
<1>1. AfterReply(left, keys) \in FlushEntry
  BY DEF AfterReply, FlushEntry
<1>2. flush' \in [Nodes -> FlushEntry]
  BY <1>1 DEF TypeOK, FlushEntry
<1>3. ASSUME NEW m \in Nodes \ {n}
      PROVE  flush'[m] = flush[m] /\ Kept(m)' \subseteq Kept(m)
  BY <1>3 DEF TypeOK, Kept, PlacesOn
<1>4. /\ flush'[n].left = left /\ flush'[n].keys = keys
      /\ flush'[n].st = IF keys # {} THEN "delete" ELSE IF left # {} THEN "scan" ELSE "done"
  BY DEF TypeOK, AfterReply
<1>5. FlushInv'
  <2> SUFFICES ASSUME NEW m \in Nodes
               PROVE  /\ flush'[m].st = "scan" => Kept(m)' \subseteq flush'[m].left
                      /\ flush'[m].st = "delete" =>
                            Kept(m)' \subseteq flush'[m].left \cup flush'[m].keys
                      /\ flush'[m].st = "done" => Kept(m)' = {}
    BY DEF FlushInv
  <2>1. CASE m = n
    BY <1>4, <2>1
  <2>2. CASE m # n
    BY <1>3, <2>2 DEF FlushInv
  <2> QED  BY <2>1, <2>2
<1> QED  BY <1>2, <1>5

LEMMA ScanKeeps ==
    ASSUME NodesInv, NEW n \in Nodes, Scan(n)
    PROVE  flush' \in [Nodes -> FlushEntry] /\ FlushInv'
<1>1. PICK part \in SUBSET flush[n].left, again \in SUBSET (PlacesOn(n) \cap Present) :
        flush' = [flush EXCEPT ![n] =
                     AfterReply(flush[n].left \ part, (part \cap Present) \cup again)]
  BY DEF Scan, Unvisited
<1> DEFINE left == flush[n].left \ part
           keys == (part \cap Present) \cup again
<1>2. left \in SUBSET Prefixes /\ keys \in SUBSET Prefixes
  BY DEF NodesInv, TypeOK, Present
<1>3. Present' = Present /\ owed' = owed
  BY DEF Scan, Present
<1>4. Kept(n)' = Kept(n)
  BY <1>3 DEF Kept, PlacesOn
<1>5. Kept(n) \subseteq flush[n].left
  BY DEF Scan, NodesInv, FlushInv
<1>6. Kept(n)' \subseteq left \cup keys
  BY <1>4, <1>5 DEF Kept
<1>7. flush' = [flush EXCEPT ![n] = AfterReply(left, keys)]
  BY <1>1
<1>8. TypeOK /\ FlushInv /\ Present' \subseteq Present
  BY <1>3 DEF NodesInv
<1> HIDE DEF left, keys
<1> QED  BY <1>2, <1>3, <1>6, <1>7, <1>8, ReplyKeeps

LEMMA DeleteKeeps ==
    ASSUME NodesInv, NEW n \in Nodes, DeleteScanned(n)
    PROVE  flush' \in [Nodes -> FlushEntry] /\ FlushInv'
<1>1. Present' = Present \ flush[n].keys /\ Present' \subseteq Present
  BY RemovedKeys DEF DeleteScanned, NodesInv
<1>2. Kept(n) \subseteq flush[n].left \cup flush[n].keys
  BY DEF DeleteScanned, NodesInv, FlushInv
<1>3. owed' = owed /\ Kept(n)' = Kept(n) \ flush[n].keys
  BY <1>1 DEF DeleteScanned, Kept, PlacesOn
<1>4. flush[n].left \in SUBSET Prefixes /\ {} \in SUBSET Prefixes
  BY DEF NodesInv, TypeOK
<1>5. flush' = [flush EXCEPT ![n] = AfterReply(flush[n].left, {})]
  BY DEF DeleteScanned
<1>6. Kept(n)' \subseteq flush[n].left \cup {}
  BY <1>2, <1>3
<1>7. TypeOK /\ FlushInv
  BY DEF NodesInv
<1> QED  BY <1>1, <1>3, <1>4, <1>5, <1>6, <1>7, ReplyKeeps

LEMMA RaiseKeeps ==
    ASSUME NodesInv, NEW n \in Nodes, FlushRaises(n), Present' \subseteq Present
    PROVE  flush' \in [Nodes -> FlushEntry] /\ FlushInv'
<1>1. flush' = [flush EXCEPT ![n] = [NoFlush EXCEPT !.st = "raised"]] /\ owed' = owed
  BY DEF FlushRaises
<1>2. flush' \in [Nodes -> FlushEntry]
  BY <1>1 DEF NodesInv, TypeOK, FlushEntry, NoFlush
<1>3. /\ flush'[n].st = "raised"
      /\ \A m \in Nodes \ {n} : flush'[m] = flush[m]
  BY <1>1 DEF NodesInv, TypeOK, NoFlush
<1>4. \A m \in Nodes : Kept(m)' \subseteq Kept(m)
  BY <1>1 DEF Kept, PlacesOn
<1> QED  BY <1>2, <1>3, <1>4 DEF NodesInv, FlushInv

LEMMA RestartKeeps ==
    ASSUME NodesInv, NEW n \in Nodes, Restart(n), Present' \subseteq Present
    PROVE  flush' \in [Nodes -> FlushEntry] /\ FlushInv'
<1>1. PICK left \in SUBSET PlacesOn(n) : flush' = [flush EXCEPT ![n].left = left]
  BY DEF Restart
<1>2. left \in SUBSET Prefixes
  BY DEF PlacesOn
<1>3. flush' \in [Nodes -> FlushEntry]
  BY <1>1, <1>2 DEF NodesInv, TypeOK, FlushEntry
<1>4. \A m \in Nodes \ {n} : flush'[m] = flush[m] /\ Kept(m)' \subseteq Kept(m)
  BY <1>1 DEF NodesInv, TypeOK, Kept, PlacesOn, Restart
<1>5. Kept(n)' = {}
  BY DEF Restart, Kept, PlacesOn
<1> QED  BY <1>3, <1>4, <1>5 DEF NodesInv, FlushInv

-----------------------------------------------------------------------------

LEMMA InitNodes == Init => NodesInv
<1> SUFFICES ASSUME Init PROVE NodesInv
  OBVIOUS
<1>1. TypeOK
  BY DEF Init, TypeOK, NoFlush, NoInval
<1>2. FlushInv /\ InvalInv /\ InspectInv
  BY DEF Init, FlushInv, InvalInv, InspectInv, NoFlush, NoInval
<1> QED  BY <1>1, <1>2 DEF NodesInv

LEMMA NextNodes == NodesInv /\ [Next]_vars => NodesInv'
<1> SUFFICES ASSUME NodesInv, [Next]_vars PROVE NodesInv'
  OBVIOUS
<1>0. TypeOK /\ FlushInv /\ InvalInv /\ InspectInv
  BY DEF NodesInv
<1>k. ASSUME clients' \subseteq Nodes, UNCHANGED <<ttl, flushVars, invalVars, inspectVars>>
      PROVE  NodesInv'
  <2>1. Present' = Present
    BY <1>k DEF Present
  <2>2. TypeOK'
    BY <1>0, <1>k DEF TypeOK, flushVars, invalVars, inspectVars
  <2>3. FlushInv' /\ InvalInv'
    BY <1>0, <1>k, <2>1, KeepFlush, KeepInval DEF flushVars, invalVars
  <2>4. InspectInv'
    BY <1>0, <1>k, <2>1 DEF InspectInv, inspectVars
  <2> QED  BY <2>2, <2>3, <2>4 DEF NodesInv
<1>1. ASSUME NEW n \in Nodes, Connect(n) PROVE NodesInv'
  <2>1. clients' \subseteq Nodes
    BY <1>0, <1>1 DEF Connect, TypeOK
  <2> QED  BY <1>1, <1>k, <2>1 DEF Connect
<1>2. CASE Close
  <2>1. UNCHANGED <<ttl, inval, due, inspect, went>> /\ Present' = Present
    BY <1>2 DEF Close, invalVars, inspectVars, Present
  <2>2. FlushInv'
    BY <1>2 DEF Close, FlushInv, NoFlush
  <2>3. TypeOK'
    BY <1>0, <1>2, <2>1 DEF Close, TypeOK, NoFlush
  <2> QED  BY <1>0, <2>1, <2>2, <2>3, KeepInval DEF NodesInv, InspectInv
<1>3. ASSUME NEW p \in Prefixes, SetSuggestions(p) PROVE NodesInv'
  <2>1. /\ UNCHANGED <<clients, flush, inval, inspect, went>>
        /\ owed' = owed \ {p} /\ due' = due \ {p}
    BY <1>3 DEF SetSuggestions, inspectVars
  <2>2. TypeOK'
    BY <1>0, <1>3, <2>1, StoredKeys DEF TypeOK
  <2>3. FlushInv' /\ InvalInv'
    BY <1>0, <1>3, <2>1, StoredKeys, KeepFlush, KeepInval
  <2>4. InspectInv'
    BY <1>0, <1>3, <2>1, StoredKeys DEF InspectInv
  <2> QED  BY <2>2, <2>3, <2>4 DEF NodesInv
<1>4. CASE Tick
  <2>1. UNCHANGED <<clients, flush, owed, inval, due, inspect>>
    BY <1>4 DEF Tick, flushVars, invalVars
  <2>2. TypeOK'
    BY <1>0, <1>4, <2>1, AgedKeys DEF TypeOK
  <2>3. FlushInv' /\ InvalInv'
    BY <1>0, <1>4, <2>1, AgedKeys, KeepFlush, KeepInval
  <2>4. InspectInv'
    BY <1>0, <1>4, <2>1, AgedKeys DEF InspectInv
  <2> QED  BY <2>2, <2>3, <2>4 DEF NodesInv
<1>5. ASSUME NEW n \in Nodes, DeleteScanned(n) \/ FlushRaises(n) \/ Restart(n)
      PROVE  NodesInv'
  <2>1. /\ UNCHANGED <<clients, inval, due, inspect>>
        /\ owed' \subseteq owed
        /\ \E keys : Remove(keys)
    BY <1>5 DEF DeleteScanned, FlushRaises, Restart, invalVars
  <2>2. /\ ttl' \in [Prefixes -> {Gone} \cup 0 .. Ttl] /\ Present' \subseteq Present
        /\ went' \subseteq Prefixes /\ inspect \subseteq Present' \cup went'
    BY <1>0, <2>1, RemovedKeys
  <2>3. flush' \in [Nodes -> FlushEntry] /\ FlushInv'
    BY <1>5, <2>2, DeleteKeeps, RaiseKeeps, RestartKeeps
  <2>4. TypeOK'
    BY <1>0, <2>1, <2>2, <2>3 DEF TypeOK, FlushEntry
  <2> QED  BY <1>0, <2>1, <2>2, <2>3, <2>4, KeepInval DEF NodesInv, InspectInv
<1>6. CASE StartFlush
  <2>1. UNCHANGED <<clients, ttl, inval, due, inspect, went>> /\ Present' = Present
    BY <1>6 DEF StartFlush, invalVars, inspectVars, Present
  <2>2. /\ flush' = [n \in Nodes |-> [st |-> "scan", left |-> PlacesOn(n), keys |-> {}]]
        /\ owed' = Present
    BY <1>6 DEF StartFlush
  <2>3. TypeOK'
    BY <1>0, <2>1, <2>2 DEF TypeOK, PlacesOn, Present
  <2>4. FlushInv'
    BY <2>2 DEF FlushInv, Kept, PlacesOn
  <2> QED  BY <1>0, <2>1, <2>3, <2>4, KeepInval DEF NodesInv, InspectInv
<1>7. ASSUME NEW n \in Nodes, Scan(n) PROVE NodesInv'
  <2>1. UNCHANGED <<clients, ttl, owed, inval, due, inspect, went>> /\ Present' = Present
    BY <1>7 DEF Scan, invalVars, inspectVars, Present
  <2>2. TypeOK'
    BY <1>0, <1>7, <2>1, ScanKeeps DEF TypeOK, FlushEntry
  <2> QED  BY <1>0, <1>7, <2>1, <2>2, ScanKeeps, KeepInval DEF NodesInv, InspectInv
<1>8. CASE EndFlush
  <2>1. UNCHANGED <<clients, ttl, inval, due, inspect, went>> /\ Present' = Present
    BY <1>8 DEF EndFlush, invalVars, inspectVars, Present
  <2>2. TypeOK' /\ FlushInv'
    BY <1>0, <1>8, <2>1 DEF EndFlush, TypeOK, FlushInv, NoFlush
  <2> QED  BY <1>0, <2>1, <2>2, KeepInval DEF NodesInv, InspectInv
<1>9. ASSUME NEW queries \in SUBSET Queries, StartInvalidate(queries) PROVE NodesInv'
  <2>1. UNCHANGED <<clients, ttl, flush, owed, inspect, went>> /\ Present' = Present
    BY <1>9 DEF StartInvalidate, flushVars, inspectVars, Present
  <2>2. /\ inval' = [n \in Nodes |-> IF KeysByNode(n, queries) = {} THEN NoInval
                        ELSE [st |-> "delete", keys |-> KeysByNode(n, queries)]]
        /\ due' = UNION {PrefixesOf[q] : q \in queries}
    BY <1>9 DEF StartInvalidate
  <2>3. \A n \in Nodes : due' \cap PlacesOn(n) = KeysByNode(n, queries)
    BY <2>2 DEF KeysByNode
  <2>4. due' \subseteq Prefixes
    BY <2>2, KeysAssumption
  <2>5. inval' \in [Nodes -> InvalEntry]
    BY <2>2 DEF InvalEntry, NoInval, KeysByNode, PlacesOn
  <2>6. TypeOK'
    BY <1>0, <2>1, <2>4, <2>5 DEF TypeOK, InvalEntry
  <2>7. InvalInv'
    <3> SUFFICES ASSUME NEW n \in Nodes
                 PROVE  /\ inval'[n].st = "delete" =>
                              due' \cap PlacesOn(n) \subseteq inval'[n].keys
                        /\ inval'[n].st \in {"off", "done"} =>
                              due' \cap PlacesOn(n) \cap Present' = {}
      BY DEF InvalInv, PlacesOn
    <3>1. CASE KeysByNode(n, queries) = {}
      BY <2>2, <2>3, <3>1 DEF NoInval
    <3>2. CASE KeysByNode(n, queries) # {}
      BY <2>2, <2>3, <3>2
    <3> QED  BY <3>1, <3>2
  <2> QED  BY <1>0, <2>1, <2>6, <2>7, KeepFlush DEF NodesInv, InspectInv
<1>10. ASSUME NEW n \in Nodes, DeleteNamed(n) \/ InvalidateRaises(n) PROVE NodesInv'
  <2>1. /\ UNCHANGED <<clients, flush, owed, due, inspect>> /\ \E keys : Remove(keys)
    BY <1>10 DEF DeleteNamed, InvalidateRaises, flushVars
  <2>2. /\ ttl' \in [Prefixes -> {Gone} \cup 0 .. Ttl] /\ Present' \subseteq Present
        /\ went' \subseteq Prefixes /\ inspect \subseteq Present' \cup went'
    BY <1>0, <2>1, RemovedKeys
  <2>3. \/ /\ inval' = [inval EXCEPT ![n] = [st |-> "raised", keys |-> {}]]
        \/ /\ inval' = [inval EXCEPT ![n] = [st |-> "done", keys |-> {}]]
           /\ Present' = Present \ inval[n].keys /\ inval[n].st = "delete"
    BY <1>0, <1>10, RemovedKeys DEF DeleteNamed, InvalidateRaises
  <2>4. inval' \in [Nodes -> InvalEntry]
    BY <1>0, <2>3 DEF TypeOK, InvalEntry
  <2>5. TypeOK'
    BY <1>0, <2>1, <2>2, <2>4 DEF TypeOK, InvalEntry
  <2>6. InvalInv'
    <3>1. \A m \in Nodes \ {n} : inval'[m] = inval[m]
      BY <1>0, <2>3 DEF TypeOK
    <3>2. \/ inval'[n].st = "raised"
          \/ inval'[n].st = "done" /\ due \cap PlacesOn(n) \cap Present' = {}
      BY <1>0, <2>3 DEF TypeOK, InvalInv
    <3> QED  BY <1>0, <2>1, <2>2, <3>1, <3>2 DEF InvalInv, PlacesOn
  <2> QED  BY <1>0, <2>1, <2>2, <2>5, <2>6, KeepFlush DEF NodesInv, InspectInv
<1>11. CASE EndInvalidate
  <2>1. UNCHANGED <<clients, ttl, flush, owed, inspect, went>> /\ Present' = Present
    BY <1>11 DEF EndInvalidate, flushVars, inspectVars, Present
  <2>2. TypeOK' /\ InvalInv'
    BY <1>0, <1>11, <2>1 DEF EndInvalidate, TypeOK, InvalInv, NoInval
  <2> QED  BY <1>0, <2>1, <2>2, KeepFlush DEF NodesInv, InspectInv
<1>12. ASSUME (\E p \in Prefixes : InspectGet(p)) \/ InspectTtl PROVE NodesInv'
  <2>1. UNCHANGED <<clients, ttl, flush, owed, inval, due>> /\ Present' = Present
    BY <1>12 DEF InspectGet, InspectTtl, flushVars, invalVars, Present
  <2>2. went' = {} /\ inspect' \subseteq Present /\ inspect' \subseteq Prefixes
    BY <1>12 DEF InspectGet, InspectTtl, Present
  <2>3. TypeOK'
    BY <1>0, <2>1, <2>2 DEF TypeOK
  <2> QED  BY <1>0, <2>1, <2>2, <2>3, KeepFlush, KeepInval DEF NodesInv, InspectInv
<1>13. CASE UNCHANGED vars
  <2>1. clients' \subseteq Nodes
    BY <1>0, <1>13 DEF vars, TypeOK
  <2> QED  BY <1>13, <1>k, <2>1 DEF vars
<1> QED
  BY <1>1, <1>2, <1>3, <1>4, <1>5, <1>6, <1>7, <1>8, <1>9, <1>10, <1>11, <1>12, <1>13
     DEF Next, FlushCall, Invalidate, Inspect

LEMMA NodesCorrect == Spec => []NodesInv
  BY InitNodes, NextNodes, PTL DEF Spec

\* Every variable keeps to its values, for all keys and nodes.
THEOREM NodesTypeCorrect == Spec => []TypeOK
<1>1. NodesInv => TypeOK
  BY DEF NodesInv
<1> QED  BY <1>1, NodesCorrect, PTL

\* A flush whose part on a node ended without an exception has left none of the
\* keys it found there, in whatever rounds SCAN answers, unless one was stored
\* again or the node restarted.
THEOREM FlushCorrect == Spec => []FlushLeavesNoOldKey
<1>1. NodesInv => FlushLeavesNoOldKey
  BY DEF NodesInv, FlushInv, FlushLeavesNoOldKey, Kept
<1> QED  BY <1>1, NodesCorrect, PTL

\* An invalidation leaves no key of a prefix of its queries on a node that has
\* not raised, unless it was stored again.
THEOREM InvalidationCorrect == Spec => []InvalidatedKeysGo
<1>1. NodesInv => InvalidatedKeysGo
  BY DEF NodesInv, InvalInv, InvalidatedKeysGo
<1> QED  BY <1>1, NodesCorrect, PTL

\* Every key has a TTL: a hit that /cache/debug answers without one went away
\* between its two calls.
THEOREM HitCorrect == Spec => []HitWithoutTtlHasGone
<1>1. NodesInv => HitWithoutTtlHasGone
  <2> SUFFICES ASSUME NodesInv, NEW p \in inspect, TtlIsNull(p) PROVE p \in went
    BY DEF HitWithoutTtlHasGone
  <2>1. p \in Prefixes /\ ttl[p] \in {Gone} \cup 0 .. Ttl
    BY DEF NodesInv, TypeOK
  <2>2. ttl[p] = Gone
    BY <2>1, BoundsAssumption DEF TtlIsNull
  <2> QED  BY <2>2 DEF NodesInv, InspectInv, Present
<1> QED  BY <1>1, NodesCorrect, PTL

=============================================================================
