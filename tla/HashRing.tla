------------------------------ MODULE HashRing ------------------------------
(***************************************************************************)
(* The consistent hash ring that gives every prefix its Redis node, and    *)
(* what a change of REDIS_NODES between two runs does to the keys.         *)
(*                                                                         *)
(* hash is whatever MD5 makes of the names "node:index".  Nodes are the    *)
(* places of names in the configured list, so that a smaller node was      *)
(* appended to the ring earlier.  A key is its hash.                       *)
(***************************************************************************)
EXTENDS Naturals, FiniteSets

CONSTANTS
    Nodes,    \* the nodes that may be configured
    VNodes,   \* vnodes_per_node
    Space     \* number of hash values

ASSUME NodesAssumption == Nodes \subseteq Nat /\ Nodes # {}
ASSUME VNodesAssumption == VNodes \in Nat \ {0}
ASSUME SpaceAssumption == Space \in Nat \ {0}

Positions == 0 .. Space - 1
Indices == 0 .. VNodes - 1

VARIABLES
    nodes,   \* the configured nodes
    hash     \* node -> index -> position of that virtual node

vars == <<nodes, hash>>

\* The entries of the ring of these nodes.
Entries(ns) ==
    {[at |-> hash[n][i], node |-> n, index |-> i] : n \in ns, i \in Indices}

\* list.sort is stable: equal hashes stay in the order they were appended in.
Before(e, f) ==
    \/ e.at < f.at
    \/ e.at = f.at /\ e.node < f.node
    \/ e.at = f.at /\ e.node = f.node /\ e.index < f.index

First(es) == CHOOSE e \in es : \A f \in es : f = e \/ Before(e, f)

\* MUTANT: bisect_right.
FromAfter(ns, key) == {e \in Entries(ns) : e.at > key}

\* What bisect_left leaves to the right of the index it returns.
From(ns, key) == {e \in Entries(ns) : e.at >= key}

\* MUTANT: the hash modulo the number of nodes.
ModuloNode(ns, key) ==
    CHOOSE n \in ns : Cardinality({m \in ns : m < n}) = key % Cardinality(ns)

\* An index past the end wraps to the first entry.
GetNode(ns, key) ==
    IF From(ns, key) = {} THEN First(Entries(ns)).node
                          ELSE First(From(ns, key)).node

Init ==
    /\ nodes \in SUBSET Nodes
    /\ nodes # {}
    /\ hash \in [Nodes -> [Indices -> Positions]]

AddNode(n) ==
    /\ n \notin nodes
    /\ nodes' = nodes \cup {n}
    /\ UNCHANGED hash

\* MUTANT: the ring of no nodes is not refused.
RemoveAnyNode(n) ==
    /\ n \in nodes
    /\ nodes' = nodes \ {n}
    /\ UNCHANGED hash

\* A ring of no nodes is refused with a ValueError.
RemoveNode(n) ==
    /\ n \in nodes
    /\ nodes # {n}
    /\ nodes' = nodes \ {n}
    /\ UNCHANGED hash

Next == \E n \in Nodes : AddNode(n) \/ RemoveNode(n)

Spec == Init /\ [][Next]_vars

-----------------------------------------------------------------------------
(* Properties.                                                             *)

\* The ring is never empty and every virtual node has its position.
TypeOK ==
    /\ nodes \in SUBSET Nodes
    /\ nodes # {}
    /\ hash \in [Nodes -> [Indices -> Positions]]

\* How far one walks clockwise from key to position.
Distance(key, position) ==
    IF position >= key THEN position - key ELSE position - key + Space

\* get_node gives the node of a virtual node that is met first clockwise from
\* the key, across the end of the ring and at a position that is the key's own.
OwnerIsNextClockwise ==
    \A key \in Positions : \E i \in Indices : \A n \in nodes, j \in Indices :
        /\ GetNode(nodes, key) \in nodes
        /\ Distance(key, hash[GetNode(nodes, key)][i]) <= Distance(key, hash[n][j])

\* architecture.md, consistent hashing: minimal remapping.  A key changes its
\* node only if its old node left the ring or its new one just joined it;
\* hash collisions included.
OnlyNeededKeysMove ==
    [][\A key \in Positions :
           \/ GetNode(nodes', key) = GetNode(nodes, key)
           \/ GetNode(nodes, key) \notin nodes'
           \/ GetNode(nodes', key) \notin nodes]_vars

=============================================================================
