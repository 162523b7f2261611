--------------------------- MODULE HashRingProofs ---------------------------
(***************************************************************************)
(* Proofs about HashRing, for every set of nodes, every number of virtual  *)
(* nodes, every size of the hash space and whatever the hash function is,  *)
(* collisions included.                                                    *)
(*                                                                         *)
(* Entries are ordered by position, node and index.  A set of entries has  *)
(* a least one (three uses of well-foundedness of the naturals), so First  *)
(* is what its name says; a step of the configuration only adds or removes *)
(* entries of one node, so the first entry from a key on is the same one   *)
(* unless it is of that node.                                              *)
(***************************************************************************)
EXTENDS HashRing, TLAPS, WellFoundedInduction

\* A non-empty set of naturals has a least element.
LEMMA LeastExists ==
    ASSUME NEW T \in SUBSET Nat, T # {}
    PROVE  \E x \in T : \A y \in T : x <= y
<1>1. \E x \in T : \A y \in T : ~(<<y, x>> \in OpToRel(<, Nat))
  BY WFMin, NatLessThanWellFounded, Zenon
<1>2. PICK x \in T : \A y \in T : ~(<<y, x>> \in OpToRel(<, Nat))
  BY <1>1
<1>3. \A y \in T : ~(y < x)
  BY <1>2, Zenon DEF OpToRel
<1> QED
  BY <1>3

Entry == [at : Positions, node : Nodes, index : Indices]

LEMMA EntriesType ==
    ASSUME TypeOK, NEW ns \in SUBSET Nodes
    PROVE  Entries(ns) \subseteq Entry
  BY DEF TypeOK, Entries, Entry

\* What Before needs of its arguments.
LEMMA NaturalFields ==
    ASSUME NEW e \in Entry
    PROVE  e.at \in Nat /\ e.node \in Nat /\ e.index \in Nat
<1>1. e.at \in Positions /\ e.node \in Nodes /\ e.index \in Indices
  BY DEF Entry
<1>2. e.at \in Nat
  BY <1>1, SpaceAssumption DEF Positions
<1>3. e.node \in Nat
  BY <1>1, NodesAssumption
<1>4. e.index \in Nat
  BY <1>1, VNodesAssumption DEF Indices
<1> QED
  BY <1>2, <1>3, <1>4

LEMMA FirstExists ==
    ASSUME NEW es \in SUBSET Entry, es # {}
    PROVE  \E e \in es : \A f \in es : f = e \/ Before(e, f)
<1>0. \A e \in es : e.at \in Nat /\ e.node \in Nat /\ e.index \in Nat
  BY NaturalFields
<1>1. PICK a \in {e.at : e \in es} : \A e \in es : a <= e.at
  <2>1. {e.at : e \in es} \in SUBSET Nat /\ {e.at : e \in es} # {}
    BY <1>0
  <2>2. \E x \in {e.at : e \in es} : \A y \in {e.at : e \in es} : x <= y
    BY <2>1, LeastExists
  <2> QED
    BY <2>2
<1> DEFINE A == {e \in es : e.at = a}
<1>2. A # {}
  BY <1>1
<1>3. PICK n \in {e.node : e \in A} : \A e \in A : n <= e.node
  <2>1. {e.node : e \in A} \in SUBSET Nat /\ {e.node : e \in A} # {}
    BY <1>0, <1>2
  <2>2. \E x \in {e.node : e \in A} : \A y \in {e.node : e \in A} : x <= y
    BY <2>1, LeastExists
  <2> QED
    BY <2>2
<1> DEFINE B == {e \in A : e.node = n}
<1>4. B # {}
  BY <1>3
<1>5. PICK i \in {e.index : e \in B} : \A e \in B : i <= e.index
  <2>1. {e.index : e \in B} \in SUBSET Nat /\ {e.index : e \in B} # {}
    BY <1>0, <1>4
  <2>2. \E x \in {e.index : e \in B} : \A y \in {e.index : e \in B} : x <= y
    BY <2>1, LeastExists
  <2> QED
    BY <2>2
<1>6. PICK e \in B : e.index = i
  BY <1>5
<1>7. \A f \in es : f = e \/ Before(e, f)
  <2> SUFFICES ASSUME NEW f \in es, f # e
               PROVE  Before(e, f)
    OBVIOUS
  <2>1. e \in es /\ e.at = a /\ e.node = n
    OBVIOUS
  <2>2. CASE f.at # a
    BY <1>0, <1>1, <2>1, <2>2 DEF Before
  <2>3. CASE f.at = a /\ f.node # n
    <3>1. n <= f.node
      BY <1>3, <2>3
    <3> QED
      BY <1>0, <2>1, <2>3, <3>1 DEF Before
  <2>4. CASE f.at = a /\ f.node = n
    <3>1. i <= f.index
      BY <1>5, <2>4
    <3>2. f.index # i
      BY <1>6, <2>1, <2>4 DEF Entry
    <3> QED
      BY <1>0, <1>6, <2>1, <2>4, <3>1, <3>2 DEF Before
  <2> QED
    BY <2>2, <2>3, <2>4
<1> QED
  BY <1>7

\* First is the only entry that no other is before.
LEMMA FirstIsFirst ==
    ASSUME NEW es \in SUBSET Entry, es # {}
    PROVE  /\ First(es) \in es
           /\ \A f \in es : f = First(es) \/ Before(First(es), f)
  BY FirstExists DEF First

LEMMA FirstIsUnique ==
    ASSUME NEW es \in SUBSET Entry, NEW e \in es,
           \A f \in es : f = e \/ Before(e, f)
    PROVE  First(es) = e
<1>1. First(es) \in es /\ (e = First(es) \/ Before(First(es), e))
  BY FirstIsFirst
<1>2. First(es) = e \/ Before(e, First(es))
  BY <1>1
<1>3. ASSUME Before(e, First(es)), Before(First(es), e)
      PROVE  FALSE
  BY <1>1, <1>3, NaturalFields DEF Before
<1> QED
  BY <1>1, <1>2, <1>3

-----------------------------------------------------------------------------

LEMMA EntriesNotEmpty ==
    ASSUME TypeOK, NEW ns \in SUBSET Nodes, ns # {}
    PROVE  Entries(ns) # {}
<1>1. 0 \in Indices
  BY VNodesAssumption DEF Indices
<1>2. PICK n \in ns : TRUE
  OBVIOUS
<1>3. [at |-> hash[n][0], node |-> n, index |-> 0] \in Entries(ns)
  BY <1>1, <1>2 DEF Entries
<1> QED
  BY <1>3

LEMMA FromType ==
    ASSUME TypeOK, NEW ns \in SUBSET Nodes, NEW key \in Positions
    PROVE  From(ns, key) \in SUBSET Entry
  BY EntriesType DEF From

\* What get_node returns is a node of the ring.
LEMMA GetNodeType ==
    ASSUME TypeOK, NEW ns \in SUBSET Nodes, ns # {}, NEW key \in Positions
    PROVE  GetNode(ns, key) \in ns
<1>1. \A e \in Entries(ns) : e.node \in ns
  BY DEF Entries
<1>2. CASE From(ns, key) = {}
  <2>1. First(Entries(ns)) \in Entries(ns)
    BY EntriesNotEmpty, EntriesType, FirstIsFirst
  <2> QED
    BY <1>1, <1>2, <2>1 DEF GetNode
<1>3. CASE From(ns, key) # {}
  <2>1. First(From(ns, key)) \in From(ns, key)
    BY <1>3, FromType, FirstIsFirst
  <2> QED
    BY <1>1, <1>3, <2>1 DEF GetNode, From
<1> QED
  BY <1>2, <1>3

\* The first entry of a larger set is the first one of a smaller set it is in.
LEMMA FirstOfSubset ==
    ASSUME NEW large \in SUBSET Entry, NEW small \in SUBSET large,
           large # {}, First(large) \in small
    PROVE  First(small) = First(large)
<1>1. \A f \in small : f = First(large) \/ Before(First(large), f)
  BY FirstIsFirst
<1> QED
  BY <1>1, FirstIsUnique

\* With one more node a key goes to that node or stays where it was.
LEMMA AddedNodeTakesOrLeaves ==
    ASSUME TypeOK, NEW ns \in SUBSET Nodes, ns # {},
           NEW m \in Nodes, NEW key \in Positions
    PROVE  GetNode(ns \cup {m}, key) \in {m, GetNode(ns, key)}
<1> DEFINE more == ns \cup {m}
<1>1. /\ Entries(ns) \subseteq Entries(more)
      /\ \A e \in Entries(more) : e.node = m \/ e \in Entries(ns)
  BY DEF Entries
<1>2. /\ From(ns, key) \subseteq From(more, key)
      /\ \A e \in From(more, key) : e.node = m \/ e \in From(ns, key)
  BY <1>1 DEF From
<1>3. Entries(more) \in SUBSET Entry /\ From(more, key) \in SUBSET Entry
  BY EntriesType, FromType
<1>4. CASE From(more, key) = {}
  <2>1. Entries(more) # {}
    BY EntriesNotEmpty
  <2>2. First(Entries(more)) \in Entries(more)
    BY <1>3, <2>1, FirstIsFirst
  <2>3. CASE First(Entries(more)).node = m
    BY <1>4, <2>3 DEF GetNode
  <2>4. CASE First(Entries(more)) \in Entries(ns)
    <3>1. First(Entries(ns)) = First(Entries(more))
      BY <1>1, <1>3, <2>1, <2>4, FirstOfSubset
    <3> QED
      BY <1>2, <1>4, <3>1 DEF GetNode
  <2> QED
    BY <1>1, <2>2, <2>3, <2>4
<1>5. CASE From(more, key) # {}
  <2>1. First(From(more, key)) \in From(more, key)
    BY <1>3, <1>5, FirstIsFirst
  <2>2. CASE First(From(more, key)).node = m
    BY <1>5, <2>2 DEF GetNode
  <2>3. CASE First(From(more, key)) \in From(ns, key)
    <3>1. First(From(ns, key)) = First(From(more, key))
      BY <1>2, <1>3, <1>5, <2>3, FirstOfSubset
    <3> QED
      BY <1>5, <2>3, <3>1 DEF GetNode
  <2> QED
    BY <1>2, <2>1, <2>2, <2>3
<1> QED
  BY <1>4, <1>5

-----------------------------------------------------------------------------

\* The first entry from the key on, or of the ring, is at the least distance.
LEMMA OwnerIsNearest ==
    ASSUME TypeOK, NEW ns \in SUBSET Nodes, ns # {}, NEW key \in Positions
    PROVE  \E e \in Entries(ns) :
              /\ GetNode(ns, key) = e.node
              /\ \A f \in Entries(ns) : Distance(key, e.at) <= Distance(key, f.at)
<1>1. key \in Nat /\ key < Space /\ Space \in Nat
  BY SpaceAssumption DEF Positions
<1>2. \A e \in Entries(ns) : e.at \in Nat /\ e.at < Space
  <2>1. \A e \in Entry : e.at \in Positions
    BY DEF Entry
  <2>2. \A e \in Entries(ns) : e.at \in Positions
    BY <2>1, EntriesType
  <2> QED
    BY <2>2, SpaceAssumption DEF Positions
<1>3. Entries(ns) \in SUBSET Entry /\ From(ns, key) \in SUBSET Entry
  BY EntriesType, FromType
<1>4. CASE From(ns, key) = {}
  <2> DEFINE e == First(Entries(ns))
  <2>1. /\ e \in Entries(ns)
        /\ \A f \in Entries(ns) : f = e \/ Before(e, f)
    BY <1>3, EntriesNotEmpty, FirstIsFirst
  <2>2. \A f \in Entries(ns) : f.at < key
    BY <1>1, <1>2, <1>4 DEF From
  <2>3. \A f \in Entries(ns) : e.at <= f.at
    BY <1>2, <2>1 DEF Before
  <2>4. GetNode(ns, key) = e.node
    BY <1>4 DEF GetNode
  <2> HIDE DEF e
  <2>5. \A f \in Entries(ns) : Distance(key, e.at) <= Distance(key, f.at)
    BY <1>1, <1>2, <2>1, <2>2, <2>3 DEF Distance
  <2> QED
    BY <2>1, <2>4, <2>5
<1>5. CASE From(ns, key) # {}
  <2> DEFINE e == First(From(ns, key))
  <2>1. /\ e \in From(ns, key)
        /\ \A f \in From(ns, key) : f = e \/ Before(e, f)
    BY <1>3, <1>5, FirstIsFirst
  <2>2. e \in Entries(ns) /\ e.at >= key
    BY <2>1 DEF From
  <2>3. \A f \in Entries(ns) : f.at >= key => e.at <= f.at
    BY <1>2, <2>1, <2>2 DEF Before, From
  <2>4. GetNode(ns, key) = e.node
    BY <1>5 DEF GetNode
  <2> HIDE DEF e
  <2>5. \A f \in Entries(ns) : Distance(key, e.at) <= Distance(key, f.at)
    BY <1>1, <1>2, <2>2, <2>3 DEF Distance
  <2> QED
    BY <2>2, <2>4, <2>5
<1> QED
  BY <1>4, <1>5

\* The ring has nodes, and every virtual node its position, for good.
THEOREM RingTypeCorrect == Spec => []TypeOK
<1>1. Init => TypeOK
  BY DEF Init, TypeOK
<1>2. TypeOK /\ [Next]_vars => TypeOK'
  BY DEF TypeOK, Next, AddNode, RemoveNode, vars
<1> QED
  BY <1>1, <1>2, PTL DEF Spec

\* get_node goes clockwise to the next virtual node, whatever the hashes.
THEOREM OwnerCorrect == Spec => []OwnerIsNextClockwise
<1>1. TypeOK => OwnerIsNextClockwise
  <2> SUFFICES ASSUME TypeOK, NEW key \in Positions
               PROVE  \E i \in Indices : \A n \in nodes, j \in Indices :
                         /\ GetNode(nodes, key) \in nodes
                         /\ Distance(key, hash[GetNode(nodes, key)][i])
                               <= Distance(key, hash[n][j])
    BY DEF OwnerIsNextClockwise
  <2>1. nodes \in SUBSET Nodes /\ nodes # {}
    BY DEF TypeOK
  <2>2. PICK e \in Entries(nodes) :
            /\ GetNode(nodes, key) = e.node
            /\ \A f \in Entries(nodes) : Distance(key, e.at) <= Distance(key, f.at)
    BY <2>1, OwnerIsNearest
  <2>3. e.index \in Indices /\ e.node \in nodes /\ e.at = hash[e.node][e.index]
    BY DEF Entries
  <2>4. ASSUME NEW n \in nodes, NEW j \in Indices
        PROVE  Distance(key, e.at) <= Distance(key, hash[n][j])
    <3>1. [at |-> hash[n][j], node |-> n, index |-> j] \in Entries(nodes)
      BY DEF Entries
    <3> QED
      BY <2>2, <3>1
  <2> QED
    BY <2>2, <2>3, <2>4
<1> QED
  BY <1>1, RingTypeCorrect, PTL

\* A change of the configuration moves no key between nodes that stay.
THEOREM RemappingCorrect == Spec => OnlyNeededKeysMove
<1> DEFINE Moves ==
       \A key \in Positions :
           \/ GetNode(nodes', key) = GetNode(nodes, key)
           \/ GetNode(nodes, key) \notin nodes'
           \/ GetNode(nodes', key) \notin nodes
<1>1. TypeOK /\ [Next]_vars => [Moves]_vars
  <2> SUFFICES ASSUME TypeOK, NEW n \in Nodes, AddNode(n) \/ RemoveNode(n),
                      NEW key \in Positions
               PROVE  \/ GetNode(nodes', key) = GetNode(nodes, key)
                      \/ GetNode(nodes, key) \notin nodes'
                      \/ GetNode(nodes', key) \notin nodes
    BY DEF Next
  <2>1. nodes \in SUBSET Nodes /\ nodes # {}
    BY DEF TypeOK
  <2>2. CASE AddNode(n)
    <3>1. nodes' = nodes \cup {n} /\ n \notin nodes
      BY <2>2 DEF AddNode
    <3>2. GetNode(nodes \cup {n}, key) \in {n, GetNode(nodes, key)}
      BY <2>1, AddedNodeTakesOrLeaves
    <3> QED
      BY <3>1, <3>2
  <2>3. CASE RemoveNode(n)
    <3> DEFINE rest == nodes \ {n}
    <3>1. nodes' = rest /\ rest \cup {n} = nodes /\ n \notin rest
      BY <2>3 DEF RemoveNode
    <3>2. rest \in SUBSET Nodes /\ rest # {}
      BY <2>1, <2>3 DEF RemoveNode
    <3> HIDE DEF rest
    <3>3. GetNode(rest \cup {n}, key) \in {n, GetNode(rest, key)}
      BY <3>2, AddedNodeTakesOrLeaves
    <3> QED
      BY <3>1, <3>3
  <2> QED
    BY <2>2, <2>3
<1> QED
  BY <1>1, RingTypeCorrect, PTL DEF Spec, OnlyNeededKeysMove

=============================================================================
