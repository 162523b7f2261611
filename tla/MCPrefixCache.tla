--------------------------- MODULE MCPrefixCache ---------------------------
(***************************************************************************)
(* Small instances of PrefixCache for TLC.  The plain instance has the     *)
(* queries "a" and "ab", two rows that share the key "a".  The other has   *)
(* "a" and "A": one row, two keys, each matched by the row and each warmed *)
(* only for the query spelled that way.                                    *)
(***************************************************************************)
EXTENDS PrefixCache

CONSTANTS n1, n2, none

PlainQueries == {"a", "ab"}
PlainRowOf == [q \in PlainQueries |-> q]
PlainKeysOf == [q \in PlainQueries |-> IF q = "a" THEN {"a"} ELSE {"a", "ab"}]

CaseQueries == {"a", "A"}
CaseRows == {"a"}
CaseRowOf == [q \in CaseQueries |-> "a"]
CaseKeysOf == [q \in CaseQueries |-> {q}]
CaseMatchedBy == [r \in CaseRows |-> CaseQueries]

MCNodes == {n1, n2}
MCNodeOf == [p \in Prefixes |-> IF p = "a" THEN n1 ELSE n2]
MCSeeds == {"a"}

WorkerOnly == {"worker"}
BothTasks == {"worker", "decay"}
NoFaults == {}
AllFaults == FaultKinds
NoNode == {}
FirstNode == {n1}

=============================================================================
