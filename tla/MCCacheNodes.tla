---------------------------- MODULE MCCacheNodes ----------------------------
(***************************************************************************)
(* An instance of CacheNodes for TLC: the keys "a" and "ab" on a fragile   *)
(* node, so that SCAN has two places to visit, and "b" on another.         *)
(***************************************************************************)
EXTENDS CacheNodes

CONSTANTS n1, n2

MCQueries == {"ab", "b"}
MCPrefixes == {"a", "ab", "b"}
MCPrefixesOf == [q \in MCQueries |-> IF q = "ab" THEN {"a", "ab"} ELSE {"b"}]
MCNodes == {n1, n2}
MCNodeOf == [p \in MCPrefixes |-> IF p = "b" THEN n2 ELSE n1]
MCFragile == {n1}

=============================================================================
