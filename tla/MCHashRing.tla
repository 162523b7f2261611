----------------------------- MODULE MCHashRing -----------------------------
(* A small instance of HashRing for TLC.                                   *)
EXTENDS HashRing

MCNodes == 0 .. 2

=============================================================================
