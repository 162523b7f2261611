----------------------------- MODULE MCSeeding -----------------------------
(***************************************************************************)
(* Small instances of Seeding for TLC: "a" and "A" are one row, CSV files  *)
(* have up to three records, valid or not, and the generator repeats       *)
(* itself so often that two of its queries are all it finds in time.       *)
(***************************************************************************)
EXTENDS Seeding

CONSTANT invalid

MCQueries == {"a", "A", "b", "c"}
MCRowOf == [q \in MCQueries |-> IF q = "A" THEN "a" ELSE q]
RepetitiveDraws == <<"a", "a", "b", "a", "b", "b">>
VariedDraws == <<"a", "b", "b", "c", "b", "b">>

ShortCSVs == UNION {[1 .. n -> MCQueries \cup {invalid}] : n \in 0 .. 3}
HeaderOnly == {<<>>}

=============================================================================
