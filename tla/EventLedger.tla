---------------------------- MODULE EventLedger ----------------------------
(***************************************************************************)
(* What the search write path promises about the events POST /search       *)
(* accepts, seen from the database: event number e was accepted, and later *)
(* it is settled once and for all, either counted (its increment is in the *)
(* committed queries table) or lost (nothing holds it any more).  An event *)
(* is settled at most once, and counting it adds exactly one to the count  *)
(* of its own query: no search is added twice, or to another query, or     *)
(* left out of its batch, and one that was lost does not come back.        *)
(*                                                                         *)
(* BatchWorker implements this module (see BatchWorkerProofs).             *)
(***************************************************************************)
EXTENDS Naturals, Sequences, FiniteSets

CONSTANT Queries

VARIABLES
    accepted,   \* queries of the events accepted so far
    counted,    \* events whose increment is committed in the database
    lost,       \* events that can never be counted any more
    added       \* query -> what was added to its count

ledgerVars == <<accepted, counted, lost, added>>

\* The events somebody still holds.
Open == (1 .. Len(accepted)) \ (counted \cup lost)

Init ==
    /\ accepted = <<>>
    /\ counted = {}
    /\ lost = {}
    /\ added = [q \in Queries |-> 0]

Accept ==
    /\ \E q \in Queries : accepted' = Append(accepted, q)
    /\ UNCHANGED <<counted, lost, added>>

Searches(batch, q) == {e \in batch : accepted[e] = q}

Count(batch) ==
    /\ counted' = counted \cup batch
    /\ added' = [q \in Queries |-> added[q] + Cardinality(Searches(batch, q))]
    /\ UNCHANGED <<accepted, lost>>

Lose(batch) ==
    /\ lost' = lost \cup batch
    /\ UNCHANGED <<accepted, counted, added>>

Next ==
    \/ Accept
    \/ \E batch \in SUBSET Open : Count(batch) \/ Lose(batch)

Spec == Init /\ [][Next]_ledgerVars

=============================================================================
