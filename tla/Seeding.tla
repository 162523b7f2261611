------------------------------- MODULE Seeding -------------------------------
(***************************************************************************)
(* How the queries table comes to its first rows: the container's          *)
(* entrypoint, which runs the loader only if there is no database file,    *)
(* and the loader, which combines a CSV file with generated queries and    *)
(* inserts them batch by batch, each batch a transaction.  The container   *)
(* may be stopped anywhere, and the loader may be run by hand.             *)
(*                                                                         *)
(* The generator draws queries from templates with seeded random numbers,  *)
(* so that its attempts always yield the same queries in the same order,   *)
(* with repetitions: Draws.                                                *)
(***************************************************************************)
EXTENDS Naturals, Sequences, FiniteSets

CONSTANTS
    Queries,     \* query strings
    RowOf,       \* query -> its class under COLLATE NOCASE
    Invalid,     \* a CSV record without a query, or whose count is no number
    CSVs,        \* the contents the CSV file may have: sequences of records
    Draws,       \* the queries the generator's attempts yield, in order
    Attempts,    \* attempts it may take per query it has to find
    MinRows,     \* --min-rows
    BatchSize,   \* rows per INSERT
    HandRuns,    \* whether somebody may run the loader by hand
    MaxStarts    \* bound: starts of the loader or the container

ASSUME RowsAssumption == IsFiniteSet(Queries) /\ DOMAIN RowOf = Queries
ASSUME CSVAssumption ==
    /\ Invalid \notin Queries
    /\ CSVs \subseteq Seq(Queries \cup {Invalid})
ASSUME SizesAssumption ==
    MinRows \in Nat /\ BatchSize \in Nat \ {0} /\ Attempts \in Nat /\ MaxStarts \in Nat
ASSUME HandRunsAssumption == HandRuns \in BOOLEAN
ASSUME DrawsAssumption ==
    Draws \in Seq(Queries) /\ Len(Draws) >= Attempts * MinRows

VARIABLES
    csv,         \* the records of the CSV file; <<>> if there is no file
    phase,       \* "stopped", "loading", "inserting", "serving"
    byHand,      \* the loader was started by hand, not by the entrypoint
    starts,
    file,        \* the database file exists
    table,       \* classes that have a row in it
    rows,        \* what load_rows returned
    start,       \* rows inserted so far
    interrupted  \* a run of the loader was cut off, and none has ended since

loader == <<rows, start>>
vars == <<csv, phase, byHand, starts, file, table, loader, interrupted>>

Init ==
    /\ csv \in CSVs
    /\ phase = "stopped"
    /\ byHand = FALSE
    /\ starts = 0
    /\ file = FALSE
    /\ table = {}
    /\ rows = <<>>
    /\ start = 0
    /\ interrupted = FALSE

NeedsSeed == ~file

StartContainer ==
    /\ phase = "stopped"
    /\ starts < MaxStarts
    /\ starts' = starts + 1
    /\ phase' = IF NeedsSeed THEN "loading" ELSE "serving"
    /\ byHand' = FALSE
    /\ UNCHANGED <<csv, file, table, loader, interrupted>>

LoadByHand ==
    /\ HandRuns
    /\ phase = "stopped"
    /\ starts < MaxStarts
    /\ starts' = starts + 1
    /\ phase' = "loading"
    /\ byHand' = TRUE
    /\ UNCHANGED <<csv, file, table, loader, interrupted>>

-----------------------------------------------------------------------------
(* The loader.                                                             *)

\* The elements of a sequence at some of its places, in their order.
Pick(seq, places) ==
    [n \in 1 .. Cardinality(places) |->
        seq[CHOOSE i \in places : Cardinality({j \in places : j <= i}) = n]]

Elements(seq) == {seq[i] : i \in DOMAIN seq}

\* Records that have no query or no number are skipped.
CsvRows == Pick(csv, {i \in DOMAIN csv : csv[i] # Invalid})

Needed == IF Len(CsvRows) < MinRows THEN MinRows - Len(CsvRows) ELSE 0

\* One attempt fills one template at random.
Drawn(attempts) == [n \in 1 .. attempts |-> Draws[n]]

\* The first draw of every query: one the generator's dict does not have yet.
NewKeys(drawn) == {i \in DOMAIN drawn : \A j \in 1 .. i - 1 : drawn[j] # drawn[i]}

\* The keys of that dict, in order, when the attempts are used up.
Distinct == LET drawn == Drawn(Attempts * Needed) IN Pick(drawn, NewKeys(drawn))

GeneratorRaises == Len(Distinct) < Needed

\* generate_synthetic_queries(needed), if it does not raise.
Generated == [n \in 1 .. Needed |-> Distinct[n]]

\* Generated queries the CSV has already are left out, not replaced.
Prepared ==
    CsvRows \o
    Pick(Generated, {i \in DOMAIN Generated : Generated[i] \notin Elements(CsvRows)})

\* RuntimeError or SystemExit; the entrypoint stops with it (set -e).
Refuse ==
    /\ phase = "loading"
    /\ ~GeneratorRaises => Len(Prepared) < MinRows
    /\ phase' = "stopped"
    /\ UNCHANGED <<csv, byHand, starts, file, table, loader, interrupted>>

\* load_rows, the check of its result, and init_db, which creates the file.
Prepare ==
    /\ phase = "loading"
    /\ ~GeneratorRaises
    /\ Len(Prepared) >= MinRows
    /\ rows' = Prepared
    /\ start' = 0
    /\ file' = TRUE
    /\ phase' = "inserting"
    /\ UNCHANGED <<csv, byHand, starts, table, interrupted>>

BatchEnd == IF start + BatchSize < Len(rows) THEN start + BatchSize ELSE Len(rows)

\* MUTANT: the last batch is left out unless it is full.
FullBatches == start + BatchSize <= Len(rows)

MoreBatches == start < Len(rows)

\* MUTANT: the column is compared with case.
InsertedExactly == {rows[i] : i \in start + 1 .. BatchEnd}

Inserted == {RowOf[rows[i]] : i \in start + 1 .. BatchEnd}

\* INSERT OR IGNORE: a row that is there already keeps its place.
InsertBatch ==
    /\ phase = "inserting"
    /\ MoreBatches
    /\ table' = table \cup Inserted
    /\ start' = BatchEnd
    /\ UNCHANGED <<csv, phase, byHand, starts, file, rows, interrupted>>

LoaderEnds ==
    /\ phase = "inserting"
    /\ ~MoreBatches
    /\ phase' = IF byHand THEN "stopped" ELSE "serving"
    /\ interrupted' = FALSE
    /\ UNCHANGED <<csv, byHand, starts, file, table, loader>>

\* The container, or the loader, is stopped or killed.
Stop ==
    /\ phase # "stopped"
    /\ phase' = "stopped"
    /\ interrupted' = (interrupted \/ phase = "inserting")
    /\ UNCHANGED <<csv, byHand, starts, file, table, loader>>

Next ==
    \/ StartContainer
    \/ LoadByHand
    \/ Refuse
    \/ Prepare
    \/ InsertBatch
    \/ LoaderEnds
    \/ Stop

Spec == Init /\ [][Next]_vars

-----------------------------------------------------------------------------
(* Properties.                                                             *)

\* Every variable keeps to the values the scripts can give it.
TypeOK ==
    /\ csv \in Seq(Queries \cup {Invalid})
    /\ phase \in {"stopped", "loading", "inserting", "serving"}
    /\ byHand \in BOOLEAN
    /\ starts \in 0 .. MaxStarts
    /\ file \in BOOLEAN
    /\ table \subseteq {RowOf[q] : q \in Queries}
    /\ rows \in Seq(Queries)
    /\ start \in 0 .. Len(rows)
    /\ interrupted \in BOOLEAN

\* Neither the CSV nor the generator names a query in two ways.
OneSpelling ==
    /\ \A i, j \in DOMAIN CsvRows : RowOf[CsvRows[i]] = RowOf[CsvRows[j]] => i = j
    /\ \A q, r \in Elements(CsvRows) \cup Elements(Draws) : RowOf[q] = RowOf[r] => q = r

\* README.md, auto-seeding: the table the container serves has at least
\* --min-rows rows.
ServedTableIsFull == phase = "serving" => Cardinality(table) >= MinRows

\* It has them, over any sequence of refused loads, stops, restarts and runs by
\* hand, if every run that was cut off was made good by hand and every query is
\* spelled in one way.
FullUnlessInterrupted == OneSpelling /\ ~interrupted => ServedTableIsFull

=============================================================================
