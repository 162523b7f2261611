--------------------------- MODULE SeedingProofs ---------------------------
(***************************************************************************)
(* Proofs about the seeding of the table: that it is full whenever the     *)
(* container serves, unless a loader was cut off, for every CSV file, every*)
(* run of the generator, and every --min-rows and batch size.              *)
(***************************************************************************)
EXTENDS Seeding, Ranking, TLAPS

\* The classes of the queries the loader prepares.
Stored == {RowOf[Prepared[i]] : i \in DOMAIN Prepared}

\* The loader does not refuse the CSV file.
Accepts == ~GeneratorRaises /\ Len(Prepared) >= MinRows

\* Whatever has been inserted is in the table; a loader that ended has
\* inserted all it prepared, and a file means that one has ended or is at work,
\* or was cut off.
FullInv ==
    /\ phase = "inserting" =>
          /\ file
          /\ rows = Prepared
          /\ Accepts
          /\ \A i \in 1 .. start : RowOf[rows[i]] \in table
    /\ phase = "serving" => file
    /\ file /\ phase # "inserting" /\ ~interrupted =>
          /\ Accepts
          /\ Stored \subseteq table

-----------------------------------------------------------------------------
(* What Pick picks.                                                        *)

PlaceOf(places, m) == CHOOSE i \in places : Cardinality({j \in places : j <= i}) = m

LessThan(n) == {pair \in (1 .. n) \X (1 .. n) : pair[1] < pair[2]}

LEMMA LessThanIsOrder ==
    ASSUME NEW n \in Nat, NEW places, places \subseteq 1 .. n
    PROVE  /\ IsFiniteSet(places)
           /\ IsStrictOrder(LessThan(n), places)
           /\ \A i \in places : Rank(LessThan(n), places)[i] = Cardinality({j \in places : j <= i})
<1>1. \A i, j \in 1 .. n : <<i, j>> \in LessThan(n) <=> i < j
  BY DEF LessThan
<1>2. IsFiniteSet(places)
  <2>1. IsFiniteSet(1 .. n)
    BY FS_Interval
  <2> QED  BY <2>1, FS_Subset, Zenon
<1>3. \A i \in places : i \in 1 .. n /\ i \in Nat
  OBVIOUS
<1>4. IsStrictOrder(LessThan(n), places)
  BY <1>1, <1>3 DEF IsStrictOrder
<1>5. ASSUME NEW i \in places
      PROVE  Rank(LessThan(n), places)[i] = Cardinality({j \in places : j <= i})
  <2>1. \A j \in places : j = i \/ <<j, i>> \in LessThan(n) <=> j <= i
    BY <1>1, <1>3
  <2>2. UpTo(LessThan(n), places, i) = {j \in places : j <= i}
    BY <2>1 DEF UpTo
  <2> QED  BY <2>2 DEF Rank
<1> QED  BY <1>2, <1>4, <1>5

\* The place that is picked as the m-th is a different one for every m.
LEMMA PlacesPicked ==
    ASSUME NEW n \in Nat, NEW places, places \subseteq 1 .. n
    PROVE  /\ Cardinality(places) \in Nat
           /\ \A m \in 1 .. Cardinality(places) : PlaceOf(places, m) \in places
           /\ \A l, m \in 1 .. Cardinality(places) :
                 PlaceOf(places, l) = PlaceOf(places, m) => l = m
<1> DEFINE R == LessThan(n)
           C == Cardinality(places)
           Below(i) == Cardinality({j \in places : j <= i})
<1>1. IsFiniteSet(places) /\ IsStrictOrder(R, places) /\ \A i \in places : Rank(R, places)[i] = Below(i)
  BY LessThanIsOrder
<1>2. C \in Nat
  BY <1>1, FS_CardinalityType
<1> HIDE DEF R
<1>3. \A m \in 1 .. C : \E i \in places : Rank(R, places)[i] = m
  BY <1>1, RankReached
<1>4. \A m \in 1 .. C : \E i \in places : Below(i) = m
  BY <1>1, <1>3
<1>5. \A m : PlaceOf(places, m) = CHOOSE i \in places : Below(i) = m
  BY DEF PlaceOf
<1> HIDE DEF Below
<1>6. \A m \in 1 .. C : PlaceOf(places, m) \in places /\ Below(PlaceOf(places, m)) = m
  BY <1>4, <1>5
<1>7. \A l, m \in 1 .. C : PlaceOf(places, l) = PlaceOf(places, m) => l = m
  BY <1>6
<1> QED  BY <1>2, <1>6, <1>7

LEMMA PickAt ==
    ASSUME NEW seq, NEW places
    PROVE  Pick(seq, places) = [m \in 1 .. Cardinality(places) |-> seq[PlaceOf(places, m)]]
  BY DEF Pick, PlaceOf

LEMMA PickType ==
    ASSUME NEW S, NEW seq, NEW n \in Nat, NEW places, places \subseteq 1 .. n,
           \A i \in places : seq[i] \in S
    PROVE  Pick(seq, places) \in Seq(S) /\ Len(Pick(seq, places)) = Cardinality(places)
<1> DEFINE C == Cardinality(places)
<1>1. C \in Nat /\ \A m \in 1 .. C : PlaceOf(places, m) \in places
  BY PlacesPicked
<1>2. Pick(seq, places) = [m \in 1 .. C |-> seq[PlaceOf(places, m)]]
  BY PickAt
<1> HIDE DEF C
<1>3. Pick(seq, places) \in [1 .. C -> S]
  BY <1>1, <1>2
<1>4. Pick(seq, places) \in Seq(S) /\ Len(Pick(seq, places)) = C
  BY <1>1, <1>3
<1> QED  BY <1>4 DEF C

\* A pick of places at which the elements differ has no element twice.
LEMMA PickKeepsApart ==
    ASSUME NEW seq, NEW n \in Nat, NEW places, places \subseteq 1 .. n,
           \A i, j \in places : seq[i] = seq[j] => i = j
    PROVE  \A l, m \in 1 .. Cardinality(places) :
              Pick(seq, places)[l] = Pick(seq, places)[m] => l = m
<1> DEFINE C == Cardinality(places)
<1>1. /\ \A m \in 1 .. C : PlaceOf(places, m) \in places
      /\ \A l, m \in 1 .. C : PlaceOf(places, l) = PlaceOf(places, m) => l = m
  BY PlacesPicked
<1>2. Pick(seq, places) = [m \in 1 .. C |-> seq[PlaceOf(places, m)]]
  BY PickAt
<1> HIDE DEF C
<1>3. ASSUME NEW l \in 1 .. C, NEW m \in 1 .. C, Pick(seq, places)[l] = Pick(seq, places)[m]
      PROVE  l = m
  <2>1. seq[PlaceOf(places, l)] = seq[PlaceOf(places, m)]
    BY <1>2, <1>3
  <2>2. PlaceOf(places, l) \in places /\ PlaceOf(places, m) \in places
    BY <1>1
  <2>3. PlaceOf(places, l) = PlaceOf(places, m)
    BY <2>1, <2>2
  <2> QED  BY <1>1, <2>3
<1> QED  BY <1>3 DEF C

-----------------------------------------------------------------------------
(* What the loader prepares.                                               *)

CsvType == csv \in Seq(Queries \cup {Invalid})

LEMMA CsvRowsType == CsvType => CsvRows \in Seq(Queries)
<1> SUFFICES ASSUME CsvType PROVE CsvRows \in Seq(Queries)
  OBVIOUS
<1> DEFINE valid == {i \in DOMAIN csv : csv[i] # Invalid}
           n == Len(csv)
<1>1. n \in Nat /\ valid \subseteq 1 .. n /\ \A i \in valid : csv[i] \in Queries
  BY DEF CsvType
<1>2. CsvRows = Pick(csv, valid)
  BY DEF CsvRows
<1> HIDE DEF n, valid
<1> QED  BY <1>1, <1>2, PickType

LEMMA NeededType == CsvType => Needed \in 0 .. MinRows
<1> SUFFICES ASSUME CsvType PROVE Needed \in 0 .. MinRows
  OBVIOUS
<1>1. Len(CsvRows) \in Nat /\ MinRows \in Nat
  BY CsvRowsType, SizesAssumption
<1> QED  BY <1>1 DEF Needed

LEMMA MoreIsMore ==
    ASSUME NEW a \in Nat, NEW b \in Nat, NEW c \in Nat, b <= c
    PROVE  a * b \in Nat /\ a * b <= a * c
<1>1. c - b \in Nat /\ a * c = a * b + a * (c - b)
  OBVIOUS
<1>2. a * (c - b) >= 0 /\ a * b \in Nat /\ a * (c - b) \in Int
  BY <1>1
<1> QED  BY <1>1, <1>2

LEMMA DrawnType ==
    ASSUME CsvType
    PROVE  /\ Attempts * Needed \in Nat
           /\ DOMAIN Drawn(Attempts * Needed) = 1 .. Attempts * Needed
           /\ \A i \in 1 .. Attempts * Needed : Drawn(Attempts * Needed)[i] \in Elements(Draws)
<1> DEFINE n == Attempts * Needed
<1>1. n \in Nat /\ n <= Attempts * MinRows
  <2>1. Attempts \in Nat /\ Needed \in Nat /\ MinRows \in Nat /\ Needed <= MinRows
    BY NeededType, SizesAssumption
  <2> QED  BY <2>1, MoreIsMore
<1>2. Attempts * MinRows \in Nat /\ Len(Draws) \in Nat /\ DOMAIN Draws = 1 .. Len(Draws)
      /\ Len(Draws) >= Attempts * MinRows
  BY DrawsAssumption, SizesAssumption, MoreIsMore
<1> HIDE DEF n
<1>3. 1 .. n \subseteq DOMAIN Draws
  BY <1>1, <1>2
<1>4. Drawn(n) = [i \in 1 .. n |-> Draws[i]]
  BY DEF Drawn
<1>5. DOMAIN Drawn(n) = 1 .. n /\ \A i \in 1 .. n : Drawn(n)[i] \in Elements(Draws)
  BY <1>3, <1>4 DEF Elements
<1> QED  BY <1>1, <1>5 DEF n

\* The keys of the generator's dict are draws, and no two are the same.
LEMMA DistinctType ==
    ASSUME CsvType
    PROVE  /\ Distinct \in Seq(Elements(Draws))
           /\ \A l, m \in DOMAIN Distinct : Distinct[l] = Distinct[m] => l = m
<1> DEFINE n == Attempts * Needed
           drawn == Drawn(n)
           keys == NewKeys(drawn)
<1>1. n \in Nat /\ DOMAIN drawn = 1 .. n /\ \A i \in 1 .. n : drawn[i] \in Elements(Draws)
  BY DrawnType
<1>2. Distinct = Pick(drawn, keys)
  BY DEF Distinct
<1> HIDE DEF n, drawn
<1>3. keys \subseteq 1 .. n
  BY <1>1 DEF NewKeys
<1>4. \A i, j \in keys : drawn[i] = drawn[j] => i = j
  <2> SUFFICES ASSUME NEW i \in keys, NEW j \in keys, drawn[i] = drawn[j], i < j PROVE FALSE
    <3>1. \A i \in keys : i \in Nat
      BY <1>1, <1>3
    <3> QED  BY <3>1
  <2>1. i \in 1 .. j - 1
    BY <1>1, <1>3
  <2>2. \A k \in 1 .. j - 1 : drawn[k] # drawn[j]
    BY DEF NewKeys
  <2> QED  BY <2>1, <2>2
<1> HIDE DEF keys
<1>5. Distinct \in Seq(Elements(Draws)) /\ Len(Distinct) = Cardinality(keys)
  BY <1>1, <1>2, <1>3, PickType
<1>6. \A l, m \in 1 .. Cardinality(keys) : Distinct[l] = Distinct[m] => l = m
  <2>1. \A l, m \in 1 .. Cardinality(keys) : Pick(drawn, keys)[l] = Pick(drawn, keys)[m] => l = m
    BY <1>1, <1>3, <1>4, PickKeepsApart
  <2> QED  BY <1>2, <2>1
<1> QED  BY <1>5, <1>6

LEMMA GeneratedType ==
    ASSUME CsvType, ~GeneratorRaises
    PROVE  /\ Needed \in Nat
           /\ Generated \in [1 .. Needed -> Elements(Draws)]
           /\ \A l, m \in 1 .. Needed : Generated[l] = Generated[m] => l = m
<1>1. Needed \in Nat /\ Len(Distinct) \in Nat /\ Len(Distinct) >= Needed
  BY NeededType, DistinctType, SizesAssumption DEF GeneratorRaises
<1>2. DOMAIN Distinct = 1 .. Len(Distinct) /\ \A m \in DOMAIN Distinct : Distinct[m] \in Elements(Draws)
  BY DistinctType
<1>3. \A m \in 1 .. Needed : m \in DOMAIN Distinct
  BY <1>1, <1>2
<1>4. Generated = [m \in 1 .. Needed |-> Distinct[m]]
  BY DEF Generated
<1>5. Generated \in [1 .. Needed -> Elements(Draws)]
  BY <1>2, <1>3, <1>4
<1>6. \A l, m \in 1 .. Needed : Generated[l] = Generated[m] => l = m
  BY <1>3, <1>4, DistinctType
<1> QED  BY <1>1, <1>5, <1>6

\* What is appended to the rows of the CSV file: draws it does not have, no
\* two the same.
LEMMA PreparedIs ==
    ASSUME CsvType, ~GeneratorRaises
    PROVE  \E extra \in Seq(Elements(Draws)) :
              /\ Prepared = CsvRows \o extra
              /\ \A m \in DOMAIN extra : extra[m] \notin Elements(CsvRows)
              /\ \A l, m \in DOMAIN extra : extra[l] = extra[m] => l = m
<1> DEFINE fresh == {i \in DOMAIN Generated : Generated[i] \notin Elements(CsvRows)}
           extra == Pick(Generated, fresh)
<1>1. /\ Needed \in Nat
      /\ Generated \in [1 .. Needed -> Elements(Draws)]
      /\ \A l, m \in 1 .. Needed : Generated[l] = Generated[m] => l = m
  BY GeneratedType
<1>2. /\ fresh \subseteq 1 .. Needed
      /\ \A i \in fresh : Generated[i] \in Elements(Draws) \ Elements(CsvRows)
      /\ \A l, m \in fresh : Generated[l] = Generated[m] => l = m
  BY <1>1
<1>3. Prepared = CsvRows \o extra
  BY DEF Prepared
<1> HIDE DEF fresh
<1>4. /\ extra \in Seq(Elements(Draws) \ Elements(CsvRows))
      /\ Len(extra) = Cardinality(fresh)
  BY <1>1, <1>2, PickType
<1>5. \A l, m \in 1 .. Cardinality(fresh) : extra[l] = extra[m] => l = m
  BY <1>1, <1>2, PickKeepsApart
<1> HIDE DEF extra
<1>6. extra \in Seq(Elements(Draws)) /\ \A m \in DOMAIN extra : extra[m] \notin Elements(CsvRows)
  BY <1>4
<1>7. \A l, m \in DOMAIN extra : extra[l] = extra[m] => l = m
  BY <1>4, <1>5
<1> QED  BY <1>3, <1>6, <1>7

LEMMA PreparedType ==
    ASSUME CsvType, ~GeneratorRaises
    PROVE  Prepared \in Seq(Queries)
<1>1. PICK extra \in Seq(Elements(Draws)) : Prepared = CsvRows \o extra
  BY PreparedIs
<1>2. extra \in Seq(Queries)
  <2>1. Elements(Draws) \subseteq Queries
    BY DrawsAssumption DEF Elements
  <2> QED  BY <2>1
<1> QED  BY <1>1, <1>2, CsvRowsType

\* If neither source names a query in two ways, then no two of the rows they
\* prepare are of one class.
LEMMA PreparedClasses ==
    ASSUME CsvType, ~GeneratorRaises, OneSpelling
    PROVE  \A i, j \in DOMAIN Prepared : RowOf[Prepared[i]] = RowOf[Prepared[j]] => i = j
<1>1. PICK extra \in Seq(Elements(Draws)) :
         /\ Prepared = CsvRows \o extra
         /\ \A m \in DOMAIN extra : extra[m] \notin Elements(CsvRows)
         /\ \A l, m \in DOMAIN extra : extra[l] = extra[m] => l = m
  BY PreparedIs
<1> DEFINE C == Len(CsvRows)
<1>2. /\ C \in Nat /\ DOMAIN CsvRows = 1 .. C
      /\ Len(extra) \in Nat /\ DOMAIN extra = 1 .. Len(extra)
      /\ DOMAIN Prepared = 1 .. C + Len(extra)
      /\ \A i \in 1 .. C : Prepared[i] = CsvRows[i]
      /\ \A i \in C + 1 .. C + Len(extra) : Prepared[i] = extra[i - C]
  BY <1>1, CsvRowsType
<1>3. /\ \A i, j \in 1 .. C : RowOf[CsvRows[i]] = RowOf[CsvRows[j]] => i = j
      /\ \A q, r \in Elements(CsvRows) \cup Elements(Draws) : RowOf[q] = RowOf[r] => q = r
  BY <1>2 DEF OneSpelling
<1>4. /\ \A i \in 1 .. C : Prepared[i] \in Elements(CsvRows)
      /\ \A i \in C + 1 .. C + Len(extra) :
            Prepared[i] \in Elements(Draws) /\ Prepared[i] \notin Elements(CsvRows)
  <2>1. \A i \in 1 .. C : Prepared[i] \in Elements(CsvRows)
    BY <1>2 DEF Elements
  <2>2. ASSUME NEW i \in C + 1 .. C + Len(extra)
        PROVE  Prepared[i] \in Elements(Draws) /\ Prepared[i] \notin Elements(CsvRows)
    <3>1. i - C \in DOMAIN extra /\ Prepared[i] = extra[i - C]
      BY <1>2
    <3>2. extra[i - C] \in Elements(Draws) /\ extra[i - C] \notin Elements(CsvRows)
      BY <1>1, <3>1
    <3> QED  BY <3>1, <3>2
  <2> QED  BY <2>1, <2>2
<1> SUFFICES ASSUME NEW i \in DOMAIN Prepared, NEW j \in DOMAIN Prepared,
                    RowOf[Prepared[i]] = RowOf[Prepared[j]]
             PROVE  i = j
  OBVIOUS
<1>5. Prepared[i] = Prepared[j]
  BY <1>2, <1>3, <1>4
<1>6. CASE i \in 1 .. C
  <2>1. j \in 1 .. C
    BY <1>2, <1>4, <1>5, <1>6
  <2> QED  BY <1>2, <1>3, <1>6, <2>1
<1>7. CASE i \in C + 1 .. C + Len(extra)
  <2>1. j \in C + 1 .. C + Len(extra)
    BY <1>2, <1>4, <1>5, <1>7
  <2>2. i - C \in DOMAIN extra /\ j - C \in DOMAIN extra /\ extra[i - C] = extra[j - C]
    BY <1>2, <1>5, <1>7, <2>1
  <2>3. i - C = j - C
    BY <1>1, <2>2
  <2> QED  BY <1>2, <1>7, <2>1, <2>3
<1> QED  BY <1>2, <1>6, <1>7

-----------------------------------------------------------------------------
(* The type invariant.                                                     *)

LEMMA BatchEndBounds ==
    ASSUME rows \in Seq(Queries), start \in 0 .. Len(rows)
    PROVE  BatchEnd \in start .. Len(rows)
<1>1. Len(rows) \in Nat /\ start \in Nat /\ BatchSize \in Nat
  BY SizesAssumption
<1> QED  BY <1>1 DEF BatchEnd

\* TypeOK, for every action of the entrypoint and the loader.
THEOREM TypeCorrect == Spec => []TypeOK
<1>1. Init => TypeOK
  <2> SUFFICES ASSUME Init PROVE TypeOK
    OBVIOUS
  <2>1. csv \in Seq(Queries \cup {Invalid})
    BY CSVAssumption DEF Init
  <2>2. rows \in Seq(Queries) /\ Len(rows) = 0 /\ start = 0 /\ starts = 0
    BY DEF Init
  <2>3. start \in 0 .. Len(rows) /\ starts \in 0 .. MaxStarts
    BY <2>2, SizesAssumption
  <2> QED  BY <2>1, <2>2, <2>3 DEF Init, TypeOK
<1>2. TypeOK /\ [Next]_vars => TypeOK'
  <2> SUFFICES ASSUME TypeOK, [Next]_vars PROVE TypeOK'
    OBVIOUS
  <2> USE DEF TypeOK, loader
  <2>1. CASE StartContainer
    <3>1. starts' \in 0 .. MaxStarts /\ phase' \in {"loading", "serving"} /\ byHand' = FALSE
      BY <2>1, SizesAssumption DEF StartContainer
    <3> QED  BY <2>1, <3>1 DEF StartContainer
  <2>2. CASE LoadByHand
    BY <2>2, SizesAssumption DEF LoadByHand
  <2>3. CASE Refuse
    BY <2>3 DEF Refuse
  <2>4. CASE Prepare
    <3>1. rows' \in Seq(Queries)
      BY <2>4, PreparedType DEF Prepare, CsvType
    <3>2. start' \in 0 .. Len(rows')
      BY <2>4, <3>1 DEF Prepare
    <3> QED  BY <2>4, <3>1, <3>2 DEF Prepare
  <2>5. CASE InsertBatch
    <3>1. BatchEnd \in start .. Len(rows) /\ Len(rows) \in Nat /\ start \in Nat
      BY BatchEndBounds
    <3>2. Inserted \subseteq {RowOf[q] : q \in Queries}
      <4>1. \A i \in start + 1 .. BatchEnd : rows[i] \in Queries
        BY <3>1
      <4> QED  BY <4>1 DEF Inserted
    <3>3. rows' = rows /\ start' \in 0 .. Len(rows')
      BY <2>5, <3>1 DEF InsertBatch
    <3> QED  BY <2>5, <3>2, <3>3 DEF InsertBatch
  <2>6. CASE LoaderEnds
    BY <2>6 DEF LoaderEnds
  <2>7. CASE Stop
    BY <2>7 DEF Stop
  <2>8. CASE UNCHANGED vars
    BY <2>8 DEF vars
  <2> QED  BY <2>1, <2>2, <2>3, <2>4, <2>5, <2>6, <2>7, <2>8 DEF Next
<1> QED  BY <1>1, <1>2, PTL DEF Spec

-----------------------------------------------------------------------------
(* The table is full.                                                      *)

LEMMA PreparedKeeps ==
    csv' = csv => Prepared' = Prepared /\ Stored' = Stored /\ Accepts' = Accepts
<1> SUFFICES ASSUME csv' = csv
             PROVE  Prepared' = Prepared /\ Stored' = Stored /\ Accepts' = Accepts
  OBVIOUS
<1>1. CsvRows' = CsvRows
  BY DEF CsvRows, Pick
<1>2. Needed' = Needed
  BY <1>1 DEF Needed
<1>3. Distinct' = Distinct
  BY <1>2 DEF Distinct
<1>4. Generated' = Generated
  BY <1>2, <1>3 DEF Generated
<1>5. Prepared' = Prepared
  BY <1>1, <1>4 DEF Prepared
<1> QED  BY <1>2, <1>3, <1>5 DEF Stored, Accepts, GeneratorRaises

LEMMA FullStep == TypeOK /\ FullInv /\ [Next]_vars => FullInv'
<1> SUFFICES ASSUME TypeOK, FullInv, [Next]_vars PROVE FullInv'
  OBVIOUS
<1>1. csv' = csv
  BY DEF Next, StartContainer, LoadByHand, Refuse, Prepare, InsertBatch, LoaderEnds, Stop, vars
<1>2. Prepared' = Prepared /\ Stored' = Stored /\ Accepts' = Accepts
  BY <1>1, PreparedKeeps
<1> USE DEF loader
<1>3. CASE StartContainer
  BY <1>2, <1>3 DEF StartContainer, NeedsSeed, FullInv
<1>4. CASE LoadByHand
  BY <1>2, <1>4 DEF LoadByHand, FullInv
<1>5. CASE Refuse
  BY <1>2, <1>5 DEF Refuse, FullInv
<1>6. CASE Prepare
  BY <1>2, <1>6 DEF Prepare, FullInv, Accepts
<1>7. CASE InsertBatch
  <2>1. /\ file /\ rows = Prepared /\ Accepts
        /\ \A i \in 1 .. start : RowOf[rows[i]] \in table
    BY <1>7 DEF InsertBatch, FullInv
  <2>2. BatchEnd \in Nat /\ start \in Nat
    BY BatchEndBounds DEF TypeOK
  <2>3. \A i \in 1 .. BatchEnd : RowOf[rows[i]] \in table \cup Inserted
    <3> SUFFICES ASSUME NEW i \in 1 .. BatchEnd PROVE RowOf[rows[i]] \in table \cup Inserted
      OBVIOUS
    <3>1. i \in 1 .. start \/ i \in start + 1 .. BatchEnd
      BY <2>2
    <3> QED  BY <2>1, <3>1 DEF Inserted
  <2> QED  BY <1>2, <1>7, <2>1, <2>3 DEF InsertBatch, FullInv
<1>8. CASE LoaderEnds
  <2>1. /\ file /\ rows = Prepared /\ Accepts
        /\ \A i \in 1 .. start : RowOf[rows[i]] \in table
    BY <1>8 DEF LoaderEnds, FullInv
  <2>2. start = Len(rows) /\ DOMAIN rows = 1 .. Len(rows)
    BY <1>8 DEF LoaderEnds, MoreBatches, TypeOK
  <2>3. Stored \subseteq table
    BY <2>1, <2>2 DEF Stored
  <2> QED  BY <1>2, <1>8, <2>1, <2>3 DEF LoaderEnds, FullInv
<1>9. CASE Stop
  BY <1>2, <1>9 DEF Stop, FullInv
<1>10. CASE UNCHANGED vars
  BY <1>2, <1>10 DEF vars, FullInv
<1> QED  BY <1>3, <1>4, <1>5, <1>6, <1>7, <1>8, <1>9, <1>10 DEF Next

\* What a load has inserted so far is in the table, and a file that no load was
\* cut off from holds every prepared row, in every state of the entrypoint.
THEOREM FullInvCorrect == Spec => []FullInv
<1>1. Init => FullInv
  BY DEF Init, FullInv
<1> QED  BY <1>1, FullStep, TypeCorrect, PTL DEF Spec

\* A set that different numbers up to n have different elements of is as large.
LEMMA AsManyAs ==
    ASSUME NEW n \in Nat, NEW T, IsFiniteSet(T), NEW g \in [1 .. n -> T],
           \A i, j \in 1 .. n : g[i] = g[j] => i = j
    PROVE  n <= Cardinality(T)
<1>1. IsFiniteSet(1 .. n) /\ Cardinality(1 .. n) = n
  <2>1. IsFiniteSet(1 .. n) /\ Cardinality(1 .. n) = IF 1 > n THEN 0 ELSE n - 1 + 1
    BY FS_Interval
  <2> QED  BY <2>1
<1>2. g \in Injection(1 .. n, T)
  BY DEF Injection, IsInjective
<1> QED  BY <1>1, <1>2, FS_Injection

LEMMA ClassesFinite == IsFiniteSet({RowOf[q] : q \in Queries})
<1> DEFINE Classes == {RowOf[q] : q \in Queries}
           g == [q \in Queries |-> RowOf[q]]
<1>1. g \in Surjection(Queries, Classes)
  BY DEF Surjection
<1>2. IsFiniteSet(Queries)
  BY RowsAssumption
<1> HIDE DEF g, Classes
<1>3. IsFiniteSet(Classes)
  BY <1>1, <1>2, FS_Surjection
<1> QED  BY <1>3 DEF Classes

\* A container that serves has --min-rows rows, over any sequence of refused
\* loads, stops, restarts and runs by hand, unless a run was cut off and not
\* made good or a query is spelled in two ways.
THEOREM FullCorrect == Spec => []FullUnlessInterrupted
<1>1. TypeOK /\ FullInv => FullUnlessInterrupted
  <2> SUFFICES ASSUME TypeOK, FullInv, OneSpelling, ~interrupted, phase = "serving"
               PROVE  Cardinality(table) >= MinRows
    BY DEF FullUnlessInterrupted, ServedTableIsFull
  <2>1. Accepts /\ Stored \subseteq table
    BY DEF FullInv
  <2>2. CsvType
    BY DEF TypeOK, CsvType
  <2>3. Prepared \in Seq(Queries) /\ Len(Prepared) >= MinRows
    BY <2>1, <2>2, PreparedType DEF Accepts
  <2> DEFINE n == Len(Prepared)
             g == [i \in 1 .. n |-> RowOf[Prepared[i]]]
  <2>4. n \in Nat /\ DOMAIN Prepared = 1 .. n
    BY <2>3
  <2>5. g \in [1 .. n -> table]
    BY <2>1, <2>4 DEF Stored
  <2>6. \A i, j \in 1 .. n : g[i] = g[j] => i = j
    BY <2>1, <2>2, <2>4, PreparedClasses DEF Accepts
  <2>7. IsFiniteSet(table)
    <3>1. IsFiniteSet({RowOf[q] : q \in Queries})
      BY ClassesFinite
    <3> QED  BY <3>1, FS_Subset DEF TypeOK
  <2>8. Cardinality(table) \in Nat
    BY <2>7, FS_CardinalityType
  <2> HIDE DEF n, g
  <2>9. n <= Cardinality(table)
    BY <2>4, <2>5, <2>6, <2>7, AsManyAs
  <2> QED  BY <2>3, <2>4, <2>8, <2>9, SizesAssumption DEF n
<1> QED  BY <1>1, TypeCorrect, FullInvCorrect, PTL

=============================================================================
