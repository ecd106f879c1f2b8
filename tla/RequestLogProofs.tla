--------------------------- MODULE RequestLogProofs ---------------------------
(***************************************************************************)
(* A walk over the pages of the log misses no row and repeats none without *)
(* an insert, for every number of rows, every page size and every choice   *)
(* of instants.                                                            *)
(***************************************************************************)
EXTENDS RequestLog, FiniteSetTheorems, TLAPS

\* The rows in front of b, whatever the order of the others.
Ahead(b) == {x \in Rows : at[x] > at[b]}

\* What carries NothingMissed from page to page: a row still to be shown lies
\* behind every page the walk has left, since inserts only push it back.
Behind ==
  walk = "walking" =>
    \A b \in base \ seen : Alone(b) => Cardinality(Ahead(b)) >= Offset

FirstPage == walk = "no" => page \in {0, 1}

Inv == TypeOK /\ FirstPage /\ Behind /\ NothingMissed

\* A set of rows is finite.
LEMMA SomeRowsFinite ==
  ASSUME NEW S \in SUBSET Request
  PROVE  IsFiniteSet(S) /\ Cardinality(S) \in Nat
BY FS_Subset, FS_CardinalityType, LogAssumption

\* The log is finite, and so is what is in front of a row.
LEMMA RowsFinite ==
  ASSUME TypeOK
  PROVE  /\ IsFiniteSet(Rows) /\ Cardinality(Rows) \in Nat
         /\ \A b \in Rows : IsFiniteSet(Ahead(b)) /\ Cardinality(Ahead(b)) \in Nat
<1>1. IsFiniteSet(Rows)
  BY FS_Subset, LogAssumption DEF TypeOK
<1>2. \A b \in Rows : Ahead(b) \subseteq Rows
  BY DEF Ahead
<1> QED
  BY <1>1, <1>2, FS_Subset, FS_CardinalityType

\* In every ordering the place of a row with an instant of its own is one
\* behind the rows in front of it.
LEMMA PlaceOfRow ==
  ASSUME TypeOK, NEW order \in Orderings, NEW i \in 1..Cardinality(Rows), Alone(order[i])
  PROVE  Cardinality(Ahead(order[i])) = i - 1
<1> DEFINE n == Cardinality(Rows)
           b == order[i]
           before == 1..(i - 1)
           f == [j \in before |-> order[j]]
<1>1. n \in Nat /\ order \in Bijection(1..n, Rows) /\ DOMAIN order = 1..n
      /\ \A j \in 1..n, k \in 1..n : j < k => at[order[j]] >= at[order[k]]
  BY RowsFinite DEF Orderings, Bijection, Injection
<1>2. /\ \A j \in 1..n, k \in 1..n : order[j] = order[k] => j = k
      /\ \A x \in Rows : \E j \in 1..n : order[j] = x
      /\ \A j \in 1..n : order[j] \in Rows
  BY <1>1 DEF Bijection, Injection, Surjection, IsInjective
<1>3. \A x \in Rows : at[x] \in Nat
  BY LogAssumption DEF TypeOK
<1>4. b \in Rows /\ \A x \in Rows \ {b} : at[x] # at[b]
  BY <1>2 DEF Alone
<1>5. ASSUME NEW j \in before  PROVE f[j] \in Ahead(b)
  <2>1. j \in 1..n /\ j < i /\ order[j] \in Rows \ {b}
    BY <1>1, <1>2
  <2>2. at[order[j]] >= at[b] /\ at[order[j]] # at[b]
    BY <2>1, <1>1, <1>4
  <2> QED
    BY <2>1, <2>2, <1>3, <1>4 DEF Ahead
<1>6. ASSUME NEW x \in Ahead(b)  PROVE \E j \in before : f[j] = x
  <2>1. PICK j \in 1..n : order[j] = x
    BY <1>2 DEF Ahead
  <2>2. at[order[j]] > at[b]
    BY <2>1 DEF Ahead
  <2>3. ~ (i < j) /\ j # i
    BY <2>1, <2>2, <1>1, <1>2, <1>3
  <2> QED
    BY <2>1, <2>3
<1>7. f \in Bijection(before, Ahead(b))
  BY <1>1, <1>2, <1>5, <1>6 DEF Bijection, Injection, Surjection, IsInjective
<1>8. ExistsBijection(1..(i - 1), Ahead(b)) /\ i - 1 \in Nat
  BY <1>7, <1>1 DEF ExistsBijection
<1> QED
  BY <1>8, FS_CountingElements

\* The page after this one begins where this one ends.
LEMMA OffsetOfNext ==
  ASSUME page \in Nat
  PROVE  /\ Offset \in Nat /\ PageNo \in Nat \ {0}
         /\ page' = NextPage => Offset' = Offset + PageSize
<1>1. PageNo \in Nat \ {0}
  BY DEF PageNo
<1>2. \A p \in Nat \ {0} : (p - 1) * PageSize \in Nat
                           /\ (p + 1 - 1) * PageSize = (p - 1) * PageSize + PageSize
  BY LogAssumption
<1>3. page' = NextPage => PageNo' = PageNo + 1
  BY <1>1 DEF PageNo, NextPage
<1> QED
  BY <1>1, <1>2, <1>3 DEF Offset

\* What a page leaves out is behind the next one, and the last page leaves
\* out nothing.
LEMMA KeptSlots ==
  ASSUME TypeOK, NEW i \in 1..Cardinality(Rows), i > Offset, i \notin Kept
  PROVE  HasNext /\ i > Offset + PageSize
<1> DEFINE n == Cardinality(Rows)
<1>1. n \in Nat /\ Offset \in Nat /\ PageSize \in Nat
  BY RowsFinite, OffsetOfNext, LogAssumption DEF TypeOK
<1>2. CASE HasNext
  BY <1>1, <1>2 DEF Kept, Slots
<1>3. CASE ~ HasNext
  <2>1. i > Offset + PageSize + 1
    BY <1>1, <1>3 DEF Kept, Listed, Slots
  <2>2. Listed = (Offset + 1)..(Offset + PageSize + 1)
    BY <1>1, <2>1 DEF Listed, Slots
  <2>3. Cardinality(Listed) = PageSize + 1
    BY <1>1, <2>2, FS_Interval
  <2> QED
    BY <1>1, <1>3, <2>3 DEF HasNext
<1> QED
  BY <1>2, <1>3

\* There is a row behind a page that has a next one.
LEMMA RowsBehind ==
  ASSUME TypeOK, HasNext
  PROVE  Cardinality(Rows) > Offset + PageSize
<1> DEFINE n == Cardinality(Rows)
           first == Offset + 1
           last == Offset + PageSize
           span == first..last
<1>1. n \in Nat /\ Offset \in Nat /\ PageSize \in Nat
  BY RowsFinite, OffsetOfNext, LogAssumption DEF TypeOK
<1> SUFFICES ASSUME n <= Offset + PageSize  PROVE FALSE
  BY <1>1
<1>2. Listed \subseteq span
  BY <1>1 DEF Listed, Slots
<1>3. IsFiniteSet(span) /\ Cardinality(span) = PageSize
  <2>1. first \in Int /\ last \in Int /\ last - first + 1 = PageSize /\ ~ (first > last)
    BY <1>1, LogAssumption
  <2> HIDE DEF first, last
  <2> QED
    BY <2>1, FS_Interval
<1>4. Cardinality(Listed) \in Nat /\ Cardinality(Listed) <= PageSize
  BY <1>2, <1>3, FS_Subset, FS_CardinalityType
<1> QED
  BY <1>1, <1>4 DEF HasNext

-----------------------------------------------------------------------------
\* The invariant holds of an empty log.
LEMMA InitInv == Init => Inv
BY DEF Init, Inv, TypeOK, FirstPage, Behind, NothingMissed, Rows

\* An insert keeps the rows there are with their instants, and takes nothing
\* away from what is in front of a row.
LEMMA InsertKeeps ==
  ASSUME TypeOK, NEW r \in Request, Insert(r)
  PROVE  /\ TypeOK'
         /\ \A b \in Rows : /\ Alone(b)' => Alone(b)
                            /\ Cardinality(Ahead(b)') >= Cardinality(Ahead(b))
<1>1. PICK t \in Instant : at' = [x \in Rows \cup {r} |-> IF x = r THEN t ELSE at[x]]
  BY DEF Insert
<1>2. /\ r \notin Rows /\ Rows' = Rows \cup {r}
      /\ \A x \in Rows : at'[x] = at[x]
  BY <1>1 DEF Insert, Rows
<1>3. TypeOK'
  <2>1. at' \in [Rows' -> Instant]
    BY <1>1, <1>2 DEF TypeOK
  <2>2. inserted' \in Nat
    BY DEF Insert, TypeOK
  <2> QED
    BY <1>2, <2>1, <2>2 DEF Insert, TypeOK
<1>4. ASSUME NEW b \in Rows
      PROVE  Cardinality(Ahead(b)') >= Cardinality(Ahead(b))
  <2>1. Ahead(b) \subseteq Ahead(b)'
    BY <1>2, <1>4 DEF Ahead
  <2>2. IsFiniteSet(Rows')
    BY <1>3, FS_Subset, LogAssumption DEF TypeOK
  <2>3. IsFiniteSet(Ahead(b)')
    BY <2>2, FS_Subset DEF Ahead
  <2> QED
    BY <2>1, <2>3, FS_Subset
<1>5. \A b \in Rows : Alone(b)' => Alone(b)
  BY <1>2 DEF Alone
<1> QED
  BY <1>3, <1>4, <1>5

\* A page brings every row it leaves out no further than the next page.
LEMMA FetchKeeps ==
  ASSUME Inv, Fetch
  PROVE  Inv'
<1>1. /\ walk = "walking" /\ UNCHANGED <<at, admin, base, inserted>>
      /\ Rows' = Rows /\ TypeOK
  BY DEF Fetch, Inv, Rows
<1>2. CASE ~ admin /\ walk' = "forbidden" /\ UNCHANGED <<page, seen, repeated>>
  BY <1>1, <1>2 DEF Inv, TypeOK, FirstPage, Behind, NothingMissed, Rows
<1>3. CASE /\ \E order \in Orderings : Show({order[i] : i \in Kept})
           /\ walk' = IF HasNext THEN "walking" ELSE "done"
           /\ page' = IF HasNext THEN NextPage ELSE page
  <2>1. PICK order \in Orderings : Show({order[i] : i \in Kept})
    BY <1>3
  <2> DEFINE n == Cardinality(Rows)
             shown == {order[i] : i \in Kept}
  <2>2. n \in Nat /\ Kept \subseteq 1..n
        /\ \A i \in 1..n : order[i] \in Rows
    <3>1. n \in Nat
      BY <1>1, RowsFinite
    <3> QED
      BY <3>1 DEF Kept, Listed, Slots, Orderings, Bijection, Injection, Surjection
  <2>3. shown \subseteq Rows /\ seen' = seen \cup shown
    BY <2>1, <2>2 DEF Show
  <2>4. PageNo \in Nat \ {0} /\ Offset \in Nat
        /\ (page' = NextPage => Offset' = Offset + PageSize)
    BY <1>1, OffsetOfNext DEF TypeOK
  <2>5. TypeOK'
    <3>1. repeated' \in Nat
      <4>1. IsFiniteSet(shown \cap seen) /\ Cardinality(shown \cap seen) \in Nat
        BY <1>1, <2>3, RowsFinite, FS_Subset, FS_CardinalityType
      <4>2. MaxRepeats \in Nat
        BY LogAssumption, FS_CardinalityType DEF MaxRepeats
      <4> QED
        BY <1>1, <2>1, <4>1, <4>2 DEF Show, UpToMax, TypeOK
    <3>2. page' \in Nat
      BY <1>1, <1>3, <2>4 DEF NextPage, TypeOK
    <3> QED
      BY <1>1, <1>3, <2>3, <3>1, <3>2 DEF TypeOK
  <2>6. ASSUME NEW b \in base \ seen', Alone(b)
        PROVE  HasNext /\ Cardinality(Ahead(b)) >= Offset + PageSize
    <3>1. b \in Rows /\ b \notin seen /\ Cardinality(Ahead(b)) >= Offset
      BY <1>1, <2>3, <2>6 DEF Inv, Behind, TypeOK
    <3>2. PICK i \in 1..n : order[i] = b
      BY <3>1 DEF Orderings, Bijection, Surjection
    <3>3. Cardinality(Ahead(b)) = i - 1 /\ i \notin Kept
      BY <1>1, <2>3, <2>6, <3>2, PlaceOfRow
    <3>4. HasNext /\ i > Offset + PageSize
      BY <1>1, <2>2, <2>4, <3>1, <3>3, KeptSlots
    <3> QED
      BY <2>2, <2>4, <3>3, <3>4, LogAssumption
  <2>7. \A b \in Rows : Alone(b)' = Alone(b) /\ Ahead(b)' = Ahead(b)
    BY <1>1 DEF Alone, Ahead
  <2>8. base' \subseteq Rows
    BY <1>1 DEF TypeOK
  <2>9. Behind'
    BY <1>1, <1>3, <2>4, <2>6, <2>7, <2>8 DEF Behind
  <2>10. NothingMissed'
    BY <1>1, <1>3, <2>6, <2>7, <2>8 DEF NothingMissed
  <2> QED
    BY <1>1, <1>3, <2>5, <2>9, <2>10 DEF Inv, FirstPage
<1> QED
  BY <1>1, <1>2, <1>3 DEF Fetch

\* Every step keeps the invariant.
LEMMA NextInv == Inv /\ [Next]_vars => Inv'
<1> SUFFICES ASSUME Inv, [Next]_vars  PROVE Inv'
  OBVIOUS
<1>1. CASE BeginWalk
  <2>1. /\ UNCHANGED <<at, page, seen>> /\ base' = Rows /\ walk' = "walking"
        /\ Rows' = Rows
    BY <1>1 DEF BeginWalk, Rows
  <2>2. TypeOK'
    BY <1>1, <2>1 DEF BeginWalk, Inv, TypeOK
  <2>3. Offset' = 0
    BY <1>1, <2>1, LogAssumption DEF BeginWalk, Inv, FirstPage, Offset, PageNo
  <2>4. \A b \in base' : Cardinality(Ahead(b)') >= 0
    <3>1. \A b \in Rows' : Ahead(b)' \in SUBSET Request
      BY <2>2 DEF Ahead, TypeOK
    <3> QED
      BY <2>1, <3>1, SomeRowsFinite
  <2>5. Behind'
    BY <2>3, <2>4 DEF Behind
  <2> QED
    BY <2>1, <2>2, <2>5 DEF Inv, FirstPage, NothingMissed
<1>2. CASE Fetch
  BY <1>2, FetchKeeps
<1>3. ASSUME NEW r \in Request, Insert(r)  PROVE Inv'
  <2>1. TypeOK' /\ UNCHANGED <<walk, page, seen, base>> /\ base \subseteq Rows
        /\ Offset' = Offset
    BY <1>3, InsertKeeps DEF Insert, Inv, TypeOK, Offset, PageNo
  <2>2. \A b \in base : /\ Alone(b)' => Alone(b)
                        /\ Cardinality(Ahead(b)') >= Cardinality(Ahead(b))
    BY <1>3, <2>1, InsertKeeps DEF Inv
  <2>3. \A b \in base : Cardinality(Ahead(b)) \in Nat /\ Cardinality(Ahead(b)') \in Nat
    <3>1. \A b \in base : /\ Ahead(b) \in SUBSET Request
                          /\ Ahead(b)' \in SUBSET Request
      BY <2>1 DEF Ahead, Inv, TypeOK
    <3> QED
      BY <3>1, SomeRowsFinite
  <2>4. Behind'
    <3>1. Offset \in Nat
      BY OffsetOfNext DEF Inv, TypeOK
    <3> SUFFICES ASSUME walk' = "walking", NEW b \in base' \ seen', Alone(b)'
                 PROVE  Cardinality(Ahead(b)') >= Offset'
      BY DEF Behind
    <3>2. Cardinality(Ahead(b)) >= Offset /\ b \in base
      BY <2>1, <2>2 DEF Inv, Behind
    <3> QED
      BY <2>1, <2>2, <2>3, <3>1, <3>2
  <2> QED
    BY <2>1, <2>2, <2>4 DEF Inv, FirstPage, NothingMissed
<1>4. CASE UNCHANGED vars
  BY <1>4 DEF vars, Inv, TypeOK, FirstPage, Behind, NothingMissed, Rows, Alone, Ahead, Offset, PageNo
<1> QED
  BY <1>1, <1>2, <1>3, <1>4 DEF Next

\* The invariant holds throughout.
LEMMA SpecInv == Spec => []Inv
<1>1. Init => Inv
  BY InitInv
<1>2. Inv /\ [Next]_vars => Inv'
  BY NextInv
<1> QED
  BY <1>1, <1>2, PTL DEF Spec

\* Types are kept by inserts and by every page of a walk.
THEOREM TypeCorrect == Spec => []TypeOK
<1>1. Inv => TypeOK
  BY DEF Inv
<1> QED
  BY <1>1, SpecInv, PTL

\* A walk over the pages of admin.requests.list.v1 shows every row that was
\* stored when it began and has an instant of its own.
THEOREM WalkIsComplete == Spec => []NothingMissed
<1>1. Inv => NothingMissed
  BY DEF Inv
<1> QED
  BY <1>1, SpecInv, PTL

\* A step to a next page is a step to rows, and rows stay.
LEMMA NextPageStep ==
  ASSUME Inv, Inv', NextPageHasRows, [Next]_vars
  PROVE  NextPageHasRows'
<1>1. Offset \in Nat /\ PageNo \in Nat \ {0} /\ (page' = NextPage => Offset' = Offset + PageSize)
  BY OffsetOfNext DEF Inv, TypeOK
<1>2. CASE BeginWalk
  BY <1>2 DEF BeginWalk, Inv, FirstPage, NextPageHasRows, PageNo
<1>3. CASE Fetch
  <2>1. Rows' = Rows
    BY <1>3 DEF Fetch, Rows
  <2>2. CASE walk' = "walking"
    <3>1. HasNext /\ page' = NextPage
      BY <1>3, <2>2 DEF Fetch
    <3> QED
      BY <1>1, <2>1, <3>1, RowsBehind DEF Inv, NextPageHasRows
  <2> QED
    BY <2>2 DEF NextPageHasRows
<1>4. ASSUME NEW r \in Request, Insert(r)  PROVE NextPageHasRows'
  <2>1. UNCHANGED <<walk, page>> /\ Rows \subseteq Rows'
    BY <1>4 DEF Insert, Rows
  <2>2. /\ IsFiniteSet(Rows') /\ Cardinality(Rows') \in Nat
        /\ Cardinality(Rows) \in Nat /\ Cardinality(Rows) <= Cardinality(Rows')
    <3>1. Rows' \in SUBSET Request
      BY DEF Inv, TypeOK
    <3> QED
      BY <2>1, <3>1, SomeRowsFinite, FS_Subset, FS_CardinalityType
  <2> QED
    BY <1>1, <2>1, <2>2 DEF NextPageHasRows, Offset, PageNo
<1>5. CASE UNCHANGED vars
  BY <1>5 DEF vars, NextPageHasRows, Rows, PageNo, Offset
<1> QED
  BY <1>2, <1>3, <1>4, <1>5 DEF Next

\* A caller of admin.requests.list.v1 is sent on to a page only when there is a
\* row on it.
THEOREM NoEmptyPage == Spec => []NextPageHasRows
<1>1. Init => NextPageHasRows
  BY DEF Init, NextPageHasRows
<1>2. Inv /\ Inv' /\ NextPageHasRows /\ [Next]_vars => NextPageHasRows'
  BY NextPageStep
<1> QED
  BY <1>1, <1>2, SpecInv, PTL DEF Spec
-----------------------------------------------------------------------------
(* Rows that are shown again *)

AllAlone == \A b \in Rows : Alone(b)

\* The rows that were shown and will be again: inserts have pushed them on to
\* the pages to come.
Late == {b \in seen : Cardinality(Ahead(b)) >= Offset}

\* Each of them, and each row that was shown again, took an insert of its own.
Shifts ==
  /\ walk = "no" => seen = {} /\ repeated = 0
  /\ AllAlone => IF walk = "walking" THEN Cardinality(Late) + repeated <= inserted
                                     ELSE repeated <= inserted

\* Sets that do not meet are no larger together than what holds them both.
LEMMA PartsAreSmaller ==
  ASSUME NEW A, IsFiniteSet(A), NEW B \in SUBSET A, NEW C \in SUBSET A, B \cap C = {}
  PROVE  /\ Cardinality(A) \in Nat /\ Cardinality(B) \in Nat /\ Cardinality(C) \in Nat
         /\ Cardinality(B) + Cardinality(C) <= Cardinality(A)
<1>1. IsFiniteSet(B) /\ IsFiniteSet(C) /\ B \cup C \in SUBSET A
  BY FS_Subset
<1>2. Cardinality(A) \in Nat /\ Cardinality(B) \in Nat /\ Cardinality(C) \in Nat
  BY <1>1, FS_CardinalityType
<1>3. Cardinality(B \cup C) = Cardinality(B) + Cardinality(C) - Cardinality(B \cap C)
  BY <1>1, FS_Union
<1>4. Cardinality(B \cap C) = 0
  BY FS_EmptySet
<1>5. Cardinality(B \cup C) <= Cardinality(A)
  BY <1>1, FS_Subset
<1> QED
  BY <1>2, <1>3, <1>4, <1>5

\* One more element makes a set larger by one at most.
LEMMA OneMore ==
  ASSUME NEW A, IsFiniteSet(A), NEW x
  PROVE  /\ IsFiniteSet(A \cup {x}) /\ Cardinality(A \cup {x}) \in Nat
         /\ Cardinality(A \cup {x}) <= Cardinality(A) + 1
<1>1. /\ IsFiniteSet(A \cup {x})
      /\ Cardinality(A \cup {x}) = IF x \in A THEN Cardinality(A) ELSE Cardinality(A) + 1
  BY FS_AddElement
<1>2. Cardinality(A) \in Nat /\ Cardinality(A \cup {x}) \in Nat
  BY <1>1, FS_CardinalityType
<1> QED
  BY <1>1, <1>2

\* With distinct instants no two rows have as many in front of them.
LEMMA PlacesDiffer ==
  ASSUME TypeOK, NEW a \in Rows, NEW b \in Rows, a # b, Alone(a)
  PROVE  Cardinality(Ahead(a)) # Cardinality(Ahead(b))
<1>1. at[a] \in Nat /\ at[b] \in Nat /\ \A x \in Rows : at[x] \in Nat
  BY LogAssumption DEF TypeOK
<1>2. ASSUME NEW x \in Rows, NEW y \in Rows, at[x] < at[y]
      PROVE  Cardinality(Ahead(y)) < Cardinality(Ahead(x))
  <2>1. /\ IsFiniteSet(Ahead(x)) /\ IsFiniteSet(Ahead(y))
        /\ Cardinality(Ahead(x)) \in Nat /\ Cardinality(Ahead(y)) \in Nat
    BY RowsFinite
  <2>2. Ahead(y) \cup {y} \in SUBSET Ahead(x) /\ y \notin Ahead(y)
    BY <1>1, <1>2 DEF Ahead
  <2>3. Cardinality(Ahead(y) \cup {y}) = Cardinality(Ahead(y)) + 1
    BY <2>1, <2>2, FS_AddElement
  <2>4. Cardinality(Ahead(y) \cup {y}) <= Cardinality(Ahead(x))
    BY <2>1, <2>2, FS_Subset
  <2> QED
    BY <2>1, <2>3, <2>4
<1>3. /\ Cardinality(Ahead(a)) \in Nat /\ Cardinality(Ahead(b)) \in Nat
      /\ at[a] < at[b] \/ at[b] < at[a]
  BY <1>1, RowsFinite DEF Alone
<1> QED
  BY <1>2, <1>3

\* An insert pushes at most one row that was shown over the edge of the page.
LEMMA InsertShifts ==
  ASSUME Inv, Shifts, NEW r \in Request, Insert(r)
  PROVE  Shifts'
<1>1. /\ TypeOK /\ TypeOK' /\ UNCHANGED <<walk, page, seen, repeated>>
      /\ seen \subseteq Rows /\ inserted \in Nat /\ repeated \in Nat
  BY InsertKeeps DEF Inv, Insert, TypeOK
<1>2. PICK t \in Instant : at' = [x \in Rows \cup {r} |-> IF x = r THEN t ELSE at[x]]
  BY DEF Insert
<1>3. r \notin Rows /\ Rows' = Rows \cup {r} /\ \A x \in Rows : at'[x] = at[x]
  BY <1>2 DEF Insert, Rows
<1>4. AllAlone' => AllAlone
  BY <1>3 DEF AllAlone, Alone
<1> SUFFICES ASSUME AllAlone'
             PROVE  IF walk = "walking" THEN Cardinality(Late') + repeated <= inserted'
                                        ELSE repeated <= inserted'
  BY <1>1 DEF Shifts
<1>5. CASE walk # "walking"
  BY <1>1, <1>4, <1>5 DEF Shifts, Insert
<1>6. CASE walk = "walking"
  <2>1. Cardinality(Late) + repeated <= inserted /\ inserted' = inserted + 1
    BY <1>4, <1>6 DEF Shifts, Insert
  <2>2. Offset \in Nat /\ Offset' = Offset
    BY <1>1, OffsetOfNext DEF TypeOK, Offset, PageNo
  <2>3. /\ IsFiniteSet(Late) /\ IsFiniteSet(Late')
        /\ Cardinality(Late) \in Nat /\ Cardinality(Late') \in Nat
    <3>1. Late \in SUBSET Request /\ Late' \in SUBSET Request
      BY <1>1 DEF Late, TypeOK
    <3> QED
      BY <3>1, SomeRowsFinite
  <2> DEFINE edge == {b \in seen : Cardinality(Ahead(b)) = Offset - 1}
  <2>4. ASSUME NEW b \in Late', b \notin Late  PROVE b \in edge
    <3>1. b \in seen /\ b \in Rows /\ Cardinality(Ahead(b)') >= Offset
      BY <1>1, <2>2, <2>4 DEF Late
    <3>2. Ahead(b)' \in SUBSET (Ahead(b) \cup {r})
      BY <1>3, <3>1 DEF Ahead
    <3>3. IsFiniteSet(Ahead(b)) /\ Cardinality(Ahead(b)) \in Nat
      BY <1>1, <3>1, RowsFinite
    <3>4. /\ IsFiniteSet(Ahead(b) \cup {r})
          /\ Cardinality(Ahead(b) \cup {r}) <= Cardinality(Ahead(b)) + 1
          /\ Cardinality(Ahead(b) \cup {r}) \in Nat
      BY <3>3, OneMore
    <3>5. Cardinality(Ahead(b)') <= Cardinality(Ahead(b) \cup {r}) /\ Cardinality(Ahead(b)') \in Nat
      BY <3>2, <3>4, FS_Subset, FS_CardinalityType
    <3>6. Cardinality(Ahead(b)) < Offset
      BY <2>2, <2>4, <3>1, <3>3 DEF Late
    <3>7. Cardinality(Ahead(b)) = Offset - 1
      BY <2>2, <3>1, <3>3, <3>4, <3>5, <3>6
    <3> QED
      BY <3>1, <3>7
  <2>5. \A a \in edge, b \in edge : a = b
    BY <1>1, <1>4, PlacesDiffer DEF AllAlone
  <2>6. \E x : Late' \in SUBSET (Late \cup {x})
    <3>1. CASE edge = {}
      BY <2>4, <3>1
    <3>2. CASE edge # {}
      <4>1. PICK x : x \in edge
        BY <3>2
      <4> QED
        BY <2>4, <2>5, <4>1
    <3> QED
      BY <3>1, <3>2
  <2> HIDE DEF edge
  <2>7. PICK x : Late' \in SUBSET (Late \cup {x})
    BY <2>6
  <2>8. /\ IsFiniteSet(Late \cup {x}) /\ Cardinality(Late \cup {x}) <= Cardinality(Late) + 1
        /\ Cardinality(Late \cup {x}) \in Nat
    BY <2>3, OneMore
  <2>9. Cardinality(Late') <= Cardinality(Late \cup {x})
    BY <2>7, <2>8, FS_Subset
  <2> QED
    BY <1>1, <1>6, <2>1, <2>3, <2>8, <2>9
<1> QED
  BY <1>5, <1>6

\* A page shows again only rows that were pushed on to it, and these are then
\* behind the walk.
LEMMA FetchShifts ==
  ASSUME Inv, Shifts, Fetch
  PROVE  Shifts'
<1>1. /\ walk = "walking" /\ UNCHANGED <<at, admin, inserted>> /\ Rows' = Rows /\ TypeOK
      /\ seen \subseteq Rows /\ inserted \in Nat /\ repeated \in Nat
  BY DEF Fetch, Inv, Rows, TypeOK
<1>2. AllAlone' = AllAlone /\ \A b \in Rows : Ahead(b)' = Ahead(b)
  BY <1>1 DEF AllAlone, Alone, Ahead
<1>3. IsFiniteSet(Late) /\ Cardinality(Late) \in Nat
  <2>1. Late \in SUBSET Request
    BY <1>1 DEF Late, TypeOK
  <2> QED
    BY <2>1, SomeRowsFinite
<1>4. CASE ~ admin /\ walk' = "forbidden" /\ UNCHANGED <<page, seen, repeated>>
  BY <1>1, <1>2, <1>3, <1>4 DEF Shifts
<1>5. CASE /\ \E order \in Orderings : Show({order[i] : i \in Kept})
           /\ walk' = IF HasNext THEN "walking" ELSE "done"
           /\ page' = IF HasNext THEN NextPage ELSE page
  <2> SUFFICES ASSUME AllAlone
               PROVE  IF HasNext THEN Cardinality(Late') + repeated' <= inserted
                                 ELSE repeated' <= inserted
    BY <1>1, <1>2, <1>5 DEF Shifts
  <2>1. PICK order \in Orderings : Show({order[i] : i \in Kept})
    BY <1>5
  <2> DEFINE n == Cardinality(Rows)
             shown == {order[i] : i \in Kept}
             again == shown \cap seen
  <2>2. Cardinality(Late) + repeated <= inserted
    BY <1>1 DEF Shifts
  <2>3. n \in Nat /\ \A i \in 1..n : order[i] \in Rows
    BY <1>1, RowsFinite DEF Orderings, Bijection, Injection
  <2>4. /\ Offset \in Nat /\ (page' = NextPage => Offset' = Offset + PageSize)
        /\ PageSize \in Nat
    BY <1>1, OffsetOfNext, LogAssumption DEF TypeOK
  <2>5. /\ Kept \subseteq 1..n
        /\ \A i \in Kept : Offset < i
        /\ HasNext => \A i \in Kept : i <= Offset + PageSize
    BY DEF Kept, Listed, Slots
  <2>6. \A i \in Kept : Cardinality(Ahead(order[i])) = i - 1
    BY <1>1, <2>3, <2>5, PlaceOfRow DEF AllAlone
  <2>7. again \in SUBSET Late
    <3> SUFFICES ASSUME NEW i \in Kept, order[i] \in seen  PROVE order[i] \in Late
      OBVIOUS
    <3>1. Cardinality(Ahead(order[i])) = i - 1 /\ Offset < i /\ i \in Nat
      BY <2>3, <2>5, <2>6
    <3> QED
      BY <2>4, <3>1 DEF Late
  <2>8. /\ seen' = seen \cup shown
        /\ repeated' = UpToMax(repeated + Cardinality(again))
    BY <2>1 DEF Show
  <2> HIDE DEF again
  <2>9. /\ Cardinality(again) \in Nat /\ Cardinality(again) <= Cardinality(Late)
        /\ repeated' <= repeated + Cardinality(again) /\ repeated' \in Nat
    <3>1. Cardinality(again) \in Nat /\ Cardinality(again) <= Cardinality(Late)
      BY <1>3, <2>7, FS_Subset, FS_CardinalityType
    <3>2. MaxRepeats \in Nat
      BY LogAssumption, FS_CardinalityType DEF MaxRepeats
    <3> QED
      BY <1>1, <2>8, <3>1, <3>2 DEF UpToMax
  <2>10. CASE ~ HasNext
    BY <1>1, <1>3, <2>2, <2>9, <2>10
  <2>11. CASE HasNext
    <3>1. Offset' = Offset + PageSize
      BY <1>5, <2>4, <2>11
    <3>2. ASSUME NEW b \in Late'  PROVE b \in Late /\ b \notin again
      <4>1. b \in seen' /\ Cardinality(Ahead(b)') >= Offset + PageSize
        BY <3>1, <3>2 DEF Late
      <4>2. b \in Rows
        BY <1>1, <2>3, <2>5, <2>8, <4>1
      <4>3. Cardinality(Ahead(b)) >= Offset + PageSize /\ Cardinality(Ahead(b)) \in Nat
        BY <1>1, <1>2, <4>1, <4>2, RowsFinite
      <4>4. b \notin shown
        <5>1. ASSUME NEW i \in Kept, b = order[i]  PROVE FALSE
          <6>1. Cardinality(Ahead(b)) = i - 1 /\ i <= Offset + PageSize /\ i \in Nat
            BY <2>3, <2>5, <2>6, <2>11, <5>1
          <6> QED
            BY <2>4, <4>3, <6>1
        <5> QED
          BY <5>1
      <4> QED
        BY <2>4, <2>8, <4>1, <4>3, <4>4 DEF Late, again
    <3>3. Late' \in SUBSET Late /\ Late' \cap again = {}
      BY <3>2
    <3>4. /\ Cardinality(Late') \in Nat
          /\ Cardinality(Late') + Cardinality(again) <= Cardinality(Late)
      BY <1>3, <2>7, <3>3, PartsAreSmaller
    <3> QED
      BY <1>1, <1>3, <2>2, <2>9, <2>11, <3>4
  <2> QED
    BY <2>10, <2>11
<1> QED
  BY <1>1, <1>4, <1>5 DEF Fetch

LEMMA ShiftsStep == Inv /\ Shifts /\ [Next]_vars => Shifts'
<1> SUFFICES ASSUME Inv, Shifts, [Next]_vars  PROVE Shifts'
  OBVIOUS
<1>1. CASE BeginWalk
  <2>1. /\ walk' = "walking" /\ seen' = {} /\ repeated' = 0 /\ inserted' = inserted
        /\ inserted \in Nat
    BY <1>1 DEF BeginWalk, Shifts, Inv, TypeOK
  <2>2. Late' = {}
    BY <2>1 DEF Late
  <2> QED
    BY <2>1, <2>2, FS_EmptySet DEF Shifts
<1>2. CASE UNCHANGED vars
  BY <1>2 DEF vars, Shifts, AllAlone, Alone, Late, Ahead, Rows, Offset, PageNo
<1> QED
  BY <1>1, <1>2, FetchShifts, InsertShifts DEF Next

\* A row is shown again only when an insert has moved one over the edge of a
\* page: with distinct instants a walk repeats no more rows than were inserted
\* since it began.
THEOREM RepeatsNeedInserts == Spec => []RepeatsAreShifts
<1>1. Init => Shifts
  BY DEF Init, Shifts
<1>2. Inv /\ Shifts => RepeatsAreShifts
  <2> SUFFICES ASSUME Inv, Shifts, AllAlone  PROVE repeated <= inserted
    BY DEF RepeatsAreShifts, AllAlone
  <2>1. CASE walk # "walking"
    BY <2>1 DEF Shifts
  <2>2. CASE walk = "walking"
    <3>1. Late \in SUBSET Request /\ repeated \in Nat /\ inserted \in Nat
      BY DEF Late, Inv, TypeOK
    <3>2. Cardinality(Late) \in Nat
      BY <3>1, SomeRowsFinite
    <3> QED
      BY <2>2, <3>1, <3>2 DEF Shifts
  <2> QED
    BY <2>1, <2>2
<1> QED
  BY <1>1, <1>2, ShiftsStep, SpecInv, PTL DEF Spec
=============================================================================
