--------------------------- MODULE SqlVectorsProofs ---------------------------
(***************************************************************************)
(* Theorems about SqlVectors, for every statement: the names of Tables     *)
(* lead somewhere, a table has a vector unless it was overwritten, no      *)
(* column goes without one, and the vectors are what SqlMeaning says.      *)
(***************************************************************************)
EXTENDS SqlMeaning, Integers, FiniteSetTheorems, WellFoundedInduction, TLAPS

-----------------------------------------------------------------------------
(* Induction, and the names a chain of calls of Get goes through *)

\* A set of natural numbers that is not empty has a least element.
LEMMA LeastOf ==
  ASSUME NEW T \in SUBSET Nat, T # {}
  PROVE  \E n \in T : \A k \in T : n <= k
<1> DEFINE R == {ss \in Nat \X Nat : ss[1] < ss[2]}
<1>1. IsWellFoundedOn(R, Nat)
  BY NatLessThanWellFounded DEF OpToRel
<1> HIDE DEF R
<1>2. PICK n \in T : \A k \in T : <<k, n>> \notin R
  BY <1>1, WFMin
<1>3. ASSUME NEW k \in T  PROVE n <= k
  <2>1. k \in Nat /\ n \in Nat
    OBVIOUS
  <2>2. ~ (k < n)
    BY <1>2, <2>1 DEF R
  <2> QED
    BY <2>1, <2>2
<1> QED
  BY <1>3

\* Induction, on the set of the numbers that have the property.
LEMMA NatSetInduction ==
  ASSUME NEW T, 0 \in T, \A n \in Nat : n \in T => n + 1 \in T
  PROVE  Nat \subseteq T
<1> SUFFICES ASSUME Nat \ T # {}  PROVE FALSE
  OBVIOUS
<1>1. PICK n \in Nat \ T : \A k \in Nat \ T : n <= k
  <2> DEFINE U == Nat \ T
  <2>1. U \in SUBSET Nat /\ U # {}
    OBVIOUS
  <2> HIDE DEF U
  <2>2. \E n \in U : \A k \in U : n <= k
    BY <2>1, LeastOf
  <2> QED
    BY <2>2 DEF U
<1>2. n # 0 /\ n - 1 \in Nat
  OBVIOUS
<1>3. n - 1 \in T
  BY <1>1, <1>2
<1>4. (n - 1) + 1 \in T
  BY <1>2, <1>3
<1> QED
  BY <1>4

\* A chain of n names exists: it is defined from its beginning.
IsChain(g, tables, name, n) == g = [i \in 0..n |-> IF i = 0 THEN name ELSE tables[g[i - 1]]]

LEMMA ChainExists ==
  ASSUME NEW tables, NEW name, NEW n \in Nat
  PROVE  \E g : IsChain(g, tables, name, n)
<1> DEFINE T == {k \in Nat : \E g : IsChain(g, tables, name, k)}
<1>1. 0 \in T
  <2> DEFINE g == [i \in 0..0 |-> name]
  <2>1. g = [i \in 0..0 |-> IF i = 0 THEN name ELSE tables[g[i - 1]]]
    OBVIOUS
  <2> HIDE DEF g
  <2> QED
    BY <2>1 DEF IsChain
<1>2. ASSUME NEW k \in Nat, k \in T  PROVE k + 1 \in T
  <2>1. PICK g : g = [i \in 0..k |-> IF i = 0 THEN name ELSE tables[g[i - 1]]]
    BY <1>2 DEF IsChain
  <2> DEFINE h == [i \in 0..(k + 1) |-> IF i = 0 THEN name ELSE tables[g[i - 1]]]
  <2>2. ASSUME NEW i \in 0..(k + 1), i # 0  PROVE h[i - 1] = g[i - 1]
    <3>1. i - 1 \in 0..k /\ i - 1 \in 0..(k + 1)
      BY <2>2
    <3>2. g[i - 1] = IF i - 1 = 0 THEN name ELSE tables[g[(i - 1) - 1]]
      BY <2>1, <3>1
    <3> QED
      BY <3>1, <3>2
  <2>3. h = [i \in 0..(k + 1) |-> IF i = 0 THEN name ELSE tables[h[i - 1]]]
    BY <2>2
  <2> HIDE DEF h
  <2> QED
    BY <2>3 DEF IsChain
<1> HIDE DEF T
<1>3. Nat \subseteq T
  BY <1>1, <1>2, NatSetInduction
<1> QED
  BY <1>3 DEF T

LEMMA WalkIs ==
  ASSUME NEW tables, NEW name, Cardinality(DOMAIN tables) \in Nat
  PROVE  /\ Walk(tables, name)[0] = name
         /\ \A n \in 1..Cardinality(DOMAIN tables) :
              Walk(tables, name)[n] = tables[Walk(tables, name)[n - 1]]
<1> DEFINE N == Cardinality(DOMAIN tables)
           at == Walk(tables, name)
<1>0. N \in Nat
  OBVIOUS
<1>1. \E g : IsChain(g, tables, name, N)
  <2> HIDE DEF N
  <2> QED
    BY <1>0, ChainExists
<1>2. at = CHOOSE g : g = [i \in 0..N |-> IF i = 0 THEN name ELSE tables[g[i - 1]]]
  BY DEF Walk
<1>3. at = [i \in 0..N |-> IF i = 0 THEN name ELSE tables[at[i - 1]]]
  BY <1>1, <1>2 DEF IsChain
<1> HIDE DEF at
<1>4. \A n \in 1..N : n \in 0..N /\ n # 0
  BY <1>0
<1>5. at[0] = name /\ \A n \in 1..N : at[n] = tables[at[n - 1]]
  BY <1>0, <1>3, <1>4
<1> QED
  BY <1>5 DEF at

\* A chain stays in a set that it enters and that is closed.
LEMMA GetStays ==
  ASSUME NEW tables, IsFiniteSet(DOMAIN tables), NEW T \in SUBSET DOMAIN tables,
         \A k \in T : tables[k] \in T, NEW name \in DOMAIN tables, tables[name] \in T
  PROVE  Get(tables, name) \in T
<1> DEFINE N == Cardinality(DOMAIN tables)
           at == Walk(tables, name)
<1>1. N \in Nat /\ N # 0
  BY FS_CardinalityType, FS_EmptySet
<1>2. at[0] = name /\ \A n \in 1..N : at[n] = tables[at[n - 1]]
  BY <1>1, WalkIs
<1> HIDE DEF at, N
<1> DEFINE U == {n \in Nat : n + 1 <= N => at[n + 1] \in T}
<1>3. 0 \in U
  <2>1. 1 \in 1..N /\ 1 - 1 = 0 /\ 0 + 1 = 1
    BY <1>1
  <2>2. at[1] = tables[at[0]]
    BY <1>2, <2>1
  <2> QED
    BY <1>2, <2>1, <2>2
<1>4. ASSUME NEW n \in Nat, n \in U  PROVE n + 1 \in U
  <2> SUFFICES ASSUME (n + 1) + 1 <= N  PROVE at[(n + 1) + 1] \in T
    OBVIOUS
  <2>1. (n + 1) + 1 \in 1..N /\ ((n + 1) + 1) - 1 = n + 1 /\ n + 1 <= N
    BY <1>1
  <2>2. at[(n + 1) + 1] = tables[at[n + 1]] /\ at[n + 1] \in T
    BY <1>2, <1>4, <2>1
  <2> QED
    BY <2>2
<1> HIDE DEF U
<1>5. Nat \subseteq U
  BY <1>3, <1>4, NatSetInduction
<1>6. N - 1 \in U /\ (N - 1) + 1 = N
  BY <1>1, <1>5
<1>7. at[N] \in T
  BY <1>1, <1>6 DEF U
<1> QED
  BY <1>7 DEF Get, at, N

\* So it stays among the names there are, and ends at one that others stand for.
LEMMA GetLeads ==
  ASSUME NEW tables, IsFiniteSet(DOMAIN tables), NEW T \in SUBSET DOMAIN tables,
         \A k \in DOMAIN tables : tables[k] \in T, NEW name \in DOMAIN tables
  PROVE  Get(tables, name) \in T
BY GetStays

\* If names rank higher along a chain, but for one that stands for itself, it
\* has come to such a one after as many steps as there are names: Get ends.
LEMMA ChainEnds ==
  ASSUME NEW tables, IsFiniteSet(DOMAIN tables), NEW T \in SUBSET DOMAIN tables,
         \A k \in DOMAIN tables : tables[k] \in T, NEW name \in DOMAIN tables,
         NEW rank \in [T -> Nat],
         \A k \in T : \/ tables[tables[k]] = tables[k]
                      \/ rank[k] < rank[tables[k]]
  PROVE  tables[Get(tables, name)] = Get(tables, name)
<1> DEFINE N == Cardinality(DOMAIN tables)
           at == Walk(tables, name)
<1>1. N \in Nat /\ N # 0
  BY FS_CardinalityType, FS_EmptySet
<1>2. at[0] = name /\ \A n \in 1..N : at[n] = tables[at[n - 1]]
  BY <1>1, WalkIs
<1>3. tables[at[N]] = at[N] => tables[Get(tables, name)] = Get(tables, name)
  BY DEF Get
<1> HIDE DEF at
<1> SUFFICES ASSUME tables[at[N]] # at[N]  PROVE FALSE
  BY <1>3
<1>4. \A n \in 0..N : at[n] \in DOMAIN tables /\ (n # 0 => at[n] \in T)
  <2> DEFINE U == {n \in Nat : n <= N => at[n] \in DOMAIN tables /\ (n # 0 => at[n] \in T)}
  <2> HIDE DEF N
  <2>1. 0 \in U
    BY <1>2
  <2>2. ASSUME NEW n \in Nat, n \in U  PROVE n + 1 \in U
    <3> SUFFICES ASSUME n + 1 <= N  PROVE at[n + 1] \in T
      OBVIOUS
    <3>1. n + 1 \in 1..N /\ (n + 1) - 1 = n /\ n <= N
      BY <1>1
    <3>2. at[n + 1] = tables[at[n]] /\ at[n] \in DOMAIN tables
      BY <1>2, <2>2, <3>1
    <3> QED
      BY <3>2
  <2> HIDE DEF U
  <2>3. Nat \subseteq U
    BY <2>1, <2>2, NatSetInduction
  <2> QED
    BY <1>1, <2>3 DEF U
<1>5. \A n \in 0..N : tables[at[n]] # at[n]
  <2> DEFINE U == {d \in Nat : d <= N => tables[at[N - d]] # at[N - d]}
  <2> HIDE DEF N
  <2>1. 0 \in U
    BY <1>1
  <2>2. ASSUME NEW d \in Nat, d \in U  PROVE d + 1 \in U
    <3> SUFFICES ASSUME d + 1 <= N, tables[at[N - (d + 1)]] = at[N - (d + 1)]  PROVE FALSE
      OBVIOUS
    <3>1. N - d \in 1..N /\ (N - d) - 1 = N - (d + 1) /\ d <= N
      BY <1>1
    <3>2. at[N - d] = at[N - (d + 1)]
      BY <1>2, <3>1
    <3> QED
      BY <2>2, <3>1, <3>2
  <2> HIDE DEF U
  <2>3. Nat \subseteq U
    BY <2>1, <2>2, NatSetInduction
  <2>4. ASSUME NEW n \in 0..N  PROVE tables[at[n]] # at[n]
    <3>1. N - n \in Nat /\ N - n <= N /\ N - (N - n) = n
      BY <1>1
    <3>2. N - n \in U
      BY <2>3, <3>1
    <3> QED
      BY <3>1, <3>2 DEF U
  <2> QED
    BY <2>4
<1>6. ASSUME NEW n \in 0..N, n + 1 <= N, at[n] \in T
      PROVE  rank[at[n]] < rank[at[n + 1]]
  <2> HIDE DEF N
  <2>1. n + 1 \in 1..N /\ n + 1 \in 0..N /\ (n + 1) - 1 = n
    BY <1>1, <1>6
  <2>2. at[n + 1] = tables[at[n]] /\ tables[at[n + 1]] # at[n + 1]
    BY <1>2, <1>5, <2>1
  <2> QED
    BY <1>6, <2>2
<1>7. ASSUME NEW x \in 0..N, NEW y \in 0..N, x < y, at[x] \in T
      PROVE  rank[at[x]] < rank[at[y]]
  <2> DEFINE U == {d \in Nat : x + (d + 1) <= N => rank[at[x]] < rank[at[x + (d + 1)]]}
  <2> HIDE DEF N
  <2>1. 0 \in U
    BY <1>6, <1>7
  <2>2. ASSUME NEW d \in Nat, d \in U  PROVE d + 1 \in U
    <3> SUFFICES ASSUME x + ((d + 1) + 1) <= N
                 PROVE  rank[at[x]] < rank[at[x + ((d + 1) + 1)]]
      OBVIOUS
    <3>1. /\ x + (d + 1) \in 0..N /\ x + (d + 1) # 0 /\ x + (d + 1) <= N
          /\ (x + (d + 1)) + 1 = x + ((d + 1) + 1) /\ x + ((d + 1) + 1) \in 0..N
          /\ x + ((d + 1) + 1) # 0
      BY <1>1
    <3>2. at[x + (d + 1)] \in T /\ at[x + ((d + 1) + 1)] \in T
      BY <1>4, <3>1
    <3>3. rank[at[x]] < rank[at[x + (d + 1)]]
      BY <2>2, <3>1
    <3>4. rank[at[x + (d + 1)]] < rank[at[x + ((d + 1) + 1)]]
      BY <1>6, <3>1, <3>2
    <3>5. /\ rank[at[x]] \in Nat /\ rank[at[x + (d + 1)]] \in Nat
          /\ rank[at[x + ((d + 1) + 1)]] \in Nat
      BY <1>7, <3>2
    <3> QED
      BY <3>3, <3>4, <3>5
  <2> HIDE DEF U
  <2>3. Nat \subseteq U
    BY <2>1, <2>2, NatSetInduction
  <2>4. y - x - 1 \in Nat /\ x + ((y - x - 1) + 1) = y /\ y <= N
    BY <1>1, <1>7
  <2>5. y - x - 1 \in U
    BY <2>3, <2>4
  <2> QED
    BY <2>4, <2>5 DEF U
<1>8. ASSUME NEW x \in 0..N, NEW y \in 0..N, x < y  PROVE at[x] # at[y]
  <2>1. y # 0 /\ at[y] \in T
    BY <1>1, <1>4, <1>8
  <2>2. ASSUME at[x] = at[y]  PROVE FALSE
    <3>1. rank[at[x]] < rank[at[y]] /\ rank[at[x]] \in Nat
      BY <1>7, <1>8, <2>1, <2>2
    <3> QED
      BY <2>2, <3>1
  <2> QED
    BY <2>2
<1>9. PICK x \in 0..N, y \in 0..N : x # y /\ at[x] = at[y]
  <2> DEFINE f == [n \in 0..N |-> at[n]]
             S == 0..N
  <2>1. f \in [S -> DOMAIN tables]
    BY <1>4
  <2>2. IsFiniteSet(S) /\ Cardinality(S) = N + 1
    <3> HIDE DEF N
    <3>1. 0 \in Int /\ N \in Int /\ ~ (0 > N) /\ N - 0 + 1 = N + 1
      BY <1>1
    <3> QED
      BY <3>1, FS_Interval
  <2>3. Cardinality(DOMAIN tables) < Cardinality(S)
    BY <1>1, <2>2
  <2> HIDE DEF S, f
  <2>4. \E x, y \in S : x # y /\ f[x] = f[y]
    BY <2>1, <2>2, <2>3, FS_PigeonHole
  <2> QED
    BY <2>4 DEF S, f
<1>10. x < y \/ y < x
  BY <1>1, <1>9
<1> QED
  BY <1>8, <1>9, <1>10

-----------------------------------------------------------------------------
(* The invariant *)

\* Tables.m is what the Puts so far have entered: each key under the last
\* table that has it.
Entered ==
  /\ \A i \in 1..put : Keys(stmt.from[i]) \subseteq DOMAIN m
  /\ \A k \in DOMAIN m \ {<<>>} : \E i \in 1..put : IsLast(k, i) /\ m[k] = Fqtn(stmt.from[i])

\* The handler's phases: an UPDATE has found a column of its own table once
\* it is past its first item.
Phases ==
  /\ stmt \in Statement
  /\ put \in 0..Len(stmt.from)
  /\ pc \in {"clauses", "tables"} => <<>> \notin DOMAIN m
  /\ pc = "clauses" => put = 0
  /\ pc \in {"items", "accepted"} => put = Len(stmt.from)
  /\ stmt.op = "update" =>
       todo = stmt.items \/ \E c \in cols : c.tbl = Fqtn(stmt.from[1])
  /\ pc = "accepted" => /\ todo = <<>> /\ vectors = {VectorOf(t) : t \in Owners}
                        /\ \A c \in cols : c.tbl \in DOMAIN m

\* The full names of the tables that were put.
Names == {Fqtn(stmt.from[i]) : i \in 1..put}

\* Finitely many names were entered; the empty one stands for a table.
Finite ==
  /\ IsFiniteSet(DOMAIN m)
  /\ <<>> \in DOMAIN m => m[<<>>] \in Names

Inv == Entered /\ Phases /\ Finite

\* A table is entered under its full name, and never under the empty one.
LEMMA KeysOfTable ==
  ASSUME NEW src
  PROVE  Fqtn(src) \in Keys(src) /\ <<>> \notin Keys(src) /\ Fqtn(src) # <<>>
BY DEF Keys, Fqtn

\* A Put keeps Tables.m what has been entered.
LEMMA PutEnters ==
  ASSUME Inv, PutTable, pc' # "refused"
  PROVE  Entered' /\ <<>> \notin DOMAIN m'
<1> DEFINE src == stmt.from[put + 1]
<1>1. /\ put < Len(stmt.from) /\ put' = put + 1 /\ stmt' = stmt /\ m' = Put(m, src)
      /\ pc = "tables" /\ put \in Nat /\ Len(stmt.from) \in Nat
  BY StatementAssumption DEF PutTable, Refuse, Inv, Phases
<1>2. DOMAIN m' = DOMAIN m \cup Keys(src)
      /\ \A k \in DOMAIN m' : m'[k] = IF k \in Keys(src) THEN Fqtn(src) ELSE m[k]
  BY <1>1 DEF Put
<1>3. <<>> \notin DOMAIN m'
  BY <1>1, <1>2, KeysOfTable DEF Inv, Phases
<1>4. \A i \in 1..put' : Keys(stmt'.from[i]) \subseteq DOMAIN m'
  <2> SUFFICES ASSUME NEW i \in 1..put'  PROVE Keys(stmt.from[i]) \subseteq DOMAIN m'
    BY <1>1
  <2>1. CASE i = put + 1
    BY <2>1, <1>2
  <2>2. CASE i # put + 1
    <3>1. i \in 1..put
      BY <2>2, <1>1
    <3> QED
      BY <3>1, <1>2 DEF Inv, Entered
  <2> QED
    BY <2>1, <2>2
<1>5. ASSUME NEW k \in DOMAIN m'
      PROVE  \E i \in 1..put' : IsLast(k, i)' /\ m'[k] = Fqtn(stmt.from[i])
  <2>1. CASE k \in Keys(src)
    <3>1. PICK n \in 1..put' : n = put + 1
      BY <1>1
    <3>2. (n + 1)..put' = {} /\ stmt'.from[n] = src
      BY <3>1, <1>1
    <3>3. IsLast(k, n)'
      BY <3>2, <2>1 DEF IsLast
    <3> QED
      BY <3>2, <3>3, <2>1, <1>1, <1>2
  <2>2. CASE k \notin Keys(src)
    <3>1. k \in DOMAIN m \ {<<>>} /\ m'[k] = m[k]
      BY <2>2, <1>2, <1>3
    <3>2. PICK i \in 1..put : IsLast(k, i) /\ m[k] = Fqtn(stmt.from[i])
      BY <3>1 DEF Inv, Entered
    <3>3. i \in 1..put' /\ (i + 1)..put' = ((i + 1)..put) \cup {put + 1}
      BY <1>1
    <3>4. IsLast(k, i)'
      BY <3>2, <3>3, <2>2, <1>1 DEF IsLast
    <3> QED
      BY <3>1, <3>2, <3>3, <3>4
  <2> QED
    BY <2>1, <2>2
<1> QED
  BY <1>1, <1>3, <1>4, <1>5 DEF Entered

\* The steps that enter no table keep what is entered.
LEMMA EnteredKept ==
  ASSUME Entered, UNCHANGED <<stmt, put, m>>
  PROVE  Entered'
BY DEF Entered, IsLast

\* Every name stands for a table that was put.
LEMMA NamesAreTables ==
  ASSUME Entered, Finite
  PROVE  Names \subseteq DOMAIN m /\ \A k \in DOMAIN m : m[k] \in Names
<1>1. Names \subseteq DOMAIN m
  BY KeysOfTable DEF Entered, Names
<1>2. ASSUME NEW k \in DOMAIN m, k # <<>>  PROVE m[k] \in Names
  BY <1>2 DEF Entered, Names
<1> QED
  BY <1>1, <1>2 DEF Finite

LEMMA FiniteKept ==
  ASSUME Finite, UNCHANGED <<stmt, put, m>>
  PROVE  Finite'
BY DEF Finite, Names

\* A Put enters at most four keys.
LEMMA PutFinite ==
  ASSUME Inv, PutTable, pc' # "refused"
  PROVE  Finite'
<1> DEFINE src == stmt.from[put + 1]
<1>1. m' = Put(m, src)
  BY DEF PutTable, Refuse
<1>2. IsFiniteSet(Keys(src))
  <2>1. \A x : IsFiniteSet({x}) /\ IsFiniteSet({})
    BY FS_Singleton, FS_EmptySet
  <2> DEFINE a == {<<src.rel>>, Fqtn(src)}
             b == IF src.schema = NoSchema THEN {<<DefaultSchema, src.rel>>} ELSE {}
             c == IF src.alias = NoAlias THEN {} ELSE {<<src.alias>>}
  <2>2. IsFiniteSet(a) /\ IsFiniteSet(b) /\ IsFiniteSet(c)
    <3>1. a = {<<src.rel>>} \cup {Fqtn(src)}
      OBVIOUS
    <3>2. IsFiniteSet({<<src.rel>>}) /\ IsFiniteSet({Fqtn(src)})
      BY <2>1
    <3>3. IsFiniteSet({<<src.rel>>} \cup {Fqtn(src)})
      BY <3>2, FS_Union
    <3> QED
      BY <2>1, <3>1, <3>3
  <2>3. Keys(src) = (a \cup b) \cup c
    BY DEF Keys
  <2> HIDE DEF a, b, c
  <2>4. IsFiniteSet(a \cup b)
    BY <2>2, FS_Union
  <2> QED
    BY <2>2, <2>3, <2>4, FS_Union
<1>3. DOMAIN m' = DOMAIN m \cup Keys(src)
  BY <1>1 DEF Put
<1> HIDE DEF src
<1>4. IsFiniteSet(DOMAIN m')
  BY <1>2, <1>3, FS_Union DEF Inv, Finite
<1>5. <<>> \notin DOMAIN m'
  BY PutEnters
<1> QED
  BY <1>4, <1>5 DEF Finite

\* The table that columns without one are given is that of the statement.
LEMMA FinalizeFinite ==
  ASSUME Inv, Finalize
  PROVE  Finite'
<1>1. /\ UNCHANGED <<stmt, put>> /\ Names' = Names /\ <<>> \notin DOMAIN m
  BY DEF Finalize, Names, Inv, Phases
<1>2. CASE m' = m
  BY <1>1, <1>2 DEF Inv, Finite
<1>3. CASE m' # m
  <2> DEFINE t == CHOOSE x \in GetAll(m) : TRUE
  <2>1. /\ Cardinality(GetAll(m)) = 1
        /\ m' = [k \in DOMAIN m \cup {<<>>} |-> IF k = <<>> THEN t ELSE m[k]]
    BY <1>3 DEF Finalize
  <2>2. GetAll(m) \subseteq Names
    <3>1. IsFiniteSet(DOMAIN m) /\ Names \in SUBSET DOMAIN m /\ \A k \in DOMAIN m : m[k] \in Names
      BY NamesAreTables DEF Inv, Finite
    <3>2. \A k \in DOMAIN m : Get(m, k) \in Names
      BY <3>1, GetLeads
    <3> QED
      BY <3>2 DEF GetAll
  <2>3. GetAll(m) # {}
    BY <2>1, FS_EmptySet
  <2>4. t \in Names
    BY <2>2, <2>3
  <2> HIDE DEF t
  <2>5. DOMAIN m' = DOMAIN m \cup {<<>>} /\ m'[<<>>] = t
    BY <2>1
  <2>6. IsFiniteSet(DOMAIN m')
    BY <2>5, FS_AddElement DEF Inv, Finite
  <2> QED
    BY <1>1, <2>4, <2>5, <2>6 DEF Finite
<1> QED
  BY <1>2, <1>3

\* Finalize enters the empty name alone.
LEMMA FinalizeEnters ==
  ASSUME Inv, Finalize
  PROVE  Entered'
<1>1. /\ stmt' = stmt /\ put' = put
      /\ m' = m \/ /\ DOMAIN m' = DOMAIN m \cup {<<>>}
                   /\ \A k \in DOMAIN m \ {<<>>} : m'[k] = m[k]
  BY DEF Finalize
<1> QED
  BY <1>1 DEF Inv, Entered, IsLast

\* The initial states satisfy the invariant.
LEMMA InitInv == Init => Inv
<1> SUFFICES ASSUME Init PROVE Inv
  OBVIOUS
<1>1. DOMAIN m = {} /\ put = 0 /\ stmt \in Statement /\ pc = "clauses" /\ todo = stmt.items
  BY DEF Init
<1>2. put \in 0..Len(stmt.from)
  BY <1>1, StatementAssumption
<1>3. Finite
  BY <1>1, FS_EmptySet DEF Finite
<1> QED
  BY <1>1, <1>2, <1>3 DEF Inv, Entered, Phases

\* Every step keeps the invariant.
LEMMA NextInv == Inv /\ [Next]_vars => Inv'
<1> SUFFICES ASSUME Inv, [Next]_vars PROVE Inv'
  OBVIOUS
<1>r. ASSUME Refuse, pc # "accepted" PROVE Inv'
  <2>1. Entered' /\ Finite'
    BY <1>r, EnteredKept, FiniteKept DEF Inv, Refuse
  <2> QED
    BY <2>1, <1>r DEF Inv, Phases, Refuse
<1>1. CASE CheckClauses
  <2>1. CASE Refuse
    BY <2>1, <1>1, <1>r DEF CheckClauses
  <2>2. CASE ~ Refuse
    <3>1. Entered' /\ Finite'
      BY <1>1, <2>2, EnteredKept, FiniteKept DEF Inv, CheckClauses
    <3> QED
      BY <3>1, <1>1, <2>2 DEF Inv, Phases, CheckClauses
  <2> QED
    BY <2>1, <2>2
<1>2. CASE PutTable
  <2>1. CASE Refuse
    BY <2>1, <1>2, <1>r DEF PutTable
  <2>2. CASE ~ Refuse
    <3>1. Entered' /\ <<>> \notin DOMAIN m' /\ Finite'
      BY <1>2, <2>2, PutEnters, PutFinite DEF PutTable
    <3>2. put' \in 0..Len(stmt'.from)
      BY <1>2, <2>2, StatementAssumption DEF Inv, Phases, PutTable
    <3> QED
      BY <3>1, <3>2, <1>2, <2>2 DEF Inv, Phases, PutTable
  <2> QED
    BY <2>1, <2>2
<1>3. CASE Finalize
  <2>1. Entered' /\ Finite'
    BY <1>3, FinalizeEnters, FinalizeFinite
  <2> QED
    BY <2>1, <1>3 DEF Inv, Phases, Finalize
<1>4. CASE LookInto
  <2>1. CASE Refuse
    BY <2>1, <1>4, <1>r DEF LookInto
  <2>2. CASE ~ Refuse
    <3>1. Entered' /\ Finite'
      BY <1>4, <2>2, EnteredKept, FiniteKept DEF Inv, LookInto
    <3>2. stmt' = stmt /\ cols \subseteq cols' /\ pc' = "items" /\ pc = "items" /\ put' = put /\ m' = m
      BY <1>4, <2>2 DEF LookInto
    <3>3. stmt.op = "update" => \E c \in cols' : c.tbl = Fqtn(stmt.from[1])
      <4> SUFFICES ASSUME stmt.op = "update"
                   PROVE \E c \in cols' : c.tbl = Fqtn(stmt.from[1])
        OBVIOUS
      <4>1. CASE \E c \in cols : c.tbl = Fqtn(stmt.from[1])
        BY <4>1, <3>2
      <4>2. CASE todo = stmt.items
        <5> DEFINE node == Head(todo)[2]
        <5>1. Head(todo)[1] = "set"
          BY <4>2, StatementAssumption DEF Inv, Phases
        <5>2. OwnColumn(node.name) \in Found("set", node)
          BY DEF Found
        <5>3. OwnColumn(node.name) \in cols'
          BY <5>1, <5>2, <1>4, <2>2 DEF LookInto
        <5> QED
          BY <5>3 DEF OwnColumn
      <4> QED
        BY <4>1, <4>2 DEF Inv, Phases
    <3> QED
      BY <3>1, <3>2, <3>3 DEF Inv, Phases
  <2> QED
    BY <2>1, <2>2
<1>5. CASE MakeVectors
  <2>1. CASE Refuse
    BY <2>1, <1>5, <1>r DEF MakeVectors
  <2>2. CASE ~ Refuse
    <3>1. Entered' /\ Finite'
      BY <1>5, <2>2, EnteredKept, FiniteKept DEF Inv, MakeVectors
    <3>2. /\ todo = <<>> /\ pc = "items" /\ pc' = "accepted"
          /\ UNCHANGED <<stmt, put, m, todo, cols>>
          /\ vectors' = {VectorOf(t) : t \in Owners}
          /\ \A c \in cols : c.tbl \in DOMAIN m
      BY <1>5, <2>2 DEF MakeVectors
    <3>3. vectors' = {VectorOf(t)' : t \in Owners'}
      BY <3>2 DEF VectorOf, Owners
    <3> QED
      BY <3>1, <3>2, <3>3 DEF Inv, Phases
  <2> QED
    BY <2>1, <2>2
<1>6. CASE UNCHANGED vars
  <2>1. Entered' /\ Finite'
    BY <1>6, EnteredKept, FiniteKept DEF Inv, vars
  <2>2. {VectorOf(t) : t \in Owners}' = {VectorOf(t) : t \in Owners}
    BY <1>6 DEF vars, VectorOf, Owners
  <2> QED
    BY <2>1, <2>2, <1>6 DEF Inv, Phases, vars
<1> QED
  BY <1>1, <1>2, <1>3, <1>4, <1>5, <1>6 DEF Next

\* Inv is an invariant of the specification.
LEMMA SpecInv == Spec => []Inv
BY InitInv, NextInv, PTL DEF Spec

-----------------------------------------------------------------------------
\* A key was entered last under one table alone.
LEMMA OnlyLast ==
  ASSUME put \in Nat, NEW k, NEW x \in 1..put, NEW y \in 1..put, IsLast(k, x), IsLast(k, y)
  PROVE  x = y
<1>1. CASE x < y
  BY <1>1 DEF IsLast
<1>2. CASE y < x
  BY <1>2 DEF IsLast
<1> QED
  BY <1>1, <1>2

\* The table under whose name a key was entered last.
LEMMA LastPutIs ==
  ASSUME Inv, NEW k \in DOMAIN m \ {<<>>}
  PROVE  LastPut(k) \in 1..put /\ IsLast(k, LastPut(k)) /\ m[k] = Fqtn(stmt.from[LastPut(k)])
<1>1. put \in Nat
  BY StatementAssumption DEF Inv, Phases
<1>2. PICK i \in 1..put : IsLast(k, i) /\ m[k] = Fqtn(stmt.from[i])
  BY DEF Inv, Entered
<1>3. LastPut(k) = i
  BY <1>1, <1>2, OnlyLast DEF LastPut
<1> QED
  BY <1>2, <1>3

LEMMA LeadOn == Inv => NamesLead
<1> SUFFICES ASSUME Inv, NEW k \in DOMAIN m \ {<<>>}
             PROVE  m[k] \in DOMAIN m /\ (m[m[k]] = m[k] \/ LastPut(m[k]) > LastPut(k))
  BY DEF NamesLead
<1>1. put \in Nat
  BY StatementAssumption DEF Inv, Phases
<1>2. PICK i \in 1..put : i = LastPut(k) /\ IsLast(k, i) /\ m[k] = Fqtn(stmt.from[i])
  BY LastPutIs
<1>3. m[k] \in Keys(stmt.from[i]) /\ m[k] \in DOMAIN m \ {<<>>}
  BY <1>2, KeysOfTable DEF Inv, Entered
<1>4. PICK j \in 1..put : j = LastPut(m[k]) /\ IsLast(m[k], j) /\ m[m[k]] = Fqtn(stmt.from[j])
  BY <1>3, LastPutIs
<1>5. ~ j < i
  BY <1>1, <1>3, <1>4 DEF IsLast
<1> QED
  BY <1>1, <1>2, <1>3, <1>4, <1>5

\* However tables and aliases of a statement name each other, every name leads to
\* one that was entered later, or to one that stands for itself.
THEOREM NamesResolve == Spec => []NamesLead
BY SpecInv, LeadOn, PTL

\* What Get returns stands for itself.
GetEnds == \A k \in DOMAIN m : m[Get(m, k)] = Get(m, k)

LEMMA EndOfGet == Inv => GetEnds
<1> SUFFICES ASSUME Inv, NEW k \in DOMAIN m  PROVE m[Get(m, k)] = Get(m, k)
  BY DEF GetEnds
<1>1. IsFiniteSet(DOMAIN m) /\ Names \in SUBSET DOMAIN m /\ \A n \in DOMAIN m : m[n] \in Names
  BY NamesAreTables DEF Inv, Finite
<1>2. Names \subseteq DOMAIN m \ {<<>>}
  BY <1>1, KeysOfTable DEF Names
<1> DEFINE rank == [n \in Names |-> LastPut(n)]
<1>3. rank \in [Names -> Nat]
  <2>1. \A n \in Names : LastPut(n) \in 1..put
    BY <1>2, LastPutIs
  <2> QED
    BY <2>1
<1>4. \A n \in Names : m[m[n]] = m[n] \/ rank[n] < rank[m[n]]
  <2>1. \A n \in Names : /\ m[n] \in Names
                         /\ m[m[n]] = m[n] \/ LastPut(n) < LastPut(m[n])
    BY <1>1, <1>2, LeadOn DEF NamesLead
  <2> QED
    BY <2>1
<1> HIDE DEF rank
<1> QED
  BY <1>1, <1>3, <1>4, ChainEnds

\* Tables.Get terminates: from every name it comes to a table that stands for
\* itself, in no more steps than there are names.  (Tables.Get calls itself
\* without a bound, and the error GetAll passes on is never returned.)
THEOREM GetTerminates == Spec => []GetEnds
BY SpecInv, EndOfGet, PTL

\* A table stands for itself unless another one overwrote its entry.
LEMMA StandsUnlessOverwritten ==
  ASSUME Inv, put = Len(stmt.from), NEW i \in Sources
  PROVE  /\ Fqtn(stmt.from[i]) \in DOMAIN m
         /\ m[Fqtn(stmt.from[i])] = Fqtn(stmt.from[i]) <=> ~ Overwritten(i)
<1> DEFINE f == Fqtn(stmt.from[i])
<1>1. put \in Nat /\ Sources = 1..put
  BY StatementAssumption DEF Inv, Phases, Sources
<1>2. f \in DOMAIN m \ {<<>>}
  BY <1>1, KeysOfTable DEF Inv, Entered
<1>3. PICK j \in 1..put : IsLast(f, j) /\ m[f] = Fqtn(stmt.from[j])
  BY <1>2 DEF Inv, Entered
<1>4. ASSUME NEW x \in Sources, IsLast(f, x)  PROVE m[f] = Fqtn(stmt.from[x])
  BY <1>1, <1>3, <1>4, OnlyLast
<1> QED
  BY <1>1, <1>2, <1>3, <1>4 DEF Overwritten

\* A write has one table, and that is not overwritten.
LEMMA WriteOfOneTable ==
  ASSUME Inv, stmt.op # "select"
  PROVE  Sources = {1} /\ ~ Overwritten(1)
<1>1. Len(stmt.from) = 1
  BY StatementAssumption DEF Inv, Phases
<1>2. Sources = {1}
  BY <1>1 DEF Sources
<1> QED
  BY <1>2 DEF Overwritten

\* For every accepted statement, a table has a vector of its own, with or without
\* columns, exactly if no later Put overwrote its entry in Tables.m: nothing else
\* loses one, and whatever was overwritten has lost it.
THEOREM TablesHaveVectors == Spec => []VectorUnlessOverwritten
<1>1. Inv => VectorUnlessOverwritten
  <2> SUFFICES ASSUME Inv, pc = "accepted", NEW i \in Sources
               PROVE  (\E v \in vectors : v.tbl = Fqtn(stmt.from[i])) <=> ~ Overwritten(i)
    BY DEF VectorUnlessOverwritten
  <2> DEFINE f == Fqtn(stmt.from[i])
  <2>1. /\ put = Len(stmt.from) /\ stmt \in Statement
        /\ vectors = {VectorOf(t) : t \in Owners} /\ \A c \in cols : c.tbl \in DOMAIN m
    BY DEF Inv, Phases
  <2>2. f \in DOMAIN m /\ (m[f] = f <=> ~ Overwritten(i))
    BY <2>1, StandsUnlessOverwritten
  <2>3. (\E v \in vectors : v.tbl = f) <=> f \in Owners
    <3>1. \A t : VectorOf(t).tbl = t
      BY DEF VectorOf
    <3> QED
      BY <2>1, <3>1
  <2>4. stmt.op # "select" => i = 1 /\ ~ Overwritten(1)
    BY WriteOfOneTable
  <2>5. ASSUME ~ Overwritten(i)  PROVE f \in Owners
    <3>1. Get(m, f) = f
      BY <2>2, <2>5 DEF Get
    <3>2. CASE stmt.op = "select"
      BY <2>2, <3>1, <3>2 DEF Owners, GetAll
    <3>3. CASE stmt.op \in {"insert", "delete"}
      BY <2>4, <3>3 DEF Owners
    <3>4. CASE stmt.op = "update"
      <4>1. PICK c \in cols : c.tbl = Fqtn(stmt.from[1])
        BY <3>4, StatementAssumption DEF Inv, Phases
      <4> QED
        BY <2>4, <3>1, <3>4, <4>1 DEF Owners
    <3> QED
      BY <2>1, <3>2, <3>3, <3>4, StatementAssumption
  <2>6. ASSUME Overwritten(i)  PROVE f \notin Owners
    <3>1. stmt.op = "select"
      BY <2>4, <2>6
    <3>2. Owners \subseteq {Get(m, k) : k \in DOMAIN m}
      BY <2>1, <3>1 DEF Owners, GetAll
    <3>3. \A k \in DOMAIN m : m[Get(m, k)] = Get(m, k)
      BY EndOfGet DEF GetEnds
    <3> QED
      BY <2>2, <2>6, <3>2, <3>3
  <2> QED
    BY <2>3, <2>5, <2>6
<1> QED
  BY SpecInv, <1>1, PTL

\* A column of an accepted statement, wherever the statement names it, is in the
\* vector of one of the statement's tables: none escapes the policy by the name
\* or alias it is qualified with.
THEOREM ColumnsHaveVectors == Spec => []EveryColumnHasVector
<1>1. Inv => EveryColumnHasVector
  <2> SUFFICES ASSUME Inv, pc = "accepted", NEW c \in cols
               PROVE  \E v \in vectors :
                        c.col \in v.cols /\ v.tbl \in {Fqtn(stmt.from[i]) : i \in Sources}
    BY DEF EveryColumnHasVector
  <2> DEFINE t == Get(m, c.tbl)
  <2>1. c.tbl \in DOMAIN m /\ vectors = {VectorOf(u) : u \in Owners} /\ put = Len(stmt.from)
    BY DEF Inv, Phases
  <2>2. IsFiniteSet(DOMAIN m) /\ Names \in SUBSET DOMAIN m /\ \A k \in DOMAIN m : m[k] \in Names
    BY NamesAreTables DEF Inv, Finite
  <2>3. t \in Names
    BY <2>1, <2>2, GetLeads
  <2>4. VectorOf(t) \in vectors
    BY <2>1 DEF Owners
  <2>5. VectorOf(t).tbl = t /\ c.col \in VectorOf(t).cols
    BY DEF VectorOf
  <2>6. t \in {Fqtn(stmt.from[i]) : i \in Sources}
    BY <2>1, <2>3 DEF Names, Sources
  <2> QED
    BY <2>4, <2>5, <2>6
<1> QED
  BY SpecInv, <1>1, PTL

-----------------------------------------------------------------------------
(* The columns of a node: the recursive function is what its definition says *)

\* The nodes of less than a height, and the columns of each of them.
Lower(h) == {n \in Node : Height[n] < h}
IsLeaves(g, h) ==
  g = [n \in Lower(h) |-> IF n.k = "col" THEN {Column(n)} ELSE UNION {g[p] : p \in Parts(n)}]
IsAllLeaves(g) ==
  g = [n \in Node |-> IF n.k = "col" THEN {Column(n)} ELSE UNION {g[p] : p \in Parts(n)}]

LEMMA PartsAreLower ==
  ASSUME NEW h \in Nat, NEW n \in Lower(h + 1)
  PROVE  Parts(n) \subseteq Lower(h)
<1> SUFFICES ASSUME NEW p \in Parts(n)  PROVE p \in Node /\ Height[p] < h
  BY DEF Lower
<1>1. n \in Node /\ Height[n] \in Nat /\ Height[n] < h + 1
  BY NodeAssumption DEF Lower
<1>2. p \in Node /\ Height[p] < Height[n] /\ Height[p] \in Nat
  BY <1>1, NodeAssumption
<1> QED
  BY <1>1, <1>2

\* There is but one way to give the nodes their columns.
LEMMA LeavesAgree ==
  ASSUME NEW a \in Nat, NEW b \in Nat, NEW f, NEW g, IsLeaves(f, a), IsLeaves(g, b)
  PROVE  \A n \in Lower(a) \cap Lower(b) : f[n] = g[n]
<1> DEFINE T == {h \in Nat : \A n \in Lower(a) \cap Lower(b) : Height[n] < h => f[n] = g[n]}
<1>0. \A n \in Node : Height[n] \in Nat
  BY NodeAssumption
<1>1. 0 \in T
  BY <1>0 DEF Lower
<1>2. ASSUME NEW h \in Nat, h \in T  PROVE h + 1 \in T
  <2> SUFFICES ASSUME NEW n \in Lower(a) \cap Lower(b), Height[n] < h + 1  PROVE f[n] = g[n]
    OBVIOUS
  <2>1. n \in Node /\ Height[n] \in Nat /\ Height[n] < a /\ Height[n] < b
    BY <1>0 DEF Lower
  <2>2. ASSUME NEW p \in Parts(n)  PROVE f[p] = g[p]
    <3>1. p \in Node /\ Height[p] < Height[n] /\ Height[p] \in Nat
      BY <2>1, NodeAssumption
    <3>2. p \in Lower(a) \cap Lower(b) /\ Height[p] < h
      BY <2>1, <3>1 DEF Lower
    <3> QED
      BY <1>2, <3>2
  <2>3. f[n] = IF n.k = "col" THEN {Column(n)} ELSE UNION {f[p] : p \in Parts(n)}
    BY DEF IsLeaves
  <2>4. g[n] = IF n.k = "col" THEN {Column(n)} ELSE UNION {g[p] : p \in Parts(n)}
    BY DEF IsLeaves
  <2>5. {f[p] : p \in Parts(n)} = {g[p] : p \in Parts(n)}
    BY <2>2
  <2> QED
    BY <2>3, <2>4, <2>5
<1> HIDE DEF T
<1>3. Nat \subseteq T
  BY <1>1, <1>2, NatSetInduction
<1>4. ASSUME NEW n \in Lower(a) \cap Lower(b)  PROVE f[n] = g[n]
  <2>1. a \in T /\ Height[n] < a
    BY <1>3 DEF Lower
  <2> QED
    BY <2>1 DEF T
<1> QED
  BY <1>4

LEMMA LeavesExist ==
  ASSUME NEW h \in Nat
  PROVE  \E g : IsLeaves(g, h)
<1> DEFINE T == {k \in Nat : \E g : IsLeaves(g, k)}
<1>1. 0 \in T
  <2>1. Lower(0) = {}
    BY NodeAssumption DEF Lower
  <2> DEFINE g == [n \in Lower(0) |-> {}]
  <2>2. g = [n \in Lower(0) |-> IF n.k = "col" THEN {Column(n)} ELSE UNION {g[p] : p \in Parts(n)}]
    BY <2>1
  <2> HIDE DEF g
  <2> QED
    BY <2>2 DEF IsLeaves
<1>2. ASSUME NEW k \in Nat, k \in T  PROVE k + 1 \in T
  <2>1. PICK g : IsLeaves(g, k)
    BY <1>2
  <2>2. \A n \in Lower(k) :
          g[n] = IF n.k = "col" THEN {Column(n)} ELSE UNION {g[p] : p \in Parts(n)}
    BY <2>1 DEF IsLeaves
  <2> DEFINE f == [n \in Lower(k + 1) |->
                     IF n.k = "col" THEN {Column(n)} ELSE UNION {g[p] : p \in Parts(n)}]
  <2>3. Lower(k) \subseteq Lower(k + 1)
    BY NodeAssumption DEF Lower
  <2>4. \A n \in Lower(k) : f[n] = g[n]
    BY <2>2, <2>3
  <2>5. ASSUME NEW n \in Lower(k + 1)
        PROVE  {f[p] : p \in Parts(n)} = {g[p] : p \in Parts(n)}
    <3>1. Parts(n) \subseteq Lower(k)
      BY PartsAreLower
    <3> HIDE DEF f
    <3> QED
      BY <2>4, <3>1
  <2>6. f = [n \in Lower(k + 1) |->
               IF n.k = "col" THEN {Column(n)} ELSE UNION {f[p] : p \in Parts(n)}]
    BY <2>5
  <2> HIDE DEF f
  <2> QED
    BY <2>6 DEF IsLeaves
<1> HIDE DEF T
<1>3. Nat \subseteq T
  BY <1>1, <1>2, NatSetInduction
<1> QED
  BY <1>3 DEF T

LEMMA LeavesIs == IsAllLeaves(Leaves)
<1> DEFINE of(n) == CHOOSE g : IsLeaves(g, Height[n] + 1)
           G == [n \in Node |-> of(n)[n]]
<1>1. ASSUME NEW n \in Node  PROVE IsLeaves(of(n), Height[n] + 1) /\ n \in Lower(Height[n] + 1)
  <2>1. Height[n] \in Nat /\ Height[n] + 1 \in Nat
    BY NodeAssumption
  <2>2. \E g : IsLeaves(g, Height[n] + 1)
    BY <2>1, LeavesExist
  <2> QED
    BY <2>1, <2>2 DEF Lower
<1>2. ASSUME NEW n \in Node, NEW p \in Parts(n)  PROVE of(n)[p] = G[p]
  <2>1. p \in Node /\ Height[n] \in Nat /\ Height[p] \in Nat /\ Height[p] < Height[n]
    BY NodeAssumption
  <2>2. /\ IsLeaves(of(n), Height[n] + 1) /\ IsLeaves(of(p), Height[p] + 1)
        /\ p \in Lower(Height[n] + 1) \cap Lower(Height[p] + 1)
        /\ Height[n] + 1 \in Nat /\ Height[p] + 1 \in Nat
    BY <1>1, <2>1 DEF Lower
  <2> HIDE DEF of
  <2>3. of(n)[p] = of(p)[p]
    BY <2>2, LeavesAgree
  <2> QED
    BY <2>1, <2>3
<1>3. ASSUME NEW n \in Node
      PROVE  G[n] = IF n.k = "col" THEN {Column(n)} ELSE UNION {G[p] : p \in Parts(n)}
  <2>1. {of(n)[p] : p \in Parts(n)} = {G[p] : p \in Parts(n)}
    <3> HIDE DEF of, G
    <3> QED
      BY <1>2
  <2>2. of(n)[n] = IF n.k = "col" THEN {Column(n)} ELSE UNION {of(n)[p] : p \in Parts(n)}
    <3> HIDE DEF of
    <3> QED
      BY <1>1 DEF IsLeaves
  <2>3. G[n] = of(n)[n]
    OBVIOUS
  <2> HIDE DEF of, G
  <2> QED
    BY <2>1, <2>2, <2>3
<1>4. IsAllLeaves(G)
  <2>1. DOMAIN G = Node /\ G = [n \in Node |-> G[n]]
    OBVIOUS
  <2> HIDE DEF G
  <2> QED
    BY <1>3, <2>1 DEF IsAllLeaves
<1>5. \E g : IsAllLeaves(g)
  <2> HIDE DEF G
  <2> QED
    BY <1>4
<1>6. Leaves = CHOOSE g : IsAllLeaves(g)
  BY DEF Leaves, IsAllLeaves
<1> HIDE DEF G
<1> QED
  BY <1>5, <1>6

LEMMA LeavesOf ==
  ASSUME NEW n \in Node
  PROVE  Leaves[n] = IF n.k = "col" THEN {Column(n)} ELSE UNION {Leaves[p] : p \in Parts(n)}
BY LeavesIs DEF IsAllLeaves

\* A node without parts has the column it is, if it is one.
Simple == {"col", "star", "const", "default"}

LEMMA LeavesOfSimple ==
  ASSUME NEW n \in Node, n.k \in Simple
  PROVE  Leaves[n] = ColumnsAmong({n})
<1>1. CASE n.k = "col"
  BY <1>1, LeavesOf DEF ColumnsAmong
<1>2. CASE n.k # "col"
  <2>1. Parts(n) = {}
    BY <1>2 DEF Parts, Simple
  <2>2. Leaves[n] = {}
    BY <1>2, <2>1, LeavesOf
  <2> QED
    BY <1>2, <2>2 DEF ColumnsAmong
<1> QED
  BY <1>1, <1>2

\* Any other has those of its parts.
LEMMA LeavesOfParts ==
  ASSUME NEW n \in Node, n.k \in {"bool", "list", "func", "op", "null"}
  PROVE  /\ Leaves[n] = UNION {Leaves[p] : p \in Parts(n)}
         /\ Parts(n) \subseteq Node /\ ColumnsAmong({n}) = {}
<1>1. n.k # "col"
  OBVIOUS
<1> QED
  BY <1>1, LeavesOf, NodeAssumption DEF ColumnsAmong

LEMMA LeavesOfOp ==
  ASSUME NEW n \in Node, n.k = "op"
  PROVE  /\ n.l \in Node /\ n.r \in Node /\ Leaves[n] = Leaves[n.l] \cup Leaves[n.r]
         /\ ColumnsAmong({n}) = {}
<1>1. Parts(n) = {n.l, n.r}
  BY DEF Parts
<1>2. /\ Leaves[n] = UNION {Leaves[p] : p \in Parts(n)}
      /\ Parts(n) \subseteq Node /\ ColumnsAmong({n}) = {}
  BY LeavesOfParts
<1>3. Leaves[n] = Leaves[n.l] \cup Leaves[n.r]
  BY <1>1, <1>2
<1> QED
  BY <1>1, <1>2, <1>3

LEMMA LeavesOfNull ==
  ASSUME NEW n \in Node, n.k = "null"
  PROVE  n.arg \in Node /\ Leaves[n] = Leaves[n.arg] /\ ColumnsAmong({n}) = {}
<1>1. Parts(n) = {n.arg}
  BY DEF Parts
<1>2. /\ Leaves[n] = UNION {Leaves[p] : p \in Parts(n)}
      /\ Parts(n) \subseteq Node /\ ColumnsAmong({n}) = {}
  BY LeavesOfParts
<1>3. Leaves[n] = Leaves[n.arg]
  BY <1>1, <1>2
<1> QED
  BY <1>1, <1>2, <1>3

LEMMA LeavesOfArgs ==
  ASSUME NEW n \in Node, n.k \in {"bool", "list", "func"}
  PROVE  /\ ArgsOf(n) \subseteq Node /\ Leaves[n] = UNION {Leaves[a] : a \in ArgsOf(n)}
         /\ ColumnsAmong({n}) = {}
<1>1. Parts(n) = ArgsOf(n)
  BY DEF Parts
<1> QED
  BY <1>1, LeavesOfParts

\* Arguments without parts have the columns among them.
LEMMA LeavesOfSimpleArgs ==
  ASSUME NEW n \in Node, n.k \in {"list", "func"}, AllOf(n.args, Simple)
  PROVE  Leaves[n] = ColumnsAmong(ArgsOf(n))
<1>1. ArgsOf(n) \subseteq Node /\ Leaves[n] = UNION {Leaves[a] : a \in ArgsOf(n)}
  BY LeavesOfArgs
<1>2. ASSUME NEW a \in ArgsOf(n)  PROVE Leaves[a] = ColumnsAmong({a})
  BY <1>1, <1>2, LeavesOfSimple DEF AllOf, ArgsOf
<1>3. UNION {Leaves[a] : a \in ArgsOf(n)} = UNION {ColumnsAmong({a}) : a \in ArgsOf(n)}
  BY <1>2
<1> HIDE <1>2
<1>4. UNION {ColumnsAmong({a}) : a \in ArgsOf(n)} = ColumnsAmong(ArgsOf(n))
  BY DEF ColumnsAmong
<1> QED
  BY <1>1, <1>3, <1>4

-----------------------------------------------------------------------------
(* What is found so far, and what is still to be found *)

\* The columns an item stands for: the name of a named one alone, but for a SET,
\* whose value counts too.
OwnName(x) ==
  IF x[1] \in {"item", "set"} /\ x[2].name # NoName THEN {OwnColumn(x[2].name)} ELSE {}
Looked(x) ==
  IF x[1] = "item" THEN IF x[2].name # NoName THEN {} ELSE Leaves[x[2].val]
  ELSE IF x[1] = "set" THEN Leaves[x[2].val]
  ELSE Leaves[x[2]]
Wanted(x) == OwnName(x) \cup Looked(x)

\* Items of the statement, and the conditions inside them.
Pieces == Items \cup {<<"where", n>> : n \in Node}

AllWanted(s) == UNION {Wanted(s[i]) : i \in 1..Len(s)}

ColumnsInv ==
  /\ todo \in Seq(Pieces)
  /\ cols \cup AllWanted(todo) = UNION {Wanted(x) : x \in Items}

LEMMA PieceIs ==
  ASSUME stmt \in Statement, NEW x \in Pieces
  PROVE  /\ x[1] \in Places
         /\ IF x[1] \in {"item", "set"} THEN x[2].val \in Node ELSE x[2] \in Node
         /\ x[1] = "set" => x[2].name # NoName
<1>1. CASE x \in Items
  BY <1>1, ItemAssumption DEF Items
<1>2. CASE x \in {<<"where", n>> : n \in Node}
  BY <1>2 DEF Places
<1> QED
  BY <1>1, <1>2 DEF Pieces

LEMMA OneCondition ==
  ASSUME NEW c \in Node
  PROVE  AllWanted(<<<<"where", c>>>>) = Leaves[c] /\ <<<<"where", c>>>> \in Seq(Pieces)
<1> DEFINE x == <<"where", c>>
<1>1. x \in Pieces /\ Wanted(x) = Leaves[c]
  BY DEF Pieces, Wanted, OwnName, Looked
<1> HIDE DEF x
<1>2. <<x>> \in Seq(Pieces) /\ Len(<<x>>) = 1 /\ <<x>>[1] = x
  BY <1>1
<1>3. AllWanted(<<x>>) = Wanted(x)
  BY <1>2 DEF AllWanted
<1> QED
  BY <1>1, <1>2, <1>3 DEF x

\* What is inside a condition, and what it stands for.
LEMMA WhereSplits ==
  ASSUME NEW n \in Node, ConditionSupported(n)
  PROVE  /\ Inside("where", n) \in Seq(Pieces)
         /\ Leaves[n] = Found("where", n) \cup AllWanted(Inside("where", n))
<1>w. ASSUME NEW c \in Node
      PROVE  <<"where", c>> \in Pieces /\ Wanted(<<"where", c>>) = Leaves[c]
  BY DEF Pieces, Wanted, OwnName, Looked
<1>e. AllWanted(<<>>) = {} /\ <<>> \in Seq(Pieces)
  BY DEF AllWanted
<1>s. ASSUME NEW c \in Node
      PROVE  AllWanted(<<<<"where", c>>>>) = Leaves[c] /\ <<<<"where", c>>>> \in Seq(Pieces)
  BY OneCondition
<1>1. CASE n.k = "op" /\ OpSupported(n)
  <2>1. /\ n.l \in Node /\ n.r \in Node /\ Leaves[n] = Leaves[n.l] \cup Leaves[n.r]
    BY <1>1, LeavesOfOp
  <2>2. Leaves[n.r] = ColumnsAmong({n.r})
    <3>1. CASE n.r.k \in {"const", "col"}
      BY <3>1, <2>1, LeavesOfSimple DEF Simple
    <3>2. CASE n.r.k = "list" /\ AllOf(n.r.args, {"const"})
      <4>1. AllOf(n.r.args, Simple) /\ ColumnsAmong(ArgsOf(n.r)) = {}
        BY <3>2 DEF AllOf, Simple, ColumnsAmong, ArgsOf
      <4>2. Leaves[n.r] = {}
        BY <2>1, <3>2, <4>1, LeavesOfSimpleArgs
      <4> QED
        BY <3>2, <4>2 DEF ColumnsAmong
    <3> QED
      BY <1>1, <3>1, <3>2 DEF OpSupported
  <2>3. Found("where", n) = ColumnsAmong({n.l}) \cup ColumnsAmong({n.r})
    <3>1. Found("where", n) = ColumnsAmong({n.l, n.r})
      BY <1>1 DEF Found
    <3> QED
      BY <3>1 DEF ColumnsAmong
  <2>4. CASE n.l.k = "col"
    <3>1. Leaves[n.l] = ColumnsAmong({n.l})
      BY <2>1, <2>4, LeavesOfSimple DEF Simple
    <3>2. Inside("where", n) = <<>>
      BY <1>1, <2>4 DEF Inside
    <3> QED
      BY <1>e, <2>1, <2>2, <2>3, <3>1, <3>2
  <2>5. CASE n.l.k = "op"
    <3>1. ColumnsAmong({n.l}) = {}
      BY <2>5 DEF ColumnsAmong
    <3>2. Inside("where", n) = <<<<"where", n.l>>>>
      BY <1>1, <2>5 DEF Inside
    <3> QED
      BY <1>s, <2>1, <2>2, <2>3, <3>1, <3>2
  <2> QED
    BY <1>1, <2>4, <2>5 DEF OpSupported
<1>2. CASE n.k = "bool"
  <2>1. /\ ArgsOf(n) \subseteq Node /\ Leaves[n] = UNION {Leaves[a] : a \in ArgsOf(n)}
        /\ ColumnsAmong({n}) = {}
    BY <1>2, LeavesOfArgs
  <2>2. DOMAIN n.args = 1..Len(n.args) /\ Len(n.args) \in Nat
    BY <1>2, NodeAssumption
  <2> DEFINE s == [i \in DOMAIN n.args |-> <<"where", n.args[i]>>]
  <2>3. Inside("where", n) = s /\ Found("where", n) = {}
    BY <1>2, <2>1 DEF Inside, Found
  <2>4. \A i \in 1..Len(n.args) : n.args[i] \in ArgsOf(n) /\ n.args[i] \in Node
    BY <2>1, <2>2 DEF ArgsOf
  <2>5. \A i \in 1..Len(n.args) : s[i] \in Pieces /\ Wanted(s[i]) = Leaves[n.args[i]]
    BY <1>w, <2>2, <2>4
  <2>6. DOMAIN s = 1..Len(n.args)
    BY <2>2
  <2>7. s = [i \in 1..Len(n.args) |-> s[i]]
    BY <2>2
  <2> HIDE DEF s
  <2>8. s \in Seq(Pieces) /\ Len(s) = Len(n.args)
    BY <2>2, <2>5, <2>6, <2>7
  <2>9. AllWanted(s) = UNION {Leaves[a] : a \in ArgsOf(n)}
    <3>1. AllWanted(s) = UNION {Leaves[n.args[i]] : i \in 1..Len(n.args)}
      BY <2>5, <2>8 DEF AllWanted
    <3> QED
      BY <2>2, <3>1 DEF ArgsOf
  <2> QED
    BY <2>1, <2>3, <2>8, <2>9
<1>3. CASE n.k = "null" /\ n.arg.k \in {"col", "op"}
  <2>1. n.arg \in Node /\ Leaves[n] = Leaves[n.arg]
    BY <1>3, LeavesOfNull
  <2>2. Found("where", n) = ColumnsAmong({n.arg})
    BY <1>3 DEF Found
  <2>3. CASE n.arg.k = "col"
    <3>1. Leaves[n.arg] = ColumnsAmong({n.arg})
      BY <2>1, <2>3, LeavesOfSimple DEF Simple
    <3>2. Inside("where", n) = <<>>
      BY <1>3, <2>3 DEF Inside
    <3> QED
      BY <1>e, <2>1, <2>2, <3>1, <3>2
  <2>4. CASE n.arg.k = "op"
    <3>1. ColumnsAmong({n.arg}) = {}
      BY <2>4 DEF ColumnsAmong
    <3>2. Inside("where", n) = <<<<"where", n.arg>>>>
      BY <1>3, <2>4 DEF Inside
    <3> QED
      BY <1>s, <2>1, <2>2, <3>1, <3>2
  <2> QED
    BY <1>3, <2>3, <2>4
<1> QED
  BY <1>1, <1>2, <1>3 DEF ConditionSupported

\* Looking into a part finds all it stands for, now or in the conditions inside it.
LEMMA PieceSplits ==
  ASSUME stmt \in Statement, NEW x \in Pieces, Supported(x[1], x[2])
  PROVE  /\ Inside(x[1], x[2]) \in Seq(Pieces)
         /\ Wanted(x) = Found(x[1], x[2]) \cup AllWanted(Inside(x[1], x[2]))
<1> DEFINE place == x[1]
           node == x[2]
<1>1. /\ place \in Places
      /\ IF place \in {"item", "set"} THEN node.val \in Node ELSE node \in Node
      /\ place = "set" => node.name # NoName
  BY PieceIs
<1>2. Supported(place, node)
  OBVIOUS
<1>3. Wanted(x) = IF place = "item"
                  THEN IF node.name # NoName THEN {OwnColumn(node.name)} ELSE Leaves[node.val]
                  ELSE IF place = "set" THEN {OwnColumn(node.name)} \cup Leaves[node.val]
                  ELSE Leaves[node]
  BY <1>1 DEF Wanted, OwnName, Looked
<1>e. AllWanted(<<>>) = {} /\ <<>> \in Seq(Pieces)
  BY DEF AllWanted
<1> HIDE DEF place, node
<1> SUFFICES /\ Inside(place, node) \in Seq(Pieces)
             /\ Wanted(x) = Found(place, node) \cup AllWanted(Inside(place, node))
  BY DEF place, node
<1>4. CASE place \in {"target", "sort", "group", "value"}
  <2>1. node \in Node /\ Wanted(x) = Leaves[node]
    BY <1>1, <1>3, <1>4
  <2>2. Inside(place, node) = <<>>
    BY <1>4 DEF Inside
  <2>3. CASE place = "target" /\ node.k = "func"
    <3>1. Found(place, node) = ColumnsAmong(ArgsOf(node))
      BY <2>3 DEF Found
    <3>2. AllOf(node.args, Simple)
      BY <1>2, <2>3 DEF Supported, TargetSupported, AllOf, Simple
    <3>3. Leaves[node] = ColumnsAmong(ArgsOf(node))
      BY <2>1, <2>3, <3>2, LeavesOfSimpleArgs
    <3> QED
      BY <1>e, <2>1, <2>2, <3>1, <3>3
  <2>4. CASE ~ (place = "target" /\ node.k = "func")
    <3>1. Found(place, node) = ColumnsAmong({node})
      BY <1>4, <2>4 DEF Found
    <3>2. node.k \in Simple
      BY <1>2, <1>4, <2>4 DEF Supported, TargetSupported, Simple
    <3>3. Leaves[node] = ColumnsAmong({node})
      BY <2>1, <3>2, LeavesOfSimple
    <3> QED
      BY <1>e, <2>1, <2>2, <3>1, <3>3
  <2> QED
    BY <2>3, <2>4
<1>5. CASE place = "where"
  <2>1. node \in Node /\ Wanted(x) = Leaves[node]
    BY <1>1, <1>3, <1>5
  <2>2. ConditionSupported(node)
    BY <1>2, <1>5 DEF Supported
  <2> QED
    BY <1>5, <2>1, <2>2, WhereSplits
<1>6. CASE place = "item"
  <2>1. Inside(place, node) = <<>>
    BY <1>6 DEF Inside
  <2>2. CASE node.name # NoName
    <3>1. Found(place, node) = {OwnColumn(node.name)}
      BY <1>6, <2>2 DEF Found
    <3> QED
      BY <1>e, <1>3, <1>6, <2>1, <2>2, <3>1
  <2>3. CASE node.name = NoName
    <3>1. Found(place, node) = ColumnsAmong({node.val})
      BY <1>6, <2>3 DEF Found
    <3>2. node.val \in Node /\ node.val.k = "col"
      BY <1>1, <1>2, <1>6, <2>3 DEF Supported
    <3>3. Leaves[node.val] = ColumnsAmong({node.val})
      BY <3>2, LeavesOfSimple DEF Simple
    <3> QED
      BY <1>e, <1>3, <1>6, <2>1, <2>3, <3>1, <3>3
  <2> QED
    BY <2>2, <2>3
<1>7. CASE place = "set"
  <2>1. /\ Wanted(x) = {OwnColumn(node.name)} \cup Leaves[node.val] /\ node.val \in Node
        /\ node.val.k \in {"const", "default", "op", "col"}
    BY <1>1, <1>2, <1>3, <1>7 DEF Supported
  <2>2. Found(place, node) = {OwnColumn(node.name)} \cup ColumnsAmong({node.val})
    BY <1>7 DEF Found
  <2>3. CASE node.val.k = "op"
    <3>1. Inside(place, node) = <<<<"where", node.val>>>> /\ ColumnsAmong({node.val}) = {}
      BY <1>7, <2>3 DEF Inside, ColumnsAmong
    <3>2. /\ AllWanted(<<<<"where", node.val>>>>) = Leaves[node.val]
          /\ <<<<"where", node.val>>>> \in Seq(Pieces)
      BY <2>1, OneCondition
    <3> QED
      BY <2>1, <2>2, <3>1, <3>2
  <2>4. CASE node.val.k # "op"
    <3>1. Inside(place, node) = <<>>
      BY <1>7, <2>4 DEF Inside
    <3>2. Leaves[node.val] = ColumnsAmong({node.val})
      BY <2>1, <2>4, LeavesOfSimple DEF Simple
    <3> QED
      BY <1>e, <2>1, <2>2, <3>1, <3>2
  <2> QED
    BY <2>3, <2>4
<1> QED
  BY <1>1, <1>4, <1>5, <1>6, <1>7 DEF Places

LEMMA AllWantedOfTwo ==
  ASSUME NEW s \in Seq(Pieces), NEW t \in Seq(Pieces)
  PROVE  AllWanted(s \o t) = AllWanted(s) \cup AllWanted(t) /\ s \o t \in Seq(Pieces)
<1>1. /\ Len(s) \in Nat /\ Len(t) \in Nat /\ Len(s \o t) = Len(s) + Len(t)
      /\ s \o t \in Seq(Pieces)
      /\ \A i \in 1..(Len(s) + Len(t)) :
           (s \o t)[i] = IF i <= Len(s) THEN s[i] ELSE t[i - Len(s)]
  OBVIOUS
<1> DEFINE r == s \o t
<1> HIDE DEF r
<1>2. /\ Len(r) = Len(s) + Len(t)
      /\ \A i \in 1..(Len(s) + Len(t)) : r[i] = IF i <= Len(s) THEN s[i] ELSE t[i - Len(s)]
  BY <1>1 DEF r
<1>3. AllWanted(r) \subseteq AllWanted(s) \cup AllWanted(t)
  <2> SUFFICES ASSUME NEW c, NEW i \in 1..Len(r), c \in Wanted(r[i])
               PROVE  c \in AllWanted(s) \cup AllWanted(t)
    BY DEF AllWanted
  <2>1. CASE i <= Len(s)
    <3>1. i \in 1..Len(s) /\ r[i] = s[i]
      BY <1>1, <1>2, <2>1
    <3> QED
      BY <3>1 DEF AllWanted
  <2>2. CASE ~ i <= Len(s)
    <3>1. i - Len(s) \in 1..Len(t) /\ r[i] = t[i - Len(s)]
      BY <1>1, <1>2, <2>2
    <3> QED
      BY <3>1 DEF AllWanted
  <2> QED
    BY <2>1, <2>2
<1>4. AllWanted(s) \subseteq AllWanted(r)
  <2> SUFFICES ASSUME NEW c, NEW i \in 1..Len(s), c \in Wanted(s[i])  PROVE c \in AllWanted(r)
    BY DEF AllWanted
  <2>1. i \in 1..Len(r) /\ r[i] = s[i]
    BY <1>1, <1>2
  <2> QED
    BY <2>1 DEF AllWanted
<1>5. AllWanted(t) \subseteq AllWanted(r)
  <2> SUFFICES ASSUME NEW c, NEW i \in 1..Len(t), c \in Wanted(t[i])  PROVE c \in AllWanted(r)
    BY DEF AllWanted
  <2>1. i + Len(s) \in 1..Len(r) /\ ~ (i + Len(s) <= Len(s)) /\ (i + Len(s)) - Len(s) = i
    BY <1>1, <1>2
  <2>2. r[i + Len(s)] = t[i]
    BY <1>1, <1>2, <2>1
  <2> QED
    BY <2>1, <2>2 DEF AllWanted
<1> QED
  BY <1>1, <1>3, <1>4, <1>5 DEF r

LEMMA AllWantedOfHead ==
  ASSUME NEW s \in Seq(Pieces), s # <<>>
  PROVE  /\ AllWanted(s) = Wanted(Head(s)) \cup AllWanted(Tail(s))
         /\ Head(s) \in Pieces /\ Tail(s) \in Seq(Pieces)
<1>1. /\ Head(s) = s[1] /\ Head(s) \in Pieces /\ Tail(s) \in Seq(Pieces)
      /\ Len(s) \in Nat /\ Len(s) >= 1 /\ Len(Tail(s)) = Len(s) - 1
      /\ \A i \in 1..(Len(s) - 1) : Tail(s)[i] = s[i + 1]
  OBVIOUS
<1>2. AllWanted(s) \subseteq Wanted(s[1]) \cup AllWanted(Tail(s))
  <2> SUFFICES ASSUME NEW c, NEW i \in 1..Len(s), c \in Wanted(s[i]), i # 1
               PROVE  c \in AllWanted(Tail(s))
    BY DEF AllWanted
  <2>1. i - 1 \in 1..(Len(s) - 1) /\ (i - 1) + 1 = i
    BY <1>1
  <2>2. Tail(s)[i - 1] = s[i] /\ i - 1 \in 1..Len(Tail(s))
    BY <1>1, <2>1
  <2> QED
    BY <2>2 DEF AllWanted
<1>3. AllWanted(Tail(s)) \subseteq AllWanted(s)
  <2> SUFFICES ASSUME NEW c, NEW i \in 1..Len(Tail(s)), c \in Wanted(Tail(s)[i])
               PROVE  c \in AllWanted(s)
    BY DEF AllWanted
  <2>1. i + 1 \in 1..Len(s) /\ Tail(s)[i] = s[i + 1]
    BY <1>1
  <2> QED
    BY <2>1 DEF AllWanted
<1>4. Wanted(s[1]) \subseteq AllWanted(s)
  BY <1>1 DEF AllWanted
<1> QED
  BY <1>1, <1>2, <1>3, <1>4

\* As long as the statement is the same, so is what its items stand for.
LEMMA ColumnsNow ==
  ASSUME stmt' = stmt, todo' \in Seq(Pieces),
         cols' \cup AllWanted(todo') = UNION {Wanted(x) : x \in Items}
  PROVE  ColumnsInv'
<1>1. Items' = Items /\ Pieces' = Pieces
  BY DEF Items, Pieces
<1>2. AllWanted(todo)' = AllWanted(todo')
  BY DEF AllWanted, Wanted, OwnName, Looked, OwnColumn, Fqtn
<1>3. (UNION {Wanted(x) : x \in Items})' = UNION {Wanted(x) : x \in Items}
  BY <1>1 DEF Wanted, OwnName, Looked, OwnColumn, Fqtn
<1> QED
  BY <1>1, <1>2, <1>3 DEF ColumnsInv

LEMMA ColumnsInit == Init => ColumnsInv
<1> SUFFICES ASSUME Init  PROVE ColumnsInv
  OBVIOUS
<1>1. todo = stmt.items /\ cols = {} /\ stmt.items \in Seq(Items)
  BY ItemAssumption DEF Init, Items
<1>2. DOMAIN stmt.items = 1..Len(stmt.items)
  BY <1>1
<1>3. AllWanted(todo) = UNION {Wanted(x) : x \in Items}
  BY <1>1, <1>2 DEF AllWanted, Items
<1>4. todo \in Seq(Pieces)
  BY <1>1 DEF Pieces
<1> QED
  BY <1>1, <1>3, <1>4 DEF ColumnsInv

\* Each step keeps what is found and what is still to be found together.
LEMMA ColumnsNext ==
  ASSUME stmt \in Statement, ColumnsInv, [Next]_vars
  PROVE  ColumnsInv'
<1>1. CASE UNCHANGED <<stmt, todo, cols>>
  BY <1>1, ColumnsNow DEF ColumnsInv
<1>2. CASE LookInto /\ ~ UNCHANGED <<stmt, todo, cols>>
  <2> DEFINE x == Head(todo)
  <2>1. /\ todo # <<>> /\ stmt' = stmt /\ Supported(x[1], x[2])
        /\ cols' = cols \cup Found(x[1], x[2])
        /\ todo' = Inside(x[1], x[2]) \o Tail(todo)
    BY <1>2 DEF LookInto, Refuse
  <2> HIDE DEF x
  <2>2. /\ AllWanted(todo) = Wanted(x) \cup AllWanted(Tail(todo))
        /\ x \in Pieces /\ Tail(todo) \in Seq(Pieces)
    BY <2>1, AllWantedOfHead DEF x, ColumnsInv
  <2>3. /\ Inside(x[1], x[2]) \in Seq(Pieces)
        /\ Wanted(x) = Found(x[1], x[2]) \cup AllWanted(Inside(x[1], x[2]))
    BY <2>1, <2>2, PieceSplits
  <2>4. /\ AllWanted(todo') = AllWanted(Inside(x[1], x[2])) \cup AllWanted(Tail(todo))
        /\ todo' \in Seq(Pieces)
    BY <2>1, <2>2, <2>3, AllWantedOfTwo
  <2>5. cols' \cup AllWanted(todo') = cols \cup AllWanted(todo)
    BY <2>1, <2>2, <2>3, <2>4
  <2> QED
    BY <2>1, <2>4, <2>5, ColumnsNow DEF ColumnsInv
<1>3. CASE CheckClauses \/ PutTable \/ Finalize \/ MakeVectors \/ UNCHANGED vars
  BY <1>1, <1>3 DEF CheckClauses, PutTable, Finalize, MakeVectors, Refuse, vars
<1> QED
  BY <1>1, <1>2, <1>3 DEF Next

LEMMA SpecColumns == Spec => []ColumnsInv
<1>1. Inv => stmt \in Statement
  BY DEF Inv, Phases
<1>2. Inv /\ ColumnsInv /\ [Next]_vars => ColumnsInv'
  BY <1>1, ColumnsNext
<1> QED
  BY ColumnsInit, <1>2, SpecInv, PTL DEF Spec

\* When all is looked into, the columns are those the statement looks up and those
\* of its table that it names.
LEMMA ColumnsAre ==
  ASSUME stmt \in Statement, ColumnsInv, todo = <<>>, Plain
  PROVE  cols = AllReferences \cup {OwnColumn(name) : name \in OwnReferences}
<1>1. cols = UNION {Wanted(x) : x \in Items}
  BY DEF ColumnsInv, AllWanted
<1> DEFINE read(x) == IF x[1] \in {"item", "set"} THEN Leaves[x[2].val] ELSE Leaves[x[2]]
           named(x) == x[1] \in {"item", "set"} /\ x[2].name # NoName /\ ~ x[2].label
<1>2. ASSUME NEW x \in Items
      PROVE  /\ Looked(x) = read(x)
             /\ OwnName(x) = IF named(x) THEN {OwnColumn(x[2].name)} ELSE {}
  <2>1. x[1] = "set" => x[2].name # NoName /\ ~ x[2].label
    BY ItemAssumption DEF Items
  <2>2. x[1] = "item" /\ x[2].name # NoName => ~ x[2].label /\ Leaves[x[2].val] = {}
    BY DEF Plain
  <2> QED
    BY <2>1, <2>2 DEF Looked, OwnName
<1>3. AllReferences = UNION {read(x) : x \in Items}
  BY DEF AllReferences
<1>4. OwnReferences = {x[2].name : x \in {y \in Items : named(y)}}
  BY DEF OwnReferences
<1> HIDE DEF read, named
<1>5. ASSUME NEW c \in cols  PROVE c \in AllReferences \cup {OwnColumn(name) : name \in OwnReferences}
  <2>1. PICK x \in Items : c \in OwnName(x) \/ c \in Looked(x)
    BY <1>1 DEF Wanted
  <2>2. CASE c \in Looked(x)
    BY <1>2, <1>3, <2>2
  <2>3. CASE c \in OwnName(x)
    <3>1. named(x) /\ c = OwnColumn(x[2].name)
      BY <1>2, <2>3
    <3>2. x[2].name \in OwnReferences
      BY <1>4, <3>1
    <3> QED
      BY <3>1, <3>2
  <2> QED
    BY <2>1, <2>2, <2>3
<1>6. AllReferences \subseteq cols
  BY <1>1, <1>2, <1>3 DEF Wanted
<1>7. ASSUME NEW name \in OwnReferences  PROVE OwnColumn(name) \in cols
  <2>1. PICK x \in Items : named(x) /\ name = x[2].name
    BY <1>4
  <2>2. OwnColumn(name) \in OwnName(x)
    BY <1>2, <2>1
  <2> QED
    BY <1>1, <2>2 DEF Wanted
<1> QED
  BY <1>5, <1>6, <1>7

-----------------------------------------------------------------------------
(* The names of the parser are those of SQL *)

\* What a name of a table that keeps its names stands for is that table, and so
\* are the names on the way.
LEMMA StandsForTable ==
  ASSUME Inv, NEW D, put = Len(stmt.from), NEW t, Kept(D, t),
         NEW k \in DOMAIN m, k \in NamesOf(D, t), k # <<>>
  PROVE  Resolve(D, m[k]) = t
<1>1. PICK j \in 1..put : IsLast(k, j) /\ m[k] = Fqtn(stmt.from[j])
  BY DEF Inv, Entered
<1>2. TableOf(D, j) = t
  BY <1>1 DEF Kept, Sources
<1> QED
  BY <1>1, <1>2 DEF TableOf

LEMMA GetsTable ==
  ASSUME Inv, NEW D, put = Len(stmt.from), NEW t, Kept(D, t),
         NEW k \in DOMAIN m, k \in NamesOf(D, t), k # <<>>
  PROVE  Resolve(D, Get(m, k)) = t
<1> DEFINE T == {n \in Names : Resolve(D, n) = t}
<1>1. IsFiniteSet(DOMAIN m) /\ Names \subseteq DOMAIN m /\ \A n \in DOMAIN m : m[n] \in Names
  BY NamesAreTables DEF Inv, Finite
<1>2. m[k] \in T
  BY <1>1, StandsForTable
<1>3. ASSUME NEW n \in T  PROVE m[n] \in T
  <2>1. PICK j \in Sources : n = Fqtn(stmt.from[j])
    BY DEF Names, Sources
  <2>2. n \in DOMAIN m /\ n # <<>> /\ TableOf(D, j) = t
    BY <1>1, <2>1, KeysOfTable DEF TableOf
  <2>3. n \in NamesOf(D, t)
    BY <2>1, <2>2 DEF NamesOf
  <2>4. Resolve(D, m[n]) = t
    BY <2>2, <2>3, StandsForTable
  <2> QED
    BY <1>1, <2>2, <2>4
<1>4. T \in SUBSET DOMAIN m
  BY <1>1
<1> HIDE DEF T
<1>5. Get(m, k) \in T
  BY <1>1, <1>2, <1>3, <1>4, GetStays
<1> QED
  BY <1>5 DEF T

\* What a column is one of is the table its name leads to.
LEMMA ColumnsTable ==
  ASSUME Inv, NEW D, put = Len(stmt.from), NEW c \in AllReferences, c.tbl \in DOMAIN m,
         Cardinality(Meant(D, c)) = 1
  PROVE  \E i \in Sources :
           /\ Meant(D, c) = {i}
           /\ Kept(D, TableOf(D, i)) => Resolve(D, Get(m, c.tbl)) = TableOf(D, i)
<1>1. IsFiniteSet(Meant(D, c))
  <2>1. put \in Nat /\ Sources = 1..put
    BY StatementAssumption DEF Inv, Phases, Sources
  <2>2. IsFiniteSet(1..put)
    BY <2>1, FS_Interval
  <2>3. Meant(D, c) \in SUBSET (1..put)
    BY <2>1 DEF Meant
  <2> QED
    BY <2>2, <2>3, FS_Subset
<1>2. PICK i : Meant(D, c) = {i}
  BY <1>1, FS_Singleton
<1>3. i \in Sources /\ (c.tbl = <<>> \/ c.tbl \in Visible(D, i))
  BY <1>2 DEF Meant
<1>4. CASE c.tbl = <<>>
  <2>1. Sources = {i}
    BY <1>2, <1>4 DEF Meant
  <2>2. Get(m, c.tbl) \in Names
    <3>1. IsFiniteSet(DOMAIN m) /\ Names \in SUBSET DOMAIN m /\ \A n \in DOMAIN m : m[n] \in Names
      BY NamesAreTables DEF Inv, Finite
    <3> QED
      BY <3>1, GetLeads
  <2>3. Get(m, c.tbl) = Fqtn(stmt.from[i])
    BY <2>1, <2>2 DEF Names, Sources
  <2> QED
    BY <1>2, <1>3, <2>3 DEF TableOf
<1>5. CASE c.tbl # <<>>
  <2>1. c.tbl \in NamesOf(D, TableOf(D, i))
    BY <1>2, <1>3, <1>5 DEF NamesOf
  <2>2. Kept(D, TableOf(D, i)) => Resolve(D, Get(m, c.tbl)) = TableOf(D, i)
    BY <1>5, <2>1, GetsTable
  <2> QED
    BY <1>2, <1>3, <2>2
<1> QED
  BY <1>4, <1>5

\* A table of an accepted statement that keeps its names is in the vectors with
\* each column of it that the statement looks up or names, even if the entries of
\* other tables were overwritten; if all of them keep theirs, the vectors are
\* exactly what the statement reads and writes by the rules of SQL.  So the
\* schema check and the policy are asked about what the target will do.
THEOREM VectorsMean == Spec => []VectorsAreTheMeaning
<1>1. ASSUME Inv, ColumnsInv, pc = "accepted", Plain, NEW D \in Schema, SqlAccepts(D)
      PROVE  /\ \A i \in Sources :
                  LET t == TableOf(D, i) IN
                  Kept(D, t) => /\ HasVector(D, t)
                                /\ MeantColumns(D, t) \subseteq VectorColumns(D, t)
             /\ AllKept(D) => Agree(D)
  <2>1. /\ stmt \in Statement /\ put = Len(stmt.from) /\ put \in Nat /\ todo = <<>>
        /\ vectors = {VectorOf(t) : t \in Owners}
        /\ \A c \in cols : c.tbl \in DOMAIN m
    BY <1>1, StatementAssumption DEF Inv, Phases
  <2>2. cols = AllReferences \cup {OwnColumn(name) : name \in OwnReferences}
    BY <1>1, <2>1, ColumnsAre
  <2>3. \A k \in DOMAIN m : Get(m, k) \in Names
    <3>1. IsFiniteSet(DOMAIN m) /\ Names \in SUBSET DOMAIN m /\ \A n \in DOMAIN m : m[n] \in Names
      BY <1>1, NamesAreTables DEF Inv, Finite
    <3> QED
      BY <3>1, GetLeads
  <2>4. ASSUME NEW i \in Sources, Kept(D, TableOf(D, i))
        PROVE  /\ Fqtn(stmt.from[i]) \in DOMAIN m
               /\ Resolve(D, Get(m, Fqtn(stmt.from[i]))) = TableOf(D, i)
    <3>1. Fqtn(stmt.from[i]) \in DOMAIN m /\ Fqtn(stmt.from[i]) # <<>>
      BY <1>1, <2>1, KeysOfTable DEF Inv, Entered, Sources
    <3>2. Fqtn(stmt.from[i]) \in NamesOf(D, TableOf(D, i))
      BY DEF NamesOf
    <3> QED
      BY <1>1, <2>1, <2>4, <3>1, <3>2, GetsTable
  <2>5. stmt.op # "select" => Sources = {1}
    <3> SUFFICES ASSUME stmt.op # "select"  PROVE Sources = {1}
      OBVIOUS
    <3>1. Len(stmt.from) = 1
      BY <2>1, StatementAssumption
    <3>2. Sources = 1..1
      BY <3>1 DEF Sources
    <3> QED
      BY <3>2
  <2>6. ASSUME NEW t \in Owners  PROVE \E i \in Sources : Resolve(D, t) = TableOf(D, i)
    <3>1. CASE t \in Names
      BY <2>1, <3>1 DEF Names, Sources, TableOf
    <3>2. CASE t = Fqtn(stmt.from[1]) /\ stmt.op # "select"
      BY <2>5, <3>2 DEF TableOf
    <3>3. CASE t \in {Get(m, c.tbl) : c \in cols} \/ t \in GetAll(m)
      BY <2>1, <2>3, <3>1, <3>3 DEF GetAll
    <3>4. \/ t \in {Get(m, c.tbl) : c \in cols}
          \/ t \in GetAll(m)
          \/ t = Fqtn(stmt.from[1]) /\ stmt.op # "select"
      <4>1. stmt.op \in {"select", "insert", "update", "delete"}
        BY <2>1, StatementAssumption
      <4>2. CASE stmt.op = "select"
        BY <4>2 DEF Owners
      <4>3. CASE stmt.op \in {"insert", "delete"}
        BY <4>3 DEF Owners
      <4>4. CASE stmt.op = "update"
        BY <4>4 DEF Owners
      <4> QED
        BY <4>1, <4>2, <4>3, <4>4
    <3> QED
      BY <3>2, <3>3, <3>4
  <2>7. ASSUME NEW i \in Sources, Kept(D, TableOf(D, i))
        PROVE  \E t \in Owners : Resolve(D, t) = TableOf(D, i)
    <3>1. CASE stmt.op = "select"
      BY <2>4, <2>7, <3>1 DEF Owners, GetAll
    <3>2. CASE stmt.op \in {"insert", "delete"}
      BY <2>5, <3>2 DEF Owners, TableOf
    <3>3. CASE stmt.op = "update"
      <4>1. stmt.items # <<>>
        BY <2>1, <3>3, StatementAssumption
      <4>2. PICK c \in cols : c.tbl = Fqtn(stmt.from[1])
        BY <1>1, <2>1, <3>3, <4>1 DEF Inv, Phases
      <4>3. Get(m, c.tbl) \in Owners /\ i = 1
        BY <2>5, <3>3 DEF Owners
      <4> QED
        BY <2>4, <2>7, <4>2, <4>3
    <3> QED
      BY <2>1, <3>1, <3>2, <3>3, StatementAssumption
  <2>8. {Resolve(D, v.tbl) : v \in vectors} = {Resolve(D, t) : t \in Owners}
    <3>1. \A t : VectorOf(t).tbl = t
      BY DEF VectorOf
    <3> QED
      BY <2>1, <3>1
  <2>9. ASSUME NEW t  PROVE VectorColumns(D, t) = {c.col : c \in {x \in cols : Resolve(D, Get(m, x.tbl)) = t}}
    <3>1. \A c \in cols : Get(m, c.tbl) \in Owners
      BY DEF Owners
    <3>2. \A u : VectorOf(u).tbl = u /\ VectorOf(u).cols = {c.col : c \in {x \in cols : Get(m, x.tbl) = u}}
      BY DEF VectorOf
    <3>3. ASSUME NEW v \in vectors, Resolve(D, v.tbl) = t, NEW n \in v.cols
          PROVE  \E c \in cols : Resolve(D, Get(m, c.tbl)) = t /\ n = c.col
      <4>1. PICK u \in Owners : v = VectorOf(u)
        BY <2>1
      <4>2. PICK c \in cols : Get(m, c.tbl) = u /\ n = c.col
        BY <3>2, <3>3, <4>1
      <4> QED
        BY <3>2, <3>3, <4>1, <4>2
    <3>4. ASSUME NEW c \in cols, Resolve(D, Get(m, c.tbl)) = t
          PROVE  \E v \in vectors : Resolve(D, v.tbl) = t /\ c.col \in v.cols
      <4>1. VectorOf(Get(m, c.tbl)) \in vectors
        BY <2>1, <3>1
      <4>2. c.col \in VectorOf(Get(m, c.tbl)).cols
        BY <3>2
      <4> QED
        BY <3>2, <3>4, <4>1, <4>2
    <3>5. VectorColumns(D, t) \subseteq {c.col : c \in {x \in cols : Resolve(D, Get(m, x.tbl)) = t}}
      BY <3>3 DEF VectorColumns
    <3>6. {c.col : c \in {x \in cols : Resolve(D, Get(m, x.tbl)) = t}} \subseteq VectorColumns(D, t)
      BY <3>4 DEF VectorColumns
    <3> QED
      BY <3>5, <3>6
  <2>10. ASSUME NEW c \in AllReferences
         PROVE  \E i \in Sources :
                  /\ Meant(D, c) = {i}
                  /\ Kept(D, TableOf(D, i)) => Resolve(D, Get(m, c.tbl)) = TableOf(D, i)
    <3>1. c.tbl \in DOMAIN m /\ Cardinality(Meant(D, c)) = 1
      BY <1>1, <2>1, <2>2 DEF SqlAccepts
    <3> QED
      BY <1>1, <2>1, <3>1, ColumnsTable
  <2>11. ASSUME NEW name \in OwnReferences
         PROVE  /\ OwnColumn(name).col = name /\ 1 \in Sources
                /\ Kept(D, TableOf(D, 1)) =>
                     Resolve(D, Get(m, OwnColumn(name).tbl)) = TableOf(D, 1)
    <3>1. PICK x \in Items : x[1] \in {"item", "set"}
      BY DEF OwnReferences
    <3>2. stmt.op # "select"
      BY <2>1, <3>1, ItemAssumption DEF Items
    <3>3. 1 \in Sources /\ OwnColumn(name).tbl = Fqtn(stmt.from[1])
      BY <2>5, <3>2 DEF OwnColumn
    <3> QED
      BY <2>4, <3>3 DEF OwnColumn
  <2>12. ASSUME NEW t, Kept(D, t)  PROVE MeantColumns(D, t) \subseteq VectorColumns(D, t)
    <3> DEFINE F == {c.col : c \in {x \in cols : Resolve(D, Get(m, x.tbl)) = t}}
    <3>1. ASSUME NEW c \in AllReferences, NEW i \in Meant(D, c), TableOf(D, i) = t
          PROVE  c.col \in F
      <4>1. c \in cols /\ Resolve(D, Get(m, c.tbl)) = t
        BY <2>2, <2>10, <2>12, <3>1
      <4> QED
        BY <4>1
    <3>2. ASSUME NEW name \in OwnReferences, TableOf(D, 1) = t  PROVE name \in F
      <4>1. OwnColumn(name) \in cols
        BY <2>2
      <4>2. OwnColumn(name).col = name /\ Resolve(D, Get(m, OwnColumn(name).tbl)) = t
        BY <2>11, <2>12, <3>2
      <4> QED
        BY <4>1, <4>2
    <3> HIDE DEF F
    <3>3. MeantColumns(D, t) \subseteq F
      BY <3>1, <3>2 DEF MeantColumns
    <3> QED
      BY <2>9, <3>3 DEF F
  <2>13. ASSUME AllKept(D), NEW t  PROVE VectorColumns(D, t) \subseteq MeantColumns(D, t)
    <3>1. \A i \in Sources : Kept(D, TableOf(D, i))
      BY <2>13 DEF AllKept
    <3>2. ASSUME NEW c \in cols, Resolve(D, Get(m, c.tbl)) = t  PROVE c.col \in MeantColumns(D, t)
      <4>1. CASE c \in AllReferences
        <5>1. \E i \in Meant(D, c) : TableOf(D, i) = t
          BY <2>10, <3>1, <3>2, <4>1
        <5> QED
          BY <4>1, <5>1 DEF MeantColumns
      <4>2. CASE \E name \in OwnReferences : c = OwnColumn(name)
        <5>1. PICK name \in OwnReferences : c = OwnColumn(name)
          BY <4>2
        <5>2. c.col = name /\ TableOf(D, 1) = t
          BY <2>11, <3>1, <3>2, <5>1
        <5> QED
          BY <5>2 DEF MeantColumns
      <4> QED
        BY <2>2, <4>1, <4>2
    <3> QED
      BY <2>9, <3>2
  <2>14. ASSUME NEW i \in Sources, Kept(D, TableOf(D, i))  PROVE HasVector(D, TableOf(D, i))
    BY <2>7, <2>8, <2>14 DEF HasVector
  <2>15. ASSUME AllKept(D)  PROVE Agree(D)
    <3>1. \A i \in Sources : Kept(D, TableOf(D, i))
      BY <2>15 DEF AllKept
    <3>2. {Resolve(D, t) : t \in Owners} = {TableOf(D, i) : i \in Sources}
      BY <2>6, <2>7, <3>1
    <3>3. \A v \in vectors : \E i \in Sources : Resolve(D, v.tbl) = TableOf(D, i)
      BY <2>8, <3>2
    <3>4. ASSUME NEW v \in vectors
          PROVE  VectorColumns(D, Resolve(D, v.tbl)) = MeantColumns(D, Resolve(D, v.tbl))
      <4>1. PICK t : t = Resolve(D, v.tbl) /\ Kept(D, t)
        BY <3>1, <3>3
      <4>2. VectorColumns(D, t) \subseteq MeantColumns(D, t)
        BY <2>13, <2>15
      <4>3. MeantColumns(D, t) \subseteq VectorColumns(D, t)
        BY <2>12, <4>1
      <4> QED
        BY <4>1, <4>2, <4>3
    <3> QED
      BY <2>8, <3>2, <3>4 DEF Agree
  <2> QED
    BY <2>12, <2>14, <2>15
<1>2. Inv /\ ColumnsInv => VectorsAreTheMeaning
  BY <1>1 DEF VectorsAreTheMeaning
<1> QED
  BY SpecInv, SpecColumns, <1>2, PTL

-----------------------------------------------------------------------------
(* Types *)

\* The places of a handler, and the kind that its vectors get.
PcAndKinds ==
  /\ pc \in {"clauses", "tables", "items", "accepted", "refused"}
  /\ \A v \in vectors : v.op = stmt.op

LEMMA PlacesInv == Spec => []PcAndKinds
<1>1. Init => PcAndKinds
  BY DEF Init, PcAndKinds
<1>2. PcAndKinds /\ [Next]_vars => PcAndKinds'
  <2> SUFFICES ASSUME PcAndKinds, [Next]_vars  PROVE PcAndKinds'
    OBVIOUS
  <2>1. CASE UNCHANGED <<stmt, vectors>> /\ pc' \in {pc, "tables", "items", "refused"}
    BY <2>1 DEF PcAndKinds
  <2>2. CASE MakeVectors /\ ~ Refuse
    BY <2>2 DEF PcAndKinds, MakeVectors, VectorOf
  <2> QED
    BY <2>1, <2>2
    DEF Next, CheckClauses, PutTable, Finalize, LookInto, MakeVectors, Refuse, vars
<1> QED
  BY <1>1, <1>2, PTL DEF Spec

\* Types are kept, for every statement: the map leads from names to full names
\* of tables that were put, only the places that the handlers know are looked
\* into, and a vector has the kind of its statement.
THEOREM TypeCorrect == Spec => []TypeOK
<1>1. Inv /\ ColumnsInv /\ PcAndKinds => TypeOK
  <2> SUFFICES ASSUME Inv, ColumnsInv, PcAndKinds  PROVE TypeOK
    OBVIOUS
  <2>1. {Fqtn(src) : src \in Tables} = Names
    BY DEF Tables, Names
  <2>2. \A k \in DOMAIN m : m[k] \in {Fqtn(src) : src \in Tables}
    BY <2>1, NamesAreTables DEF Inv
  <2>3. ASSUME NEW i \in DOMAIN todo  PROVE todo[i][1] \in Places
    <3>1. todo[i] \in Pieces
      BY DEF ColumnsInv
    <3> QED
      BY <3>1, PieceIs DEF Inv, Phases
  <2>4. put \in 0..Len(stmt.from)
    BY DEF Inv, Phases
  <2> QED
    BY <2>2, <2>3, <2>4 DEF TypeOK, PcAndKinds
<1> QED
  BY <1>1, SpecInv, SpecColumns, PlacesInv, PTL
=============================================================================
