------------------------------ MODULE SqlMeaning ------------------------------
(***************************************************************************)
(* What a statement reads and writes at the target database, by the rules  *)
(* of SQL and apart from how the parser works: the reference for the       *)
(* vectors of SqlVectors.  D is the schema in which the database looks for *)
(* a table written without one.                                            *)
(***************************************************************************)
EXTENDS SqlVectors

CONSTANTS
  Node,     \* the nodes of the statements
  Height,   \* how high the tree under a node is
  Schema    \* the schemas in which a database may look

\* The nodes right under a node.
Parts(n) ==
  CASE n.k \in {"bool", "list", "func"} -> ArgsOf(n)
    [] n.k = "op" -> {n.l, n.r}
    [] n.k = "null" -> {n.arg}
    [] OTHER -> {}

Items == {stmt.items[i] : i \in DOMAIN stmt.items}

\* What the grammar gives: trees, and items that name columns of the table of
\* a write, those of a SET always.
ASSUME NodeAssumption ==
  /\ Height \in [Node -> Nat]
  /\ \A n \in Node : \A p \in Parts(n) : p \in Node /\ Height[p] < Height[n]
  /\ \A n \in Node : n.k = "bool" => DOMAIN n.args = 1..Len(n.args) /\ Len(n.args) \in Nat

ASSUME ItemAssumption ==
  \A s \in Statement :
    LET items == {s.items[i] : i \in DOMAIN s.items} IN
    /\ s.items \in Seq(items)
    /\ \A x \in items :
         /\ x[1] \in Places
         /\ IF x[1] \in {"item", "set"} THEN x[2].val \in Node /\ s.op # "select"
                                        ELSE x[2] \in Node
         /\ x[1] = "set" => x[2].name # NoName /\ ~ x[2].label

-----------------------------------------------------------------------------
Resolve(D, name) == IF Len(name) = 1 THEN <<D, name[1]>> ELSE name
TableOf(D, i) == Resolve(D, Fqtn(stmt.from[i]))

\* The columns written anywhere in a node.
Leaves[n \in Node] == IF n.k = "col" THEN {Column(n)} ELSE UNION {Leaves[p] : p \in Parts(n)}

\* The columns the statement looks up, and those of its own table that it
\* names: the name of an item is a column or, in RETURNING, only a label.
AllReferences ==
  UNION {IF x[1] \in {"item", "set"} THEN Leaves[x[2].val] ELSE Leaves[x[2]] : x \in Items}

OwnReferences ==
  {x[2].name : x \in {y \in Items : /\ y[1] \in {"item", "set"}
                                   /\ y[2].name # NoName /\ ~ y[2].label}}

\* An alias hides the names of its table.
Visible(D, i) ==
  LET src == stmt.from[i] IN
  IF src.alias # NoAlias THEN {<<src.alias>>} ELSE {<<src.rel>>, TableOf(D, i)}

\* The tables a column may be one of.
Meant(D, c) == {i \in Sources : c.tbl = <<>> \/ c.tbl \in Visible(D, i)}

Label(i) == IF stmt.from[i].alias # NoAlias THEN stmt.from[i].alias ELSE stmt.from[i].rel

SameLabel(D, i, j) ==
  /\ Label(i) = Label(j)
  /\ \/ stmt.from[i].alias # NoAlias \/ stmt.from[j].alias # NoAlias
     \/ TableOf(D, i) = TableOf(D, j)

\* The database runs the statement: no label is used twice, and each column
\* is one of exactly one table.
SqlAccepts(D) ==
  /\ \A i, j \in Sources : i # j => ~ SameLabel(D, i, j)
  /\ \A c \in AllReferences : Cardinality(Meant(D, c)) = 1

MeantColumns(D, t) ==
  {c.col : c \in {x \in AllReferences : \E i \in Meant(D, x) : TableOf(D, i) = t}}
    \cup (IF TableOf(D, 1) = t THEN OwnReferences ELSE {})

VectorColumns(D, t) ==
  UNION {v.cols : v \in {x \in vectors : Resolve(D, x.tbl) = t}}

-----------------------------------------------------------------------------
(* Where the parser's names and those of SQL may part. *)

\* The names by which the statement asks for a table: its own, and the
\* qualifiers of the columns of it.
NamesOf(D, t) ==
  {Fqtn(stmt.from[i]) : i \in {j \in Sources : TableOf(D, j) = t}}
    \cup ({c.tbl : c \in {x \in AllReferences : \E i \in Meant(D, x) : TableOf(D, i) = t}}
            \ {<<>>})

\* No such name was taken over by another table.  PostgreSQL hides the name of
\* an aliased table and so lets another one have it, as its alias or as its
\* own name; Tables.m has them both in one map.
Kept(D, t) ==
  \A k \in NamesOf(D, t) : \A j \in Sources : IsLast(k, j) => TableOf(D, j) = t

AllKept(D) == \A i \in Sources : Kept(D, TableOf(D, i))

\* No item gives its name to a value: the name is that of a column, and the value
\* reads none.
Plain ==
  \A x \in Items :
    x[1] = "item" /\ x[2].name # NoName => ~ x[2].label /\ Leaves[x[2].val] = {}

Agree(D) ==
  /\ {Resolve(D, v.tbl) : v \in vectors} = {TableOf(D, i) : i \in Sources}
  /\ \A v \in vectors :
       LET t == Resolve(D, v.tbl) IN VectorColumns(D, t) = MeantColumns(D, t)

-----------------------------------------------------------------------------
HasVector(D, t) == \E v \in vectors : Resolve(D, v.tbl) = t

\* Each table of an accepted statement that keeps its names is in the vectors
\* with every column of it that the statement reads or writes, whatever becomes
\* of the other tables; and if all of them do, the vectors are just what the
\* statement reads and writes.  (No item is renamed.)
VectorsAreTheMeaning ==
  pc = "accepted" /\ Plain =>
    \A D \in Schema : SqlAccepts(D) =>
      /\ \A i \in Sources :
           LET t == TableOf(D, i) IN
           Kept(D, t) => HasVector(D, t) /\ MeantColumns(D, t) \subseteq VectorColumns(D, t)
      /\ AllKept(D) => Agree(D)
=============================================================================
