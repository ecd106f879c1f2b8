------------------------------ MODULE SqlVectors ------------------------------
(***************************************************************************)
(* internal/parser and validator.MakeVectors: from the tree of one SQL     *)
(* statement to the vectors, which table with which columns, that the      *)
(* schema check and the policy are asked about.                            *)
(*                                                                         *)
(* A statement is                                                          *)
(*   [op, rejected, from, items]                                           *)
(* rejected: it has one of the clauses the handler of its kind turns away; *)
(* from: its tables, in the order in which the handler meets them;         *)
(* items: <<place, node>>, the parts the handler looks into, in its order. *)
(* A table is [schema, rel, alias], a sub-select in its place is SubSelect.*)
(* A dotted name is the tuple of its parts; <<>> is the empty name.        *)
(***************************************************************************)
EXTENDS Naturals, Sequences, FiniteSets

CONSTANTS
  Statement,      \* the statements the handlers are given
  DefaultSchema,  \* the argument of NewTables
  NoSchema, NoAlias, NoName,
  SubSelect

\* What the grammar gives: a write names one table, and an UPDATE sets at
\* least one column of it.
ASSUME StatementAssumption ==
  \A s \in Statement :
    /\ s.op \in {"select", "insert", "update", "delete"}
    /\ DOMAIN s.from = 1..Len(s.from) /\ Len(s.from) \in Nat
    /\ s.op # "select" => Len(s.from) = 1 /\ s.from[1] # SubSelect
    /\ s.op = "update" => s.items # <<>> /\ Head(s.items)[1] = "set"

VARIABLES
  stmt,     \* the statement
  pc,       \* the part of its handler that runs next
  put,      \* how many of its tables have been put
  m,        \* Tables.m: a name and the name it stands for
  todo,     \* the items still to look into
  cols,     \* the columns found: [tbl, col]
  vectors   \* the result: [op, tbl, cols]

vars == <<stmt, pc, put, m, todo, cols, vectors>>

-----------------------------------------------------------------------------
(* Tables *)

Sources == 1..Len(stmt.from)

Fqtn(src) == IF src.schema = NoSchema THEN <<src.rel>> ELSE <<src.schema, src.rel>>

\* Every name under which Put enters a table.
Keys(src) ==
  {<<src.rel>>, Fqtn(src)}
    \cup (IF src.schema = NoSchema THEN {<<DefaultSchema, src.rel>>} ELSE {})
    \cup (IF src.alias = NoAlias THEN {} ELSE {<<src.alias>>})

\* A Put that leaves out t.m[fqtn] = fqtn.
Put_NoSelf(tables, src) ==
  LET keys == Keys(src) \ (IF src.schema = NoSchema THEN {} ELSE {Fqtn(src)}) IN
  [k \in DOMAIN tables \cup keys |-> IF k \in keys THEN Fqtn(src) ELSE tables[k]]

Put(tables, src) ==
  [k \in DOMAIN tables \cup Keys(src) |->
     IF k \in Keys(src) THEN Fqtn(src) ELSE tables[k]]

\* The names a chain of calls of Get goes through, from `name' on.
Walk(tables, name) ==
  LET at[n \in 0..Cardinality(DOMAIN tables)] ==
        IF n = 0 THEN name ELSE tables[at[n - 1]]
  IN at

Get(tables, name) ==
  IF tables[name] = name THEN name
  ELSE Walk(tables, name)[Cardinality(DOMAIN tables)]

GetAll(tables) == {Get(tables, k) : k \in DOMAIN tables}

-----------------------------------------------------------------------------
(* Items.  A node is [k |-> its kind, ...]: "col" [tbl, col], "star",      *)
(* "const", "default", "list" [args], "op" [known, l, r], "bool" [args],   *)
(* "null" [arg], "func" [known, args], "other"; known: the operator or the *)
(* function is on the list of allowed ones.  The node of an "item" or a    *)
(* "set" is [name, val].                                                   *)

AllOf(args, kinds) == \A i \in DOMAIN args : args[i].k \in kinds

\* parseAexpr
OpSupported(node) ==
  /\ node.known
  /\ node.l.k \in {"op", "col"}
  /\ \/ node.r.k \in {"const", "col"}
     \/ node.r.k = "list" /\ AllOf(node.r.args, {"const"})

\* parseWhereClause
ConditionSupported(node) ==
  \/ node.k = "op" /\ OpSupported(node)
  \/ node.k = "bool" /\ AllOf(node.args, {"null", "bool", "op"})
  \/ node.k = "null" /\ node.arg.k \in {"col", "op"}

\* The target list of a SELECT.
TargetSupported(node) ==
  \/ node.k = "col"
  \/ node.k = "func" /\ node.known /\ AllOf(node.args, {"col", "star"})

Supported(place, node) ==
  CASE place = "target" -> TargetSupported(node)
    [] place \in {"sort", "group"} -> node.k = "col"
    [] place = "where" -> ConditionSupported(node)
    [] place = "value" -> node.k \in {"const", "default"}
    [] place = "item" -> node.name # NoName \/ node.val.k = "col"
    [] place = "set" -> node.val.k \in {"const", "default", "op", "col"}

Column(node) == [tbl |-> node.tbl, col |-> node.col]
ColumnsAmong(nodes) == {Column(n) : n \in {x \in nodes : x.k = "col"}}
ArgsOf(node) == {node.args[i] : i \in DOMAIN node.args}

\* A named column of the statement's own table.
OwnColumn(name) == [tbl |-> Fqtn(stmt.from[1]), col |-> name]

\* Columns of a condition without those on the right of its operators.
Found_LeftOnly(place, node) ==
  CASE place = "item" ->
         IF node.name # NoName THEN {OwnColumn(node.name)} ELSE ColumnsAmong({node.val})
    [] place = "set" -> {OwnColumn(node.name)} \cup ColumnsAmong({node.val})
    [] place = "where" /\ node.k = "op" -> ColumnsAmong({node.l})
    [] place = "where" /\ node.k = "null" -> ColumnsAmong({node.arg})
    [] place = "target" /\ node.k = "func" -> ColumnsAmong(ArgsOf(node))
    [] OTHER -> ColumnsAmong({node})

\* The columns an item adds at once; a named item adds its name and leaves
\* its value alone.
Found(place, node) ==
  CASE place = "item" ->
         IF node.name # NoName THEN {OwnColumn(node.name)} ELSE ColumnsAmong({node.val})
    [] place = "set" -> {OwnColumn(node.name)} \cup ColumnsAmong({node.val})
    [] place = "where" /\ node.k = "op" -> ColumnsAmong({node.l, node.r})
    [] place = "where" /\ node.k = "null" -> ColumnsAmong({node.arg})
    [] place = "target" /\ node.k = "func" -> ColumnsAmong(ArgsOf(node))
    [] OTHER -> ColumnsAmong({node})

\* The conditions inside an item, which the handler looks into next.
Inside(place, node) ==
  LET condition(n) == <<"where", n>> IN
  CASE place = "where" /\ node.k = "bool" ->
         [i \in DOMAIN node.args |-> condition(node.args[i])]
    [] place = "where" /\ node.k = "op" /\ node.l.k = "op" -> <<condition(node.l)>>
    [] place = "where" /\ node.k = "null" /\ node.arg.k = "op" -> <<condition(node.arg)>>
    [] place = "set" /\ node.val.k = "op" -> <<condition(node.val)>>
    [] OTHER -> <<>>

-----------------------------------------------------------------------------
Init ==
  /\ stmt \in Statement
  /\ pc = "clauses"
  /\ put = 0
  /\ m = <<>>
  /\ todo = stmt.items
  /\ cols = {}
  /\ vectors = {}

Refuse ==
  /\ pc' = "refused"
  /\ UNCHANGED <<stmt, put, m, todo, cols, vectors>>

CheckClauses ==
  /\ pc = "clauses"
  /\ \/ stmt.rejected /\ Refuse
     \/ /\ ~ stmt.rejected
        /\ pc' = "tables"
        /\ UNCHANGED <<stmt, put, m, todo, cols, vectors>>

PutTable ==
  /\ pc = "tables"
  /\ put < Len(stmt.from)
  /\ \/ stmt.from[put + 1] = SubSelect /\ Refuse
     \/ /\ stmt.from[put + 1] # SubSelect
        /\ m' = Put(m, stmt.from[put + 1])
        /\ put' = put + 1
        /\ UNCHANGED <<stmt, pc, todo, cols, vectors>>

\* A statement of one table gives its name to columns without one.
Finalize ==
  /\ pc = "tables"
  /\ put = Len(stmt.from)
  /\ m' = IF put = 1 /\ Cardinality(GetAll(m)) = 1
          THEN [k \in DOMAIN m \cup {<<>>} |->
                  IF k = <<>> THEN CHOOSE t \in GetAll(m) : TRUE ELSE m[k]]
          ELSE m
  /\ pc' = "items"
  /\ UNCHANGED <<stmt, put, todo, cols, vectors>>

LookInto ==
  /\ pc = "items"
  /\ todo # <<>>
  /\ LET place == Head(todo)[1]
         node == Head(todo)[2]
     IN \/ ~ Supported(place, node) /\ Refuse
        \/ /\ Supported(place, node)
           /\ cols' = cols \cup Found(place, node)
           /\ todo' = Inside(place, node) \o Tail(todo)
           /\ UNCHANGED <<stmt, pc, put, m, vectors>>

Ambiguous(c) == stmt.op = "select" /\ c.tbl = <<>> /\ put > 1

\* Without a vector for the tables no column is found of.
Owners_OfColumns == {Get(m, c.tbl) : c \in cols}

\* The tables that get a vector: an UPDATE always names a column it sets.
Owners ==
  {Get(m, c.tbl) : c \in cols}
    \cup (CASE stmt.op = "select" -> GetAll(m)
            [] stmt.op \in {"insert", "delete"} -> {Fqtn(stmt.from[1])}
            [] stmt.op = "update" -> {})

\* The columns whose table stands for t directly.
VectorOf_Direct(t) ==
  [op |-> stmt.op, tbl |-> t, cols |-> {c.col : c \in {x \in cols : m[x.tbl] = t}}]

VectorOf(t) ==
  [op |-> stmt.op, tbl |-> t, cols |-> {c.col : c \in {x \in cols : Get(m, x.tbl) = t}}]

MakeVectors ==
  /\ pc = "items"
  /\ todo = <<>>
  /\ \/ (\E c \in cols : Ambiguous(c) \/ c.tbl \notin DOMAIN m) /\ Refuse
     \/ /\ \A c \in cols : ~ Ambiguous(c) /\ c.tbl \in DOMAIN m
        /\ vectors' = {VectorOf(t) : t \in Owners}
        /\ pc' = "accepted"
        /\ UNCHANGED <<stmt, put, m, todo, cols>>

Next == CheckClauses \/ PutTable \/ Finalize \/ LookInto \/ MakeVectors

Spec == Init /\ [][Next]_vars

-----------------------------------------------------------------------------
(* Properties *)

Places == {"target", "sort", "group", "where", "value", "item", "set"}
Tables == {stmt.from[i] : i \in 1..put}

\* Every variable has the type the code gives it.
TypeOK ==
  /\ pc \in {"clauses", "tables", "items", "accepted", "refused"}
  /\ put \in 0..Len(stmt.from)
  /\ \A k \in DOMAIN m : m[k] \in {Fqtn(src) : src \in Tables}
  /\ \A i \in DOMAIN todo : todo[i][1] \in Places
  /\ \A v \in vectors : v.op = stmt.op

\* The table under whose name a key was entered last.
IsLast(k, i) ==
  k \in Keys(stmt.from[i]) /\ \A j \in (i + 1)..put : k \notin Keys(stmt.from[j])
LastPut(k) == CHOOSE i \in 1..put : IsLast(k, i)

\* Get comes to an end: a name leads to one that was entered later, or to one
\* that stands for itself; so the error of GetAll is never returned.
NamesLead ==
  \A k \in DOMAIN m \ {<<>>} :
    /\ m[k] \in DOMAIN m
    /\ m[m[k]] = m[k] \/ LastPut(m[k]) > LastPut(k)

\* Under the full name of the table another one was entered later, as its name
\* or as its alias.
Overwritten(i) ==
  \E j \in Sources : IsLast(Fqtn(stmt.from[i]), j) /\ Fqtn(stmt.from[j]) # Fqtn(stmt.from[i])

\* The tables of an accepted statement with a vector of their own, whether or not
\* the statement names a column of them (security_test.go), are exactly those
\* whose entry in Tables.m no later Put has overwritten.
VectorUnlessOverwritten ==
  pc = "accepted" =>
    \A i \in Sources :
      (\E v \in vectors : v.tbl = Fqtn(stmt.from[i])) <=> ~ Overwritten(i)

\* Every column found is in the vector of one of the statement's tables.
EveryColumnHasVector ==
  pc = "accepted" =>
    \A c \in cols : \E v \in vectors :
      c.col \in v.cols /\ v.tbl \in {Fqtn(stmt.from[i]) : i \in Sources}
=============================================================================
