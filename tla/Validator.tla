------------------------------ MODULE Validator ------------------------------
(***************************************************************************)
(* The checks of internal/validator: looking a table of a vector up in the *)
(* configured schema of a target, and the schema check of a list of        *)
(* vectors.  The module is pure: it has no state.                          *)
(*                                                                         *)
(* A table name is <<schema, relation>>; NoSchema is the schema of a name  *)
(* written without one.  A schema s is a record                            *)
(*   [default |-> schema, tables |-> <<[table |-> name, fields |-> set]>>] *)
(* A vector is [op |-> op, tbl |-> name, cols |-> set of columns].         *)
(***************************************************************************)
EXTENDS Naturals, Sequences

NoSchema == ""

Unqualified(name) == name[1] = NoSchema

\* GetTable's tblNamesForLookup.
LookupNames(s, name) ==
  IF Unqualified(name) THEN {name, <<s.default, name[2]>>} ELSE {name}

Matching(s, name) ==
  {i \in DOMAIN s.tables : s.tables[i].table \in LookupNames(s, name)}

Known(s, name) == Matching(s, name) # {}

\* The first configured table that carries one of the names.
GetTable(s, name) ==
  s.tables[CHOOSE i \in Matching(s, name) : \A j \in Matching(s, name) : i <= j]

CanonicalTable(s, name) ==
  IF Known(s, name) THEN GetTable(s, name).table ELSE name

FitsSchema(s, vectors) ==
  \A v \in vectors : Known(s, v.tbl) /\ v.cols \subseteq GetTable(s, v.tbl).fields

(***************************************************************************)
(* The reference: what a name in a statement means to the target database, *)
(* whose search path is the configured default schema.                     *)
(***************************************************************************)
Resolved(s, name) ==
  IF Unqualified(name) THEN <<s.default, name[2]>> ELSE name

\* The columns open in the first configured entry of the table `name' means.
Entries(s, name) == {i \in DOMAIN s.tables : s.tables[i].table = Resolved(s, name)}

OpenColumns(s, name) ==
  s.tables[CHOOSE i \in Entries(s, name) : \A j \in Entries(s, name) : i <= j].fields

\* The tables are a list, and Config.Validate has found each of them written
\* with its schema.
IsSchema(s) ==
  /\ DOMAIN s.tables \subseteq Nat
  /\ \A i \in DOMAIN s.tables : ~ Unqualified(s.tables[i].table)
=============================================================================
