---------------------------- MODULE MCSqlVectors ----------------------------
(***************************************************************************)
(* Statements for TLC: joins of one or two tables in every spelling,       *)
(* conditions of every shape the handlers know, and the three writes.      *)
(***************************************************************************)
EXTENDS SqlMeaning, FiniteSetsExt

Col(t, c) == [k |-> "col", tbl |-> t, col |-> c]
Const == [k |-> "const"]
Star == [k |-> "star"]
Other == [k |-> "other"]
Op(l, r) == [k |-> "op", known |-> TRUE, l |-> l, r |-> r]
Bool(a, b) == [k |-> "bool", args |-> <<a, b>>]
IsNull(a) == [k |-> "null", arg |-> a]
List(a) == [k |-> "list", args |-> <<Const, a>>]
Func(known, a) == [k |-> "func", known |-> known, args |-> <<a>>]

Table(s, r, a) == [schema |-> s, rel |-> r, alias |-> a]
Stmt(op, from, items) == [op |-> op, rejected |-> FALSE, from |-> from, items |-> items]

-----------------------------------------------------------------------------
(* Joins *)

Tables1 == [schema : {"", "public", "books"}, rel : {"x", "y"}, alias : {"", "a", "y"}]
Qualifiers == {<<>>, <<"x">>, <<"y">>, <<"a">>, <<"public", "x">>}

Joins ==
  {Stmt("select", <<s, t>>, <<<<"target", Col(p, "c")>>, <<"where", Op(Col(q, "d"), Const)>>>>) :
     s \in Tables1, t \in Tables1, p \in Qualifiers, q \in Qualifiers}

\* Joins of aliased tables of the default schema.
AliasedJoins ==
  {s \in Joins : \A i \in 1..2 : s.from[i].schema = "" /\ s.from[i].alias # ""}

Singles ==
  {Stmt("select", <<s>>, <<<<"target", Col(p, "c")>>>>) : s \in Tables1, p \in Qualifiers}
    \cup {Stmt("select", <<Table("", "x", "a"), SubSelect>>, <<>>)}
    \cup {[Stmt("select", <<Table("", "x", "")>>, <<>>) EXCEPT !.rejected = TRUE]}

-----------------------------------------------------------------------------
(* Conditions *)

Atoms == {Col(<<>>, "c"), Col(<<"x">>, "d"), Const, Star, Other}
Simple == {Op(l, r) : l \in Atoms, r \in Atoms \cup {List(Const), List(Col(<<>>, "e"))}}
            \cup {IsNull(a) : a \in Atoms}
            \cup {[Op(Col(<<>>, "c"), Const) EXCEPT !.known = FALSE]}
Deep == {Op(Op(Col(<<>>, "d"), Col(<<>>, "e")), r) : r \in Atoms}
          \cup {IsNull(Op(Col(<<>>, "d"), Col(<<>>, "e")))}
          \cup {Bool(Bool(Op(Col(<<>>, "d"), Const), IsNull(Col(<<>>, "e"))), s) : s \in Simple}
          \cup {Bool(s, Col(<<>>, "e")) : s \in Simple}
Conditions == Simple \cup Deep

X == Table("", "x", "")

Reads ==
  {Stmt("select", <<X>>, <<<<"target", t>>, <<"where", w>>, <<o, Col(<<>>, "f")>>>>) :
     t \in Atoms \cup {Func(b, a) : b \in BOOLEAN, a \in Atoms}, w \in Conditions, o \in {"sort"}}
   \cup {Stmt("select", <<X>>, <<<<"group", a>>>>) : a \in Atoms}

-----------------------------------------------------------------------------
(* Writes *)

None == [k |-> "none"]
Named(c) == [name |-> c, val |-> None, label |-> FALSE]
Returned(v) == [name |-> "", val |-> v, label |-> TRUE]
Labelled(c, v) == [name |-> c, val |-> v, label |-> TRUE]
Sets(c, v) == [name |-> c, val |-> v, label |-> FALSE]
Default == [k |-> "default"]

Written == [schema : {"", "public", "books"}, rel : {"x"}, alias : {"", "a"}]
Returnings == {Returned(Col(q, "c")) : q \in {<<>>, <<"x">>, <<"a">>, <<"y">>}}
                \cup {Returned(Star), Labelled("c", Col(<<>>, "d"))}

Inserts ==
  {Stmt("insert", <<t>>,
        <<<<"item", Named("c")>>, <<"value", v>>, <<"item", r>>, <<"item", Named("d")>>,
          <<"item", Sets("e", u)>>>>) :
     t \in Written, v \in {Const, Default, Other}, r \in Returnings,
     u \in {Const, Col(<<>>, "f")}}
   \cup {Stmt("insert", <<t>>, <<>>) : t \in Written}

Updates ==
  {Stmt("update", <<t>>, <<<<"set", Sets("c", v)>>, <<"item", r>>, <<"where", w>>>>) :
     t \in Written, v \in {Const, Default, Other, Col(<<"a">>, "e"), Op(Col(<<>>, "e"), Const)},
     r \in Returnings, w \in Simple}

Deletes ==
  {Stmt("delete", <<t>>, <<<<"item", r>>, <<"where", w>>>>) :
     t \in Written, r \in Returnings, w \in Simple}
   \cup {Stmt("delete", <<t>>, <<>>) : t \in Written}

Statements == Joins \cup Singles \cup Reads \cup Inserts \cup Updates \cup Deletes
Returns == {s \in Inserts \cup Updates \cup Deletes : \E i \in DOMAIN s.items : s.items[i][1] = "item"}

-----------------------------------------------------------------------------
(* The nodes of all these statements. *)

Roots ==
  {Col(q, c) : q \in Qualifiers, c \in {"c", "d", "e", "f"}}
    \cup {Op(Col(q, c), Const) : q \in Qualifiers, c \in {"d", "e"}}
    \cup {Func(b, a) : b \in BOOLEAN, a \in Atoms}
    \cup Atoms \cup Conditions \cup {None, Default}
Below(nodes) == UNION {Parts(n) : n \in nodes}
Inner == Below(Roots)
Innermost == Below(Inner)
Nodes == Roots \cup Inner \cup Innermost \cup Below(Innermost)
Heights[n \in Nodes] == IF Parts(n) = {} THEN 0 ELSE 1 + Max({Heights[p] : p \in Parts(n)})
Schemas == {"public", "books"}
DefaultOnly == {"public"}

\* Every referenced column is in a vector (security_test.go, of the columns
\* in filters), with renamed items as well.
RenamedColumnsCount ==
  pc = "accepted" => \A D \in Schema : SqlAccepts(D) /\ AllKept(D) => Agree(D)

\* Each table a statement reads or writes is in a vector, and so asked about
\* (README.md: column-level restrictions, queries of unknown tables are
\* rejected).
EveryTableIsChecked ==
  pc = "accepted" =>
    \A D \in Schema : SqlAccepts(D) => \A i \in Sources : HasVector(D, TableOf(D, i))
=============================================================================
