---------------------------- MODULE MCQueryGateway ----------------------------
(***************************************************************************)
(* An instance of QueryGateway for TLC: two targets that resolve an        *)
(* unqualified name to different tables and a third that asks for SSL, two *)
(* users with different rights, and asks that reach every early return of  *)
(* RunQuery.                                                               *)
(***************************************************************************)
EXTENDS QueryGateway, FiniteSetsExt

Users == {"ann", "bob"}
Targets == {"shop", "ledger", "vault"}
TargetNames == Targets \cup {""}
Queries == {"read", "wide", "join", "purge", "garbage", ""}
ParsableQueries == {"read", "wide", "join", "purge"}

Orders == <<NoSchema, "orders">>
ShopOrders == <<"public", "orders">>
LedgerOrders == <<"books", "orders">>

QueryVectors ==
  [q \in ParsableQueries |->
    CASE q = "read" -> {[op |-> "select", tbl |-> Orders, cols |-> {"id"}]}
      [] q = "wide" -> {[op |-> "select", tbl |-> Orders, cols |-> {"id", "note"}]}
      [] q = "join" -> {[op |-> "select", tbl |-> Orders, cols |-> {"id"}],
                        [op |-> "select", tbl |-> LedgerOrders, cols |-> {"id"}]}
      [] q = "purge" -> {[op |-> "delete", tbl |-> ShopOrders, cols |-> {"id"}]}]

Targets_Config ==
  [t \in Targets |->
    [default |-> IF t = "shop" THEN "public" ELSE "books",
     tables |-> <<[table |-> LedgerOrders, fields |-> {"id", "note"}],
                  [table |-> ShopOrders, fields |-> {"id"}]>>,
     useSSL |-> t = "vault", maxPoolSize |-> 1]]

Target_Grants == {<<"ann", "shop">>, <<"bob", "shop">>, <<"bob", "ledger">>, <<"bob", "vault">>}

Query_Grants ==
  {<<"ann", "shop", "select", ShopOrders>>, <<"bob", "shop", "delete", ShopOrders>>,
   <<"bob", "ledger", "select", LedgerOrders>>, <<"ann", "ledger", "select", LedgerOrders>>,
   <<"bob", "vault", "select", LedgerOrders>>}

Call(u, t, q) == [user |-> u, target |-> t, query |-> q]

\* Asks that are served, one that ends without a pool, and one for each way to
\* be refused.
Served == {Call("ann", "shop", "read"), Call("bob", "ledger", "read")}
WithoutPool == {Call("bob", "vault", "read")}
Refused == {Call("ann", "", "read"), Call("ann", "ledger", "read"),
            Call("ann", "shop", "garbage"), Call("ann", "shop", "wide"),
            Call("ann", "shop", "join")}
AllAsks == Served \cup WithoutPool \cup Refused
FewAsks == {Call("ann", "shop", "read"), Call("bob", "ledger", "read"),
            Call("ann", "shop", "purge")}

-----------------------------------------------------------------------------
(* What the documentation says of the program. *)

\* The results of the queries that ran are stored for debugging and auditing
\* (README.md): when a call is over, what it ran is in the store.
WhatRanIsRecorded ==
  \A r \in ran : pc[r] = "done" => \E x \in recorded : x.id = r

\* "max_pool_size" is a setting a target may have (README.md, Database Connection
\* Settings; "configurable connection pool sizes for each database target"): no
\* more connections than that are in use at a target.
PoolSizeHolds ==
  \A t \in Targets :
    MapThenSumSet(LAMBDA p : Cardinality(Holders(p)), PoolsOf(t))
      <= Config[t].maxPoolSize
=============================================================================
