----------------------------- MODULE MCBookmarks -----------------------------
(***************************************************************************)
(* An instance of Bookmarks for TLC: a user with a server page and a       *)
(* dashboard, another who only uses the API, and two targets, one of which *)
(* the other may not use.                                                  *)
(***************************************************************************)
EXTENDS Bookmarks

CONSTANTS ann, bob, orders, billing, page1, dash1

MCGrants == {<<ann, orders>>, <<ann, billing>>, <<bob, orders>>}
MCOwner == [t \in {page1, dash1} |-> ann]
=============================================================================
