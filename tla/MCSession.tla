------------------------------ MODULE MCSession ------------------------------
(***************************************************************************)
(* An instance of Session for TLC: the states of two tabs at most.         *)
(***************************************************************************)
EXTENDS Session

MCState == 1..(2 * Cardinality(Tab) + 2)
=============================================================================
