----------------------------- MODULE MCServerPage -----------------------------
(***************************************************************************)
(* An instance of ServerPage for TLC.                                      *)
(***************************************************************************)
EXTENDS ServerPage
=============================================================================
