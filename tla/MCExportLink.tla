----------------------------- MODULE MCExportLink -----------------------------
(***************************************************************************)
(* An instance of ExportLink for TLC: two users, one of whom may be an     *)
(* administrator, a result of each, and two instances a second apart.      *)
(***************************************************************************)
EXTENDS ExportLink, TLC

CONSTANTS ann, bob, r1, r2, g1, g2

\* ann's role changes; bob is a user.
MCUser == {[id |-> ann, role |-> "user"], [id |-> ann, role |-> "admin"],
           [id |-> bob, role |-> "user"]}

MCOwner == (r1 :> ann) @@ (r2 :> bob)

\* SELECT id, name ... and SELECT a.id, b.id ...
MCTable ==
  (r1 :> [headers |-> <<"id", "name">>, rows |-> <<<<"1", "x">>, <<"2", "y">>>>]) @@
  (r2 :> [headers |-> <<"id", "id">>, rows |-> <<<<"3", "4">>>>])

MCAhead == (g1 :> 0) @@ (g2 :> 1)
=============================================================================
