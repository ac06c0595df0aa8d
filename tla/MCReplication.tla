--------------------------- MODULE MCReplication ---------------------------
(***************************************************************************)
(* The clients may be exchanged for one another.                           *)
(***************************************************************************)
EXTENDS Replication, TLC

Symmetry == Permutations(Clients)
=============================================================================
