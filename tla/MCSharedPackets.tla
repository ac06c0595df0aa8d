-------------------------- MODULE MCSharedPackets --------------------------
(***************************************************************************)
(* Two connections whose numbers are apart, or next to each other.         *)
(***************************************************************************)
EXTENDS SharedPackets

MCStarts == {<<10, 20>>, <<20, 10>>, <<10, 11>>, <<11, 10>>}
=============================================================================
