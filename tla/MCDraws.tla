------------------------------ MODULE MCDraws ------------------------------
(* An instance of Draws: two chunks, one with a unit, and two texts.       *)
EXTENDS Draws

MCChunks == <<"c1", "c2">>
=============================================================================
