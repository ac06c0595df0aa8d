---------------------------- MODULE MCMemoryPage ----------------------------
(***************************************************************************)
(* A small page for TLC.  Pieces are numbers, and the heap gives out the   *)
(* lowest ones that are free: which object `new' returns makes no          *)
(* difference to the page, so other choices only rename states.            *)
(***************************************************************************)
EXTENDS MemoryPage

CONSTANT PieceLimit

MCPiece == 1 .. PieceLimit

MCInit == Init /\ head = 1

MCSpec == MCInit /\ [][Next]_vars /\ WF_vars(Proceed)

LowestFirst ==
  /\ \A p \in live' \ live, q \in Piece \ (live \cup live') : p < q
  /\ pc = "search" => \A p \in live' \ live :
                        p = next'[current] => \A q \in live' \ live : p <= q
=============================================================================
