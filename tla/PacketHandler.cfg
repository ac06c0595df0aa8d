\* Masks of 4 bits tested with an int of 3; numbers that start at 1, or at 13 and wrap at 16.
SPECIFICATION Spec
CONSTANTS
  SeqMod = 16
  MaskBits = 4
  IntBits = 3
  Starts = {1, 13}
  ServerSends = 5
  ClientSends = 3
  MaxSent <- MCMaxSent
CHECK_DEADLOCK FALSE
INVARIANTS
  MasksTrueInOrder
  VerdictsRight
  ListIsTheUnanswered
