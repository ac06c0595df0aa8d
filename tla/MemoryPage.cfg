\* A page of 8 units, requests of 2 or 6 units aligned to 1 or 4 (6 aligned to 4 is the whole page).
SPECIFICATION MCSpec
CONSTANTS
  PageSize = 8
  Sizes = {2, 6}
  Aligns = {1, 4}
  PieceLimit = 6
  Piece <- MCPiece
  NoPiece = NoPiece
ACTION_CONSTRAINT LowestFirst
\* What comes after undefined behaviour is not followed.
CHECK_DEADLOCK FALSE
INVARIANTS
  ListSound
  HandlesUsable
PROPERTIES
  SearchRight
  CallsReturn
  Implements
