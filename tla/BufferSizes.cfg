CONSTANTS
  Sizes = {1, 2}
  MaxVersion = 4
SPECIFICATION Spec
CHECK_DEADLOCK FALSE
INVARIANT StateTellsSize
