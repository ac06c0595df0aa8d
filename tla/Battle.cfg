SPECIFICATION Spec
CONSTANTS
  Players <- MCPlayers
  Aliens <- MCAliens
  Tiles <- MCTiles
  Start <- MCStart
  Steps <- MCSteps
  FullCover <- MCFullCover
  InThrow <- MCInThrow
  BlastOf <- MCBlastOf
  MaxMoves = 1
  MaxSprint = 2
  MaxHealth = 1
  ShotDamage = 1
  GrenadeDamage = 1
  OverwatchDamage = 1
INVARIANTS
  MapConsistent
  SelectionsValid
  ButtonTruthful
  WalkedWithinSprint
PROPERTY
  OverwatchLostTo
