\* Two clients of the server's build and one of another.
SPECIFICATION FairSpec
CONSTANTS
  Absent = Absent
  Null = Null
  Client = {c1, c2, x}
  Matching = {c1, c2}
CHECK_DEADLOCK FALSE
INVARIANTS
  RegistriesAgree
  HandshakeInOrder
  FreedNeedsLoss
PROPERTY
  HandshakeEnds
