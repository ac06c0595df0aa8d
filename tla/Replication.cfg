\* Two clients, two objects of one property; the second change is refused by clients.
SPECIFICATION Spec
CONSTANTS
  Clients = {c1, c2}
  NumObjects = 2
  NumProps = 1
  Refused = {2}
  Unmarked = {1}
  MaxChanges = 2
  MaxPackets = 3
  MaxReads = 2
  MaxKills = 1
SYMMETRY Symmetry
CHECK_DEADLOCK FALSE
INVARIANTS
  CopiesConsistent
  DropsSpareTheFront
