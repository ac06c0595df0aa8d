\* Two playings of a sound: from an empty file to one with two pieces that are streamed.
SPECIFICATION Spec
CONSTANTS
  Plays = {p1, p2}
  MaxFull = 4
INVARIANTS
  HeardAsRead
  ContextsOnce
PROPERTY
  PlayingEnds
