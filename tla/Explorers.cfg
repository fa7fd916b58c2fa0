SPECIFICATION FairSpec
CONSTANTS
  Kinds <- MCKinds
  Calls = {c1, c2}
  Names = {p, q}
  MaxLines = 2
  MaxCount = 1
  MaxTime = 2
INVARIANTS
  NeverOlder
  ShownIsTrue
PROPERTIES
  KeepsBeingAnswered
CHECK_DEADLOCK FALSE
