SPECIFICATION Spec
CONSTANTS
  dir = dir
  f = f
  link = link
  dirLink = dirLink
  sub = sub
  part = part
  NoNode = NoNode
  Nodes <- MCNodes
  Children <- MCChildren
  Kind <- MCKind
  Selections <- MCSelections
  MaxJobs = 2
INVARIANTS
  StopsShort
  LeavesNothing
PROPERTIES
  WalkSpec
