SPECIFICATION Spec
CONSTANTS
  ls = ls
  link = link
  get = get
  mk = mk
  mv = mv
  ln = ln
  rmL = rmL
  rmD = rmD
  drop = drop
  home = home
  Ops = {ls, link, get, mk, ln, mv, rmD, rmL, drop, home}
  NoOp = NoOp
  RequestOf <- MCRequestOf
  Paths <- MCPaths
  MaxHops = 2
  Files <- MCFiles
  Calls <- MCCalls
INVARIANTS
  SomebodyStartsTheNext
PROPERTIES
  ServiceSpec
  DoesWhatItSays
CHECK_DEADLOCK FALSE
