SPECIFICATION PFairSpec
CONSTANTS
  Board = {b1, b2}
  Home = b1
  Node = {n1}
  NoView = NoView
  Error = Error
  MaxEvents = 2
  MaxFaults = 2
  Env = {"drop", "fail", "switch"}
CHECK_DEADLOCK FALSE
INVARIANTS NoGaps
PROPERTIES CatchesUp
