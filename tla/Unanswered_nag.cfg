SPECIFICATION FairUSpec
CONSTANTS
  Session = {s1, s2}
  CC = {c1}
  Board = {b1, b2}
  Cwd = {d1}
  NoSession = NoSession
  NoCC = NoCC
  Env = {}
  MaxNag = 2
  MaxAsked = 1
INVARIANTS NewsBlocks
PROPERTY StuckClientYields
CHECK_DEADLOCK FALSE
