SPECIFICATION Spec
CONSTANTS
  Session = {s1, s2, s3}
  CC = {c1, c2}
  Board = {b1, b2}
  Cwd = {d1, d2}
  NoSession = NoSession
  NoCC = NoCC
  Env = {"remote"}
SYMMETRY Symmetry
 
PROPERTY ReclaimTakesOnlyMineOrDead
CHECK_DEADLOCK FALSE
