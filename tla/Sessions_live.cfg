SPECIFICATION FairSpec
CONSTANTS
  Session = {s1, s2}
  CC = {c1, c2}
  Board = {b1, b2}
  Cwd = {d1}
  NoSession = NoSession
  NoCC = NoCC
  Env = {"remote", "rebind", "late"}
PROPERTIES  GoneDropsOff
CHECK_DEADLOCK FALSE
