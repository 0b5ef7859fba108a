SPECIFICATION FairDSpec
CONSTANTS
  Session = {s1, s2}
  CC = {c1}
  Board = {b1}
  Cwd = {d1}
  NoSession = NoSession
  NoCC = NoCC
  Env = {}
  MaxMsg = 2
  MaxAge = 1
  Kinds = {"external_notify"}
PROPERTY EventuallyPushedToOwner
CHECK_DEADLOCK FALSE
