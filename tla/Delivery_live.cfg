SPECIFICATION FairDSpec
CONSTANTS
  Session = {s1}
  CC = {c1}
  Board = {b1}
  Cwd = {d1}
  NoSession = NoSession
  NoCC = NoCC
  Env = {}
  MaxMsg = 2
  MaxAge = 1
  Kinds = {"map_chat", "board_structure_request"}
PROPERTY EventuallyPushed
CHECK_DEADLOCK FALSE
