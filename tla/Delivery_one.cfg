SPECIFICATION DSpec
CONSTANTS
  Session = {s1, s2}
  CC = {c1}
  Board = {b1, b2}
  Cwd = {d1}
  NoSession = NoSession
  NoCC = NoCC
  Env = {"remote"}
  MaxMsg = 1
  MaxAge = 2
  Kinds = {"user_input_relay", "diagram_chat", "board_structure_request",
           "external_notify", "note"}
SYMMETRY Symmetry
INVARIANTS PostedOnce FreshPushedOnce
PROPERTY ImplementsMailbox
CHECK_DEADLOCK FALSE
