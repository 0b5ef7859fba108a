SPECIFICATION ASpec
CONSTANTS
  user = user
  continue = continue
  Message = {user, continue}
  Continue = continue
  MaxStreak = 2
  Env = {"loss", "restart", "offline", "interrupt", "timeout"}
CHECK_DEADLOCK FALSE
INVARIANTS AskingIsBlocked StoppedIsShown OneContinuePerStall
