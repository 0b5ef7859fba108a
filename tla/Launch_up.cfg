SPECIFICATION LFairSpec
CONSTANTS
  Launcher = {l1, l2}
  Hook = {l1}
  Supervisor = {v1, v2}
  Broker = {k1, k2}
  Nobody = Nobody
  Dead = Dead
  NoBroker = NoBroker
  MaxFaults = 1
  Env = {"crash", "sleep", "preempt", "stop"}
CHECK_DEADLOCK FALSE
 
PROPERTIES DoublesLeave ServedAgain
