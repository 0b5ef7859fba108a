SPECIFICATION BSpec
CONSTANTS
  n1 = n1 n2 = n2 n3 = n3
  Node = {n1, n2, n3}
  Root = Root
  d1 = d1
  Decision = {d1}
  MaxPos = 2
  Env = {}
CONSTRAINT FewSpecialNodes
VIEW WhatDecides
SYMMETRY Symmetry
CHECK_DEADLOCK FALSE
INVARIANTS StatusIsRollup 
PROPERTIES ExplicitStatusStays SettlingIsAnnounced
