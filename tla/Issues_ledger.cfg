SPECIFICATION ISpec
CONSTANTS
  Issue = {i1, i2}
  Place = {p1, p2}
  Session = {s1}
  NoSession = NoSession
  NoPlace = NoPlace
  MaxSaid = 1
  MaxTitle = 1
SYMMETRY IssueSymmetry
VIEW IssueView
CHECK_DEADLOCK FALSE
 
PROPERTIES SignOffIsTheUsers
