SPECIFICATION Spec
CONSTANTS
  DefBufSize = 4
  WorkRegSize = 1
  Modes = {"ach_only"}
  ClusterNum = 3
  HotMin = 1
  Pages = {p1, p2, p3, p4, p5}
  Vals = {v1}
  NoFrame = NoFrame
  NoPage = NoPage
  NoData = NoData
  Absent = Absent
SYMMETRY Symmetry
INVARIANTS DirtyListed ReadIdMatches
CHECK_DEADLOCK FALSE
