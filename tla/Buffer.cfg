SPECIFICATION Spec
CONSTANTS
  DefBufSize = 3
  WorkRegSize = 1
  Modes = {"lru", "cflru", "zalp_wc", "zalp", "wh_only", "ach_only"}
  ClusterNum = 3
  HotMin = 2
  Pages = {p1, p2, p3, p4}
  Vals = {v1, v2}
  NoFrame = NoFrame
  NoPage = NoPage
  NoData = NoData
  Absent = Absent
SYMMETRY Symmetry
INVARIANTS TypeOK ListsCorrect EvictionReady ReadsLatest DurableAtClose
PROPERTIES WorkingRegionKept FlushedBeforeClean StoreSpec
CHECK_DEADLOCK FALSE
