SPECIFICATION FairSpec
CONSTANTS
  Threads = {t1, t2}
  t1 = t1
  t2 = t2
  Keys = {0, 3, 5, 8, 11, 13, 16, 24, 32}
  Vals = {v1}
  Absent = Absent
  SlotPerBucket = 2
  MaxBfsPathLen = 3
  LockNum = 2
  MinLoadPercent = 15
  IndexOf <- MCIndexOf
  AltOf <- MCAltOf
  InitHp = 3
  Preloads <- MCPreloads
  Workload <- MCWorkload
  MaxCalls <- MCMaxCalls
INVARIANTS TypeOK KeyOnce SizeCounts RehashAsserts LocksInOrder HashpowerHeld
PROPERTIES MapSpec CallReturns
CHECK_DEADLOCK FALSE
