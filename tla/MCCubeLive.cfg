SPECIFICATION FairSpec
CONSTANTS
  a1 = a1
  r1 = r1
  r2 = r2
  t1 = t1
  t2 = t2
  w1 = w1
  w2 = w2
  c1 = c1
  c2 = c2
  l1 = l1
  l2 = l2
  Threads = {t1, t2, w1}
  Waiters = {w1}
  Cubes = {c1, c2}
  Foreign = {}
  Regions <- MCRegion
  Addrs <- MCAddrs
  Inside <- MCInside1
  OnPage <- MCOnPage1
  Links = {l1}
  SliceAllocFails = FALSE
  NoThread = NoThread
  NoCube = NoCube
  NoArg = NoArg
  NoSlice = NoSlice
INVARIANTS SomeoneRuns
PROPERTIES CallsReturn FreeCompletes StoreProceeds
