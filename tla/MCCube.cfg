SPECIFICATION Spec
CONSTANTS
  a1 = a1
  r1 = r1
  r2 = r2
  t1 = t1
  t2 = t2
  w1 = w1
  w2 = w2
  c1 = c1
  c2 = c2
  l1 = l1
  l2 = l2
  Threads = {t1, t2, w1, w2}
  Waiters = {w1, w2}
  Cubes = {c1, c2}
  Foreign = {c1}
  Regions <- MCRegions
  Addrs <- MCAddrs
  Inside <- MCInside
  OnPage <- MCOnPage
  Links = {l1, l2}
  SliceAllocFails = TRUE
  NoThread = NoThread
  NoCube = NoCube
  NoArg = NoArg
  NoSlice = NoSlice
SYMMETRY Symmetry
CHECK_DEADLOCK FALSE
INVARIANTS NoUseAfterFree ReferencesCounted BackedWhileLive NoLostWakeup
PROPERTIES DisposedOnce ImplementsLifetime
