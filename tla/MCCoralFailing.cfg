SPECIFICATION FairSpec
CONSTANTS
  a1 = a1
  r1 = r1
  Threads = {t1}
  Waiters = {w1}
  Cubes = {c1}
  Regions <- MCRegions
  Addrs <- MCAddrs
  Inside <- MCInside
  OnPage <- MCOnPage
  Links = {l1, l2}
  Responses = {q1, q2}
  MaxArgs = 1
  Failures = {"attach", "daemon", "throw"}
  NoThread = NoThread
  NoCube = NoCube
  NoArg = NoArg
  NoSlice = NoSlice
  NoResponse = NoResponse
CHECK_DEADLOCK FALSE
PROPERTIES CallsReturn StoresGoOn BlocksReclaimed
