SPECIFICATION FairSpec
CONSTANTS
  t1 = t1
  f1 = f1
  f2 = f2
  a = a
  Threads = {t1}
  Futures = {f1, f2}
  Arrays = {a}
  PoolSize = 1
  Failures = {"slice", "memory", "submit", "wait", "print"}
  MaxArgs = 2
  NoFuture = NoFuture
CHECK_DEADLOCK FALSE
INVARIANTS CursorFilled InFlightAttached NoUseAfterRelease Synchronized NotForgotten
PROPERTIES Reclaimed GetEnds
