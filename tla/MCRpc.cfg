SPECIFICATION FairSpec
CONSTANTS
  Threads = {t1, t2}
  Waiters = {w1, w2}
  Responses = {r1, r2}
  Arrays = {2}
  Failures = {"attach", "daemon", "throw"}
  Forked = TRUE
  NoResponse = NoResponse
CHECK_DEADLOCK FALSE
INVARIANTS NoUseAfterFree ArraysHeld NotStranded NoLostWakeup
PROPERTIES ImplementsTask SubmittedCompletes SubmittedReclaimed CallsReturn
