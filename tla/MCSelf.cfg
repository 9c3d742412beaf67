SPECIFICATION FairSpec
CONSTANTS
  Pids = {p1, p2}
  Dirs = {d1, d2}
  Root = Root
  Failures = {"mkself", "watcher", "panic", "map"}
  NoPid = NoPid
CHECK_DEADLOCK FALSE
INVARIANTS FilesKept NamesApart
PROPERTIES Cleared
