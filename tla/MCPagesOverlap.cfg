SPECIFICATION Spec
CONSTANTS
  t1 = t1
  t2 = t2
  l1 = l1
  l2 = l2
  Threads = {t1}
  Links = {l1, l2}
  PageSize = 2
  InitSize = 4
  Sizes = {}
  Limit = 4
  Shapes <- Overlapping
  MaxVersion = 1
  NoShape = NoShape
  NoAddr = NoAddr
INVARIANT Coherent
