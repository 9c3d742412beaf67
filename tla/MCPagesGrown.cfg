SPECIFICATION FairSpec
CONSTANTS
  t1 = t1
  t2 = t2
  l1 = l1
  l2 = l2
  Threads = {t1}
  Links = {l1}
  PageSize = 2
  InitSize = 2
  Sizes = {4}
  Limit = 4
  Shapes <- SamePage
  MaxVersion = 1
  NoShape = NoShape
  NoAddr = NoAddr
PROPERTIES StoresEnd
