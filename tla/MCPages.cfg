SPECIFICATION Spec
CONSTANTS
  t1 = t1
  t2 = t2
  l1 = l1
  l2 = l2
  Threads = {t1}
  Links = {l1, l2}
  PageSize = 2
  InitSize = 3
  Sizes = {6}
  Limit = 6
  Shapes <- Apart
  MaxVersion = 1
  NoShape = NoShape
  NoAddr = NoAddr
SYMMETRY Symmetry
INVARIANTS Coherent InFlightIntact
