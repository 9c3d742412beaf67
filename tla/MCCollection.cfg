SPECIFICATION Spec
CONSTANTS
  Item = {x1, x2, x3}
  MaxSlots = 7
  NULL = NULL
  Junk = Junk
INVARIANTS InBounds
PROPERTIES ImplementsItems
