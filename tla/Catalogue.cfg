SPECIFICATION MCSpec
CONSTANTS
  a1 = a1
  a2 = a2
  x = x
  y = y
  z = z
  Nothing = Nothing
  Editing <- MCEditing
  Acting <- MCActing
  Creating <- MCCreating
  Variants = {"v", "w"}
  Codes = {"s", "t"}
  Costs = {10}
  Places = {x, y, z}
  Names = {"n", "m"}
  Clerks = {a1, a2}
  Choices = {{}, {x}, {y}, {z}}
  Sorting <- MCSorting
  Filtering <- MCFiltering
SYMMETRY Symmetry
INVARIANTS
  EditsKeepWhatHappened
  TreeStaysInOrder
  ListsAreWhole

  
CHECK_DEADLOCK FALSE
