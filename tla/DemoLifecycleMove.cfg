CONSTANTS
  Blocks = {0, 1}
  MaxLoads = 2
SPECIFICATION Spec
INVARIANTS PointersStayInside
CHECK_DEADLOCK FALSE
