\* A parent and one child.
CONSTANTS
  ChildNums = {1}
  MaxQueued = 0
SPECIFICATION Spec
PROPERTY ChildrenQuit
CHECK_DEADLOCK FALSE
