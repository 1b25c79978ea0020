CONSTANTS
  w1 = w1
  w2 = w2
  w3 = w3
  Dummy = Dummy
  Null = Null
  Nodes = {w1, w2, w3}
SPECIFICATION Spec
PROPERTY RefinesWaiterQueue
\* A null dereference ends the program: that state has no successor.
CHECK_DEADLOCK FALSE
