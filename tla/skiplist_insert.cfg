CONSTANTS
  n1 = n1
  n2 = n2
  n3 = n3
  Dummy = Dummy
  Null = Null
  Nodes = {n1, n2, n3}
  MaxHeight = 2
  Key <- KeyOf
SPECIFICATION Spec
INVARIANT NoNullDereference
\* A null dereference ends the program: no step follows it.
CHECK_DEADLOCK FALSE
