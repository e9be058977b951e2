SPECIFICATION NodesSpec
CONSTANTS
  n1 = n1
  n2 = n2
  n3 = n3
  n4 = n4
  i1 = i1
  i2 = i2
  None = None
  Nodes = {n1, n2}
  Local = {n1}
  Procs = {i1, i2}
INVARIANT CreatedIsListed
