SPECIFICATION NodesSpec
CONSTANTS
  n1 = n1
  n2 = n2
  n3 = n3
  n4 = n4
  i1 = i1
  i2 = i2
  None = None
  Nodes = {n1, n2, n3, n4}
  Local = {n1, n2}
  Procs = {i1}
INVARIANTS
  NodesTypeOK
  FileIsExact
