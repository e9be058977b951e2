SPECIFICATION TsSpec
CONSTANTS
  a = a
  b = b
  p1 = p1
  p2 = p2
  p3 = p3
  w1 = w1
  w2 = w2
  w3 = w3
  None = None
  Ids = {a, b}
  Providers = {p1, p2, p3}
  IdOf <- MCIdOf
  Sockets = {w1, w2, w3}
  NodeOf <- MCNodeOf
  t1 = t1
  t2 = t2
  t3 = t3
  t4 = t4
  t5 = t5
  Tasks = {t1, t2, t3, t4, t5}
  Threshold = 1
  MaxAttempts = 2
  MinCost = 10
  MaxPrice = 15
  MaxSafeInteger = 100
SYMMETRY MCSymmetry
INVARIANTS
  TsTypeOK
  CacheIsOptimistic
  OnePlace
  TimesOutUnderItsId
  NoOverload
  Accounted
  UnsentIsReplaced
PROPERTIES
  OutcomeStands
  TsImplementsCustody
