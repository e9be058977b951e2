SPECIFICATION ServerSpec
CONSTANTS
  a = a
  b = b
  p1 = p1
  p2 = p2
  p3 = p3
  t1 = t1
  t2 = t2
  w1 = w1
  w2 = w2
  w3 = w3
  None = None
  Ids = {a, b}
  Providers = {p1, p2, p3}
  IdOf <- MCIdOf
  NodeOf <- MCNodeOf
  Tasks = {t1}
  Handlers = {w1, w2, w3}
  Sync = {t1}
  Queries <- Mixed
  NodeReports <- AnyReport
  MaxQueueLen = 0
SYMMETRY MCSymmetry
INVARIANTS
  ServerTypeOK
  OneConnectionPerNode
  OnlineIffRegistered
  CompletedIsStored
  AnswersAreStored
  StoredHeldAfterRemoval
  UnsendableIsInert
  SentTwiceAfterRemoval
  OnlyConnectionIsServed
PROPERTIES
  ImplementsService
