SPECIFICATION Spec
CONSTANTS
  a = a
  b = b
  p1 = p1
  p2 = p2
  p3 = p3
  t1 = t1
  t2 = t2
  t3 = t3
  w1 = w1
  w2 = w2
  None = None
  Ids = {a, b}
  Providers = {p1, p2, p3}
  IdOf <- MCIdOf
  Tasks = {t1, t2}
  Handlers = {w1, w2}
  MaxQueueLen = 1
SYMMETRY MCSymmetry
INVARIANTS
  TypeOK
  OneHolder
  ScheduledIsHeld
  HeldIsUnfinished
  AssignedToHolder
  LeftBehindByLateRemoval
PROPERTIES
  DrainIsStable
  FinishedStatusStands
  ImplementsCustody
