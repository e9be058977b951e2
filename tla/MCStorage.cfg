SPECIFICATION Spec
CONSTANTS
  k1 = k1
  k2 = k2
  u1 = u1
  u2 = u2
  t1 = t1
  t2 = t2
  url1 = url1
  url2 = url2
  Pending = Pending
  None = None
  Tokens = {k1, k2}
  Users = {u1, u2}
  Tasks = {t1, t2}
  Urls = {url1, url2}
INVARIANTS
  TypeOK
  DictsAgree
PROPERTIES
  ImplementsTaskRecords
