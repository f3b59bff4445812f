CONSTANTS
  s1 = s1  s2 = s2  u1 = u1
  Null = Null
  Sessions = {s1}
  Users = {u1}
  UserOf <- MCOneSession
  Workers = {w1, w2}
  Readers = {r1}
  Commands = {"create", "expire", "clear"}
  Locks = {l1, l2, l3, l4}
  Maps = {m1, m2, m3, m4}
SPECIFICATION Spec
INVARIANTS MutexUntilDropped
PROPERTIES LookupFailsOnlyAfterDrop
CHECK_DEADLOCK TRUE
