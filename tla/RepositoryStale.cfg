CONSTANTS
  s1 = s1  s2 = s2  u1 = u1
  Null = Null
  Sessions = {s1, s2}
  Users = {u1}
  UserOf <- MCOneUser
  Workers = {w1, w2}
  Readers = {}
  Commands = {"create", "expire"}
  Locks = {l1, l2, l3, l4}
  Maps = {m1, m2, m3, m4}
SPECIFICATION Spec
INVARIANT FoundLoginExists
CHECK_DEADLOCK TRUE
