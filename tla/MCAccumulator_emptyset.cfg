\* Delete_member when the member list would become empty.
CONSTANTS
  m1 = m1
  m2 = m2
  m3 = m3
  Members <- MCMembers
  InitLen = 2
  MaxMembers = 4
SYMMETRY MCSymmetry
SPECIFICATION Spec
CHECK_DEADLOCK FALSE
INVARIANT NoPanic
