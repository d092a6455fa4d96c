\* From every starting list of up to two members: members verify with their
\* own witness and non-members never verify against c.Acc.
CONSTANTS
  m1 = m1
  m2 = m2
  m3 = m3
  Members <- MCMembers
  InitLen = 2
  MaxMembers = 4
SYMMETRY MCSymmetry
SPECIFICATION Spec
CHECK_DEADLOCK FALSE
INVARIANT MembershipSound
