\* The accumulator with the nil receivers allocated: what its algorithm does.
CONSTANTS
  m1 = m1
  m2 = m2
  m3 = m3
  Members <- MCMembers
  InitLen = 2
  MaxMembers = 4
SYMMETRY MCSymmetry
SPECIFICATION Spec
\* A panic or stack overflow ends the process: those states have no successor.
CHECK_DEADLOCK FALSE
INVARIANTS
  TypeOK
  AccOnlyAccumulatesMembers
  PrecomputeMatchesReference
