CONSTANTS
  P = 7
  N = 3
  Attrs <- MCAttrsF
  IskX = 3
  IskY <- MCIskY
  UskB = 4
  UskW <- MCUskW
  Rand = {1, 2}
  Masks <- MCMasks
  MaxDerive = 2
  Forgers = FALSE
  FSHash <- MCFSHash
SPECIFICATION Spec
CHECK_DEADLOCK FALSE
INVARIANT DerivationsUnlinkable
