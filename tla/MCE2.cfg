\* E2 over F_13 with u^2 = 2 (13 = 1 mod 12, like the primes the Sqrt comment names).
CONSTANTS
  Q = 13
  NonResidue = 2
  Ks <- MCKs
SPECIFICATION Spec
INVARIANTS
  ExpIsPower
  SqrtOfSquares
  LexOrderConsistent
