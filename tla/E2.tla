--------------------------------- MODULE E2 ---------------------------------
(***************************************************************************)
(* The degree-two extension field E2 = Fp[u]/(u^2 - NonResidue) of the    *)
(* vendored gnark-crypto fptower/e2.go, as pure operators.  An element is  *)
(* a record of its two coordinates A0 + A1*u, each an integer mod Q in     *)
(* regular (non-Montgomery) form.  The prime field fp and the arithmetic   *)
(* kernels addE2, mulE2, norm, Inverse ... live in files that are not part *)
(* of the repository; they are given here by their mathematical            *)
(* definitions.  The operators of e2.go itself are translated from it.     *)
(***************************************************************************)
EXTENDS Integers, Sequences, Bitwise

Seqs == INSTANCE SequencesExt

CONSTANTS
  Q,           \* the modulus of fp (fp.Modulus())
  NonResidue   \* u^2, a quadratic non-residue of fp

ASSUME Q \in Nat /\ Q > 2 /\ NonResidue \in 1..Q-1

-----------------------------------------------------------------------------
(* fp.Element, outside the repository.                                     *)
Fp == 0..Q-1
FpAdd(a, b) == (a + b) % Q
FpMul(a, b) == (a * b) % Q
FpNeg(a) == (Q - a) % Q

RECURSIVE FpPow(_, _)
FpPow(a, n) == IF n = 0 THEN 1 ELSE FpMul(a, FpPow(a, n - 1))

\* Euler's criterion: 1, -1, or 0 for 0.
FpLegendre(a) == IF a = 0 THEN 0 ELSE IF FpPow(a, (Q - 1) \div 2) = 1 THEN 1 ELSE -1

\* z.Sqrt(x) returns nil and leaves z as it was when x is not a square.
FpSqrt(a) ==
  IF \E r \in Fp : FpMul(r, r) = a THEN CHOOSE r \in Fp : FpMul(r, r) = a ELSE a

FpCmp(a, b) == IF a > b THEN 1 ELSE IF a < b THEN -1 ELSE 0
FpLexicographicallyLargest(a) == a > (Q - 1) \div 2

(* The E2 kernels of the other fptower files, outside the repository.     *)
E2Elems == [A0 : Fp, A1 : Fp]
Elem(a0, a1) == [A0 |-> a0, A1 |-> a1]

addE2(x, y) == Elem(FpAdd(x.A0, y.A0), FpAdd(x.A1, y.A1))
negE2(x) == Elem(FpNeg(x.A0), FpNeg(x.A1))
mulE2(x, y) ==
  Elem(FpAdd(FpMul(x.A0, y.A0), FpMul(NonResidue, FpMul(x.A1, y.A1))),
       FpAdd(FpMul(x.A0, y.A1), FpMul(x.A1, y.A0)))
\* Mul is read from a table of mulE2, so that TLC evaluates each product once.
MulTable == [p \in E2Elems \X E2Elems |-> mulE2(p[1], p[2])]
Mul(x, y) == MulTable[x, y]
Square(x) == Mul(x, x)
\* norm: A0^2 - NonResidue * A1^2.
norm(x) == FpAdd(FpMul(x.A0, x.A0), FpNeg(FpMul(NonResidue, FpMul(x.A1, x.A1))))
\* Inverse: conjugate over the norm; the inverse of 0 is 0.
Inverse(x) ==
  LET n == FpPow(norm(x), Q - 2)
  IN  Elem(FpMul(x.A0, n), FpMul(FpNeg(x.A1), n))

-----------------------------------------------------------------------------
(* e2.go                                                                   *)
Equal(z, x) == z.A0 = x.A0 /\ z.A1 = x.A1

Cmp(z, x) ==
  IF FpCmp(z.A1, x.A1) # 0 THEN FpCmp(z.A1, x.A1) ELSE FpCmp(z.A0, x.A0)

\* Mutant: the order of the coordinates is swapped (A0 decides first).
LexicographicallyLargest_A0First(z) ==
  IF z.A0 = 0 THEN FpLexicographicallyLargest(z.A1)
  ELSE FpLexicographicallyLargest(z.A0)

LexicographicallyLargest(z) ==
  IF z.A1 = 0 THEN FpLexicographicallyLargest(z.A0)
  ELSE FpLexicographicallyLargest(z.A1)

\* SetZero, SetOne, IsZero, IsOne.
Zero == Elem(0, 0)
One == Elem(1, 0)
IsZero(z) == z.A0 = 0 /\ z.A1 = 0
IsOne(z) == z.A0 = 1 /\ z.A1 = 0

\* Add, Sub, Double and Neg call the kernels.
Add(x, y) == addE2(x, y)
Sub(x, y) == addE2(x, negE2(y))
Double(x) == addE2(x, x)
Neg(x) == negE2(x)

MulByElement(x, y) == Elem(FpMul(x.A0, y), FpMul(x.A1, y))
Conjugate(x) == Elem(x.A0, FpNeg(x.A1))
Legendre(z) == FpLegendre(norm(z))

\* e.Bytes(): big-endian, with no leading zero byte (empty for 0).
RECURSIVE Bytes(_)
Bytes(e) == IF e = 0 THEN <<>> ELSE Append(Bytes(e \div 256), e % 256)

\* Mutant: the bits of each byte are tested from the least significant one.
ExpBits_LsbFirst(e) ==
  LET b == Bytes(e)
  IN  Seqs!FlattenSeq([i \in DOMAIN b |-> [j \in 1..8 |-> (b[i] & 2^(j - 1)) # 0]])

\* The bits the loop of Exp tests, byte by byte: w & (0b10000000 >> j).
ExpBits(e) ==
  LET b == Bytes(e)
  IN  Seqs!FlattenSeq([i \in DOMAIN b |->
                         [j \in 1..8 |-> (b[i] & shiftR(128, j - 1)) # 0]])

(***************************************************************************)
(* z.Exp(x, k): 1 for k = 0; for k < 0 x is inverted and -k used; then    *)
(* square-and-multiply over the bits of the exponent, most significant    *)
(* first, eight bits per byte.                                             *)
(***************************************************************************)
Exp(x, k) ==
  IF k = 0 THEN One
  ELSE LET base == IF k < 0 THEN Inverse(x) ELSE x
           step(z, bit) == IF bit THEN Mul(Square(z), base) ELSE Square(z)
       IN  Seqs!FoldLeft(step, One, ExpBits(IF k < 0 THEN -k ELSE k))

\* Mutant: the last multiplication by e of the non-unit-norm branch is lost.
Sqrt_NoE(x) ==
  LET c == Elem(0, 1)
      exp == (Q - 1) \div 2
      d == Exp(c, exp)
      f == Square(Mul(d, c))
      b == Exp(x, exp \div 2)
  IN  IF norm(b) = 1
      THEN MulByElement(Conjugate(b), FpSqrt(Mul(Square(b), x).A0))
      ELSE MulByElement(Conjugate(b), FpSqrt(Mul(Mul(Square(b), x), f).A0))

(***************************************************************************)
(* z.Sqrt(x), algorithm 10 of eprint 2012/685 with c = u: b = x^((q-1)/4) *)
(* and, by the norm of b, either conj(b) * sqrt((b^2 x).A0) or            *)
(* conj(b) * sqrt((b^2 x f).A0) * e, where d = c^((q-1)/2), e = (dc)^-1   *)
(* and f = (dc)^2.                                                         *)
(***************************************************************************)
Sqrt(x) ==
  LET c == Elem(0, 1)
      exp == (Q - 1) \div 2
      d == Exp(c, exp)
      e == Inverse(Mul(d, c))
      f == Square(Mul(d, c))
      b == Exp(x, exp \div 2)
  IN  IF norm(b) = 1
      THEN MulByElement(Conjugate(b), FpSqrt(Mul(Square(b), x).A0))
      ELSE Mul(MulByElement(Conjugate(b), FpSqrt(Mul(Mul(Square(b), x), f).A0)), e)

\* z.Div(x, y): r = y^-1, r = x * r.
Div(x, y) == Mul(x, Inverse(y))
=============================================================================
