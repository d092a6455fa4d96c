-------------------------------- MODULE MCE2 --------------------------------
(***************************************************************************)
(* The operators of e2.go checked against reference definitions on every  *)
(* element of a small E2.  The element v is the only state and never       *)
(* changes: each initial state is one input.                               *)
(***************************************************************************)
EXTENDS E2

CONSTANT Ks   \* the exponents given to Exp, negative ones included

VARIABLE v

Init == v \in E2Elems
Next == UNCHANGED v
Spec == Init /\ [][Next]_v

\* Exponents of one and two bytes, negative ones, multiples of the group
\* order, and ones whose leading byte is 1.
MCKs == {-257, -256, -9, -1, 0, 1, 2, 3, 7, 8, 167, 168, 255, 256, 257, 511}

\* The multiplicative group of E2 has Q^2 - 1 elements.
GroupOrder == Q * Q - 1

\* y^n by n multiplications.
RECURSIVE RepeatedMul(_, _)
RepeatedMul(y, n) == IF n = 0 THEN One ELSE Mul(RepeatedMul(y, n - 1), y)

\* v^n by repeated multiplication, grouped sixteen factors at a time.
Power(n) == Mul(RepeatedMul(RepeatedMul(v, 16), n \div 16), RepeatedMul(v, n % 16))

(***************************************************************************)
(* Exp(v, k), square-and-multiply over the big-endian bytes of |k| and    *)
(* the inverse of v for k < 0, is the k-th power of v: for a unit, the     *)
(* power of k modulo the group order (so v^-k is the inverse of v^k), and *)
(* for 0, 1 at k = 0 and 0 above.  Ks holds exponents of one and of two    *)
(* bytes, and exponents whose leading byte is 1.                          *)
(***************************************************************************)
ExpIsPower ==
  \A k \in Ks :
    /\ v # Zero => Exp(v, k) = Power(k % GroupOrder)
    /\ v = Zero /\ k >= 0 => Exp(v, k) = IF k = 0 THEN One ELSE Zero

(***************************************************************************)
(* Legendre is 1 exactly on the non-zero squares of E2, and Sqrt returns a *)
(* square root of every element whose Legendre symbol is not -1: the       *)
(* constant c = u of the code must be a non-square of E2, and the          *)
(* exponents (q-1)/2 and (q-1)/4 exact, which Q = 1 mod 4 provides.         *)
(***************************************************************************)
SqrtOfSquares ==
  /\ (Legendre(v) = 1) <=> (v # Zero /\ \E r \in E2Elems : Square(r) = v)
  /\ Legendre(v) # -1 => Equal(Square(Sqrt(v)), v)

(***************************************************************************)
(* The order of Cmp and LexicographicallyLargest agree: a non-zero element *)
(* is lexicographically largest exactly when it compares above its        *)
(* negation (A1 decides, A0 when A1 = 0).                                  *)
(***************************************************************************)
LexOrderConsistent ==
  v # Zero => (LexicographicallyLargest(v) <=> Cmp(v, Neg(v)) = 1)
=============================================================================
