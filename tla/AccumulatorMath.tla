-------------------------- MODULE AccumulatorMath --------------------------
(***************************************************************************)
(* The values the RSA accumulator of accumulator.go computes with, and the *)
(* pure functions of that file.                                            *)
(*                                                                         *)
(* Every value the code keeps in an Accumulator or a WitnessList is either *)
(* 0 (the big.Int read back from nil or empty bytes) or G^e mod N, where   *)
(* G is the quadratic residue of the RsaKey and e a product of primes      *)
(* Hprime(u).  Hprime maps distinct members to distinct primes and the     *)
(* order of G is unknown, so G^e = G^f exactly when e = f, and e is        *)
(* determined by the multiset of members whose primes it multiplies.  A    *)
(* value is therefore a record: zero, or the bag of members in its         *)
(* exponent.  Exponentiation by Hprime(u) adds u to the bag (0^e = 0).     *)
(***************************************************************************)
EXTENDS Naturals, SequencesExt

CONSTANT Members   \* revocation handles that can be put in the accumulator

ZeroVal == [zero |-> TRUE, exp |-> EmptyBag]
Pow(b) == [zero |-> FALSE, exp |-> b]

\* key.G: the generator, G^1.
GenG == Pow(EmptyBag)

Values == {ZeroVal} \cup {Pow(b) : b \in SubBag([m \in Members |-> 4])}

\* Mutant: the exponent is Hprime(u)^2 (the prime applied twice).
ExpPrime_Squared(v, u) == IF v.zero THEN v ELSE Pow(v.exp (+) SetToBag({u}) (+) SetToBag({u}))

\* new(big.Int).Exp(v, Hprime(u), N)
ExpPrime(v, u) == IF v.zero THEN v ELSE Pow(v.exp (+) SetToBag({u}))

\* A loop that raises v to Hprime(x) for every x of the sequence s.
ExpPrimes(v, s) == IF v.zero THEN v ELSE Pow(v.exp (+) ToBag(s))

\* Generate_Acc(key, U): Acc = G^(prod Hprime(u)) mod N.
Generate_Acc(U) == ExpPrimes(GenG, U)

\* Verify(args): W^Hprime(u) mod N == Accumulator.
Verify(u, W, accv) == ExpPrime(W, u) = accv

\* generate_witness(u, key, U): multiplies in every u_dash with u_dash != u,
\* so all copies of u are left out.
generate_witness(u, U) == ExpPrimes(GenG, SelectSeq(U, LAMBDA x : x # u))

(***************************************************************************)
(* Keys of WitnessList.List.  Precompute_witness and Delete_member key a   *)
(* member by u.String() (its decimal text); the patch loop of Add_member   *)
(* keys it by string(x) for the bytes x of c.U.  The two texts of one      *)
(* number differ, so they are distinct keys.                               *)
(***************************************************************************)
Dec(u) == <<"dec", u>>
Raw(u) == <<"raw", u>>
Keys == {Dec(m) : m \in Members} \cup {Raw(m) : m \in Members}

EmptyList == [k \in {} |-> ZeroVal]

\* w.List[k] read back through SetBytes: a missing key gives nil, i.e. 0.
Lookup(list, k) == IF k \in DOMAIN list THEN list[k] ELSE ZeroVal

(***************************************************************************)
(* witness.Precompute_witness(G_prev, U, accumulator) for a non-empty U:   *)
(* the map entries it writes.  The first half A is recursed into with      *)
(* G_prev raised to the primes of the second half B and the other way      *)
(* round; A is written first, so on a key both halves write (a member      *)
(* present twice) the entry of B is the one left.  On an empty U the code  *)
(* recurses without end; callers test for that before using this.         *)
(***************************************************************************)
RECURSIVE Precompute_witness(_, _)

\* Mutant: each half is recursed into with G_prev raised to its own primes.
Precompute_witness_OwnHalf(gprev, U) ==
  IF Len(U) = 1
  THEN Dec(U[1]) :> gprev
  ELSE LET A == SubSeq(U, 1, Len(U) \div 2)
           B == SubSeq(U, Len(U) \div 2 + 1, Len(U))
       IN  Precompute_witness(ExpPrimes(gprev, B), B)
             @@ Precompute_witness(ExpPrimes(gprev, A), A)

Precompute_witness(gprev, U) ==
  IF Len(U) = 1
  THEN Dec(U[1]) :> gprev
  ELSE LET A == SubSeq(U, 1, Len(U) \div 2)
           B == SubSeq(U, Len(U) \div 2 + 1, Len(U))
       IN  Precompute_witness(ExpPrimes(gprev, A), B)
             @@ Precompute_witness(ExpPrimes(gprev, B), A)
=============================================================================
