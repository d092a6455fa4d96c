--------------------------- MODULE MCAccumulator ---------------------------
(***************************************************************************)
(* Instantiation of Accumulator for TLC: three revocation handles, a       *)
(* starting set of up to two of them and at most four members.             *)
(***************************************************************************)
EXTENDS Accumulator

CONSTANTS m1, m2, m3

MCMembers == {m1, m2, m3}

\* Handles are compared only for equality, so any permutation of them is a
\* symmetry of the specification.
MCSymmetry == Permutations(MCMembers)

\* The witness of the i-th member of a list: G raised to the primes of
\* every other position.
RefWitness(list, i) == ExpPrimes(GenG, RemoveAt(list, i))

(***************************************************************************)
(* The divide-and-conquer recursion of Precompute_witness, run on the      *)
(* member list c.U of every reachable state (every list of length 1..4,   *)
(* duplicates included, since Add_member does not reject a handle that is *)
(* already a member), writes one entry per distinct member, each the      *)
(* reference witness of that member (of any of its positions, which are   *)
(* equal), so that every member passes Verify against Generate_Acc(c.U).  *)
(***************************************************************************)
PrecomputeMatchesReference ==
  U # <<>> =>
    LET W == Precompute_witness(GenG, U)
    IN  /\ DOMAIN W = {Dec(x) : x \in ToSet(U)}
        /\ \A i \in 1..Len(U) :
             /\ W[Dec(U[i])] = RefWitness(U, i)
             /\ Verify(U[i], W[Dec(U[i])], Generate_Acc(U))
=============================================================================
