---------------------------- MODULE Accumulator ----------------------------
(***************************************************************************)
(* The dynamic RSA accumulator of accumulator.go as a state machine: one   *)
(* Accumulator c (its member list c.U and value c.Acc) and the one         *)
(* WitnessList w a client passes to every call (w.List and w.Acc).  The   *)
(* operations are the methods a client calls on them: Add_member,          *)
(* Delete_member, Precompute_witness with the key's generator, and         *)
(* replacing w by a fresh c.Witness_int().  Verify is read-only and is    *)
(* used by the properties.                                                 *)
(***************************************************************************)
EXTENDS AccumulatorMath

(***************************************************************************)
(* As written, Generate_Acc, generate_witness, Add_member and              *)
(* Delete_member declare `var X *big.Int` and call X.SetBytes on the nil   *)
(* pointer, which panics before any state is built.  The model takes      *)
(* those receivers as allocated, the only reading under which the rest of *)
(* the algorithm runs at all.                                              *)
(***************************************************************************)
CONSTANTS
  InitLen,           \* longest member list given to Generate_Acc
  MaxMembers         \* bound on Len(c.U) for Add_member

ASSUME InitLen \in Nat /\ MaxMembers \in Nat /\ InitLen <= MaxMembers

VARIABLES
  U,      \* c.U, the member list in insertion order
  acc,    \* c.Acc
  wlist,  \* w.List, a map from Keys to values
  wacc,   \* w.Acc
  crash   \* "none", or how the process died

vars == <<U, acc, wlist, wacc, crash>>

Crashes == {"none", "stack_overflow"}

TypeOK ==
  /\ U \in Seq(Members) /\ Len(U) <= MaxMembers
  /\ acc \in Values /\ wacc \in Values
  /\ DOMAIN wlist \subseteq Keys /\ \A k \in DOMAIN wlist : wlist[k] \in Values
  /\ crash \in Crashes

\* acc := Generate_Acc(key, U0); w := acc.Witness_int().
Init ==
  \E U0 \in BoundedSeq(Members, InitLen) :
    /\ U = U0 /\ acc = Generate_Acc(U0)
    /\ wlist = EmptyList /\ wacc = acc
    /\ crash = "none"

(***************************************************************************)
(* The patch loop of Add_member: for every x of the new c.U (x taken as    *)
(* often as it occurs), w.List[string(x)] := w.List[string(x)]^e.          *)
(***************************************************************************)
PatchWitnesses(list, set, u) ==
  LET rawKeys == {Raw(x) : x \in ToSet(set)}
  IN  [k \in DOMAIN list \cup rawKeys |->
         IF k \in rawKeys
         THEN ExpPrimes(Lookup(list, k), [i \in 1..ToBag(set)[k[2]] |-> u])
         ELSE list[k]]

\* Mutant: the appended list is not stored back into c.U.
Add_member_LostAppend(u) ==
  /\ crash = "none"
  /\ Len(U) < MaxMembers
  /\ acc' = ExpPrime(acc, u)
  /\ UNCHANGED <<U, wlist, wacc, crash>>

(***************************************************************************)
(* c.Add_member(u, w).  The new value is Acc^Hprime(u); u is appended.    *)
(* An empty w.List is filled by Precompute_witness over the new set, which *)
(* also sets w.Acc; otherwise the patch loop runs and u's own entry is the *)
(* value of Acc before the call, and w.Acc is left as it was.              *)
(***************************************************************************)
Add_member(u) ==
  /\ crash = "none"
  /\ Len(U) < MaxMembers
  /\ LET newSet == Append(U, u)
         preAcc == acc
         newAcc == ExpPrime(acc, u)
     IN  /\ U' = newSet
         /\ acc' = newAcc
         /\ \/ /\ DOMAIN wlist = {}
               /\ wlist' = Precompute_witness(GenG, newSet)
               /\ wacc' = newAcc
            \/ /\ DOMAIN wlist # {}
               /\ wlist' = (Dec(u) :> preAcc) @@ PatchWitnesses(wlist, newSet, u)
               /\ UNCHANGED wacc
  /\ UNCHANGED crash

(***************************************************************************)
(* c.Delete_member(u, w).  The first copy of u is cut out of c.U; when u   *)
(* is absent newSet stays nil.  c.Acc becomes w.List[u.String()] (0 when   *)
(* the key is missing), w.List is replaced by an empty map and             *)
(* Precompute_witness(G, newSet) refills it; on an empty newSet that       *)
(* recursion never ends and the goroutine stack overflows.                 *)
(***************************************************************************)
Delete_member(u) ==
  /\ crash = "none"
  /\ LET newSet == IF Contains(U, u) THEN RemoveFirst(U, u) ELSE <<>>
         newAcc == Lookup(wlist, Dec(u))
     IN  /\ U' = newSet
         /\ acc' = newAcc
         /\ \/ /\ newSet = <<>>
               /\ wlist' = EmptyList
               /\ crash' = "stack_overflow"
               /\ UNCHANGED wacc
            \/ /\ newSet # <<>>
               /\ wlist' = Precompute_witness(GenG, newSet)
               /\ wacc' = newAcc
               /\ UNCHANGED crash

(***************************************************************************)
(* w.Precompute_witness(G, c.U, c) called by the client: entries for every *)
(* member are written over the existing map and w.Acc := c.Acc.            *)
(***************************************************************************)
PrecomputeWitness ==
  /\ crash = "none"
  /\ \/ /\ U = <<>>
        /\ crash' = "stack_overflow"
        /\ UNCHANGED <<U, acc, wlist, wacc>>
     \/ /\ U # <<>>
        /\ wlist' = Precompute_witness(GenG, U) @@ wlist
        /\ wacc' = acc
        /\ UNCHANGED <<U, acc, crash>>

\* w := c.Witness_int(): an empty map and w.Acc = c.Acc.
Witness_int ==
  /\ crash = "none"
  /\ wlist' = EmptyList
  /\ wacc' = acc
  /\ UNCHANGED <<U, acc, crash>>

Next ==
  \/ \E u \in Members : Add_member(u)
  \/ \E u \in Members : Delete_member(u)
  \/ PrecomputeWitness
  \/ Witness_int

Spec == Init /\ [][Next]_vars

-----------------------------------------------------------------------------
(***************************************************************************)
(* Properties.                                                             *)
(***************************************************************************)

\* No call of the accumulator code panics or overflows its stack.
NoPanic == crash = "none"

(***************************************************************************)
(* The accumulator never accumulates a non-member: the primes in c.Acc are *)
(* a sub-multiset of the members in c.U.  Delete_member takes the new      *)
(* value from a witness that may have been computed several calls earlier, *)
(* so this relates acc to the history of the witness map.                  *)
(***************************************************************************)
AccOnlyAccumulatesMembers ==
  crash = "none" /\ ~acc.zero => acc.exp \sqsubseteq ToBag(U)

(***************************************************************************)
(* The membership contract of Verify, across any sequence of adds and     *)
(* deletes: once w.List has been filled, every member u of c.U proves     *)
(* membership with its own witness w.List[u.String()] (the WitnessList     *)
(* invariant of the design), and no handle outside c.U passes Verify       *)
(* against c.Acc with the witness 0 a prover can always present.           *)
(***************************************************************************)
MembershipSound ==
  crash = "none" =>
    /\ DOMAIN wlist # {} =>
         \A i \in 1..Len(U) : Verify(U[i], Lookup(wlist, Dec(U[i])), acc)
    /\ \A x \in Members \ ToSet(U) : ~Verify(x, ZeroVal, acc)
=============================================================================
