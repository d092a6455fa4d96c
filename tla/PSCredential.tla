---------------------------- MODULE PSCredential ----------------------------
(***************************************************************************)
(* The Pointcheval-Sanders credential protocol of package psidentity:      *)
(* credential request with its zero-knowledge proof (credrequest.go),      *)
(* blind signing and unblinding, selective-disclosure derivation and its   *)
(* verification (derive.go), aggregation and its verification             *)
(* (aggregate.go), in the order psidentityissuer.go and psidentityuser.go *)
(* run them.                                                               *)
(*                                                                         *)
(* Group elements are written as discrete logarithms: g1^a in G1 and g2^a *)
(* in G2 are the scalar a of Zr = 0..P-1, G.Add is +, G.Mul(z) is * and   *)
(* the pairing e(g2^a, g1^b) (after FExp) is a * b, all mod P.  A prime    *)
(* P stands for the group order.  mathlib's G1/G2/Zr Mul and Plus return a *)
(* new element and leave the receiver alone; Add and Sub change it.        *)
(* Attribute strings enter through NewZrFromBytes and are given here as    *)
(* the scalars Attrs.  HashToZr is the constant operator FSHash (the       *)
(* Fiat-Shamir challenge).  The digests NewZrFromBytes(messages[i].String())*)
(* of aggregate.go only enter Mul calls whose results are discarded.       *)
(***************************************************************************)
EXTENDS Naturals, SequencesExt

CONSTANTS
  P,           \* prime order of G1, G2 and GT
  N,           \* number of attributes
  Attrs,       \* [0..N-1 -> Zr], the user's attribute values
  IskX, IskY,  \* issuer secret key x and [0..N-1 -> Zr] y
  UskB, UskW,  \* user secret key b and [0..N-1 -> Zr] w
  Rand,        \* scalars curve.NewRandomZr may return
  Masks,       \* disclosure masks a caller may pass to NewDeriveCredential
  MaxDerive,   \* number of derive-cred runs explored
  Forgers,     \* whether a requester without an opening takes part
  FSHash(_, _) \* challenge of a request from (Commitment, K)

Zr == 0..P-1
Idx == 0..N-1
NoMsg == -1    \* the empty string of DiscloseMsg at a hidden index

ASSUME P \in Nat /\ P > 2 /\ \A q \in 2..P-1 : P % q # 0
ASSUME N \in Nat /\ N >= 2
ASSUME Attrs \in [Idx -> Zr] /\ IskX \in Zr /\ IskY \in [Idx -> Zr]
ASSUME UskB \in Zr /\ UskW \in [Idx -> Zr] /\ Rand \subseteq Zr \ {0}
ASSUME Masks \subseteq [Idx -> {0, 1}]
ASSUME Forgers \in BOOLEAN

\* Sum over a set of attribute indices of f(i), in Zr.
SumOver(S, f(_)) == MapThenFoldSet(LAMBDA a, b : (a + b) % P, 0, f, LAMBDA T : CHOOSE i \in T : TRUE, S)

(***************************************************************************)
(* newIssuerKeyPS: X = g1^x, Y[i] = g1^y[i], YBar[i] = g2^y[i], and        *)
(* Z_ij = g1^(y[i]*y[j]) appended for i, j in 0..n-1 with i # j, row by    *)
(* row, into the flat list ZIj of n*(n-1) entries.                         *)
(***************************************************************************)
IpkX == IskX
IpkY == IskY
ZRow(k) == k \div (N - 1)
ZCol(k) == IF k % (N - 1) < ZRow(k) THEN k % (N - 1) ELSE (k % (N - 1)) + 1
IpkZIj == [k \in 0..N * (N - 1) - 1 |-> (IskY[ZRow(k)] * IskY[ZCol(k)]) % P]

\* NewUserKeyPS: B = g1^b, BBar = g2^b, W[i] = g1^w[i].
UpkB == UskB
UpkW == UskW

(***************************************************************************)
(* newCredRequestPS: commitment = g2^d + sum YBar[i]^m[i], proof first     *)
(* message K = g2^p + sum YBar[i]^w[i], challenge from the hash,           *)
(* rp = p + challenge*d and rw[i] = w[i] + challenge*m[i].                 *)
(***************************************************************************)
\* Mutant: rp is p + challenge*d without the reduction mod the group order.
newCredRequestPS_Unreduced(d, p, w) ==
  LET commitment == (d + SumOver(Idx, LAMBDA i : IpkY[i] * Attrs[i])) % P
      K == (p + SumOver(Idx, LAMBDA i : IpkY[i] * w[i])) % P
      challenge == FSHash(commitment, K)
  IN  [commitment |-> commitment, K |-> K, challenge |-> challenge,
       rp |-> p + challenge * d,
       rw |-> [i \in Idx |-> (w[i] + challenge * Attrs[i]) % P]]

\* Mutant: the result of p.Plus(challenge*d) is discarded, so rp = p.
newCredRequestPS_DiscardedPlus(d, p, w) ==
  LET commitment == (d + SumOver(Idx, LAMBDA i : IpkY[i] * Attrs[i])) % P
      K == (p + SumOver(Idx, LAMBDA i : IpkY[i] * w[i])) % P
      challenge == FSHash(commitment, K)
  IN  [commitment |-> commitment, K |-> K, challenge |-> challenge,
       rp |-> p,
       rw |-> [i \in Idx |-> (w[i] + challenge * Attrs[i]) % P]]

newCredRequestPS(d, p, w) ==
  LET commitment == (d + SumOver(Idx, LAMBDA i : IpkY[i] * Attrs[i])) % P
      K == (p + SumOver(Idx, LAMBDA i : IpkY[i] * w[i])) % P
      challenge == FSHash(commitment, K)
  IN  [commitment |-> commitment, K |-> K, challenge |-> challenge,
       rp |-> (p + challenge * d) % P,
       rw |-> [i \in Idx |-> (w[i] + challenge * Attrs[i]) % P]]

(***************************************************************************)
(* VerifyZeroKnowledgeOne: left = g2^rp + sum YBar[i]^rw[i] over the       *)
(* len(rw) entries the request carries, against right = K +               *)
(* commitment^challenge.  The challenge is taken from the request as      *)
(* sent; it is not recomputed from the hash.                               *)
(***************************************************************************)
VerifyZeroKnowledgeOne(req) ==
  (req.rp + SumOver(DOMAIN req.rw, LAMBDA i : IpkY[i] * req.rw[i])) % P
    = (req.K + req.commitment * req.challenge) % P

\* An empty rw decodes as nil: "one of the proof values is undefined".
RwDefined(req) == DOMAIN req.rw # {}

\* The loop reads ipk.YBar[i] for every i < len(rw); the key has N of them.
RwInRange(req) == DOMAIN req.rw \subseteq Idx

\* Lengths of rw a requester may send: up to one more than the key's YBar.
RwLens == 0..N + 1

(***************************************************************************)
(* NewBlindCredential and NewPrimaryCredential are called by               *)
(* GenerateUserPrimaryCred but their code is not in the repository; they  *)
(* are taken from the design: the issuer picks u and returns               *)
(* H = g2^u, S' = (C + X)^u, and the user removes the blinding, S = S' -  *)
(* H^d, so that e(H, X + sum Y[i]^m[i]) = e(S, g1) for an honest C.        *)
(***************************************************************************)
NewBlindCredential(req, u) == [H |-> u, S |-> (u * (req.commitment + IpkX)) % P]
NewPrimaryCredential(blind, d) == [H |-> blind.H, S |-> (blind.S + (P - d) * blind.H) % P]

\* VerifyPrimary: e(H, X + sum Y[i]^m[i]) = e(S, g1).
VerifyPrimary(cred) ==
  (cred.H * (IpkX + SumOver(Idx, LAMBDA i : IpkY[i] * Attrs[i]))) % P = cred.S

\* hideIndices / discloseIndices: the indices with flag 0 / 1, in order.
hideIndices(mask) == SelectSeq([k \in 1..N |-> k - 1], LAMBDA i : mask[i] = 0)
discloseIndices(mask) == SelectSeq([k \in 1..N |-> k - 1], LAMBDA i : mask[i] = 1)

(***************************************************************************)
(* newDeriveCredential after VerifyPrimary, for a mask with a disclosed    *)
(* and a hidden index.  h.Mul(r) and s.Mul(r) are discarded, so Hp = H and *)
(* Sp = S + H^t; SigmaOnep = g1^t + sum over hidden j of Y[j]^m[j];        *)
(* SigmaTwop = (sum over disclosed i of Y[i])^t plus the one ZIj entry     *)
(* fetched last by the double loop (its Mul is discarded too), at the     *)
(* index DiscloseIndices[i]*len(HideIndices) + HideIndices[j].  r and t    *)
(* are kept in the record for the properties.                              *)
(***************************************************************************)
\* Mutant: s.Add(h^t) is left out, so Sp = S.
newDeriveCredential_NoHt(cred, mask, r, t) ==
  LET D == discloseIndices(mask)
      H == hideIndices(mask)
      lastZ == IpkZIj[Last(D) * Len(H) + Last(H)]
  IN  [Hp |-> cred.H,
       Sp |-> cred.S,
       SigmaOnep |-> (t + SumOver(ToSet(H), LAMBDA j : IpkY[j] * Attrs[j])) % P,
       SigmaTwop |-> (t * SumOver(ToSet(D), LAMBDA i : IpkY[i]) + lastZ) % P,
       DiscloseIndices |-> D,
       DiscloseMsg |-> [i \in Idx |-> IF mask[i] = 1 THEN Attrs[i] ELSE NoMsg],
       r |-> r, t |-> t]

newDeriveCredential(cred, mask, r, t) ==
  LET D == discloseIndices(mask)
      H == hideIndices(mask)
      lastZ == IpkZIj[Last(D) * Len(H) + Last(H)]
  IN  [Hp |-> cred.H,
       Sp |-> (cred.S + cred.H * t) % P,
       SigmaOnep |-> (t + SumOver(ToSet(H), LAMBDA j : IpkY[j] * Attrs[j])) % P,
       SigmaTwop |-> (t * SumOver(ToSet(D), LAMBDA i : IpkY[i]) + lastZ) % P,
       DiscloseIndices |-> D,
       DiscloseMsg |-> [i \in Idx |-> IF mask[i] = 1 THEN Attrs[i] ELSE NoMsg],
       r |-> r, t |-> t]

(***************************************************************************)
(* The two pairing equations VerifyDerive evaluates (it only logs when one *)
(* fails and returns nil).  Disclosed indices whose message is empty are   *)
(* skipped.                                                                *)
(***************************************************************************)
Shown(dc) == {i \in ToSet(dc.DiscloseIndices) : dc.DiscloseMsg[i] # NoMsg}
DeriveEquation1(dc) ==
  (dc.Hp * (IpkX + dc.SigmaOnep + SumOver(Shown(dc), LAMBDA i : IpkY[i] * dc.DiscloseMsg[i]))) % P
    = dc.Sp
DeriveEquation2(dc) ==
  (SumOver(Shown(dc), LAMBDA i : IpkY[i]) * dc.SigmaOnep) % P = dc.SigmaTwop

(***************************************************************************)
(* newAggregateCredential over a list of messages: sigma.Plus(sigma_i) and *)
(* sigma_two.Mul(k) are discarded, so SigmaOnepp = g2^k and SigmaTwopp is  *)
(* BBar + g2^0 = BBar, whatever the messages.                              *)
(***************************************************************************)
newAggregateCredential(msgs, k) == [SigmaOnepp |-> k, SigmaTwopp |-> UpkB, Messages |-> msgs]

\* The loops of newAggregateCredential and VerifyAggregate read Usk.W[i] and
\* Upk.W[i] for each message i; the user key has N of them.
AggregateIndexInRange(msgs) == Len(msgs) <= N

\* Lengths of the message lists a caller of GenerateUserAggregateCred passes:
\* up to one more than the user key has W entries.
AggregateLens == 0..N + 1

(***************************************************************************)
(* The pairing check of VerifyAggregate, e(SigmaOnepp, B') = e(SigmaTwopp, *)
(* g1), with B' = B + W[0] + ... + W[n-1]: the loop's Wi.Mul(Di) returns a *)
(* new element that is discarded, so B' never involves the message digests.*)
(***************************************************************************)
AggregateEquation(ac) ==
  (ac.SigmaOnepp * (UpkB + SumOver(0..Len(ac.Messages) - 1, LAMBDA i : UpkW[i]))) % P
    = ac.SigmaTwopp

-----------------------------------------------------------------------------
VARIABLES
  phase,    \* where the two commands are: issuance, then derive-cred runs
  req,      \* the CredRequestPS the issuer is given
  honest,   \* whether req was made by newCredRequestPS
  dblind,   \* the user's blinding scalar d
  blind,    \* the issuer's blind signature
  primary,  \* the PrimaryCredential the user stores
  cur,      \* the DeriveCredential of the running derive-cred command
  derived,  \* every DeriveCredential produced so far
  aggr,     \* the AggregateCredential of the running derive-cred command
  runs      \* derive-cred commands and aggregate calls that returned

vars == <<phase, req, honest, dblind, blind, primary, cur, derived, aggr, runs>>

Phases == {"request", "check", "sign", "unblind", "ready", "aggregate",
           "verify_aggregate", "failed", "crashed"}
NoReq == [commitment |-> 0, K |-> 0, challenge |-> 0, rp |-> 0, rw |-> [i \in Idx |-> 0]]
NoCred == [H |-> 0, S |-> 0]

Init ==
  /\ phase = "request"
  /\ req = NoReq /\ honest = FALSE /\ dblind = 0
  /\ blind = NoCred /\ primary = NoCred
  /\ cur = <<>> /\ derived = {} /\ aggr = <<>>
  /\ runs = 0

(***************************************************************************)
(* The user runs newCredRequestPS with fresh d, p and w.                   *)
(***************************************************************************)
UserRequest ==
  /\ phase = "request"
  /\ \E d, p \in Rand, w \in [Idx -> Rand] :
       /\ req' = newCredRequestPS(d, p, w)
       /\ dblind' = d
  /\ honest' = TRUE
  /\ phase' = "check"
  /\ UNCHANGED <<blind, primary, cur, derived, aggr, runs>>

(***************************************************************************)
(* A requester who knows no opening of a commitment sends any commitment,  *)
(* first message and challenge with rp = 0 and an rw of zeros of any      *)
(* length (among them the ones with K = -challenge*commitment, which       *)
(* balance the verification).                                              *)
(***************************************************************************)
ForgeRequest ==
  /\ Forgers
  /\ phase = "request"
  /\ \E C, c, K \in Zr, n \in RwLens :
       req' = [commitment |-> C, K |-> K, challenge |-> c,
               rp |-> 0, rw |-> [i \in 0..n - 1 |-> 0]]
  /\ honest' = FALSE
  /\ dblind' = 0
  /\ phase' = "check"
  /\ UNCHANGED <<blind, primary, cur, derived, aggr, runs>>

(***************************************************************************)
(* GenerateUserPrimaryCred: msg.VerifyZeroKnowledgeOne; on an error the    *)
(* command returns "failed to Zero knowledge one verification"; an rw     *)
(* longer than YBar panics on ipk.YBar[i].                                 *)
(***************************************************************************)
CheckRequest ==
  /\ phase = "check"
  /\ phase' = CASE ~RwDefined(req) -> "failed"
               [] ~RwInRange(req) -> "crashed"
               [] OTHER -> IF VerifyZeroKnowledgeOne(req) THEN "sign" ELSE "failed"
  /\ UNCHANGED <<req, honest, dblind, blind, primary, cur, derived, aggr, runs>>

\* psid.NewBlindCredential(&key, msg, rng, tr)
BlindSign ==
  /\ phase = "sign"
  /\ \E u \in Rand : blind' = NewBlindCredential(req, u)
  /\ phase' = "unblind"
  /\ UNCHANGED <<req, honest, dblind, primary, cur, derived, aggr, runs>>

(***************************************************************************)
(* psid.NewPrimaryCredential(..., d, ...): the PrimaryCredential is        *)
(* marshalled and returned; the request, d and the blind signature die     *)
(* with the command.                                                       *)
(***************************************************************************)
Unblind ==
  /\ phase = "unblind"
  /\ primary' = NewPrimaryCredential(blind, dblind)
  /\ req' = NoReq /\ honest' = FALSE /\ dblind' = 0 /\ blind' = NoCred
  /\ phase' = "ready"
  /\ UNCHANGED <<cur, derived, aggr, runs>>

(***************************************************************************)
(* GenerateUserDeriveCred up to the derived credential: newDeriveCredential*)
(* returns the VerifyPrimary error, or reads DiscloseIndices[0] (index out *)
(* of range when nothing is disclosed), or adds the nil Zij to SigmaTwop   *)
(* (nil dereference when nothing is hidden), or returns the credential.    *)
(***************************************************************************)
DeriveCred ==
  /\ phase = "ready"
  /\ runs < MaxDerive
  /\ \E mask \in Masks, r, t \in Rand :
       \/ /\ ~VerifyPrimary(primary)
          /\ phase' = "failed"
          /\ UNCHANGED <<cur, derived>>
       \/ /\ VerifyPrimary(primary)
          /\ \/ discloseIndices(mask) = <<>>
             \/ hideIndices(mask) = <<>>
          /\ phase' = "crashed"
          /\ UNCHANGED <<cur, derived>>
       \/ /\ VerifyPrimary(primary)
          /\ discloseIndices(mask) # <<>> /\ hideIndices(mask) # <<>>
          /\ LET dc == newDeriveCredential(primary, mask, r, t)
             IN  /\ cur' = <<dc>>
                 /\ derived' = derived \cup {dc}
          /\ phase' = "aggregate"
  /\ UNCHANGED <<req, honest, dblind, blind, primary, aggr, runs>>

(***************************************************************************)
(* newAggregateCredential: VerifyDerive on each message (it returns nil    *)
(* whatever the equations give), then the aggregate with a fresh k.        *)
(***************************************************************************)
Aggregate ==
  /\ phase = "aggregate"
  /\ \E k \in Rand : aggr' = <<newAggregateCredential(cur, k)>>
  /\ phase' = "verify_aggregate"
  /\ UNCHANGED <<req, honest, dblind, blind, primary, cur, derived, runs>>

(***************************************************************************)
(* GenerateUserAggregateCred, a library call with any list of derived      *)
(* credentials (no command reaches it: aggregate-cred is commented out).   *)
(* newAggregateCredential panics on W[i] past the user key; otherwise the  *)
(* aggregate goes to VerifyAggregate as in derive-cred.                    *)
(***************************************************************************)
AggregateCred ==
  /\ phase = "ready"
  /\ runs < MaxDerive
  /\ \E n \in AggregateLens : \E msgs \in [1..n -> derived], k \in Rand :
       \/ /\ ~AggregateIndexInRange(msgs)
          /\ phase' = "crashed"
          /\ UNCHANGED aggr
       \/ /\ AggregateIndexInRange(msgs)
          /\ aggr' = <<newAggregateCredential(msgs, k)>>
          /\ phase' = "verify_aggregate"
  /\ UNCHANGED <<req, honest, dblind, blind, primary, cur, derived, runs>>

(***************************************************************************)
(* VerifyAggregate returns nil (a failed equation is only logged); the     *)
(* command writes DeriveCred and AggregateCred and returns.                *)
(***************************************************************************)
VerifyAggregate ==
  /\ phase = "verify_aggregate"
  /\ phase' = "ready"
  /\ cur' = <<>> /\ aggr' = <<>>
  /\ runs' = runs + 1
  /\ UNCHANGED <<req, honest, dblind, blind, primary, derived>>

Next ==
  \/ UserRequest \/ ForgeRequest \/ CheckRequest \/ BlindSign \/ Unblind
  \/ DeriveCred \/ Aggregate \/ AggregateCred \/ VerifyAggregate

Spec == Init /\ [][Next]_vars

-----------------------------------------------------------------------------
TypeOK ==
  /\ phase \in Phases
  /\ req.commitment \in Zr /\ req.K \in Zr /\ req.challenge \in Zr
  /\ req.rp \in Zr /\ \E n \in RwLens : req.rw \in [0..n - 1 -> Zr]
  /\ honest \in BOOLEAN /\ dblind \in Zr
  /\ blind \in [H : Zr, S : Zr] /\ primary \in [H : Zr, S : Zr]
  /\ Len(cur) <= 1 /\ Len(aggr) <= 1
  /\ runs \in 0..MaxDerive

(***************************************************************************)
(* Completeness of the request proof: a request built by newCredRequestPS, *)
(* with any d, p and w, passes VerifyZeroKnowledgeOne.                     *)
(***************************************************************************)
HonestRequestAccepted ==
  [][phase = "check" /\ honest => phase' = "sign"]_vars

(***************************************************************************)
(* Every derived credential satisfies the signature equation of            *)
(* VerifyDerive, e(Hp, X + SigmaOnep + sum Y[i]^m[i]) = e(Sp, g1), for     *)
(* every mask, r and t: the hidden part of the exponent travels in         *)
(* SigmaOnep and the t of Sp cancels the t of SigmaOnep.                   *)
(***************************************************************************)
DerivedSignatureValid ==
  \A dc \in derived : DeriveEquation1(dc)

(***************************************************************************)
(* The issuer signs only a request whose challenge is the Fiat-Shamir hash *)
(* of its commitment and first message (what makes the proof sound).       *)
(***************************************************************************)
SignedChallengeIsHash ==
  [][phase = "check" /\ phase' = "sign" => req.challenge = FSHash(req.commitment, req.K)]_vars

(***************************************************************************)
(* Derivations are unlinkable: two derived credentials made with different *)
(* re-randomisation scalars r have different Hp.                           *)
(***************************************************************************)
DerivationsUnlinkable ==
  \A d1, d2 \in derived : d1.r # d2.r => d1.Hp # d2.Hp

(***************************************************************************)
(* The verifiers of derive-cred fail closed: a derived credential          *)
(* VerifyDerive lets through (the command goes on to aggregate it)         *)
(* satisfies both pairing equations, and an aggregate VerifyAggregate      *)
(* lets through (the command writes it) satisfies the aggregate equation.  *)
(***************************************************************************)
VerifiersFailClosed ==
  [][/\ phase = "aggregate" /\ phase' = "verify_aggregate" =>
          DeriveEquation1(cur[1]) /\ DeriveEquation2(cur[1])
     /\ phase = "verify_aggregate" /\ phase' = "ready" =>
          AggregateEquation(aggr[1])]_vars

\* No step of the commands panics.
NoPanic == phase # "crashed"
=============================================================================
