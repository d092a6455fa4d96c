------------------------------ MODULE CLIFiles ------------------------------
(***************************************************************************)
(* The files the psidentity command line tool (main.go) reads and writes   *)
(* under its output directory, and what each command puts in them.  A key  *)
(* is abstracted to the issuer-keygen run that generated it (its          *)
(* generation); a credential to the key files it was made from.            *)
(***************************************************************************)
EXTENDS Naturals, Sequences

CONSTANTS
  Absent,  \* a file that does not exist
  Gens     \* generations of the random keys issuer-keygen may produce

\* File names of global.go (PsIdentityConfig*).
Files == {"IssuerSecretKey", "IssuerPublicKey", "RevocationKey",
          "UserSecretKey", "UserPublicKey",
          "PrimaryCred", "DeriveCred", "AggregateCred"}

(***************************************************************************)
(* The key generators issuer-keygen calls.  Each draws fresh randomness     *)
(* and returns the serialized keys; a key is the generation g of the run   *)
(* that drew it.  Their only failure, of the PRNG, makes main exit before  *)
(* the first write.                                                        *)
(***************************************************************************)
GenerateIssuerKeyPS(g) == [isk |-> g, ipk |-> g]
GenerateUserKeyPS(g) == [usk |-> g, upk |-> g]
GenerateRevocationKeyPS(g) == g

\* The writeFile calls of issuer-keygen for the keys of generation g.
KeygenWriteSeq(g) ==
  LET ik == GenerateIssuerKeyPS(g)
      uk == GenerateUserKeyPS(g)
  IN  <<<<"IssuerSecretKey", ik.isk>>, <<"IssuerPublicKey", ik.ipk>>,
        <<"RevocationKey", GenerateRevocationKeyPS(g)>>,
        <<"UserSecretKey", uk.usk>>, <<"UserPublicKey", uk.upk>>>>

\* readIssuerKey and readUserKey read these two files each.
IssuerKeyFiles == {"IssuerSecretKey", "IssuerPublicKey"}
UserKeyFiles == {"UserSecretKey", "UserPublicKey"}

\* The files issuer-keygen writes.
KeygenFiles == IssuerKeyFiles \cup UserKeyFiles \cup {"RevocationKey"}

\* A read that fails makes the command call handleError and exit(1).
Present(disk, S) == \A f \in S : disk[f] # Absent

\* The readers of main.go succeed when their files exist.
readIssuerKey(disk) == Present(disk, IssuerKeyFiles)
readUserKey(disk) == Present(disk, UserKeyFiles)
readUserPrimaryCred(disk) == Present(disk, {"PrimaryCred"})

(***************************************************************************)
(* GenerateUserPrimaryCred over the key read by readIssuerKey: the         *)
(* request is built with Ipk and signed with Isk, so the credential        *)
(* records the generations of both files.                                  *)
(***************************************************************************)
PrimaryCredOf(disk) ==
  [isk |-> disk["IssuerSecretKey"], ipk |-> disk["IssuerPublicKey"]]

(***************************************************************************)
(* VerifyPrimary of a primary credential against the issuer public key of  *)
(* generation g: the PS equation holds only when the credential was        *)
(* signed with the secret key of g over a commitment to g's Y.             *)
(***************************************************************************)
VerifyPrimaryUnder(cred, g) == cred.isk = g /\ cred.ipk = g

\* NewDeriveCredential under the issuer public key on disk.
DeriveCredOf(disk) ==
  [primary |-> disk["PrimaryCred"], ipk |-> disk["IssuerPublicKey"]]

\* NewAggregateCredential of <<derive>> with the user key read by readUserKey.
AggregateCredOf(disk, derive) ==
  [derive |-> derive, usk |-> disk["UserSecretKey"], upk |-> disk["UserPublicKey"]]

PrimaryContents == [isk : Gens, ipk : Gens]
DeriveContents == [primary : PrimaryContents, ipk : Gens]
AggregateContents == [derive : DeriveContents, usk : Gens, upk : Gens]

\* What each file may hold.
Contents(f) ==
  {Absent} \cup
    CASE f = "PrimaryCred" -> PrimaryContents
      [] f = "DeriveCred" -> DeriveContents
      [] f = "AggregateCred" -> AggregateContents
      [] OTHER -> Gens
=============================================================================
