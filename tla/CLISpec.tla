------------------------------ MODULE CLISpec ------------------------------
(***************************************************************************)
(* What the command line tool promises about its output directory: each   *)
(* command replaces the files it produces in one step, or, when it fails, *)
(* leaves the directory as it was.  A new issuer-keygen run replaces all   *)
(* five key files with keys of one generation; primary-cred writes a       *)
(* credential for the issuer key on disk; derive-cred writes the derived   *)
(* and the aggregate credential of the primary credential on disk, when it *)
(* verifies.                                                               *)
(***************************************************************************)
EXTENDS CLIFiles

VARIABLE files

Init == files = [f \in Files |-> Absent]

IssuerKeygen ==
  \E g \in Gens :
    files' = [f \in Files |-> IF f \in KeygenFiles THEN g ELSE files[f]]

PrimaryCred ==
  /\ Present(files, IssuerKeyFiles)
  /\ files' = [files EXCEPT !["PrimaryCred"] = PrimaryCredOf(files)]

DeriveCred ==
  /\ Present(files, IssuerKeyFiles \cup UserKeyFiles \cup {"PrimaryCred"})
  /\ VerifyPrimaryUnder(files["PrimaryCred"], files["IssuerPublicKey"])
  /\ LET d == DeriveCredOf(files)
     IN  files' = [files EXCEPT !["DeriveCred"] = d,
                                !["AggregateCred"] = AggregateCredOf(files, d)]

Next == IssuerKeygen \/ PrimaryCred \/ DeriveCred

Spec == Init /\ [][Next]_files
=============================================================================
