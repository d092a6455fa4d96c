-------------------------------- MODULE CLI --------------------------------
(***************************************************************************)
(* The command line tool of main.go over its output directory.  One        *)
(* command runs at a time (each is a process started by the user).  A     *)
(* command reads its input files, computes in memory, and then issues its  *)
(* writeFile calls one by one; the process may be killed between two of   *)
(* them.  issuer-keygen computes the issuer, user and revocation keys      *)
(* (GenerateIssuerKeyPS, GenerateUserKeyPS, GenerateRevocationKeyPS) and   *)
(* writes five files; primary-cred writes one; derive-cred writes two.     *)
(***************************************************************************)
EXTENDS CLIFiles

CONSTANT Crashes   \* whether a running command may be killed

ASSUME Crashes \in BOOLEAN

VARIABLES
  disk,     \* file name -> content, or Absent
  gen,      \* issuer-keygen runs started so far (the generation of their keys)
  running,  \* the command whose writes are in progress, or "none"
  todo      \* its writeFile calls still to do: <<file, content>> pairs

vars == <<disk, gen, running, todo>>

Commands == {"none", "issuer-keygen", "derive-cred"}

\* Number of writeFile calls of a command that writes more than one file.
WriteCount(cmd) == IF cmd = "issuer-keygen" THEN Len(KeygenWriteSeq(gen)) ELSE 2

Init ==
  /\ disk = [f \in Files |-> Absent]
  /\ gen = 0
  /\ running = "none"
  /\ todo = <<>>

(***************************************************************************)
(* issuer-keygen: the keys of a fresh generation, then the writeFile of    *)
(* IssuerSecretKey, IssuerPublicKey and RevocationKey, and of              *)
(* UserSecretKey and UserPublicKey.  The checkDirectoryNotExists guard is  *)
(* commented out, so existing keys are overwritten.                        *)
(***************************************************************************)
\* Mutant: the writeFile of UserPublicKey is left out.
IssuerKeygenCmd_NoUserPublicKey ==
  /\ running = "none"
  /\ gen + 1 \in Gens
  /\ gen' = gen + 1
  /\ running' = "issuer-keygen"
  /\ todo' = SubSeq(KeygenWriteSeq(gen + 1), 1, 4)
  /\ UNCHANGED disk

IssuerKeygenCmd ==
  /\ running = "none"
  /\ gen + 1 \in Gens
  /\ gen' = gen + 1
  /\ running' = "issuer-keygen"
  /\ todo' = KeygenWriteSeq(gen + 1)
  /\ UNCHANGED disk

(***************************************************************************)
(* primary-cred: readIssuerKey exits on a missing file; otherwise          *)
(* GenerateUserPrimaryCred (whose proof check passes for its own request)  *)
(* and one writeFile of PrimaryCred.                                       *)
(***************************************************************************)
PrimaryCredCmd ==
  /\ running = "none"
  /\ \/ /\ ~readIssuerKey(disk)
        /\ UNCHANGED vars
     \/ /\ readIssuerKey(disk)
        /\ disk' = [disk EXCEPT !["PrimaryCred"] = PrimaryCredOf(disk)]
        /\ UNCHANGED <<gen, running, todo>>

(***************************************************************************)
(* derive-cred: readIssuerKey, readUserKey and readUserPrimaryCred exit on *)
(* a missing file; GenerateUserDeriveCred returns the VerifyPrimary error  *)
(* when the credential does not verify under the issuer key read, and     *)
(* main exits; otherwise DeriveCred and then AggregateCred are written.   *)
(***************************************************************************)
DeriveCredCmd ==
  /\ running = "none"
  /\ LET read == readIssuerKey(disk) /\ readUserKey(disk) /\ readUserPrimaryCred(disk)
         d == DeriveCredOf(disk)
     IN  \/ /\ ~read
            /\ UNCHANGED vars
         \/ /\ read
            /\ ~VerifyPrimaryUnder(disk["PrimaryCred"], disk["IssuerPublicKey"])
            /\ UNCHANGED vars
         \/ /\ read
            /\ VerifyPrimaryUnder(disk["PrimaryCred"], disk["IssuerPublicKey"])
            /\ running' = "derive-cred"
            /\ todo' = <<<<"DeriveCred", d>>, <<"AggregateCred", AggregateCredOf(disk, d)>>>>
            /\ UNCHANGED <<disk, gen>>

\* aggregate-cred: its body is commented out; the command does nothing.
AggregateCredCmd ==
  /\ running = "none"
  /\ UNCHANGED vars

\* Mutant: the command is still taken as running after its last write.
WriteFile_StaysRunning ==
  /\ todo # <<>>
  /\ disk' = [disk EXCEPT ![Head(todo)[1]] = Head(todo)[2]]
  /\ todo' = Tail(todo)
  /\ UNCHANGED <<gen, running>>

\* writeFile(path, contents): ioutil.WriteFile of the next pending file.
WriteFile ==
  /\ todo # <<>>
  /\ disk' = [disk EXCEPT ![Head(todo)[1]] = Head(todo)[2]]
  /\ todo' = Tail(todo)
  /\ running' = IF Len(todo) = 1 THEN "none" ELSE running
  /\ UNCHANGED gen

\* The process is killed: its pending writes never happen.
Crash ==
  /\ Crashes
  /\ running # "none"
  /\ running' = "none"
  /\ todo' = <<>>
  /\ UNCHANGED <<disk, gen>>

Next ==
  \/ IssuerKeygenCmd \/ PrimaryCredCmd \/ DeriveCredCmd \/ AggregateCredCmd
  \/ WriteFile \/ Crash

Spec == Init /\ [][Next]_vars

-----------------------------------------------------------------------------
TypeOK ==
  /\ \A f \in Files : disk[f] \in Contents(f)
  /\ gen \in {0} \cup Gens
  /\ running \in Commands
  /\ \A i \in DOMAIN todo : todo[i][1] \in Files /\ todo[i][2] \in Contents(todo[i][1])
  /\ (running = "none") = (todo = <<>>)

(***************************************************************************)
(* The refinement mapping: once a command has written its first file, the  *)
(* directory is seen as holding everything that command will write.        *)
(***************************************************************************)
Wrote == running # "none" /\ Len(todo) < WriteCount(running)
Pending == {todo[i] : i \in DOMAIN todo}
AbsFiles ==
  [f \in Files |->
     IF Wrote /\ \E p \in Pending : p[1] = f
     THEN (CHOOSE p \in Pending : p[1] = f)[2]
     ELSE disk[f]]

Abs == INSTANCE CLISpec WITH files <- AbsFiles

(***************************************************************************)
(* Every command changes the output directory as one atomic step of        *)
(* CLISpec: the writeFile sequence of issuer-keygen and of derive-cred is  *)
(* never observed half done, so the key files on disk always belong to one *)
(* keygen run and the aggregate to the derived credential beside it.       *)
(***************************************************************************)
AtomicCommands == Abs!Spec

(***************************************************************************)
(* primary-cred only writes a credential that verifies: the PrimaryCred   *)
(* on disk verifies under the issuer public key it was issued with.        *)
(* readIssuerKey loads IssuerSecretKey and IssuerPublicKey with no check   *)
(* that they belong together, so this rests on issuer-keygen never leaving *)
(* a secret key of one run beside a public key of another.                 *)
(***************************************************************************)
PrimaryCredVerifies ==
  disk["PrimaryCred"] # Absent =>
    VerifyPrimaryUnder(disk["PrimaryCred"], disk["PrimaryCred"].ipk)
=============================================================================
