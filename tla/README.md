# TLA+ models of flexdid (psidentity)

These modules model the Go package `src/src/psidentity/psidentity` and the
commands in `src/src/main/main.go` that drive it. The code has two parts
that share no state:

* a **Pointcheval–Sanders (PS) anonymous-credential protocol**. It covers
  the issuer and user keys, the credential request with a Fiat–Shamir
  proof, blind signing and unblinding, selective-disclosure derivation
  and aggregation;
* a **dynamic RSA accumulator** for revocation. It consists of an
  `Accumulator` (the member list `U` and the value `Acc`) and a
  `WitnessList` (a map from member to witness, plus `Acc`), which the
  caller passes to every mutation.

## Inventory

| Component | Source | State | Operations |
|---|---|---|---|
| IssuerKeyManager | issuerkey.go `newIssuerKeyPS` | x, y[i]; X, Y[i], YBar[i], flat Z_ij list | key generation (once) |
| UserKeyManager | userkey.go `NewUserKeyPS` | b, w[i]; B, BBar, W[i] | key generation (once) |
| CredentialRequestProtocol | credrequest.go | request (commitment, K, challenge, rp, rw), blinding d | `newCredRequestPS`, `VerifyZeroKnowledgeOne` |
| BlindSigning / Unblinding | psidentityissuer.go `GenerateUserPrimaryCred` | blind credential (H, S'), primary credential (H, S) | `NewBlindCredential`, `NewPrimaryCredential`, `VerifyPrimary` |
| DerivationProtocol | derive.go, psidentityuser.go | derived credential (Hp, Sp, SigmaOnep, SigmaTwop, indices, messages) | `newDeriveCredential`, `VerifyDerive` |
| AggregationProtocol | aggregate.go, psidentityuser.go `GenerateUserAggregateCred` | aggregate (SigmaOnepp, SigmaTwopp, messages) | `newAggregateCredential`, `VerifyAggregate`, `GenerateUserAggregateCred` |
| RevocationAccumulator | accumulator.go | `c.U`, `c.Acc`, `w.List`, `w.Acc` | `Generate_Acc`, `Witness_int`, `Add_member`, `Delete_member`, `Precompute_witness`, `generate_witness`, `Verify` |
| CLI | main.go, global.go, psidentityissuer.go/psidentityuser.go `Generate*` | the key and credential files of the output directory | issuer-keygen, primary-cred, derive-cred, aggregate-cred (empty) |
| Curve arithmetic | vendored gnark-crypto e2.go | an E2 element (A0, A1) | `Equal`, `Cmp`, `LexicographicallyLargest`, `SetZero`/`SetOne`, `IsZero`/`IsOne`, `Add`/`Sub`/`Double`/`Neg`, `MulByElement`, `Conjugate`, `Legendre`, `Exp`, `Sqrt`, `Div` |

The three CLI commands run one after another. Each reads the files that
the previous command wrote:

* **issuer-keygen** writes the issuer keys, the user keys and the
  revocation key.
* **primary-cred** runs, in one process, request → proof check →
  blind sign → unblind, and writes the primary credential.
* **derive-cred** runs derive → aggregate → verify aggregate with the
  fixed mask `[1,0,1,0]`, and writes the derived and aggregate
  credentials.

No CLI command calls the accumulator. It is a library: its only callers
are the design's clients. Nothing in the repository calls e2.go either;
it is the one vendored file of gnark-crypto's bls24-315 tower.

Hard behaviours in this code:

* receivers of `mathlib` `Mul`/`Plus` whose new result is thrown away,
  while `Add` mutates;
* `SetBytes` called on nil `*big.Int` pointers;
* verifications that log a failure instead of returning an error;
* a recursion with no empty-list base case;
* witness-map keys written in two different encodings (`u.String()` and
  `string(u.Bytes())`);
* the new accumulator value taken from a witness map that may be stale.

Every hazard is listed, with its source line, in `PROJECT.json`.

## Modules

* **AccumulatorMath** holds the pure definitions of accumulator.go.
  * A value is either 0 or G raised to a multiset of members. Distinct
    `Hprime` primes make the product of primes a bag, and `Exp` adds to
    the bag. 0 stays 0, which is what `SetBytes(nil)` followed by `Exp`
    gives.
  * The witness-map keys are `Dec(u)` for `u.String()` and `Raw(u)` for
    `string(u.Bytes())`. They are distinct keys.
  * `Precompute_witness` is a RECURSIVE operator that returns the map
    entries the recursion writes. On a key both halves write (a
    duplicate member), the later write wins.
* **Accumulator** is the state machine.
  * Variables: `U` (`c.U`), `acc` (`c.Acc`), `wlist` (`w.List`), `wacc`
    (`w.Acc`), and `crash`.
  * Actions: `Add_member(u)`, `Delete_member(u)`, `PrecomputeWitness`
    (a client refreshing the map) and `Witness_int` (a client taking a
    fresh list).
  * Each action is the whole method, including the nested
    `Precompute_witness` and the patch loop.
  * As written, `Generate_Acc`, `Add_member`, `Delete_member` and
    `generate_witness` call `SetBytes` on a nil `*big.Int` and panic on
    their first call. The model takes those receivers as allocated, so
    the algorithm after the panic can be checked.
* **MCAccumulator** has three member model values with symmetry. It also
  checks the pure `Precompute_witness` against the reference witness (G
  raised to the primes of every other position) on the member list of
  every reachable state, which covers every list of 1..4 members.
* **MCAccumulator_membership.cfg** checks `MembershipSound`, Verify's
  contract over any sequence of operations: while the map is filled,
  every current member verifies with its stored witness, and no
  non-member verifies with witness 0.
* **E2** holds e2.go as pure operators over E2 = F_Q[u]/(u² − NonResidue).
  * An element is a record of its coordinates `A0`, `A1`, integers mod Q
    in regular form.
  * The fp field and the E2 kernels (`mulE2`, `Square`, `norm`,
    `Inverse`, `addE2`, `negE2`) are in gnark-crypto files that are not in
    the repository, so they are given by their mathematical definitions.
    `fp.Sqrt` of a non-square leaves its receiver unchanged, as gnark's
    does, and `Inverse` of 0 is 0. `Mul` reads a precomputed table of
    `mulE2`, so TLC evaluates each product once.
  * The operators of e2.go are translated from it. `ExpBits` is the
    loop's bit order: the bytes of `e.Bytes()` big-endian, each from its
    top bit (`w & (0b10000000 >> j)`). `Exp` folds square-and-multiply
    over those bits after inverting x for a negative k. `Sqrt` is
    algorithm 10 of eprint 2012/685 with c = u, both branches.
* **MCE2** makes every element of E2 an initial state (a constant
  variable `v`) and checks each operator against an independent
  reference: `Exp` against repeated multiplication, `Sqrt` against
  `Square`, `LexicographicallyLargest` against `Cmp` with the negation.
* **PSCredential** models the credential protocol in the order the two
  commands run it.
  * A group element g^a is its discrete log a mod a prime P, and the
    pairing is a product mod P. Equations over the group become
    equations over Zr, so a discarded `Mul` shows up exactly as in the
    code.
  * Actions: `UserRequest`, `ForgeRequest` (a requester who knows no
    opening; enabled by `Forgers`), `CheckRequest`, `BlindSign`,
    `Unblind`, `DeriveCred`, `Aggregate`, `AggregateCred` and
    `VerifyAggregate`.
  * A forged request carries an `rw` of any length from 0 to N + 1
    (`RwLens`). `CheckRequest` follows `VerifyZeroKnowledgeOne`: an empty
    `rw` decodes as nil and is rejected, a short one is summed over its
    own entries, and a longer one panics on `ipk.YBar[i]`.
  * `AggregateCred` is `GenerateUserAggregateCred` called by a library
    client with any list of derived credentials, of length 0 to N + 1
    (`AggregateLens`). A list longer than the user key's N `W` entries
    panics on `W[i]` (aggregate.go:46); any other goes through
    `newAggregateCredential` and the fail-open `VerifyAggregate`, as in
    derive-cred.
  * `AggregateEquation` is the pairing check of `VerifyAggregate`, over
    B + W[0] + ... + W[n-1]: the loop's `Wi.Mul(Di)` is discarded, so
    the message digests never enter it (or the aggregate, where
    `sigma.Plus` is discarded too). They are not modelled.
  * `DeriveCred` has one disjunct per outcome of `newDeriveCredential`:
    the `VerifyPrimary` error, the panic, and success.
  * Derive runs are bounded by `MaxDerive`, and every mask a caller of
    `NewDeriveCredential` may pass is allowed.
  * `NewBlindCredential`, `NewPrimaryCredential` and `VerifyPrimary` are
    called, but their code is not in the repository. They are modelled
    from the design's relation (spec §4.4).
* **MCPSCredential** fixes P = 7, three attributes, fixed keys, random
  scalars {1, 2} and an affine stand-in for the Fiat–Shamir hash.

* **CLIFiles** holds what the commands read and write. A key file holds
  the generation of the issuer-keygen run that wrote it; a credential file
  holds a record of the key files it was computed from. `KeygenWriteSeq`
  is the five `writeFile` calls of issuer-keygen (main.go 126-136) over
  the results of `GenerateIssuerKeyPS`, `GenerateRevocationKeyPS` and
  `GenerateUserKeyPS`. `readIssuerKey`, `readUserKey` and
  `readUserPrimaryCred` succeed when their files exist; otherwise main
  calls `handleError` and exits. `VerifyPrimaryUnder` is the
  `VerifyPrimary` check at the start of `newDeriveCredential`: it holds
  only when the credential was signed with the secret key and built over
  the public key of the same generation.
* **CLISpec** is the abstract promise: each command replaces the files it
  produces in one step. It has the single variable `files`.
* **CLI** is the detailed model.
  * Variables: `disk`, `gen` (issuer-keygen runs started), `running` (the
    command whose writes are in progress) and `todo` (its pending
    `writeFile` calls).
  * A command action is the whole case of main's `switch`: the reads, the
    exit on a missing file or a failed `VerifyPrimary`, and the computed
    contents. It queues its writes; each `WriteFile` is one
    `ioutil.WriteFile`.
  * primary-cred has a single write, so it writes at once.
  * aggregate-cred does nothing, because its body is commented out.
  * `Crash` (enabled by the constant `Crashes`) kills the process and
    drops its pending writes.
  * `Abs == INSTANCE CLISpec WITH files <- AbsFiles` is the refinement
    mapping. Once a command has written its first file, the directory is
    seen as holding every file that command will write. A kill before the
    first write is a stutter, and a kill after it is what breaks the
    refinement.
  * `PrimaryCredVerifies` says that the `PrimaryCred` on disk verifies
    under the issuer public key it was issued with. `readIssuerKey` loads
    the two issuer key files with no check that they belong together, and
    issuer-keygen overwrites existing keys (the guard at main.go 118-122
    is commented out). So the property holds only as long as no keygen
    leaves a new secret key beside an old public key.
* **MCCLI** allows four issuer-keygen runs. That is enough to overwrite
  keys, credentials made under older keys, and a stale primary
  credential all at once.

## Runs

| Run | Result | What it shows |
|---|---|---|
| accumulator | pass (681 states) | any sequence of adds, deletes, precomputes and resets, from every initial list of ≤ 2 members with up to 4 members in total, keeps `acc` a product over current members only; on every reachable list, the divide-and-conquer witnesses equal the reference ones, duplicates included |
| accumulator_empty_set | violation | deleting the last member (or a non-member) recurses forever |
| accumulator_membership | violation | `MembershipSound`: a delete with an empty witness map sets `Acc` to 0, and then any non-member verifies; after two adds the patch loop, which writes raw keys, leaves a stale witness too |
| credential | pass (8659 states) | honest requests are accepted; every derived credential satisfies VerifyDerive's first equation for every mask, r and t |
| credential_challenge | violation | the issuer signs a forged request, because the challenge is not recomputed |
| credential_unlinkable | violation | `h.Mul(r)` is discarded, so Hp is the same across derivations |
| credential_verifiers_fail_open | violation | `VerifiersFailClosed`: the trace shows a derived credential failing the second equation being aggregated. The aggregate conjunct, checked once on its own, fails too: `SigmaOnepp` = g2^k while `sigma_two.Mul(k)` is discarded, so any k ≠ 1 breaks it, even with no messages |
| credential_mask_panic | violation | a mask with nothing disclosed, or nothing hidden, panics in `newDeriveCredential`. Forged requests are off here so that this is the trace; with `Forgers = TRUE` (checked once, one worker) the shortest panic is a two-step forged request whose `rw` is longer than YBar |
| cli | pass (163 states) | with no process killed, `CLI` refines `CLISpec` (`AtomicCommands`) |
| cli_kill | pass (5517 states) | with kills allowed between any two writes, every file holds what some command writes to it, and a command is running exactly while it has writes pending (`TypeOK`); this run fires `Crash` |
| e2 | pass (169 states) | on every element of E2 over F_13, `Exp` equals repeated multiplication for exponents of one and two bytes, at byte boundaries and negative; `Sqrt` returns a root of every square; `LexicographicallyLargest` agrees with `Cmp` against the negation |
| cli_crash | violation | `PrimaryCredVerifies`: after an issuer key has been written, a second issuer-keygen killed after its first write leaves its IssuerSecretKey beside the old IssuerPublicKey, and primary-cred then signs a credential that fails `VerifyPrimary` (9 states) |

Each property of a passing run has a mutant in `PROJECT.json`: a
plausible bug in the mapped code that makes TLC find the property
violated.

## Bounds

**Accumulator.** Three members and lists of up to four reach every case
in the code:

* a duplicate member;
* an odd split in the recursion;
* a patch after a precompute;
* a delete of a member, of a non-member and of the last member.

**Credential model.** P = 7 is the smallest prime for which the equations
with three attributes are not satisfied by accident. Two values for each
random scalar make r differ between two derivations. Masks cover all of
{0,1}^3, so both panic cases and the normal case are reached.
`MaxDerive = 2` lets two derivations coexist, or one derivation and one
`GenerateUserAggregateCred` call. Its lists of up to N + 1 = 4 messages
repeat a derived credential where there are not enough, which the
function accepts, and reach the index panic.

**E2.** Q = 13 with u² = 2 is the smallest field with p ≡ 1 mod 4 (as
bls24-315's p is) and enough elements (169) for every Legendre case.
The exponents include 0, ±1, 255, 256, 257, 511 and −256, −257, so the
sign branch, one-byte and two-byte exponents and every byte boundary are
reached; 168 = Q² − 1 checks the group order. With Q = 7 (p ≡ 3 mod 4)
and u² = 3, TLC finds `SqrtOfSquares` violated at v = u: c = u is then a
square and the algorithm's premise fails. This was checked once and is
not a run, because bls24-315's p is ≡ 1 mod 4. The comment at e2.go:200
asks for p ≡ 1 mod 12, which is stricter than needed.

## Fairness and liveness

**Library modules: no fairness.** Every library operation is a
synchronous, single-threaded call. The design (§5) says so and the code
confirms it. The design asks callers to serialize `Add_member` and
`Delete_member` on one accumulator, and the code has no lock, but no code
in the repository calls them concurrently, so there is no interleaving
to model. The only things that "eventually happen" there are the ends
of recursions and loops. A non-terminating recursion is modelled as a
crash state and checked by `NoPanic`. Deadlock checking is off in those
runs, because a crash, or the end of the commands, is terminal.

**CLI: no fairness, no liveness property.** Each command is a
straight-line sequence of `writeFile` calls with no loop or wait. So
"every started command returns" would follow from any fairness on
`WriteFile` alone, whatever main.go does, and it is not checked.
Starting a command and killing a process are the user's choice. Deadlock
checking is on in the CLI runs, because the user can always start another
command.

## Not modelled

* **Parts of main.go.**
  * Curve selection: only FP256BN_AMCL is implemented, and any other
    curve exits.
  * A torn write inside one `ioutil.WriteFile`.
  * The unused `readUserDeriveCred`, `readRevocationKey` and
    `checkDirectoryNotExists`.
* **`generate_witness`.** It has no caller, so its drop of every copy of
  a duplicate member cannot be reached. It is kept as an operator only.
* **The legacy idemix `newIssuerKey` / `IssuerPublicKey.Check` /
  `newCredRequest` / `CredRequest.Check` and `GenerateIssuerKey`.** No
  code in the repository reaches them: main.go's call of
  `GenerateIssuerKey` is commented out. The design also leaves this
  variant out of scope beyond its existence. Unlike the PS request check,
  both `Check`s recompute the Fiat–Shamir challenge. So the one defect
  the PS model finds there (`SignedChallengeIsHash`) is not present in
  them.
* **Parts of e2.go.** `SetString`, `String` and `SetRandom` (parsing,
  printing, randomness) and `Set` (a copy). The fp field and the E2
  kernels are outside the repository.
* **`RsaKeygen`, `Hprime`, `CreateCRI`.** They are abstracted into
  distinct primes per member.
* **Serialization and logging.**

## Plan

1. Done: AccumulatorMath, Accumulator, MCAccumulator, PSCredential,
   MCPSCredential, CLIFiles, CLISpec, CLI, MCCLI, E2, MCE2.
2. Next:
   * an abstract `AccumulatorSet` spec (a set with membership proofs),
     with the detailed module as a refinement under allocated receivers
     and a corrected patch loop;
   * the design property "after `Delete_member(u)`, u's old witness no
     longer verifies". Checked once as an action property under
     `MCAccumulator.cfg`, not as a run, and TLC finds it violated through
     the defect `accumulator_membership` already shows. A delete whose
     key is missing sets `Acc` to 0. A later `Add_member(u)` stores that 0
     as u's witness (`preAcc`). `Delete_member(u)` then sets `Acc` to 0
     again, so u's old witness 0 still verifies. A run of its own would
     show nothing new.
3. Then:
   * a torn write inside one `writeFile` in the CLI model;
   * a consumer of `DeriveCred` / `AggregateCred`, should one appear.
     A kill between derive-cred's two writes leaves a new derived
     credential beside the old aggregate. Nothing in the repository reads
     the pair (aggregate-cred is commented out), so no property about it
     is stated.
