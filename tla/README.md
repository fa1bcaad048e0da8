# golden-dkg in TLA+

TLA+ models of the golden-dkg workspace (`src/crates/`): a one-round,
publicly verifiable distributed key generation ("Golden"), the eVRF proof
backends it uses, and eHTDH1 threshold decryption on top of its keys. TLC
checks the models on small instances, TLAPS proves the central ones for every
instance. `PROJECT.json` lists components, runs, mutants, the map from
definitions to source lines, hazards and theorems.

## 1. Inventory

| component | state | operations | interacts with |
|---|---|---|---|
| **DKG** (`golden-core/dkg.rs`) | a dealing per dealer, a map of peer dealings per receiver, an output | `create_dealing`, `verify_dealing(s)`, `verify_dealing_for_receiver`, `complete` | calls the backend and Shamir/Feldman; messages travel over a transport the application owns |
| **Registry and identity keys** (`dkg.rs`, `identity_key.rs`) | the participants' map under construction | `ParticipantRegistry::new`, `DkgConfig::new`, `IdentityKeyProof::{prove,verify}` | its root is hashed into every dealing |
| **Secret sharing** (`shamir.rs`, `feldman.rs`, `participant.rs`, `group.rs`) | none (pure) | evaluate, commit, verify, interpolate, reconstruct, batch inversion | used by the DKG and by threshold decryption |
| **Wire formats** (`golden-core/wire.rs`, `golden-ehtdh1/wire.rs`) | reader cursor | encode/decode of dealings, outputs, shares, ciphertexts | recompute transcript roots; messages come from outside |
| **eVRF backends** (`golden-evrf/lib.rs`, `paper/*/dkg_backend.rs`) | none | `derive_pad`, `prove_batch`, `verify_batch`, `verify_proof_batch` | Bulletproofs, proof streams, shared parameters |
| **Proof streams** (`golden-evrf/proof_stream.rs`) | transcript, proof bytes, cursor | send/receive of bytes, points, scalars, nested frames; finish | every proof of golden-evrf |
| **Shared parameters** (`golden-evrf/paper.rs`, `bulletproofs-cycle/generators.rs`) | two process-wide caches: parameters per shape (mutex, map, `OnceLock` per entry) and generator prefixes per label (mutex, map) | `BatchedEvrfPublicParams::{shared,setup}`, `BulletproofGens::new`, `clear_generator_cache` | called by any thread that proves or verifies |
| **Paper circuits** (`golden-evrf/paper.rs`, `paper/bls_jubjub.rs`) | constraint system | gadgets, batched statement, batch verification | Bulletproofs R1CS |
| **eHTDH1** (`golden-ehtdh1/{context,dkg_bridge,encrypt,decrypt}.rs`) | key set, setup context, ciphertexts, shares | setup from two DKG outputs, seal, decrypt share, combine exact/quorum | consumes two DKG outputs |
| **Bulletproofs R1CS** (`bulletproofs-cycle`) | constraint system on each side, transcript, proof | building circuits, randomized second phase, proving, encoding, verification equations alone and in batches, inner-product argument | used by the circuits |
| **Linear proofs** (`bulletproofs-cycle/linear_proof.rs`) | none | create, verify | used by nothing else in the workspace |
| **Curve backends** (`golden-bls-jubjub`, `golden-halo2curves`, `golden-rustcrypto`) | none | group and field operations, multi-scalar multiplication | implement `GoldenGroup` |

What is hard about it: the library is called by an application that owns the
network, so every message may be lost, repeated, reordered, corrupted or taken
from another session, and dealers may equivocate; a receiver verifies at two
places (on arrival and in `complete`) that must agree; a batch verification
has to blame the right dealer; secret and public outputs are summed from
different data; proofs bind what the transcript absorbed and nothing else;
two caches are filled by racing threads; prover and verifier build one circuit
separately, in two phases, with gates that are opened and completed at
different times; a circuit over one field has to speak of numbers modulo another,
and its size is a formula kept beside it; a decoder works on lengths and orders
somebody else chose; decryption shares of other contexts, epochs and setups
reach the combiner. The complete list, with lines and the
properties that cover each entry, is under `hazards` in `PROJECT.json`.

What makes each component correct: *DKG* - parties with one transcript root
hold shares of one key, only dealings of the own session get in, honest
parties complete, and nobody is blamed wrongly. *Registry* - keys are owned
and not related, and the order of entries does not matter. *Secret sharing* -
any threshold of shares gives the secret, and no call returns a wrong one.
*Wire formats* - intact bytes read back as what they are and as nothing else, a
value has one encoding, lengths are not trusted, and equal roots mean equal
contents. *eVRF backends and circuits* - whatever assignment a prover finds, an
accepted dealing decrypts to the committed shares; an honest dealer can prove;
a proof stands for its own statements only; parameters fit the circuit.
*Proof streams* - on intact bytes both sides have one transcript, and one transcript means
one proof, but for the payloads of nested proofs, which are not observed.
*Shared parameters* - one instance per shape, built once from the generators
every other process derives too, and nobody waits for somebody else's shape.
*Bulletproofs R1CS* - both sides build the same system, a proof is accepted
exactly when the constraints hold, on its own or in a batch, and no other bytes
pass for it. *eHTDH1* - nothing opens without a threshold of
approvals for exactly this ciphertext, context and setup, a good quorum is
never blocked, and what opens is what was sealed.

## 2. Abstractions common to all modules

- **Group and field.** `Shamir` works over the integers modulo a prime `P`
  (constant) as scalars, and represents a group element by its discrete
  logarithm relative to a fixed base, so the group is the additive group
  modulo `P` with a generator `Gen`. Addition, negation, scalar multiplication
  and equality are those of a group of prime order; hardness of discrete
  logarithms is not a property of the model, and no property depends on it.
  The code's double-and-add, batch inversion and Lagrange loops are kept as
  algorithms and checked against reference definitions.
- **Hashes.** Transcript roots, registry roots and setup contexts are the
  records of the fields that are hashed: equal exactly when the fields are.
  Hashes to scalars and to group elements are constants (`PadHash`,
  `HashToGroup`, `ProofChallenge`...) that MC modules instantiate; hashes
  whose inputs a property tells apart carry the inputs along.
- **Formal points.** `InnerProduct` and the `R1cs` modules need independent
  generators. A point there is the tuple of its coordinates over `B`,
  `B_blinding`, `G_i` and `H_i`, so two points are equal only if no relation
  between generators is needed; Fiat-Shamir challenges are drawn from a small
  set, and a transcript that absorbed something else gets unrelated ones.
- **Bytes.** In `Wire` and `WireEhtdh1` a byte has four bits and a word four
  bytes, the proportions of 8-bit bytes and 64-bit words; hashes, indexes,
  scalars and elements take one byte each, of which the values from `P` on encode
  nothing. A transcript root is the framed byte string that is hashed, so two
  roots are equal exactly when the framing maps two contents to one string.
- **Curves.** The circuits run on curves small enough to enumerate: a point is its
  discrete logarithm, what a circuit sees of it are its coordinates, from tables
  that `Curves` computes with the curve equations. A gadget is the set of results
  its wires can take under its constraints, whoever assigns them, which makes
  soundness of a circuit a statement TLC can decide.
- **Proofs.** In `DkgMessages` a backend's proof is sound: verification succeeds exactly for the
  statements whose relation holds, bound to the transcript they were proved
  for. `BindsPad` tells the two kinds of backend apart: the paper circuit proves
  that a pad is the eVRF output, `ShareOpeningBackend` proves only that the
  share commitment and the encrypted share fit together. That the paper backends
  deserve this is what `EvrfSession` checks, where a nested R1CS proof says
  whether its circuit was satisfied, and that in turn is what `R1csSession` is
  about. A Schnorr response is the secret it was computed from and the transcript
  its challenge came from.
- **Randomness** is a choice from a small set; **zeroization** and `Debug`
  output are left out.

## 3. Modules

| module | models | state and actions |
|---|---|---|
| `Shamir` | `group.rs`, `participant.rs`, `shamir.rs`, `feldman.rs` | pure operators |
| `SecretSharing` | their use: deal, collect any list of shares, reconstruct | `Deal`, `Collect`, `Reconstruct` |
| `ShamirProofs`, `SecretSharingProofs` | induction over data, theorems about `Shamir`, `SecretSharing` and `KeySets` | - |
| `DkgMessages` | the functions of `dkg.rs` and the backends' relation | pure operators; `Check*` return the error the code returns, in the code's order |
| `Dkg` | parties, transport, application | `CreateDealing`, `FaultyDealing`, `Receive` (verify, then keep), `Store` (keep unverified), `Complete` |
| `IdealDkg` | the promise of a DKG: one polynomial per transcript root | `Finish` |
| `DkgProofs` | theorems about `DkgMessages`, `Dkg` and the refinement of `IdealDkg` | - |
| `IdentityKeys` | `IdentityKeyProof`, the checks of one registry entry, `ParticipantRegistry::new` as a function | pure operators |
| `Registry` | `ParticipantRegistry::new` entry by entry, `DkgConfig::new` | `AddEntry`, `Configure` |
| `RegistryProofs` | theorems about `Registry` | - |
| `Wire` | golden-core's `wire.rs` (writers, `WireReader`, decoders, size hints, Miden lengths) and `transcript.rs` with the roots of `dkg.rs` | pure operators on a reader record: bytes, cursor, first error, values, bytes reserved |
| `WireEhtdh1` | golden-ehtdh1's `wire.rs`, the envelope of every type (magic, tag, context, end), the serde and Miden forms | pure operators |
| `WireSession` | a registry that is built, then one value of any type on its way to a reader | `Register` (the steps of `Registry`), `Send`, `Change`, `Receive` |
| `Ehtdh1` | the functions of golden-ehtdh1 | pure operators |
| `ThresholdDecryption` | validators, clients, a combiner and the transport | `SetUp`, `Seal`, `DecryptShare`, `Arrive`, `CallCombineQuorum`, `CallCombineExact` |
| `KeySets` | `PublicKeySet::new` on the public shares of a sharing, some of them wrong | `CallNew`, and the actions of `SecretSharing` |
| `DecryptionProofs` | theorems about `ThresholdDecryption` | - |
| `SharedParams` | `BatchedEvrfPublicParams::shared` and `setup`, `BulletproofGens::new`, serialization of parameters | `CallShared`, `CallSetup`, `CloneEntry`, `Begin`, `ReadCache`, `ExtendCache`, `Build`, `Panic`, `Get`, `ClearGeneratorCache`: one per critical section or wait |
| `SharedParamsProofs` | theorems about `SharedParams` | - |
| `InnerProduct` | `inner_product_proof.rs`, `util.rs`, `PedersenGens` | pure operators |
| `R1cs` | circuit building in `prover.rs` and `verifier.rs`, `linear_combination.rs` | pure operators: one per call of the constraint system's interface, on a record that is the prover or the verifier |
| `R1csProof` | `prove`, `proof.rs`, `verification_equation`, `verify`, `verify_batch`, the transcript | pure operators |
| `R1csSession` | a prover and a verifier of one circuit and the bytes between them | `ProverStep`, `CallProve`, `Receive`, `VerifierStep`, `CallVerificationEquation`, `CallVerify`, `CallVerifyBatch` |
| `R1csProofs` | theorems about `R1csSession` | - |
| `Circuits` | bits, range checks and window selection, common to both paper backends | pure operators: a gadget is a set of results, its number of multipliers stands beside it |
| `SecpSecq`, `BlsJubjub` | the chord-rule circuits of `paper.rs` and the Edwards circuits of `bls_jubjub.rs`, their honest witnesses, the one-receiver circuit | pure operators |
| `Curves` | the two curves (outside the repository) | tables of coordinates |
| `SigmaProofs` | Chaum-Pedersen, constant-term and discrete-logarithm proofs, the Pedersen link | pure operators |
| `BatchedEvrf` | batched statements, their validation, `evrf_batched_prove`, `evrf_batched_verify_many`, parameters, the adapters `dkg_backend.rs` | pure operators |
| `EvrfSession` | dealers, honest or not, verifiers of one or several proofs, the one-receiver proof, `setup` | `Deal`, `DealDishonestly`, `Verify`, `ProveOneReceiver`, `ProveOneReceiverDishonestly`, `VerifyOneReceiver`, `SetUp` |
| `ProofStream` | both streams and the bytes between them | `ProverObserves`, `SendPoint`, `SendScalar`, `SendNested`, `Deliver`, `VerifierNew`, `VerifierObserves`, `ReceivePoint`, `ReceiveScalar`, `ReceiveNested`, `Finish` |
| `ProofStreamProofs` | theorems about `ProofStream` | - |

`Dkg` extends `DkgMessages`, which extends `Shamir`; `ThresholdDecryption`
extends `Ehtdh1`, which extends `Shamir`, and `KeySets` composes `Ehtdh1` with
`SecretSharing`. `R1csSession`, `R1csProof`, `R1cs` and `InnerProduct` extend
each other in this order, down to the field of `Shamir`. `WireSession` composes
`Registry` and `WireEhtdh1`, which brings `Wire`, `IdentityKeys` and `Ehtdh1`
together: a decoded registry or key set passes through the constructor that
module models. `EvrfSession` extends `BatchedEvrf`, which instantiates both circuit
modules and chooses by the suite's kind; code that `bls_jubjub.rs` repeats from
`paper.rs` is one operator. `ThresholdDecryption` takes
the DKG runs' outputs as `IdealDkg` promises them (evaluations of one
polynomial), which the refinement in `Dkg` justifies. Modules named `MC...`
give the constants small values.

Operators named `X_Something` placed before an operator `X` are mutants: the
plausible bugs that show that a property can fail. No specification uses them.

**Dealing and completing.** `MakeDealing` is `create_dealing_with_secret`:
polynomial, commitment, an encrypted share per other participant, statements,
proof and root. `CheckComplete` is the control of `complete`: identity, own
dealing, own private share, map keys, duplicates, missing dealings, then
`verify_dealings`, then per dealer the decryption and the check against the
commitment, each with the error variant of the code; `CompleteOutput` is what
it sums. `complete` looks up registered dealers for verification but sums over
*all* entries of its map; that a stranger's dealing cannot get in rests on
the lookup of its key when its share is decrypted, and is part of what
`OnlyOwnSessionDealings` says.

**Transport.** `Tamper` has one corruption per field of a dealing, and
`Corrupted` adds the variant whose root is recomputed, which is what the wire
decoder does. `Checked` chooses between the two ways applications use the
library: verify on arrival (`Receive`) or keep everything and let `complete`
decide (`Store`).

**Two caches.** `shared` looks up a shape's `OnceLock` under one mutex and fills
it outside; below it `derive` reads a label's prefix under another mutex,
extends it outside and stores it if the cached prefix still has the length it
had, starting over otherwise. No critical section waits for anything, so each
is one action; what a thread does in between is local and belongs to the action
that publishes it. `setup` takes the same path without the first cache.

**Circuits.** A circuit is a list of calls on the constraint system, which both
sides execute; the verifier's public constants may differ from the prover's,
which is how a statement the prover did not prove is put to the verifier. The
transcript is represented by what was absorbed before each group of challenges:
the verifier gets the prover's challenges up to the first difference.

**Circuits of the backends.** `ChordExponentiate`, `EdwardsExponentiate`, `PadBitVectors`
and `ReducePadR1cs` keep every constraint and quantify over every free wire; this is what a
dishonest prover is measured by. For an honest one `HiddenReceiverHolds` puts the wires of
its own witness into the same constraints, the quotient of `r` by `q` included (`ReduceQ`,
`ReducePadWitness`). The
chord addition does not constrain its denominator in the code, which relies on
nobody knowing the logarithm of the correction generator hashed from the base; the
model excludes additions of points with equal x-coordinates for the prover, and
counts them as honest failures for an honest one. A shared point whose
x-coordinate is a multiple of `q` has the exponent zero on the curve and another one
in the circuit; nobody can find one, and `AcceptedSharesDecrypt` excepts it. The
weights of the batched Feldman check are independent values. `evrf_batched_verify`
is the case of one instance of `evrf_batched_verify_many`.

**Proof streams.** Each side keeps the log of the operations applied to its transcript,
nested proofs with their whole payload; the transcript itself (`Transcript`) has of a nested
proof only what its protocol appends, `ChildAbsorbs`, because `send_nested` and
`receive_nested` observe neither the length nor the payload of a frame
(`nested_raw_length_and_payload_are_not_observed`). So `AcceptedBytesAreBound` excepts the
payloads of nested frames.

**Bytes on the way.** `Change` sets a byte to one of a few values, cuts or extends;
`Receive` expects their own type and backend or, of intact bytes, any other. Everything a
decoder calls is part of it: lengths before `Vec::with_capacity`, increasing indexes,
registry and key set constructors, the recomputed root of a dealing, the end of
the bytes.

## 4. Runs

| run | question | bounds and why they suffice |
|---|---|---|
| `secret_sharing` | Does any list of shares give the secret or the right error? Which public shares does `PublicKeySet::new` accept? | P = 5, indexes 1, 2, 3, 7: 7 is congruent to 2, the case in which indexes are distinct and points are not; lists longer and shorter than the threshold, with repetitions. Key sets: every polynomial of up to 3 coefficients as the key, 9 zero sharings, all sets of at most 2 wrong public shares, thresholds 0, the right one and one above the number of participants |
| `dkg_agreement` | Do parties with one root hold one key, and does the protocol implement the ideal DKG? | 3 parties, threshold 2, the third faulty and sending two dealings (equivocation), two completers; dealings wrong in a share, in a pad and in the degree |
| `dkg_transport` | Does a corrupted or replayed dealing, or a wrong argument to `complete`, get into an output, and who is blamed? | every corruption of every field; wrong map keys, foreign own dealings, wrong private shares and identity secrets; one wrong entry or argument at a time (`MaxWrong`), so that each refusal has one cause; three sessions with 3, 2 and 1 participants (the last one has no proofs) |
| `dkg_liveness` | Does everybody complete once all sent dealings verify publicly? Are public checks enough when the backend proves pads? | 2 parties that may deal twice, the second one faulty, three kinds of corruption; a backend that binds the pad |
| `decryption` | Do shares for other questions count, do bad shares block a quorum, is what opens what was sealed, do equal setups share one key? | 3 validators, threshold 2. Three deployments: two contexts with lists of up to 3 shares, one of them corrupted in any field; two epochs; all corruptions of a ciphertext with two plaintexts, two associated data and eight DKG runs most of which do not fit together |
| `decryption_insufficient` | Does `InsufficientShares` mean too few shares? | finding, see section 7 |
| `shared_params` | One instance, built once from the right generators, nobody waits needlessly? | 2 threads with 2 calls each of `shared` or `setup`, a shape of 2 generators, a slow one of 4 and an invalid one, one panic, one emptied cache: enough for a thread to find the prefix it extends gone, shorter, longer or, after an emptying and a refill, as it was |
| `params_round_trip` | Do parameters decode from their own serialization? | finding, see section 7 |
| `r1cs` | Do both sides build one system, do proofs, encodings, changed bytes and batches decide what they should? | 12 circuits of 0 to 3 gates that cover open gates, gates completed later, padding, second phases without and with gates, failing callbacks, assignments the prover does not have; satisfied and violated; 4 pairs of generator capacities; every field changed, made the identity or undecodable; batches with good and bad equations of other sizes. `SmallProof` = 4 and `ORIGINAL_BASE_ROUNDS` = 1 instead of 4096 and 8 put circuits on both sides of the crossover. The field has 97 elements and challenges are fixed pairs, so that no accident of a small field satisfies an equation |
| `registry` | Are accepted registries good and good ones accepted, in any order? Do intact bytes read back, are accepted bytes canonical, are lengths harmless, do roots bind? | every list of up to 3 entries over keys of the whole group with right, wrong and degenerate proofs; then every configured registry and values of all fifteen types, some beyond a decoder's limit, two backends one of whose identifiers begins with the other, three channels, each byte changed to five values, cut or extended, and intact bytes read as any type. A word has 16 bits, enough for a count whose product with the item size wraps around |
| `proof_stream` | Do both sides keep one transcript, and does it bind everything but nested payloads? | scripts with every operation, bytes changed, cut off or added, nested payloads that are refused, prover calls that fail and are tried again. The child leaves out the first and the last byte of a payload, as the R1CS proof does with its version and its last scalars, so payloads of other bytes, of other lengths and in shifted frames are accepted with one transcript |
| `evrf_proofs` | Can a dealer, with any satisfying assignment, make a dealing that is accepted and does not decrypt? Can an honest one prove? Does a proof fit other statements? Is the multiplier formula right? | y^2 = x^3 + x + 18 over 53 elements, of order 43, and an Edwards curve over 61 elements, of order 8 * 7: q < p, and p is 8q and a little, as in the code. The dealings are chosen so that pads below and above q, wrap-around, quotient 8, pads that do not exist and exceptional additions occur. Statements moved to another session, cut, and changed in a share, a pad or both; one and two proofs at once. `FeldmanBatchMin` = 2 instead of 99 puts statements on both sides of the batched share check. The multiplier count is compared gadget by gadget for the small suites and for the code's own constants |

Deadlock checking is off because these systems may stop: a DKG run without the
missing dealing, a combiner that has answered, threads that made their calls.

**Fairness.** Only `dkg_liveness` and `shared_params` use it. In `dkg_liveness` each party deals, each
party's dealings that can be delivered intact are eventually delivered (the
application's retransmission) and a party keeps calling `complete`: weak
fairness on `CreateDealing`, `Receive` and `Complete`. The library itself never
waits. No fairness is assumed of `Store` or of a faulty dealer. In
`shared_params` every running thread keeps running (weak fairness on each of its
steps), except that deriving a slow shape's generators may take for ever; the
mutexes are not assumed to be fair, the calls of a thread are finite.

## 5. Theorems

Every theorem holds for all values of the constants that satisfy the named
`ASSUME`s of its module: any prime order, any set of parties, any configurations,
thresholds and bounds, either kind of backend, any number of threads.

### Secret sharing

The algorithms of `Shamir` are folds and recursive functions. The provers have no
induction schema for operators, but an induction whose predicate is a *set* is an
ordinary first-order statement: `ShamirProofs` first proves it for intervals and for the
subsets of a finite set (`Induction`, `SubsetInduction`), and that recursive
equations over subsets have a solution (`SubsetRecursion`). Every fold is then shown
equal to a table indexed by sets, and a property of it is the induction for the set
of entries that have the property.

`ShamirProofs`, the field, sums and commitments:

- `SmallMultiple`: double-and-add over the bits of an index is the multiple.
- `FeldmanCommitment`: the public key share computed from a commitment by double-and-add
  and Horner's rule is the generator times the polynomial's value.
- `PublicKeyShareOfSum`: public key shares of a sum of commitments are sums.
- `ScalarInverse`, `DiscreteLogarithm`: scalars other than zero have an inverse, and
  every group element one logarithm (both from the assumption that `P` is prime).

And reconstruction, in the same module:

- `BatchInversion`: `batch_invert` returns every inverse, and nothing exactly when a
  value is zero.
- `ReconstructsSecret`: given any shares of a polynomial, `reconstruct_secret` returns
  its constant term or an error; with a threshold or more of them at different points
  it returns the constant term.

  `WeightsAt(W, X, D, a)` characterises the coefficients for the value at `a`, of every
  set of points, by how they change when a point is left out. They add up to 1
  (`WeightsAddUp`). A row of Horner's rule is `psi * x + c`; for any point `j` of the
  set, its weighted sum is that of `psi` without `j` times `a - x_j`, plus that of `psi`
  times `x_j`, plus `c` (`WeightStep`). By induction over the rows the two sums of `psi`
  are both the value of the rows above at `a`, as long as there are as many points as
  coefficients left, so `psi * a + c` remains (`InterpolationAt`; `Interpolation` for
  zero, where it is the constant term). `QuotientsAreWeights`
  and `CoefficientsAreWeights` show that the products and the batched inversion of
  `lagrange_coefficients_at_zero` compute such weights, and that equal points are
  refused.

`SecretSharingProofs`, from `ReconstructsSecret` and the invariant `SharingInv` (what is
dealt and collected are shares of the dealer's polynomial, and a result is that of
`reconstruct_secret` on what was collected):

- `OkIsTheSecret`: `Spec => []NeverWrongSecret`.
- `ThresholdReconstructs`: `Spec => []ThresholdSuffices`.
- `ExactlySharingsAccepted`: `KeySetsSpec => []SharingsExactlyAccepted`, about
  `PublicKeySet::new`, from the invariant `KeySetsInv` (it was called with a natural
  threshold and group elements, and the result kept is the one it returned). The
  products of `lagrange_at` are weights for the value at any point (`BasisIsWeights`),
  and interpolating public shares interpolates their logarithms (`InterpolatesLogs`).
  So shares of a polynomial pass every comparison (`InterpolatedShare`). Conversely the
  logarithms of the basis shares lie on a polynomial with threshold coefficients
  (`InterpolatingPolynomial`, by induction over the points: `(y - x_j) Q(y) + e_j`),
  the first `n` of the validators are `n` (`FirstMembers`), and the comparisons with the
  other shares say that these lie on it too (`InterpolationDecides`).

### DKG

`DkgProofs`, about the functions of `dkg.rs` (no state):

- `BatchAgreesWithSingle`: `verify_dealings` accepts exactly what `verify_dealing`
  accepts one by one, and blames for its proof only a dealer it refuses.
- `HonestDealingAccepted`: a dealing of `create_dealing` verifies, and each receiver
  decrypts its evaluation.
- `VerifiedIsDecryptable`: under a backend that proves pads, public verification is
  enough for every receiver.
- `CompletedShare`: what `complete` sums from decrypted shares is the logarithm of what
  it computes from commitments.

And about `Dkg`, whatever dealers, transport and application do:

- `TypeCorrect`, `OwnSessionDealings`, `RootAgreement`, `SharesMatch`,
  `DealingsIntact`, `VerifiedDealingsDecrypt`: `Spec => []I` for `I` = `TypeOK`,
  `OnlyOwnSessionDealings`, `Agreement`, `ShareMatchesPublicShare`,
  `HonestDealingsIntact`, `PubliclyVerifiable`.
- `AcceptedIsEnough`, `BlameDeserved`: `AcceptedDealingsComplete` and `BlameIsDeserved`,
  assuming `OneConfigPerSession`: two configurations with one session and one registry
  are equal. It is needed: `beta` is not in a dealing's root, so an honest dealing made
  for another `beta` passes the checks of session and registry and fails at the proof
  (the test at `dkg.rs:1763` shows this), with an honest dealer to blame; and a party's own
  dealing for another threshold makes `complete` fail although all others were
  accepted. An application that uses a session for one configuration satisfies it, and so
  do the instances TLC checks.

None of these is inductive: outputs say nothing about where their parts came
from. The inductive invariant is `IInv == TypeOK /\ Published /\ Delivered /\ Finished`.
`Published`: what is sent is typed, its proof is about its own root, and what an honest
party sent was made by `MakeDealing`. `Delivered`: what is kept is typed, has a proof
somebody sent (the transport can copy proofs and not make them) and, where the
application checks, was accepted. `Finished`: every output is *sound*
(`SoundOutput`: the root names the registered dealers, every entry has the party's
session, registry and degree, and the public values are computed from the commitments
in the root), its share belongs to its public key share, and every entry of
its root was published by its dealer. `StepCases` reduces every step to dealing, keeping or
completing; one lemma per part shows that each is kept. TLC checked `IInv` on the
instances of `dkg_agreement` and `dkg_liveness` (with the polynomial of an honest
dealing enumerated) and `SharingInv` on that of `secret_sharing`.

The refinement of `IdealDkg`, in the same module:

- `Refinement`: `Spec => ImplementsIdeal`. Commitments in a root are typed, hence have
  logarithms, and these are a polynomial (`PolynomialExists`) which determines
  every output with that root (`PolynomialDetermines`). The mapping leaves configurations
  with their threshold and receivers, and outputs; `complete` is `Finish`, everything else
  stutters.
- `QuorumReconstructs`: `[]QuorumHoldsKey`, assuming `DistinctPoints`: different
  participants are different modulo the group order. Indexes have 32 bits and the
  orders of the curves more than 250, so the code never meets the other case; the run
  `secret_sharing` does. It joins the two halves: the shares of a quorum are shares of the
  polynomial behind the root (`QuorumShares`), so `ReconstructsSecret` applies.

### Registry

`RegistryProofs`, for every prime order, set of indexes, threshold and list of
announcements of any length:

- `AcceptanceIsSymmetric`: `Spec => []OrderDoesNotMatter`.
- `NoRelatedPads`: `Spec => []PadsAreUnrelated`.

The loop compares an entry with the ones before it only, so neither is inductive. The
inductive invariant `RegistryInv` says that the map holds exactly the entries so far,
which are good and fit together in pairs (`Taken`), or that the error returned is about
two entries that do not fit or one that is not good (`Unfit`), or that the list was taken
whole and the threshold decided. `RefusalDecides` is one iteration: what the map finds under
a key or under its negation is what an earlier entry announced (`TakenLookups`), and these
are the only two keys with one x-coordinate (`SameXCoordinate`). `AllTaken` counts: different
indexes make the map as large as the list, so `DkgConfig::new` compares the threshold with
the number of entries. `NoRelatedPads` also needs that a non-zero Diffie-Hellman
secret keeps x-coordinates apart (`XCoordinateScaled`), where the order must be prime. TLC
checked `RegistryInv` on the instance of `registry`.

### Shared parameters

`SharedParamsProofs` proves about `SharedParams`, for any sets of threads and
shapes, any capacities and any bounds on calls, panics and emptied caches:

- `TypeCorrect`: `Spec => []TypeOK`.
- `OneInstance`: `Spec => []OneInstancePerShape`.
- `BuiltOnce`: `Spec => []NoDuplicateWork`.
- `RightGenerators`: `Spec => []GeneratorsAreTheChain`.
- `MonotoneCache`: `Spec => CacheNeverShrinks`.

The inductive invariant has three parts besides the types. `CallInv` says what
a thread holds at each place of a call. `EntryInv` ties the two levels of the
first cache together: no two shapes share an entry, a thread's clone is the
entry the map still has for its shape, a `OnceLock` is claimed exactly by the
thread that builds, and what was returned is in a filled one; without the last
two a thread could be building what another one has already returned. `ChainInv`
says that every list anywhere, in the cache, in a thread's hands or in built
parameters, is a beginning of its label's chain: two lists of one length are
then equal, which is why comparing lengths before storing is enough
(`ExtendedIsChain` is the lemma about the extension). TLC checked the invariant
on the instance of `shared_params` before it was proved.

### Threshold decryption

`DecryptionProofs`, for every prime order, set of validators, threshold, set of key
generation runs, number of ciphertexts and shares, and every list of shares:

- `ThresholdApprovedAlways`: `[]ThresholdApproved`, assuming `DistinctShares`: two members
  of a group with threshold above 1 do not hold the same pair of shares. When they do, which
  happens with negligible probability for random polynomials, the proof one of them makes
  verifies for the other, and a threshold of positions is not a threshold of validators.
- `OpensWhatWasSealedAlways`: `[]OpensWhatWasSealed`, and `QuorumNotBlockedAlways`:
  `[]QuorumNotBlocked`, assuming `HashesAreTyped`: hash-to-group and hash-to-scalar
  return group elements and scalars, which their types say.
- `SetupsAgreeAlways`: `[]SetupsAgree`, from the assumptions of the module alone.

The inductive invariant `DecryptionInv` (`DecryptionInvariant`) says where everything comes
from: a validator's material from two runs that fit, whose roots its setup context holds
(`Equipped`); a ciphertext from `seal_bytes`; an issued share, with its responses, from a
validator that is set up and a ciphertext that verified (`IssuedFrom`); every
collected share has the challenge of an issued one, since a transport without the secret
cannot make another (`InboxFrom`); the answer is that of the combine
functions for the shares collected (`Answered`). None of the properties mentions challenges
or responses, but a proof binds a share to its ciphertext, context and public shares only
through them: `ChallengeBinds` and `ContextBinds` read the
question off a challenge that verifies, and `HonestShareVerifies` is completeness of the proof.
`SameSetup` shows that equal setup contexts mean equal polynomials, from the promise of
`IdealDkg`. What the two combine functions select, a list of `threshold` valid shares of
different participants, is one lemma for both (`QuorumPicks`, `ExactPicks`), and
the sum over it is the joint point of the sealer (`CombinedPoint`, from the Lagrange
coefficients of `ShamirProofs` with the zero sharing cancelling). TLC checked
`DecryptionInv` and `DistinctShares` on the instance of `decryption`.

`DecryptionAssumption` lists what the proofs need of the constants: finitely many
validators, with indexes that differ modulo the group order; nonces that are scalars; runs
with one polynomial of threshold length per root, as `IdealDkg` promises; and the kinds
of corruption the transport may choose from.

### Proof streams

`ProofStreamProofs`, for every script of operations, proof id, nested payloads and
bounds, whatever child protocols append and whatever bytes arrive:

- `IntactProofsStayInSync`: `Spec => []IntactProofsInSync`.
- `AcceptedBytesAreFramedAlike`: `Spec => []AcceptedBytesAreBound`.

Both compare two transcripts that were made apart, so neither is inductive. What ties
them together is the byte layout: `Encodes` says that bytes are the frames of a
log's messages in a row, where the frame of an id or of a nested payload begins
with its length. A log has one encoding (`EncodingUnique`, `ProofOfLog`). The inductive
invariant `StreamInv` (`StreamInvariant`) says that the proof encodes the prover's
log, which follows the script; that the bytes a running verifier has read encode its
own, one message per step; and that on the prover's own bytes the verifier's log is the
beginning of the prover's, or was refused with a bad nested payload in it.

A verifier that has accepted has read everything, so what arrived is the proof of its log
(`ProofOfLog`). Equal transcripts mean equal labels and, but for nested payloads, equal
messages (`ObservedMessages`), so its log is the prover's with other payloads at
most. Nothing is assumed of what a child protocol appends: that a nested R1CS proof cannot be
exchanged for another is a matter of its own equation and is checked in `r1cs`
(`ChangedProofsRejected`), where the version byte and the scalars `a` and `b` are left
out of the transcript too. For synchronisation, `NextFrame` shows
that a verifier that agrees so far stands where the prover's next frame begins, and `FindsNext`
that `get_bytes` returns that frame, with `HoldsConcat` for a length and its payload
(`ReceiveNestedStep`). A call of the prover that fails leaves the log and the bytes
as they were (`FailStep`), which is why trying again is harmless. At the end the
cursor is at the end of the bytes (`FinishStep`), so intact proofs are never refused for
trailing bytes. The assumption of the module is that scripts consist of its operations
and that the id and the payloads are bytes. The layout quantifies over tables of
bytes, so TLC checks the two properties and not `StreamInv`.

### Constraint systems

`R1csProofs`, for every circuit with callbacks, every prime order, all inputs, public
values, challenges and generators:

- `SidesAlwaysAgree`: `Spec => []SidesAgree`.
- `EncodingAlwaysRoundTrips`: `Spec => []EncodingRoundTrips`.

`Simulates` relates the two sides: as long as the prover has met no error, the verifier has
its number of gates, its pending gate, its deferred callbacks and its constraints,
of which only the constants may differ (`SameTerm`: each side fills in its own public
input). `RunSame` shows that every instruction keeps this, one lemma per call:
`AllocateSame` is where a gate is opened and completed at different times, `MultiplySame`
where two constraints come with a gate, and an error of the prover, a missing assignment
or a failing gadget, ends its side (`ErrorSame`). `CallbackSame` and `RandomizedSame` carry it through the second
phase, by induction over the calls of a callback and over the callbacks; both
sides drop the pending gate before.

The two sides of a session do not run at the same time: the verifier starts only when a
proof has arrived, and then follows what the prover did long before. So the invariant
`SidesInv` has the prover's past in it: there is a history of prover states, one per
instruction, that ends in the present one, and the verifier simulates the state of its own
step (`VerifierFollows`). A proof is only made when the circuit and the second phase met no error
(`ProofOfWholeCircuit`), for which the error kinds of the second phase matter: an error
called `Ok` would pass for a proof (`SidesCallProve`). The module's assumption says that circuits
consist of the calls of the interface and that generators are those of a cache. The
history is an unbounded function, so TLC checks `SidesAgree` and not `SidesInv`.

That the encoding loses nothing rests on the shape of a proof (`IsProof`): five commitments
`T` and as many `L` as `R`. `ProofForIsProof` shows it of every proof that is made:
each round over the original bases (`RoundAfter`) and over the collapsed ones
(`TailRoundAfter`) appends one `L` and one `R`, and the invariant is carried through both
loops by induction (`CreateArgument`, `TailArgument`); that there are finitely many rounds
is `Log2Nat`. `FieldsOfEntries` then says at which place every field of an encoded
proof is, behind three commitments or six, `NotMalformed` that the decoder finds the kinds
it expects there, and `DecodedAt` that it reads the same proof. A proof without commitments
of the second phase is written as one of a single phase, and the decoder fills in the
identity, which is what they were (`CommitmentsWritten`). The invariant of the theorem is
`MadeProof`, beside `SidesInv`: what `made` holds is a proof, with no other field.

### Only model-checked

Liveness (`EveryoneCompletes`, `FastCallsReturn`), which is out of the prover's
reach, the properties of `WireSession` and `EvrfSession`, and the other properties of
`R1csSession`, which say what the sums over points amount to. The wire formats, the circuits and the inner product argument compute with
bit strings, recursive operators and enumerated curves, where a proof would follow
the code value by value.

## 6. What is not modelled

- The R1CS encoding of the circuits gate by gate: `R1csSession` checks the proof
  system on circuits of its own, `EvrfSession` the constraints as equations.
- Linear proofs, which nothing in the workspace uses.
- SHA-256 and the Merlin sponge: a hash is what it hashes.
- The adapters of curve libraries, multi-scalar multiplication (an optimisation of
  the sum the models compute), benchmarks, examples, scripts.
- Secrecy. The models state integrity and availability.

## 7. Findings

`combine_exact` answers `InsufficientShares { required, provided }` whenever the
number of shares differs from the threshold, also when there are more
(`golden-ehtdh1/src/decrypt.rs:172`), and counts shares nobody has verified. The
error's documentation says "Not enough valid shares were provided."
(`context.rs:190`) and "Valid shares provided." (`context.rs:195`). Run
`decryption_insufficient` shows it: three good shares for a threshold of two.

`derive` returns a cached prefix as it is when it is long enough
(`bulletproofs-cycle/src/generators.rs:248`), so parameters built in a process
that has derived more generators have lists longer than their `gens_capacity`.
They serialize whole, and deserialization requires
`party.len() == gens_capacity` (`generators.rs:170`). The test
`public_parameters_roundtrip_without_regeneration`
(`golden-evrf/tests/public_params_serde.rs:13`) states that parameters decode
from their own serialization; it and the round trip test in `generators.rs`
hold only in a process that derived nothing larger before. Run
`params_round_trip` shows it: a shape of 2 generators set up while another thread
sets up one of 4. Proving and verifying are not affected: both use prefixes
(`BatchDecides` includes lists longer than the capacity).

## 8. Plan

Done: secret sharing, registry, DKG with its ideal specification, eHTDH1 and its key
sets, shared parameters and generators, proof streams, with theorems for all their safety
properties; Bulletproofs R1CS, with theorems about the agreement of both sides and the proof's
encoding; both wire formats and the transcript roots, the circuits and proofs of both paper
backends.

1. `Msm`: buckets and windows of `pippenger.rs` and `msm_blst.rs` against the sum.
2. Linear proofs, on the formal points of `InnerProduct`.
3. Theorems about sums of formal points: `BatchDecides` and `ArgumentDecides`.
