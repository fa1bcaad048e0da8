------------------------------- MODULE SecpSecq -----------------------------
(***************************************************************************)
(* The secp_secq paper backend: the chord-rule circuits of golden-evrf's   *)
(* paper.rs, their honest witnesses, and the standalone one-receiver       *)
(* proof.                                                                  *)
(***************************************************************************)
EXTENDS Circuits, SigmaProofs

(* The constants of the code that the size of the circuit depends on. *)
CodeSuite ==
    [kind |-> "chord", k_bits |-> 256, interval |-> 16,
     rest_le |-> <<238, 186, 201, 47, 114, 161, 45, 64, 196, 95, 183, 80, 25, 35, 81, 69, 1>>,
     shared_multipliers |-> 1035, receiver_multipliers |-> 3052]

(* bit_decompose_bounded scans every bit. *)
BoundedBits(c, bound) ==
    {bits \in BitVectors(c, c.k_bits + 1) : ScanBelow(c, bits, bound, c.k_bits + 1, 1)}

BitDecomposeBounded(c, value, bound) ==
    {bits \in BoundedBits(c, bound) : Recomposed(c, bits, c.k_bits + 1) = value}

BitDecompose(c, value) == BitDecomposeBounded(c, value, c.p_le)

BitDecomposeQ(c, value) == BitDecomposeBounded(c, value, c.q_le)

BitDecomposeGates(c) == 2 * (c.k_bits + 1)

-----------------------------------------------------------------------------
(***************************************************************************)
(* Exponentiation.  The chord law cannot add points of equal x or reach    *)
(* the identity, so multiples of a hashed generator that sum to zero are   *)
(* mixed in, one per bit.                                                  *)
(***************************************************************************)
ChordCj_LastTooLarge(c, j) == CASE j = 0 -> 1
                                [] j > 0 /\ j < c.k_bits -> 2
                                [] OTHER -> 2 - 2 * c.k_bits

ChordCj(c, j) == CASE j = 0 -> 1
                   [] j > 0 /\ j < c.k_bits -> 2
                   [] OTHER -> 1 - 2 * c.k_bits

(* The point that bit j contributes. *)
BitPoint(c, base, j, bit) ==
    (bit * Doubled(c, base, j) + ChordCj(c, j) * c.correction[base]) % c.q

(* The four points window w selects from. *)
WindowPoint(c, base, w, low, high) ==
    (BitPoint(c, base, 2 * w - 1, low) + BitPoint(c, base, 2 * w, high)) % c.q

(* precompute_chord fails when a candidate is the identity. *)
PrecomputeChord(c, base) ==
    /\ \A bit \in {0, 1} : ~IsIdentity(BitPoint(c, base, 0, bit))
    /\ \A w \in 1..Windows(c), low, high \in {0, 1} :
        ~IsIdentity(WindowPoint(c, base, w, low, high))

Delta0(c, base, bit) ==
    LET off == Affine(c, BitPoint(c, base, 0, 0))
        on == Affine(c, BitPoint(c, base, 0, 1))
    IN  WindowDelta(c, off, on, off, on, bit, 0, 0)

(* L + D by the chord: the slope is allocated.  The code does not          *)
(* constrain the denominator: for equal x-coordinates it relies on nobody  *)
(* knowing the discrete logarithm of the correction generator.  That       *)
(* assumption is the conjunct L[1] # D[1].                                 *)
ChordAdd(c, L, D) ==
    LET x(s) == (s * s - L[1] - D[1]) % c.p
    IN  {<<x(s), (s * (L[1] - x(s)) - L[2]) % c.p>> :
            s \in {s \in Field(c) : /\ L[1] # D[1]
                                    /\ (s * (L[1] - D[1]) - (L[2] - D[2])) % c.p = 0}}

(* chord_exponentiate_r1cs_with_result: where the accumulator can be after *)
(* all windows.                                                            *)
ChordExponentiate(c, bits, base) ==
    LET products == WindowProducts(c, bits)
        point(w, low, high) == Affine(c, WindowPoint(c, base, w, low, high))
        delta(w) == WindowDelta(c, point(w, 0, 0), point(w, 1, 0), point(w, 0, 1), point(w, 1, 1),
                                bits[2 * w - 1], bits[2 * w], products[w])
    IN  FoldLeft(LAMBDA reached, w : UNION {ChordAdd(c, L, delta(w)) : L \in reached},
                 {Delta0(c, base, bits[0])}, [w \in 1..Windows(c) |-> w])

(* Checkpoint windows copy the accumulator to allocated wires. *)
ChordCheckpointCount(c) ==
    Cardinality({w \in 1..Windows(c) : w % c.interval = 0 \/ w = Windows(c)})

ChordExponentiateGates(c) == 3 * Windows(c)

(* chord_compute_witness_precomputed: the accumulators L_0 .. L_last of    *)
(* the honest prover, on the curve itself.                                 *)
ChordAccumulators(c, bits, base) ==
    LET L[w \in 0..Windows(c)] ==
            IF w = 0 THEN BitPoint(c, base, 0, bits[0])
            ELSE (L[w - 1] + WindowPoint(c, base, w, bits[2 * w - 1], bits[2 * w])) % c.q
    IN  [w \in 0..Windows(c) |-> L[w]]

(* It fails on the identity and on points of equal x. *)
ChordWitnessExists(c, bits, base) ==
    LET L == ChordAccumulators(c, bits, base)
        D(w) == WindowPoint(c, base, w, bits[2 * w - 1], bits[2 * w])
    IN  /\ PrecomputeChord(c, base)
        /\ \A w \in 0..Windows(c) : ~IsIdentity(L[w])
        /\ \A w \in 1..Windows(c) : Affine(c, L[w - 1])[1] # Affine(c, D(w))[1]

ChordResult(c, bits, base) == ChordAccumulators(c, bits, base)[Windows(c)]

-----------------------------------------------------------------------------
(***************************************************************************)
(* The batched relation of one dealer.                                     *)
(***************************************************************************)
(* The pad is r, or r - q where q <= r < p: the second only if the         *)
(* difference is below p - q, otherwise r - q has wrapped around.          *)
ReducedBits(c, r, reduce) ==
    {bits \in BitDecomposeQ(c, (r - reduce * c.q) % c.p) :
        BitsLtBoundWhen(c, bits, c.rest_le, c.k_bits + 1, reduce)}

PadBitVectors(c, r) == UNION {ReducedBits(c, r, reduce) : reduce \in BitWires(c)}

(* build_hidden_receiver_slot: the pad commitments of the satisfying       *)
(* assignments, for the bits of the dealer's secret.                       *)
HiddenReceiverSlot(c, rec, sk_bits, h1, h2, beta) ==
    UNION {UNION {UNION {
        UNION {ChordExponentiate(c, pad_bits, Generator)
                 : pad_bits \in PadBitVectors(c, Output(c, beta, T[1], T[2]))}
          : T \in ChordExponentiate(c, k_bits, h1) \X ChordExponentiate(c, k_bits, h2)}
          : k_bits \in BitDecompose(c, S[1])}
          : S \in ChordExponentiate(c, sk_bits, rec.pkj)}

(* build_batched_verifier_precomputed fails when a table cannot be built;  *)
(* the circuit it builds is satisfiable when some secret, a free wire that *)
(* its bits determine, fits all slots.                                     *)
BatchedTables(c, statement) ==
    /\ \A h \in ToSet(c.hashes[statement.msg]) : PrecomputeChord(c, h)
    /\ \A j \in DOMAIN statement.receivers : PrecomputeChord(c, statement.receivers[j].pkj)

BatchedCircuit(c, statement) ==
    LET h == c.hashes[statement.msg]
    IN  \E sk_bits \in BoundedBits(c, c.q_le) :
            /\ Affine(c, statement.pk1) \in ChordExponentiate(c, sk_bits, Generator)
            /\ \A rec \in ToSet(statement.receivers) :
                Affine(c, rec.pad_commitment)
                    \in HiddenReceiverSlot(c, rec, sk_bits, h[1], h[2], statement.beta)

(* compute_hidden_receiver_witness: its values, and when it has them. *)
WitnessS(c, sk1, rec) == (rec.pkj * sk1) % c.q
WitnessK(c, sk1, rec) == DecomposeK(c, Affine(c, WitnessS(c, sk1, rec))[1])
WitnessT(c, k_bits, h) == Affine(c, ChordResult(c, k_bits, h))
WitnessR(c, k_bits, h1, h2, beta) ==
    Output(c, beta, WitnessT(c, k_bits, h1), WitnessT(c, k_bits, h2))
ReduceQ(c, r) == IF FpToFq(c, r) = r THEN 0 ELSE 1

HiddenReceiverWitness(c, sk1, rec, h1, h2, beta) ==
    LET k_bits == WitnessK(c, sk1, rec)
        pad == FpToFq(c, WitnessR(c, k_bits, h1, h2, beta))
    IN  /\ ~IsIdentity(WitnessS(c, sk1, rec))
        /\ ChordWitnessExists(c, k_bits, h1)
        /\ ChordWitnessExists(c, k_bits, h2)
        /\ pad = rec.pad_commitment
        /\ ChordWitnessExists(c, DecomposeK(c, sk1), rec.pkj)
        /\ ChordWitnessExists(c, DecomposeK(c, pad), Generator)

(* build_hidden_receiver_slot, for the prover: whether the constraints of  *)
(* the slot hold for the wires of that witness.                            *)
HiddenReceiverHolds(c, sk1, rec, h1, h2, beta) ==
    LET S == Affine(c, WitnessS(c, sk1, rec))
        k_bits == WitnessK(c, sk1, rec)
        r == WitnessR(c, k_bits, h1, h2, beta)
        pad_bits == DecomposeK(c, FpToFq(c, r))
    IN  /\ S \in ChordExponentiate(c, DecomposeK(c, sk1), rec.pkj)
        /\ k_bits \in BitDecompose(c, S[1])
        /\ \A h \in {h1, h2} : WitnessT(c, k_bits, h) \in ChordExponentiate(c, k_bits, h)
        /\ pad_bits \in ReducedBits(c, r, ReduceQ(c, r))
        /\ Affine(c, rec.pad_commitment) \in ChordExponentiate(c, pad_bits, Generator)

(* prove_batched_r1cs: whether the honest prover has a witness, and        *)
(* whether the constraints hold for it.                                    *)
BatchedWitness(c, statement, sk1) ==
    LET h == c.hashes[statement.msg]
    IN  /\ sk1 = statement.pk1
        /\ BatchedTables(c, statement)
        /\ ChordWitnessExists(c, DecomposeK(c, sk1), Generator)
        /\ \A rec \in ToSet(statement.receivers) :
            HiddenReceiverWitness(c, sk1, rec, h[1], h[2], statement.beta)

BatchedAssignmentHolds(c, statement, sk1) ==
    LET h == c.hashes[statement.msg]
        sk_bits == DecomposeK(c, sk1)
    IN  /\ sk_bits \in BitDecomposeQ(c, sk1)
        /\ Affine(c, statement.pk1) \in ChordExponentiate(c, sk_bits, Generator)
        /\ \A rec \in ToSet(statement.receivers) :
            HiddenReceiverHolds(c, sk1, rec, h[1], h[2], statement.beta)

(* The multipliers the calls above allocate. *)
BatchedMultipliers(c, receiver_count) ==
    LET checkpoints == 2 * ChordCheckpointCount(c)
        shared == BitDecomposeGates(c) + Windows(c) + ChordExponentiateGates(c)
        reduction == 1 + BitDecomposeGates(c) + BitsLtBoundWhenGates(c.rest_le, c.k_bits + 1)
        each == 4 * ChordExponentiateGates(c) + BitDecomposeGates(c) + 2 * Windows(c) + reduction
    IN  shared + receiver_count * each
            + Halves(1 + checkpoints + receiver_count * (4 * checkpoints + 1))

BatchedMultiplierCount_Unpaired(c, receiver_count) ==
    c.shared_multipliers + receiver_count * c.receiver_multipliers

(* batched_multiplier_count: what the parameters are sized for.  The       *)
(* shared part and every slot allocate an odd number of single wires, of   *)
(* which adjacent ones share a multiplier.                                 *)
BatchedMultiplierCount(c, receiver_count) ==
    c.shared_multipliers + receiver_count * c.receiver_multipliers - (receiver_count + 1) \div 2

-----------------------------------------------------------------------------
(***************************************************************************)
(* The one-receiver relation: S, T_1 and T_2 are public.                   *)
(***************************************************************************)
(* build_one_receiver_r1cs, for the committed k and r. *)
OneReceiverCircuit(c, st, k, r) ==
    /\ k = Affine(c, st.s)[1]
    /\ \E bits \in BitDecompose(c, k) :
        /\ Affine(c, st.t1) \in ChordExponentiate(c, bits, st.h1)
        /\ Affine(c, st.t2) \in ChordExponentiate(c, bits, st.h2)
    /\ r = Output(c, st.beta, Affine(c, st.t1), Affine(c, st.t2))

(* evrf_prove, up to its proof: the conditions on the statement, the       *)
(* secret and the witness.  r is taken from the statement's T_1 and T_2.   *)
OneReceiverProvable(c, st, sk1) ==
    LET bits == DecomposeK(c, Affine(c, st.s)[1])
    IN  /\ (st.pk2 * sk1) % c.q = st.s
        /\ <<st.h1, st.h2>> = c.hashes[st.msg]
        /\ ChordWitnessExists(c, bits, st.h1)
        /\ ChordWitnessExists(c, bits, st.h2)
        /\ Output(c, st.beta, Affine(c, st.t1), Affine(c, st.t2)) = st.r_point

(* What evrf_verify requires before it reads the nested proof. *)
OneReceiverReady(c, st) ==
    /\ <<st.h1, st.h2>> = c.hashes[st.msg]
    /\ PrecomputeChord(c, st.h1)
    /\ PrecomputeChord(c, st.h2)
=============================================================================
