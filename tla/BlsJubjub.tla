------------------------------- MODULE BlsJubjub ----------------------------
(***************************************************************************)
(* The bls_jubjub paper backend: the Edwards circuits of golden-evrf's     *)
(* paper/bls_jubjub.rs, their honest witnesses, and the standalone         *)
(* one-receiver proof.  The unified addition law is complete, so there are *)
(* no correction points and no exceptional additions; but p is 8q and a    *)
(* little, so reducing r to a pad takes a quotient from 0 to 8.            *)
(***************************************************************************)
EXTENDS Circuits, SigmaProofs

(* The constants of the code that the size of the circuit depends on. *)
CodeSuite ==
    [kind |-> "edwards", k_bits |-> 256,
     p_le |-> <<1, 0, 0, 0, 255, 255, 255, 255, 254, 91, 254, 255, 2, 164, 189, 83,
                5, 216, 161, 9, 8, 216, 57, 51, 72, 125, 157, 41, 83, 167, 237, 115>>,
     q_le |-> <<183, 44, 247, 214, 94, 14, 151, 208, 130, 16, 200, 204, 147, 32, 104, 166,
                0, 59, 52, 1, 1, 59, 103, 6, 169, 175, 51, 101, 234, 180, 125, 14>>,
     rest_le |-> <<73, 154, 70, 72, 8, 141, 71, 123, 232, 215, 189, 153, 100, 159, 124, 32>>,
     shared_multipliers |-> 1412, receiver_multipliers |-> 4574]

(* bit_decompose_bounded_n: the bits above the highest bit of the bound    *)
(* are constrained to zero directly, the others are scanned.               *)
BoundedBits(c, bound, n) ==
    LET start == LowerBitsStart(bound, n)
    IN  {bits \in BitVectors(c, n) : /\ \A j \in start..(n - 1) : bits[j] = 0
                                     /\ ScanBelow(c, bits, bound, start, 1)}

BitDecomposeBoundedN(c, value, bound, n) ==
    {bits \in BoundedBits(c, bound, n) : Recomposed(c, bits, n) = value}

BitDecomposeGates(bound, n) == n + LowerBitsStart(bound, n)

BitDecompose(c, value) == BitDecomposeBoundedN(c, value, c.p_le, c.k_bits + 1)

BitDecomposeQ(c, value) == BitDecomposeBoundedN(c, value, c.q_le, c.k_bits + 1)

-----------------------------------------------------------------------------
(***************************************************************************)
(* Exponentiation.                                                         *)
(***************************************************************************)
EdwardsIdentity == <<0, 1>>

(* edwards_add_r1cs: both coordinates of the sum are allocated. *)
EdwardsAddR1cs(c, L, D) ==
    LET m1 == (L[1] * D[1]) % c.p
        m2 == (L[2] * D[2]) % c.p
        t == (c.d * m1 * m2) % c.p
        cross == (L[1] + L[2]) * (D[1] + D[2])
    IN  {u \in Field(c) : (u * (1 + t) - (cross - m1 - m2)) % c.p = 0}
            \X {v \in Field(c) : (v * (1 - t) - (m2 + m1)) % c.p = 0}

(* edwards_conditional_add_r1cs, for bit 0 *)
EdwardsConditionalAdd(c, L, bit, base) ==
    EdwardsAddR1cs(c, L, <<(bit * base[1]) % c.p, (1 + bit * (base[2] - 1)) % c.p>>)

(* edwards_window_step_r1cs: the fourth candidate is the identity. *)
EdwardsWindowStep(c, L, b0, b1, product, q10, q01, q11) ==
    EdwardsAddR1cs(c, L, WindowDelta(c, EdwardsIdentity, q10, q01, q11, b0, b1, product))

(* precompute_windowed_base_powers: the candidates of window w. *)
WindowCandidates(c, base, w) ==
    LET j1 == Doubled(c, base, 2 * w - 1)
        j2 == Doubled(c, base, 2 * w)
    IN  <<Affine(c, j1), Affine(c, j2), Affine(c, (j1 + j2) % c.q)>>

(* edwards_exponentiate_windowed_r1cs *)
EdwardsExponentiate(c, bits, base) ==
    LET products == WindowProducts(c, bits)
        step(L, w) ==
            LET Q == WindowCandidates(c, base, w)
            IN  EdwardsWindowStep(c, L, bits[2 * w - 1], bits[2 * w], products[w], Q[1], Q[2], Q[3])
    IN  FoldLeft(LAMBDA reached, w : UNION {step(L, w) : L \in reached},
                 EdwardsConditionalAdd(c, EdwardsIdentity, bits[0], Affine(c, base)),
                 [w \in 1..Windows(c) |-> w])

EdwardsExponentiateGates(c) == 6 * (1 + Windows(c))

(* edwards_windowed_ladder_witness: the last accumulator of the honest     *)
(* prover; the identity has coordinates here.                              *)
LadderResult(c, bits, base) ==
    LET chosen(j) == bits[j] * Doubled(c, base, j)
        acc[w \in 0..Windows(c)] ==
            IF w = 0 THEN chosen(0) % c.q
            ELSE (acc[w - 1] + chosen(2 * w - 1) + chosen(2 * w)) % c.q
    IN  acc[Windows(c)]

-----------------------------------------------------------------------------
(***************************************************************************)
(* The pad.                                                                *)
(***************************************************************************)
NINE_LE == <<9>>

(* reduce_pad_witness: q is subtracted as long as it fits; the pad and how *)
(* often.                                                                  *)
ReducePadWitness(c, r) == [pad |-> r % c.q, m |-> r \div c.q]

(* reduce_pad_r1cs: the bits of r - m * q for a quotient below nine; at    *)
(* eight the difference must be below p - 8q, otherwise it has wrapped     *)
(* around.                                                                 *)
ReducedBits(c, r, m_bits) ==
    {pad_bits \in BitDecomposeQ(c, (r - Recomposed(c, m_bits, 4) * c.q) % c.p) :
        BitsLtBoundWhen(c, pad_bits, c.rest_le, c.k_bits + 1, m_bits[3])}

ReducePadR1cs(c, r) == UNION {ReducedBits(c, r, m_bits) : m_bits \in BoundedBits(c, NINE_LE, 4)}

-----------------------------------------------------------------------------
(***************************************************************************)
(* The batched relation of one dealer.                                     *)
(***************************************************************************)
(* build_hidden_receiver_slot: the pad commitments of the satisfying       *)
(* assignments, for the bits of the dealer's secret.                       *)
HiddenReceiverSlot(c, rec, sk_bits, h1, h2, beta) ==
    UNION {UNION {UNION {
        UNION {EdwardsExponentiate(c, pad_bits, Generator)
                 : pad_bits \in ReducePadR1cs(c, Output(c, beta, T[1], T[2]))}
          : T \in EdwardsExponentiate(c, k_bits, h1) \X EdwardsExponentiate(c, k_bits, h2)}
          : k_bits \in BitDecompose(c, S[1])}
          : S \in EdwardsExponentiate(c, sk_bits, rec.pkj)}

(* build_batched_verifier: every table can be built; the circuit is        *)
(* satisfiable when some secret, a free wire that its bits determine, fits *)
(* all slots.                                                              *)
BatchedTables(c, statement) == TRUE

BatchedCircuit(c, statement) ==
    LET h == c.hashes[statement.msg]
    IN  \E sk_bits \in BoundedBits(c, c.q_le, c.k_bits + 1) :
            /\ Affine(c, statement.pk1) \in EdwardsExponentiate(c, sk_bits, Generator)
            /\ \A rec \in ToSet(statement.receivers) :
                Affine(c, rec.pad_commitment)
                    \in HiddenReceiverSlot(c, rec, sk_bits, h[1], h[2], statement.beta)

(* compute_hidden_receiver_witness: its values, and when it has them. *)
WitnessS(c, sk1, rec) == (rec.pkj * sk1) % c.q
WitnessK(c, sk1, rec) == DecomposeK(c, Affine(c, WitnessS(c, sk1, rec))[1])
WitnessT(c, k_bits, h) == Affine(c, LadderResult(c, k_bits, h))
WitnessR(c, k_bits, h1, h2, beta) ==
    Output(c, beta, WitnessT(c, k_bits, h1), WitnessT(c, k_bits, h2))

HiddenReceiverWitness(c, sk1, rec, h1, h2, beta) ==
    /\ ~IsIdentity(WitnessS(c, sk1, rec))
    /\ ReducePadWitness(c, WitnessR(c, WitnessK(c, sk1, rec), h1, h2, beta)).pad
        = rec.pad_commitment

(* build_hidden_receiver_slot, for the prover: whether the constraints of  *)
(* the slot hold for the wires of that witness.                            *)
HiddenReceiverHolds(c, sk1, rec, h1, h2, beta) ==
    LET S == Affine(c, WitnessS(c, sk1, rec))
        k_bits == WitnessK(c, sk1, rec)
        r == WitnessR(c, k_bits, h1, h2, beta)
        reduced == ReducePadWitness(c, r)
        m_bits == [i \in 0..3 |-> (reduced.m \div 2^i) % 2]
        pad_bits == DecomposeK(c, reduced.pad)
    IN  /\ S \in EdwardsExponentiate(c, DecomposeK(c, sk1), rec.pkj)
        /\ k_bits \in BitDecompose(c, S[1])
        /\ \A h \in {h1, h2} : WitnessT(c, k_bits, h) \in EdwardsExponentiate(c, k_bits, h)
        /\ m_bits \in BitDecomposeBoundedN(c, reduced.m, NINE_LE, 4)
        /\ pad_bits \in ReducedBits(c, r, m_bits)
        /\ Affine(c, rec.pad_commitment) \in EdwardsExponentiate(c, pad_bits, Generator)

(* prove_batched_r1cs: whether the honest prover has a witness, and        *)
(* whether the constraints hold for it.                                    *)
BatchedWitness(c, statement, sk1) ==
    LET h == c.hashes[statement.msg]
    IN  /\ sk1 = statement.pk1
        /\ \A rec \in ToSet(statement.receivers) :
            HiddenReceiverWitness(c, sk1, rec, h[1], h[2], statement.beta)

BatchedAssignmentHolds(c, statement, sk1) ==
    LET h == c.hashes[statement.msg]
        sk_bits == DecomposeK(c, sk1)
    IN  /\ sk_bits \in BitDecomposeQ(c, sk1)
        /\ Affine(c, statement.pk1) \in EdwardsExponentiate(c, sk_bits, Generator)
        /\ \A rec \in ToSet(statement.receivers) :
            HiddenReceiverHolds(c, sk1, rec, h[1], h[2], statement.beta)

(* The multipliers the calls above allocate. *)
BatchedMultipliers(c, receiver_count) ==
    LET n == c.k_bits + 1
        shared == BitDecomposeGates(c.q_le, n) + Windows(c) + EdwardsExponentiateGates(c)
        reduction == BitDecomposeGates(NINE_LE, 4) + BitDecomposeGates(c.q_le, n)
                       + BitsLtBoundWhenGates(c.rest_le, n)
        each == 4 * EdwardsExponentiateGates(c) + BitDecomposeGates(c.p_le, n)
                  + 2 * Windows(c) + reduction
    IN  shared + receiver_count * each + Halves(1 + 2 * receiver_count)

(* batched_multiplier_count: what the parameters are sized for. *)
BatchedMultiplierCount(c, receiver_count) ==
    c.shared_multipliers + receiver_count * c.receiver_multipliers

-----------------------------------------------------------------------------
(***************************************************************************)
(* The one-receiver relation: S, T_1 and T_2 are public.                   *)
(***************************************************************************)
(* build_one_receiver_r1cs, for the committed k and r. *)
OneReceiverCircuit(c, st, k, r) ==
    /\ k = Affine(c, st.s)[1]
    /\ \E bits \in BitDecompose(c, k) :
        /\ Affine(c, st.t1) \in EdwardsExponentiate(c, bits, st.h1)
        /\ Affine(c, st.t2) \in EdwardsExponentiate(c, bits, st.h2)
    /\ r = Output(c, st.beta, Affine(c, st.t1), Affine(c, st.t2))

(* evrf_prove, up to its proof.  Here r is taken from the witness, so a    *)
(* statement with other T_1 or T_2 is proved and then fails to verify.     *)
OneReceiverProvable(c, st, sk1) ==
    LET bits == DecomposeK(c, Affine(c, st.s)[1])
    IN  /\ (st.pk2 * sk1) % c.q = st.s
        /\ <<st.h1, st.h2>> = c.hashes[st.msg]
        /\ WitnessR(c, bits, st.h1, st.h2, st.beta) = st.r_point

(* What evrf_verify requires before it reads the nested proof. *)
OneReceiverReady(c, st) == <<st.h1, st.h2>> = c.hashes[st.msg]
=============================================================================
