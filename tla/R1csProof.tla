----------------------------- MODULE R1csProof ------------------------------
(***************************************************************************)
(* Proving, encoding and verifying over the constraint systems of R1cs.    *)
(* A record of challenges c holds the Fiat-Shamir scalars in the order     *)
(* they are drawn: g (one for each callback), y, z, u, x, w, and e (one    *)
(* for each round of the inner-product argument).                          *)
(***************************************************************************)
EXTENDS R1cs

CONSTANT Undecodable    \* the encoding of no point

(* BulletproofGens::share(0) for a capacity, with available >= capacity    *)
(* points because the cache may have held more.                            *)
Gens(capacity, available) ==
    [capacity |-> capacity,
     G |-> [i \in 1..available |-> GPoint(i)], H |-> [i \in 1..available |-> HPoint(i)]]

(***************************************************************************)
(* prove_and_return_transcript.                                            *)
(***************************************************************************)
(* The commitment to rows from..to of two vectors, blinded. *)
RowsCommitment(gens, from, to, left, right, blinding) ==
    PAdd(PAdd(Msm(SubSeq(left, from, to), SubSeq(gens.G, from, to)),
              Msm(SubSeq(right, from, to), SubSeq(gens.H, from, to))),
         PMul(BlindingPoint, blinding))

Zeros(n) == [i \in 1..n |-> 0]

(* VecPoly3::special_inner_product of l (no constant) and r (no square): *)
(* coefficients of x to x^6.                                             *)
InnerPoly(l1, l2, l3, r0, r1, r3) ==
    <<Inner(l1, r0), Add(Inner(l1, r1), Inner(l2, r0)), Add(Inner(l2, r1), Inner(l3, r0)),
      Add(Inner(l1, r3), Inner(l3, r1)), Inner(l2, r3), Inner(l3, r3)>>

(* Poly6::eval, and its use for the blindings: the k-th coefficient is that of x^k. *)
EvalFromX(coefficients, x) == Mul(x, EvaluateAtScalar(coefficients, x))

(* l_vec: l(x), padded with zeros to as many entries as there are generators. *)
LeftVector(padded, n, l1, l2, l3, x) ==
    [i \in 1..padded |-> IF i <= n THEN EvalFromX(<<l1[i], l2[i], l3[i]>>, x) ELSE 0]

(* The proof for the circuit p, whose first n1 gates belong to the first phase. *)
ProofFor(p, n1, gens, c) ==
    LET n == Len(p.a_L)
        padded == NextPowerOfTwo(n)
        second == n > n1
        i1 == Random(1)     o1 == Random(2)     s1 == Random(3)
        i2 == IF second THEN Random(4) ELSE 0
        o2 == IF second THEN Random(5) ELSE 0
        s2 == IF second THEN Random(6) ELSE 0
        s_L == [i \in 1..n |-> Random(10 + i)]
        s_R == [i \in 1..n |-> Random(40 + i)]
        rows2(left, right, blinding) ==
            IF second THEN RowsCommitment(gens, n1 + 1, n, left, right, blinding)
            ELSE IdentityPoint
        w == FlattenedConstraints(p.constraints, n, Len(p.v), c.z)
        y == ExpIter(c.y, padded)
        y_inv == ExpIter(Invert(c.y), padded)
        l1 == [i \in 1..n |-> Add(p.a_L[i], Mul(y_inv[i], w.w_R[i]))]
        r0 == [i \in 1..n |-> Sub(w.w_O[i], y[i])]
        r1 == [i \in 1..n |-> Add(Mul(y[i], p.a_R[i]), w.w_L[i])]
        r3 == [i \in 1..n |-> Mul(y[i], s_R[i])]
        t == InnerPoly(l1, p.a_O, s_L, r0, r1, r3)
        \* the second coefficient's blinding comes from the committed variables
        tb == [k \in 1..6 |-> IF k = 2 THEN Inner(w.w_V, p.v_blinding) ELSE Random(70 + k)]
        T(k) == Commitment(t[k], tb[k])
        l_vec == LeftVector(padded, n, l1, p.a_O, s_L, c.x)
        r_vec == [i \in 1..padded |->
                    IF i <= n THEN EvaluateAtScalar(<<r0[i], r1[i], 0, r3[i]>>, c.x) ELSE Neg(y[i])]
        u_or_1 == [i \in 1..padded |-> IF i <= n1 THEN 1 ELSE c.u]
        mixed(first, rest) == Add(first, Mul(c.u, rest))
    IN  [A_I1 |-> RowsCommitment(gens, 1, n1, p.a_L, p.a_R, i1),
         A_O1 |-> RowsCommitment(gens, 1, n1, p.a_O, Zeros(n), o1),
         S1   |-> RowsCommitment(gens, 1, n1, s_L, s_R, s1),
         A_I2 |-> rows2(p.a_L, p.a_R, i2),
         A_O2 |-> rows2(p.a_O, Zeros(n), o2),
         S2   |-> rows2(s_L, s_R, s2),
         T |-> <<T(1), T(3), T(4), T(5), T(6)>>,
         t_x |-> EvalFromX(t, c.x),
         t_x_blinding |-> EvalFromX(tb, c.x),
         e_blinding |-> EvalFromX(<<mixed(i1, i2), mixed(o1, o2), mixed(s1, s2)>>, c.x),
         ipp |-> Create(PMul(BasePoint, c.w), u_or_1,
                        [i \in 1..padded |-> Mul(y_inv[i], u_or_1[i])],
                        Prefix(gens.G, padded), Prefix(gens.H, padded), l_vec, r_vec, c.e)]

Prove(p1, inputs, public, gens, c) ==
    LET n1 == Len(p1.a_L)
        p == ProverCreateRandomized(p1, inputs, public, c.g)
    IN  IF gens.capacity < n1 THEN Fail("InvalidGeneratorsLength")
        ELSE IF p.err # "None" THEN Fail(p.err)
        ELSE IF gens.capacity < NextPowerOfTwo(Len(p.a_L)) THEN Fail("InvalidGeneratorsLength")
        ELSE [kind |-> "Ok", proof |-> ProofFor(p, n1, gens, c)]

(***************************************************************************)
(* to_bytes and from_bytes, with fields for bytes: a version, then points   *)
(* and scalars.                                                            *)
(***************************************************************************)
PointField(p) == [point |-> p]
ScalarField(s) == [scalar |-> s]

MissingPhase2(proof) ==
    proof.A_I2 = IdentityPoint /\ proof.A_O2 = IdentityPoint /\ proof.S2 = IdentityPoint

Phase1(proof) == <<proof.A_I1, proof.A_O1, proof.S1>>
Phase2(proof) == <<proof.A_I2, proof.A_O2, proof.S2>>
Pairs(ipp) ==
    [k \in 1..(2 * Len(ipp.L_vec)) |->
        IF k % 2 = 1 THEN ipp.L_vec[(k + 1) \div 2] ELSE ipp.R_vec[k \div 2]]

FieldsOf(proof, points) ==
    [k \in DOMAIN points |-> PointField(points[k])]
        \o [k \in 1..5 |-> PointField(proof.T[k])]
        \o <<ScalarField(proof.t_x), ScalarField(proof.t_x_blinding), ScalarField(proof.e_blinding)>>
        \o [k \in DOMAIN Pairs(proof.ipp) |-> PointField(Pairs(proof.ipp)[k])]
        \o <<ScalarField(proof.ipp.a), ScalarField(proof.ipp.b)>>

(* Mutant: the commitments of the second phase are never written. *)
ToBytes_FirstPhaseOnly(proof) == <<[version |-> 0]>> \o FieldsOf(proof, Phase1(proof))

ToBytes(proof) ==
    IF MissingPhase2(proof)
    THEN <<[version |-> 0]>> \o FieldsOf(proof, Phase1(proof))
    ELSE <<[version |-> 1]>> \o FieldsOf(proof, Phase1(proof) \o Phase2(proof))

(* A version, the commitments of one phase or two, T, three scalars and an *)
(* argument.  A field that is read as the other kind is refused here; in   *)
(* the code it may also decode, to a value that verifies no better.        *)
Malformed(bytes, points) ==
    LET isPoint(k) == "point" \in DOMAIN bytes[k]
        argument == SubSeq(bytes, points + 10, Len(bytes))
    IN  \/ bytes = << >>
        \/ bytes[1].version \notin {0, 1}
        \/ Len(bytes) < 1 + points + 8
        \/ Len(argument) < 2
        \/ Len(argument) % 2 # 0
        \/ \E k \in 2..Len(bytes) :
             isPoint(k) # (k \notin (points + 7)..(points + 9) /\ k <= Len(bytes) - 2)

(* InnerProductProof::from_bytes *)
DecodedArgument(fields) ==
    LET rounds == (Len(fields) - 2) \div 2
    IN  [L_vec |-> [k \in 1..rounds |-> fields[2 * k - 1].point],
         R_vec |-> [k \in 1..rounds |-> fields[2 * k].point],
         a |-> fields[Len(fields) - 1].scalar, b |-> fields[Len(fields)].scalar]

Decoded(bytes, points) ==
    LET pointAt(k) == bytes[k].point
        scalarAt(k) == bytes[k].scalar
        second(k) == IF points = 6 THEN pointAt(4 + k) ELSE IdentityPoint
    IN  [A_I1 |-> pointAt(2), A_O1 |-> pointAt(3), S1 |-> pointAt(4),
         A_I2 |-> second(1), A_O2 |-> second(2), S2 |-> second(3),
         T |-> [k \in 1..5 |-> pointAt(1 + points + k)],
         t_x |-> scalarAt(points + 7), t_x_blinding |-> scalarAt(points + 8),
         e_blinding |-> scalarAt(points + 9),
         ipp |-> DecodedArgument(SubSeq(bytes, points + 10, Len(bytes)))]

FromBytes(bytes) ==
    LET points == IF bytes[1].version = 1 THEN 6 ELSE 3
    IN  IF Malformed(bytes, points) THEN Fail("FormatError")
        ELSE [kind |-> "Ok", proof |-> Decoded(bytes, points)]

(***************************************************************************)
(* The transcript: what has been absorbed before each draw of challenges.  *)
(***************************************************************************)
Absorbed(V, phases, proof, padded) ==
    <<<<V, Len(V), Phase1(proof), phases>>,
      Phase2(proof),
      proof.T,
      <<proof.t_x, proof.t_x_blinding, proof.e_blinding>>>>
    \o [k \in DOMAIN proof.ipp.L_vec |-> <<padded, proof.ipp.L_vec[k], proof.ipp.R_vec[k]>>]

(* The challenges of a transcript: the prover's as long as both absorbed   *)
(* the same, unrelated ones afterwards.                                    *)
ChallengesOf(mine, provers, c, fresh) ==
    LET agree(k) == \A j \in 1..k : j \in DOMAIN provers /\ mine[j] = provers[j]
        from(k) == IF k \in DOMAIN mine /\ agree(k) THEN c ELSE fresh
    IN  [g |-> from(1).g, y |-> from(2).y, z |-> from(2).z, u |-> from(3).u, x |-> from(3).x,
         w |-> from(4).w, e |-> [k \in DOMAIN c.e |-> from(4 + k).e[k]]]

(***************************************************************************)
(* verification_equation_and_return_transcript.                            *)
(***************************************************************************)
(* Mutant: the check of t(x) is left out of the sum. *)
CombinationScalar_Zero == 0

(* The random scalar that joins the check of t(x) and the inner-product check. *)
CombinationScalar == Random(90)

EquationFor(v, n1, proof, gens, c) ==
    LET n == v.num_vars
        padded == NextPowerOfTwo(n)
        w == FlattenedConstraints(v.constraints, n, Len(v.V), c.z)
        e == Prefix(c.e, Log2(padded))
        s == SWeights(padded, e)
        a == proof.ipp.a    b == proof.ipp.b
        y_inv == ExpIter(Invert(c.y), padded)
        at(vec, i) == IF i <= n THEN vec[i] ELSE 0
        yneg_wR == [i \in 1..padded |-> Mul(at(w.w_R, i), y_inv[i])]
        delta == Inner(Prefix(yneg_wR, n), w.w_L)
        u_or_1(i) == IF i <= n1 THEN 1 ELSE c.u
        r == CombinationScalar
        x == ExpIter(c.x, 7)    \* x[k + 1] is the k-th power
    IN  [pedersen_scalars |->
            <<Add(Mul(c.w, Sub(proof.t_x, Mul(a, b))),
                  Mul(r, Sub(Mul(x[3], Add(w.w_c, delta)), proof.t_x))),
              Sub(Neg(proof.e_blinding), Mul(r, proof.t_x_blinding))>>,
         pedersen_points |-> <<BasePoint, BlindingPoint>>,
         g_scalars |-> [i \in 1..padded |->
            Mul(u_or_1(i), Sub(Mul(c.x, yneg_wR[i]), Mul(a, s[i])))],
         g_points |-> gens.G,
         h_scalars |-> [i \in 1..padded |->
            Mul(u_or_1(i),
                Sub(Mul(y_inv[i], Sub(Add(Mul(c.x, at(w.w_L, i)), at(w.w_O, i)),
                                      Mul(b, s[padded + 1 - i]))), 1))],
         h_points |-> gens.H,
         proof_scalars |->
            <<x[2], x[3], x[4], Mul(c.u, x[2]), Mul(c.u, x[3]), Mul(c.u, x[4])>>
            \o [j \in DOMAIN w.w_V |-> Mul(w.w_V[j], Mul(r, x[3]))]
            \o [k \in 1..5 |-> Mul(r, x[<<2, 4, 5, 6, 7>>[k]])]
            \o Squares(e) \o Squares(Inverses(e)),
         proof_points |->
            Phase1(proof) \o Phase2(proof) \o v.V \o proof.T \o proof.ipp.L_vec \o proof.ipp.R_vec]

IdentityAmong(points) == \E k \in DOMAIN points : points[k] = IdentityPoint

VerificationEquation(v1, commitments, public, proof, gens, c) ==
    LET v == VerifierCreateRandomized(v1, commitments, public, c.g)
        padded == NextPowerOfTwo(v.num_vars)
    IN  IF IdentityAmong(Phase1(proof)) THEN Fail("VerificationError")
        ELSE IF v.err # "None" THEN Fail(v.err)
        ELSE IF gens.capacity < padded THEN Fail("InvalidGeneratorsLength")
        ELSE IF \/ IdentityAmong(proof.T)
                \/ padded # 2^Len(proof.ipp.L_vec)
                \/ IdentityAmong(proof.ipp.L_vec \o proof.ipp.R_vec)
             THEN Fail("VerificationError")
        ELSE [kind |-> "Ok", equation |-> EquationFor(v, v1.num_vars, proof, gens, c)]

(* VerificationEquation::verify *)
Verify(eq) ==
    IF \/ Len(eq.g_scalars) > Len(eq.g_points)
       \/ Len(eq.h_scalars) > Len(eq.h_points)
       \/ Len(eq.proof_scalars) # Len(eq.proof_points)
       \/ \E k \in DOMAIN eq.proof_points : eq.proof_points[k] = Undecodable
       \/ PAdd(PAdd(Msm(eq.g_scalars, eq.g_points), Msm(eq.h_scalars, eq.h_points)),
               Msm(eq.pedersen_scalars \o eq.proof_scalars,
                   eq.pedersen_points \o eq.proof_points)) # IdentityPoint
    THEN "VerificationError"
    ELSE "Ok"

(***************************************************************************)
(* verify_batch: one sum over all equations, each with its own nonzero     *)
(* coefficient.  Equations may use generator lists of different length.    *)
(***************************************************************************)
ScaledBy(scalars, coefficient) == [k \in DOMAIN scalars |-> Mul(coefficient, scalars[k])]

(* Mutant: scalars beyond the accumulated ones are dropped. *)
AccumulatePrefix_NoResize(acc, scalars, points, coefficient) ==
    [acc EXCEPT
        !.points = IF Len(scalars) > Len(acc.points) THEN points ELSE acc.points,
        !.scalars = IF acc.scalars = << >> THEN ScaledBy(scalars, coefficient)
                    ELSE [k \in DOMAIN acc.scalars |->
                            Add(acc.scalars[k],
                                IF k <= Len(scalars) THEN Mul(coefficient, scalars[k]) ELSE 0)]]

(* accumulate_generator_prefix *)
AccumulatePrefix(acc, scalars, points, coefficient) ==
    LET shorter(a, b) == IF Len(a) <= Len(b) THEN Len(a) ELSE Len(b)
        longer(a, b) == IF Len(a) <= Len(b) THEN Len(b) ELSE Len(a)
        shared == shorter(acc.points, scalars)
        at(s, k) == IF k <= Len(s) THEN s[k] ELSE 0
    IN  IF Len(scalars) > Len(points) \/ Prefix(acc.points, shared) # Prefix(points, shared)
        THEN [acc EXCEPT !.ok = FALSE]
        ELSE [acc EXCEPT
                !.points = IF Len(scalars) > Len(@) THEN points ELSE @,
                !.scalars = [k \in 1..longer(acc.scalars, scalars) |->
                                Add(at(acc.scalars, k), Mul(coefficient, at(scalars, k)))]]

(* verify_batch_iter on preparation results (equations or errors) and the  *)
(* coefficients drawn for them; the first error ends it.                   *)
VerifyBatch(prepared, coefficients) ==
    LET first == prepared[1].equation
        start == [err |-> "None", pedersen |-> <<0, 0>>, scalars |-> << >>, points |-> << >>,
                  g |-> [ok |-> TRUE, scalars |-> << >>, points |-> first.g_points],
                  h |-> [ok |-> TRUE, scalars |-> << >>, points |-> first.h_points]]
        added(acc, eq, coefficient) ==
            LET g == AccumulatePrefix(acc.g, eq.g_scalars, eq.g_points, coefficient)
                h == AccumulatePrefix(acc.h, eq.h_scalars, eq.h_points, coefficient)
            IN  IF \/ eq.pedersen_points # first.pedersen_points
                   \/ Len(eq.proof_scalars) # Len(eq.proof_points)
                   \/ ~g.ok \/ ~h.ok
                THEN [acc EXCEPT !.err = "VerificationError"]
                ELSE [acc EXCEPT
                        !.pedersen = [j \in 1..2 |->
                            Add(@[j], Mul(coefficient, eq.pedersen_scalars[j]))],
                        !.scalars = @ \o ScaledBy(eq.proof_scalars, coefficient),
                        !.points = @ \o eq.proof_points,
                        !.g = g, !.h = h]
        accumulate(acc, k) ==
            IF acc.err # "None" THEN acc
            ELSE IF prepared[k].kind # "Ok" THEN [acc EXCEPT !.err = prepared[k].kind]
            ELSE added(acc, prepared[k].equation, coefficients[k])
    IN  IF prepared = << >> THEN "VerificationError"
        ELSE IF prepared[1].kind # "Ok" THEN prepared[1].kind
        ELSE LET sum == FoldLeftDomain(accumulate, start, prepared)
             IN  IF sum.err # "None" THEN sum.err
                 ELSE Verify([pedersen_scalars |-> sum.pedersen,
                              pedersen_points |-> first.pedersen_points,
                              g_scalars |-> sum.g.scalars, g_points |-> sum.g.points,
                              h_scalars |-> sum.h.scalars, h_points |-> sum.h.points,
                              proof_scalars |-> sum.scalars, proof_points |-> sum.points])
=============================================================================
