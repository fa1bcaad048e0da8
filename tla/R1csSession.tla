---------------------------- MODULE R1csSession -----------------------------
(***************************************************************************)
(* A prover and a verifier that run one circuit: the prover builds it and  *)
(* proves, the encoded proof travels and may be changed, the verifier      *)
(* builds the circuit too, prepares the verification equation and checks   *)
(* it alone or in a batch with another session's equation.                 *)
(***************************************************************************)
EXTENDS R1csProof

CONSTANTS
    Sessions,       \* [circuit, inputs, public, gens]: what the two sides start from;
                    \* public and gens have a prover's and a verifier's value
    Challenges,     \* the challenges a transcript may give
    Companions,     \* results of preparing another session's equation
    Coefficients    \* pairs of batch coefficients

(* Generators a side may have got from the cache. *)
IsGens(gens) ==
    /\ Len(gens.G) \in Nat /\ gens.capacity \in 0..Len(gens.G)
    /\ gens = Gens(gens.capacity, Len(gens.G))

ASSUME SessionAssumption ==
    /\ \A c \in Challenges : 0 \notin {c.y, c.z, c.u, c.x, c.w} \cup ToSet(c.e) \cup ToSet(c.g)
    /\ \A pair \in Coefficients : 0 \notin ToSet(pair)
    /\ \A s \in Sessions :
        s.circuit \in Seq(Instructions) /\ IsGens(s.gens.prover) /\ IsGens(s.gens.verifier)

VARIABLES
    session,    \* the session that runs
    prover, verifier,       \* the two constraint systems
    step,       \* how many instructions each side has run
    drawn,      \* the prover's challenges
    made,       \* the result of prove
    received,   \* the result of from_bytes on what arrived
    prepared,   \* the result of verification_equation
    verdict,    \* the result of verify
    batch       \* the result of verify_batch, with the other equation

vars == <<session, prover, verifier, step, drawn, made, received, prepared, verdict, batch>>

NotCalled == Fail("None")

Init ==
    /\ session \in Sessions
    /\ prover = NewProver
    /\ verifier = NewVerifier
    /\ step = [prover |-> 0, verifier |-> 0]
    /\ drawn \in Challenges
    /\ made = NotCalled
    /\ received = NotCalled
    /\ prepared = NotCalled
    /\ verdict = "None"
    /\ batch = NotCalled

(* The next instruction of the circuit, on the prover. *)
ProverStep ==
    /\ step.prover < Len(session.circuit)
    /\ prover.err = "None"
    /\ prover' = ProverRun(prover, session.circuit[step.prover + 1], session.inputs,
                           session.public.prover, 0)
    /\ step' = [step EXCEPT !.prover = @ + 1]
    /\ UNCHANGED <<session, verifier, drawn, made, received, prepared, verdict, batch>>

CallProve ==
    /\ step.prover = Len(session.circuit)
    /\ prover.err = "None"
    /\ made = NotCalled
    /\ made' = Prove(prover, session.inputs, session.public.prover, session.gens.prover, drawn)
    /\ UNCHANGED <<session, prover, verifier, step, drawn, received, prepared, verdict, batch>>

(***************************************************************************)
(* The encoded proof arrives as it is, with one field changed, made the    *)
(* identity or undecodable, cut, extended, with another version, or with   *)
(* the second phase written out although it is empty.                      *)
(***************************************************************************)
ChangedField(field) ==
    IF "scalar" \in DOMAIN field THEN {ScalarField(Add(field.scalar, 1))}
    ELSE IF "point" \in DOMAIN field
         THEN {PointField(PAdd(field.point, BasePoint)), PointField(IdentityPoint),
               PointField(Undecodable)}
         ELSE {[version |-> 1 - field.version], [version |-> 2]}

Arrivals(bytes, proof) ==
    {bytes, Front(bytes), Append(bytes, ScalarField(0)),
     <<[version |-> 1]>> \o FieldsOf(proof, Phase1(proof) \o Phase2(proof))}
    \cup UNION {{ReplaceAt(bytes, k, f) : f \in ChangedField(bytes[k])} : k \in DOMAIN bytes}

Receive ==
    /\ made.kind = "Ok"
    /\ received = NotCalled
    /\ \E bytes \in Arrivals(ToBytes(made.proof), made.proof) : received' = FromBytes(bytes)
    /\ UNCHANGED <<session, prover, verifier, step, drawn, made, prepared, verdict, batch>>

(* The commitments the prover's commit calls returned. *)
Commitments(p) == [j \in DOMAIN p.v |-> Commitment(p.v[j], p.v_blinding[j])]

VerifierStep ==
    /\ received.kind = "Ok"
    /\ step.verifier < Len(session.circuit)
    /\ verifier' = VerifierRun(verifier, session.circuit[step.verifier + 1], Commitments(prover),
                               session.public.verifier, 0)
    /\ step' = [step EXCEPT !.verifier = @ + 1]
    /\ UNCHANGED <<session, prover, drawn, made, received, prepared, verdict, batch>>

(* The challenges of the verifier's transcript. *)
VerifierChallenges(fresh) ==
    LET absorbed(proof, cs) ==
            Absorbed(Commitments(prover), IF cs.deferred = << >> THEN 1 ELSE 2, proof,
                     2^Len(proof.ipp.L_vec))
    IN  ChallengesOf(absorbed(received.proof, verifier), absorbed(made.proof, prover), drawn, fresh)

CallVerificationEquation ==
    /\ received.kind = "Ok"
    /\ step.verifier = Len(session.circuit)
    /\ prepared = NotCalled
    /\ \E fresh \in Challenges \ {drawn} :
        prepared' = VerificationEquation(verifier, Commitments(prover), session.public.verifier,
                        received.proof, session.gens.verifier, VerifierChallenges(fresh))
    /\ UNCHANGED <<session, prover, verifier, step, drawn, made, received, verdict, batch>>

Verdict(result) == IF result.kind = "Ok" THEN Verify(result.equation) ELSE result.kind

CallVerify ==
    /\ prepared # NotCalled
    /\ verdict = "None"
    /\ verdict' = Verdict(prepared)
    /\ UNCHANGED <<session, prover, verifier, step, drawn, made, received, prepared, batch>>

(* The equation in a batch with another one, before or after it. *)
CallVerifyBatch ==
    /\ verdict # "None"
    /\ received.proof = made.proof
    /\ batch = NotCalled
    /\ \E other \in Companions, pair \in Coefficients :
        \E equations \in {<<prepared, other>>, <<other, prepared>>} :
            batch' = [kind |-> VerifyBatch(equations, pair), other |-> Verdict(other)]
    /\ UNCHANGED <<session, prover, verifier, step, drawn, made, received, prepared, verdict>>

Next ==
    \/ ProverStep \/ CallProve \/ Receive
    \/ VerifierStep \/ CallVerificationEquation \/ CallVerify \/ CallVerifyBatch

Spec == Init /\ [][Next]_vars

(* Preparing the equation of a whole session with an intact proof. *)
PreparedFrom(s, c) ==
    LET p == FoldLeft(LAMBDA q, instr : ProverRun(q, instr, s.inputs, s.public.prover, 0),
                      NewProver, s.circuit)
        v == FoldLeft(LAMBDA q, instr : VerifierRun(q, instr, Commitments(p), s.public.verifier, 0),
                      NewVerifier, s.circuit)
    IN  VerificationEquation(v, Commitments(p), s.public.verifier,
            Prove(p, s.inputs, s.public.prover, s.gens.prover, c).proof, s.gens.verifier, c)

-----------------------------------------------------------------------------
(***************************************************************************)
(* Properties.                                                             *)
(***************************************************************************)
FinalProver == ProverCreateRandomized(prover, session.inputs, session.public.prover, drawn.g)
FinalVerifier ==
    VerifierCreateRandomized(verifier, Commitments(prover), session.public.verifier, drawn.g)

(* Constraints up to the constants in them. *)
WithoutConstants(constraints) ==
    [q \in DOMAIN constraints |->
        [k \in DOMAIN constraints[q] |->
            IF constraints[q][k].kind = "One" THEN [constraints[q][k] EXCEPT !.coeff = 0]
            ELSE constraints[q][k]]]

(* Both sides give every variable the same place: the same gates,          *)
(* half-allocated ones included, and the same constraints, in both phases. *)
(* The only thing they may disagree about is a public constant.            *)
SidesAgree ==
    (made.kind = "Ok" /\ step.prover = step.verifier) =>
        /\ verifier.pending = prover.pending
        /\ verifier.num_vars = Len(prover.a_L)
        /\ FinalVerifier.num_vars = Len(FinalProver.a_L)
        /\ WithoutConstants(FinalVerifier.constraints) = WithoutConstants(FinalProver.constraints)

(* The verifier's constraints under the prover's assignment, weighted by powers of z. *)
Residual ==
    LET constraints == FinalVerifier.constraints
        exp_z == ExpIter(drawn.z, Len(constraints) + 1)
    IN  Sum([q \in DOMAIN constraints |-> Mul(exp_z[q + 1], Eval(FinalProver, constraints[q]))])

(* A proof that arrives as it was made is accepted when the assignment     *)
(* satisfies the verifier's constraints, and otherwise only if the         *)
(* challenge z happens to be a root of the weighted sum of the violated    *)
(* ones: for no gates, for gates completed later or never, for circuits    *)
(* padded to a power of two, for one phase and for two.  Generators that   *)
(* were enough to prove are enough to verify: both sides count the second  *)
(* phase and the padding before they compare.                              *)
ProofDecides ==
    (/\ verdict # "None" /\ received.proof = made.proof
     /\ session.gens.verifier.capacity >= session.gens.prover.capacity)
        => (verdict = "Ok" <=> Residual = 0)

(* Encoding loses nothing, although the version is guessed from the        *)
(* commitments: a proof whose callbacks added constraints but no gates     *)
(* looks like a proof of one phase and still decodes to itself.            *)
EncodingRoundTrips ==
    made.kind = "Ok" => FromBytes(ToBytes(made.proof)) = made

(* A proof that decodes to anything but the prover's is rejected. *)
ChangedProofsRejected ==
    (verdict = "Ok") => received.proof = made.proof

(* A batch with at most one bad equation is accepted exactly when both     *)
(* equations are good, whatever the coefficients, the order, the sizes of  *)
(* the circuits and the lengths of the generator lists.                    *)
BatchDecides ==
    (batch # NotCalled /\ "Ok" \in {verdict, batch.other})
        => (batch.kind = "Ok" <=> verdict = "Ok" /\ batch.other = "Ok")

(* Wire values as vectors of a power-of-two length. *)
Padded(values) ==
    [i \in 1..NextPowerOfTwo(Len(values)) |-> IF i <= Len(values) THEN values[i] ELSE 0]

ArgumentPoint == PMul(BasePoint, drawn.w)

(* The argument for a and b over factors g and h, with k rounds over the original bases. *)
ArgumentWith(k, a, b, g, h) ==
    CreateWith(k, ArgumentPoint, g, h,
               [i \in DOMAIN a |-> GPoint(i)], [i \in DOMAIN a |-> HPoint(i)], a, b, drawn.e)

(* Whether ipp is accepted for a value of the inner product of a and b. *)
ArgumentAccepts(ipp, product, a, b, g, h, G, H) ==
    VerifyArgument(ipp, g, h,
        Msm([i \in DOMAIN a |-> Mul(a[i], g[i])] \o [i \in DOMAIN b |-> Mul(b[i], h[i])]
                \o <<product>>, G \o H \o <<ArgumentPoint>>),
        ArgumentPoint, G, H, drawn.e)

AcceptedForItsProduct(ipp, a, b, g, h) ==
    \A product \in {Inner(a, b), Add(Inner(a, b), 1)} :
        ArgumentAccepts(ipp, product, a, b, g, h,
                        [i \in DOMAIN a |-> GPoint(i)], [i \in DOMAIN a |-> HPoint(i)])
            <=> product = Inner(a, b) /\ ~IdentityAmong(ipp.L_vec \o ipp.R_vec)

CollapsingChangesNothing(arguments) == \A k \in DOMAIN arguments : arguments[k] = arguments[1]

ArgumentFor(a, b, g, h) ==
    LET arguments == [k \in 1..Log2(Len(a)) + 1 |-> ArgumentWith(k - 1, a, b, g, h)]
    IN  CollapsingChangesNothing(arguments) /\ AcceptedForItsProduct(arguments[1], a, b, g, h)

(* The argument is accepted for the inner product of its vectors and for   *)
(* no other value, unless one of its messages is the identity.  Collapsing *)
(* the bases "does not affect transcript or proof bytes"                   *)
(* (inner_product_proof.rs): after any number of rounds it gives the same  *)
(* argument.                                                               *)
ArgumentDecides ==
    (made.kind = "Ok" /\ received = NotCalled) =>
        \A p \in {FinalProver} :
            LET n == NextPowerOfTwo(Len(p.a_L))
            IN  ArgumentFor(Padded(p.a_L), Padded(p.a_R),
                            ExpIter(drawn.y, n), Reverse(ExpIter(drawn.y, n)))
=============================================================================
