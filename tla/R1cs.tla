-------------------------------- MODULE R1cs --------------------------------
(***************************************************************************)
(* The rank-1 constraint system of bulletproofs-cycle (r1cs/*.rs): circuit *)
(* building on both sides, proving, the proof's encoding, the verification *)
(* equation and batches of equations.                                      *)
(*                                                                         *)
(* A linear combination is a sequence of terms [kind, i, coeff].  kind is  *)
(* "V" (committed), "L", "R", "O" (left, right and output wire of gate i)  *)
(* or "One".  In a circuit a term of kind "Public" stands for a constant   *)
(* each side fills in for itself: its own idea of the public input.        *)
(***************************************************************************)
EXTENDS InnerProduct

CONSTANT
    Random(_)       \* the rng: its k-th draw, never zero

Term(kind, i, coeff) == [kind |-> kind, i |-> i, coeff |-> coeff]
Fail(kind) == [kind |-> kind]

(* LinearCombination * scalar *)
Scaled(lc, s) == [k \in DOMAIN lc |-> [lc[k] EXCEPT !.coeff = Mul(@, s)]]

Resolved(lc, public) ==
    [k \in DOMAIN lc |->
        IF lc[k].kind = "Public" THEN Term("One", 0, Mul(lc[k].coeff, public)) ELSE lc[k]]

(* What a circuit is made of; a callback draws a challenge and cannot ask  *)
(* for another callback.                                                   *)
Terms == [kind : {"V", "L", "R", "O", "One", "Public"}, i : Nat, coeff : Scalars]

Calls ==
    [op : {"commit", "allocate"}, input : Nat]
    \cup [op : {"allocate_multiplier"}, left : Nat, right : Nat]
    \cup [op : {"multiply"}, left : Seq(Terms), right : Seq(Terms)]
    \cup [op : {"constrain", "constrain_scaled"}, lc : Seq(Terms)]
    \cup [op : {"fail"}]

Instructions == Calls \cup [op : {"specify_randomized_constraints"}, callback : Seq(Calls)]

(***************************************************************************)
(* The prover's constraint system.                                         *)
(***************************************************************************)
NoPending == 0

NewProver == [a_L |-> << >>, a_R |-> << >>, a_O |-> << >>, v |-> << >>, v_blinding |-> << >>,
              constraints |-> << >>, deferred |-> << >>, pending |-> NoPending, err |-> "None"]

(* eval: a linear combination under the prover's assignment. *)
Eval(p, lc) ==
    Sum([k \in DOMAIN lc |->
        Mul(lc[k].coeff, CASE lc[k].kind = "L" -> p.a_L[lc[k].i]
                           [] lc[k].kind = "R" -> p.a_R[lc[k].i]
                           [] lc[k].kind = "O" -> p.a_O[lc[k].i]
                           [] lc[k].kind = "V" -> p.v[lc[k].i]
                           [] lc[k].kind = "One" -> 1)])

Gate(p, l, r) ==
    [p EXCEPT !.a_L = Append(@, l), !.a_R = Append(@, r), !.a_O = Append(@, Mul(l, r))]

ProverMultiply(p, left, right) ==
    LET i == Len(p.a_L) + 1
    IN  [Gate(p, Eval(p, left), Eval(p, right)) EXCEPT
            !.constraints = @ \o <<Append(left, Term("L", i, Neg(1))),
                                   Append(right, Term("R", i, Neg(1)))>>]

(* Mutant: the output wire of a gate completed later is not computed. *)
ProverAllocate_StaleOutput(p, scalar) ==
    IF p.pending = NoPending
    THEN [p EXCEPT !.pending = Len(p.a_L) + 1, !.a_L = Append(@, scalar),
                   !.a_R = Append(@, 0), !.a_O = Append(@, 0)]
    ELSE [p EXCEPT !.pending = NoPending, !.a_R[p.pending] = scalar]

ProverAllocate(p, scalar) ==
    IF p.pending = NoPending
    THEN [p EXCEPT !.pending = Len(p.a_L) + 1, !.a_L = Append(@, scalar),
                   !.a_R = Append(@, 0), !.a_O = Append(@, 0)]
    ELSE [p EXCEPT !.pending = NoPending, !.a_R[p.pending] = scalar,
                   !.a_O[p.pending] = Mul(p.a_L[p.pending], scalar)]

ProverConstrain(p, lc) == [p EXCEPT !.constraints = Append(@, lc)]

ProverCommit(p, v, blinding) ==
    [p EXCEPT !.v = Append(@, v), !.v_blinding = Append(@, blinding)]

(* One instruction of a circuit.  Input 0 is an assignment the caller does *)
(* not have (None); a callback may draw one challenge and may fail.        *)
ProverRun(p, instr, inputs, public, challenge) ==
    IF p.err # "None" THEN p
    ELSE CASE instr.op = "commit" -> ProverCommit(p, inputs[instr.input], Random(100 + Len(p.v)))
         [] instr.op = "allocate" ->
               IF instr.input = 0 THEN [p EXCEPT !.err = "MissingAssignment"]
               ELSE ProverAllocate(p, inputs[instr.input])
         [] instr.op = "allocate_multiplier" ->
               IF 0 \in {instr.left, instr.right} THEN [p EXCEPT !.err = "MissingAssignment"]
               ELSE Gate(p, inputs[instr.left], inputs[instr.right])
         [] instr.op = "multiply" ->
               ProverMultiply(p, Resolved(instr.left, public), Resolved(instr.right, public))
         [] instr.op = "constrain" -> ProverConstrain(p, Resolved(instr.lc, public))
         [] instr.op = "constrain_scaled" ->
               ProverConstrain(p, Scaled(Resolved(instr.lc, public), challenge))
         [] instr.op = "fail" -> [p EXCEPT !.err = "GadgetError"]
         [] instr.op = "specify_randomized_constraints" ->
               [p EXCEPT !.deferred = Append(@, instr.callback)]

ProverCallback(p, callback, inputs, public, challenge) ==
    LET run[n \in 0..Len(callback)] ==
            IF n = 0 THEN p ELSE ProverRun(run[n - 1], callback[n], inputs, public, challenge)
    IN  run[Len(callback)]

(* create_randomized_constraints: the half-allocated gate stays, nobody can *)
(* complete it any more, and the callbacks run in the order they were given. *)
ProverCreateRandomized(p, inputs, public, challenges) ==
    LET run[n \in 0..Len(p.deferred)] ==
            IF n = 0 THEN [p EXCEPT !.pending = NoPending, !.deferred = << >>]
            ELSE ProverCallback(run[n - 1], p.deferred[n], inputs, public, challenges[n])
    IN  run[Len(p.deferred)]

(***************************************************************************)
(* The verifier's constraint system: no assignment, only counts.           *)
(***************************************************************************)
NewVerifier == [num_vars |-> 0, V |-> << >>, constraints |-> << >>, deferred |-> << >>,
                pending |-> NoPending, err |-> "None"]

VerifierMultiply(v, left, right) ==
    LET i == v.num_vars + 1
    IN  [v EXCEPT !.num_vars = i,
                  !.constraints = @ \o <<Append(left, Term("L", i, Neg(1))),
                                         Append(right, Term("R", i, Neg(1)))>>]

(* Mutant: every allocated variable takes a gate of its own. *)
VerifierAllocate_NoSharing(v) ==
    [v EXCEPT !.pending = NoPending, !.num_vars = @ + 1]

VerifierAllocate(v) ==
    IF v.pending = NoPending
    THEN [v EXCEPT !.pending = v.num_vars + 1, !.num_vars = @ + 1]
    ELSE [v EXCEPT !.pending = NoPending]

VerifierCommit(v, commitment) == [v EXCEPT !.V = Append(@, commitment)]

VerifierRun(v, instr, commitments, public, challenge) ==
    IF v.err # "None" THEN v
    ELSE CASE instr.op = "commit" -> VerifierCommit(v, commitments[Len(v.V) + 1])
         [] instr.op = "allocate" -> VerifierAllocate(v)
         [] instr.op = "allocate_multiplier" -> [v EXCEPT !.num_vars = @ + 1]
         [] instr.op = "multiply" ->
               VerifierMultiply(v, Resolved(instr.left, public), Resolved(instr.right, public))
         [] instr.op = "constrain" ->
               [v EXCEPT !.constraints = Append(@, Resolved(instr.lc, public))]
         [] instr.op = "constrain_scaled" ->
               [v EXCEPT !.constraints = Append(@, Scaled(Resolved(instr.lc, public), challenge))]
         [] instr.op = "fail" -> [v EXCEPT !.err = "GadgetError"]
         [] instr.op = "specify_randomized_constraints" ->
               [v EXCEPT !.deferred = Append(@, instr.callback)]

VerifierCallback(v, callback, commitments, public, challenge) ==
    LET run[n \in 0..Len(callback)] ==
            IF n = 0 THEN v
            ELSE VerifierRun(run[n - 1], callback[n], commitments, public, challenge)
    IN  run[Len(callback)]

(* Mutant: a gate half allocated in the first phase is completed in the second. *)
VerifierCreateRandomized_KeepsPending(v, commitments, public, challenges) ==
    LET run[n \in 0..Len(v.deferred)] ==
            IF n = 0 THEN [v EXCEPT !.deferred = << >>]
            ELSE VerifierCallback(run[n - 1], v.deferred[n], commitments, public, challenges[n])
    IN  run[Len(v.deferred)]

VerifierCreateRandomized(v, commitments, public, challenges) ==
    LET run[n \in 0..Len(v.deferred)] ==
            IF n = 0 THEN [v EXCEPT !.pending = NoPending, !.deferred = << >>]
            ELSE VerifierCallback(run[n - 1], v.deferred[n], commitments, public, challenges[n])
    IN  run[Len(v.deferred)]

(***************************************************************************)
(* flattened_constraints: the weight of a wire is the sum of its           *)
(* coefficients, the q-th constraint's scaled by the q-th power of z.      *)
(***************************************************************************)
Weight(constraints, z, kind, i) ==
    LET exp_z == ExpIter(z, Len(constraints) + 1)
    IN  Sum([q \in DOMAIN constraints |->
            Mul(exp_z[q + 1],
                Sum([k \in DOMAIN constraints[q] |->
                        LET term == constraints[q][k]
                        IN  IF term.kind = kind /\ term.i = i THEN term.coeff ELSE 0]))])

(* Mutant: the committed variables have the sign of the wires. *)
FlattenedConstraints_SignOfV(constraints, n, m, z) ==
    [w_L |-> [i \in 1..n |-> Weight(constraints, z, "L", i)],
     w_R |-> [i \in 1..n |-> Weight(constraints, z, "R", i)],
     w_O |-> [i \in 1..n |-> Weight(constraints, z, "O", i)],
     w_V |-> [i \in 1..m |-> Weight(constraints, z, "V", i)],
     w_c |-> Neg(Weight(constraints, z, "One", 0))]

FlattenedConstraints(constraints, n, m, z) ==
    [w_L |-> [i \in 1..n |-> Weight(constraints, z, "L", i)],
     w_R |-> [i \in 1..n |-> Weight(constraints, z, "R", i)],
     w_O |-> [i \in 1..n |-> Weight(constraints, z, "O", i)],
     w_V |-> [i \in 1..m |-> Neg(Weight(constraints, z, "V", i))],
     w_c |-> Neg(Weight(constraints, z, "One", 0))]
=============================================================================
