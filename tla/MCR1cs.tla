------------------------------- MODULE MCR1cs -------------------------------
(* Small circuits over the field of 97 elements. *)
EXTENDS R1csSession

(* Draws of the rng, none of them zero. *)
MCRandom(k) == 1 + ((7 * k * k + 5 * k + 3) % (P - 1))

V(i, c) == Term("V", i, c)
L(i, c) == Term("L", i, c)
R(i, c) == Term("R", i, c)
O(i, c) == Term("O", i, c)
Public(c) == Term("Public", 0, c)

CommitTo(k) == [op |-> "commit", input |-> k]
Allocate(k) == [op |-> "allocate", input |-> k]
AllocateMultiplier(j, k) == [op |-> "allocate_multiplier", left |-> j, right |-> k]
Multiply(left, right) == [op |-> "multiply", left |-> left, right |-> right]
Constrain(lc) == [op |-> "constrain", lc |-> lc]
ConstrainScaled(lc) == [op |-> "constrain_scaled", lc |-> lc]
Randomized(callback) == [op |-> "specify_randomized_constraints", callback |-> callback]
Failing == [op |-> "fail"]

Circuits ==
    { << >>,
      \* no gates, and a gate that is never completed
      <<CommitTo(1), Constrain(<<V(1, 2), Public(Neg(1))>>)>>,
      <<CommitTo(1), Allocate(1), Constrain(<<V(1, 1), L(1, Neg(1)), Public(1)>>)>>,
      \* a gate completed after another one was allocated
      <<Allocate(1), AllocateMultiplier(1, 2), Allocate(2),
        Constrain(<<O(1, 1), O(2, Neg(1))>>), Constrain(<<R(1, 1), Public(Neg(1))>>)>>,
      \* three gates, padded to four
      <<CommitTo(2), AllocateMultiplier(1, 2), Multiply(<<O(1, 3), V(1, 1)>>, <<L(1, 1), Public(2)>>),
        Multiply(<<O(2, 1)>>, <<R(2, 5)>>), Constrain(<<L(3, 1), O(2, Neg(1))>>)>>,
      \* constraints in the second phase, but no gates
      <<CommitTo(1), CommitTo(2), Allocate(1), Allocate(2),
        Randomized(<<ConstrainScaled(<<V(1, 1), L(1, Neg(1)), Public(1)>>)>>)>>,
      \* gates in the second phase only, from two callbacks
      <<CommitTo(1), Randomized(<<Multiply(<<V(1, 1)>>, <<V(1, 1), Public(1)>>)>>),
        Randomized(<<ConstrainScaled(<<O(1, 1), L(1, Neg(2)), Public(1)>>)>>)>>,
      \* a gate left open by the first phase, another one opened by the second
      <<CommitTo(2), Allocate(2), Randomized(<<Allocate(1), ConstrainScaled(<<V(1, 1), L(1, Neg(1))>>),
                                             Constrain(<<R(1, 1), Public(1)>>)>>)>>,
      \* two gates and one more, padded to four
      <<AllocateMultiplier(1, 2), AllocateMultiplier(2, 2),
        Randomized(<<Multiply(<<O(1, 1), Public(1)>>, <<R(2, 1)>>),
                     ConstrainScaled(<<O(3, 1), O(2, Neg(1))>>)>>)>>,
      \* a callback that fails, and values the prover does not have
      <<CommitTo(1), Randomized(<<Allocate(1), Failing>>)>>,
      <<Allocate(0), CommitTo(1)>>,
      <<CommitTo(1), Randomized(<<AllocateMultiplier(1, 0), ConstrainScaled(<<O(1, 1)>>)>>)>> }

MCSessions ==
    {[circuit |-> circuit, inputs |-> inputs, public |-> public, gens |-> gens] :
        circuit \in Circuits, inputs \in [1..2 -> {0, 2}],
        public \in {[prover |-> 0, verifier |-> 0], [prover |-> 4, verifier |-> 0]},
        gens \in {[prover |-> Gens(4, 4), verifier |-> Gens(4, 4)],
                  [prover |-> Gens(3, 4), verifier |-> Gens(3, 4)],
                  [prover |-> Gens(1, 4), verifier |-> Gens(2, 4)],
                  [prover |-> Gens(2, 2), verifier |-> Gens(1, 1)]}}

First == [g |-> <<11, 23>>, y |-> 5, z |-> 7, u |-> 13, x |-> 3, w |-> 29, e |-> <<17, 31>>]
Second == [g |-> <<41, 2>>, y |-> 19, z |-> 43, u |-> 53, x |-> 61, w |-> 8, e |-> <<37, 71>>]
MCChallenges == {First, Second}

(* A good session of four gates, a good one without gates and a bad one of one gate. *)
OfSize(circuit, public, gens) ==
    PreparedFrom([circuit |-> circuit, inputs |-> <<2, 2>>, public |-> public,
                  gens |-> [prover |-> gens, verifier |-> gens]], Second)

MCCompanions ==
    {OfSize(<<AllocateMultiplier(1, 2), AllocateMultiplier(1, 1), AllocateMultiplier(2, 2),
              Constrain(<<O(1, 1), O(3, Neg(1))>>)>>,
            [prover |-> 0, verifier |-> 0], Gens(4, 4)),
     OfSize(<< >>, [prover |-> 0, verifier |-> 0], Gens(1, 1)),
     OfSize(<<CommitTo(1), Allocate(1), Constrain(<<V(1, 1), L(1, Neg(1)), Public(1)>>)>>,
            [prover |-> 0, verifier |-> 5], Gens(2, 3))}

MCCoefficients == {<<1, 1>>, <<6, 35>>}
=============================================================================
