------------------------------ MODULE IdealDkg ------------------------------
(***************************************************************************)
(* What a distributed key generation promises, with no messages, proofs or *)
(* dealers.  Behind every transcript root there is one secret polynomial   *)
(* that nobody holds: its value at zero is the secret key.  A party that   *)
(* finishes gets its own evaluation of the polynomial and, in the          *)
(* exponent, the value at zero and everybody's evaluations.                *)
(***************************************************************************)
EXTENDS Shamir

CONSTANTS
    IdealParties,   \* parties that may finish
    None            \* the output of a party that has not finished

VARIABLES
    setup,          \* each party's threshold and the indexes it computes shares for
    output          \* each party's output

Init ==
    /\ setup \in [IdealParties -> [threshold : Nat \ {0}, receivers : SUBSET Nat]]
    /\ output = [p \in IdealParties |-> None]

(* p's output when its transcript root stands for this polynomial. *)
OutputOf(p, polynomial, root) ==
    [public_key |-> MulGenerator(polynomial[1]),
     secret_share |-> [participant |-> p, value |-> Evaluate(polynomial, p)],
     public_key_shares |-> [q \in setup[p].receivers |-> MulGenerator(Evaluate(polynomial, q))],
     transcript_root |-> root]

(* One root, one polynomial. *)
Consistent(p, polynomial, root) ==
    \A q \in IdealParties :
        output[q] # None /\ output[q].transcript_root = root =>
            /\ setup[q] = setup[p]
            /\ output[q] = OutputOf(q, polynomial, root)

Finish(p) ==
    /\ output[p] = None
    /\ output'[p] # None
    /\ \E polynomial \in [1..setup[p].threshold -> Scalars] :
        LET root == output'[p].transcript_root
        IN  /\ output' = [output EXCEPT ![p] = OutputOf(p, polynomial, root)]
            /\ Consistent(p, polynomial, root)
    /\ UNCHANGED setup

Next == \E p \in IdealParties : Finish(p)

Spec == Init /\ [][Next]_<<setup, output>>
=============================================================================
