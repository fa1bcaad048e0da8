--------------------------- MODULE SecretSharing ----------------------------
(***************************************************************************)
(* A dealer shares a secret and somebody reconstructs it, using the        *)
(* algorithms of shamir.rs and feldman.rs the way the rest of the          *)
(* workspace calls them.  Shares arrive in any order and may arrive twice. *)
(***************************************************************************)
EXTENDS Shamir

CONSTANTS
    Indexes,        \* participant indexes, some of which may collide modulo P
    MaxThreshold,   \* bound on the polynomial's number of coefficients
    MaxCollected    \* bound on the number of shares handed to reconstruction

ASSUME SharingAssumption ==
    /\ Indexes \subseteq Nat \ {0} /\ IsFiniteSet(Indexes)
    /\ MaxThreshold \in Nat \ {0}
    /\ MaxCollected \in Nat

VARIABLES
    polynomial,     \* the dealer's coefficients
    shares,         \* what Polynomial::shares returned, << >> before the call
    collected,      \* the slice passed to reconstruct_secret
    result          \* its result, kind "None" before the call

vars == <<polynomial, shares, collected, result>>

NotCalled == [kind |-> "None", value |-> 0]

Threshold == Len(polynomial)

(* Polynomial::random_with_secret: every coefficient list of length 1..MaxThreshold. *)
Init ==
    /\ \E t \in 1..MaxThreshold : polynomial \in [1..t -> Scalars]
    /\ shares = << >>
    /\ collected = << >>
    /\ result = NotCalled

(* Polynomial::shares over the registry's index order, which has no duplicates *)
(* (ensure_unique_participants would refuse them).                              *)
Deal ==
    /\ shares = << >>
    /\ LET participants == InOrder(Indexes)
       IN  /\ ~HasDuplicates(participants)
           /\ shares' = [i \in DOMAIN participants |->
                           [participant |-> participants[i],
                            value |-> Evaluate(polynomial, participants[i])]]
    /\ UNCHANGED <<polynomial, collected, result>>

(* A share arrives, possibly one that arrived before. *)
Collect ==
    /\ result = NotCalled
    /\ Len(collected) < MaxCollected
    /\ \E i \in DOMAIN shares : collected' = Append(collected, shares[i])
    /\ UNCHANGED <<polynomial, shares, result>>

Reconstruct ==
    /\ shares # << >>
    /\ result = NotCalled
    /\ result' = ReconstructSecret(collected, Threshold)
    /\ UNCHANGED <<polynomial, shares, collected>>

Next == Deal \/ Collect \/ Reconstruct

Spec == Init /\ [][Next]_vars

-----------------------------------------------------------------------------
(* reconstruct_secret never returns a wrong secret: whatever shares were   *)
(* collected, in whatever order and however often, an Ok result is f(0).   *)
NeverWrongSecret == result.kind = "Ok" => result.value = polynomial[1]

ScalarsDistinct(s) ==
    \A i, j \in DOMAIN s :
        i # j => ToScalar(s[i].participant) # ToScalar(s[j].participant)

(* A threshold of shares at distinct points is always enough, and more     *)
(* than a threshold does not hurt.                                         *)
ThresholdSuffices ==
    (result # NotCalled /\ Len(collected) >= Threshold /\ ScalarsDistinct(collected))
        => result.kind = "Ok"

=============================================================================
