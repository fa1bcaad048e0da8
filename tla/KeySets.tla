------------------------------ MODULE KeySets -------------------------------
(***************************************************************************)
(* Public key sets on top of a sharing: validators hold the shares that    *)
(* SecretSharing deals, and PublicKeySet::new is called, as the            *)
(* application and the wire decoder call it, on public shares that         *)
(* somebody else sent: those of the sharing and of a sharing of zero, a    *)
(* few of them wrong, with a threshold that may not fit.                   *)
(***************************************************************************)
EXTENDS SecretSharing, Ehtdh1

CONSTANTS
    Validators,             \* the indexes with public shares, distinct modulo P
    ContextCoefficients,    \* coefficients of the zero sharing
    MaxWrong                \* bound on the public shares that are wrong

ASSUME KeySetsAssumption ==
    /\ Validators \subseteq Indexes
    /\ \A p, q \in Validators : ToScalar(p) = ToScalar(q) => p = q
    /\ ContextCoefficients \subseteq Scalars
    /\ MaxWrong \in Nat

VARIABLE keySet     \* [threshold, key, shares, result] of the call, NoCall before it

NoCall == [kind |-> "None"]

(* The public shares of the two polynomials, the ones in wrong shifted by the generator. *)
PublicShares(f, g, wrong) ==
    LET element(h, p, part) ==
            GAdd(MulGenerator(Evaluate(h, p)), IF <<p, part>> \in wrong THEN Gen ELSE Identity)
    IN  [p \in Validators |-> [decryption |-> element(f, p, "decryption"),
                               context |-> element(g, p, "context")]]

CallNew ==
    /\ shares # << >> /\ collected = << >> /\ result = NotCalled
    /\ keySet = NoCall
    /\ \E threshold \in {0, Threshold, Cardinality(Validators) + 1},
          rest \in [1..(Threshold - 1) -> ContextCoefficients],
          wrong \in UNION {kSubset(k, Validators \X {"decryption", "context"}) : k \in 0..MaxWrong} :
        LET key == MulGenerator(polynomial[1])
            public == PublicShares(polynomial, <<0>> \o rest, wrong)
        IN  keySet' = [kind |-> "Called", threshold |-> threshold, key |-> key, shares |-> public,
                       result |-> NewPublicKeySet(threshold, key, public).kind]
    /\ UNCHANGED vars

KeySetsInit == Init /\ keySet = NoCall

KeySetsNext == (keySet = NoCall /\ Next /\ UNCHANGED keySet) \/ CallNew

KeySetsSpec == KeySetsInit /\ [][KeySetsNext]_<<vars, keySet>>

-----------------------------------------------------------------------------
Polynomials == [1..keySet.threshold -> Scalars]

(* The arguments are shares of polynomials with the key and zero as constants. *)
WellFormed ==
    LET sharing(constant, part) ==
            \E f \in Polynomials :
                /\ MulGenerator(f[1]) = constant
                /\ \A p \in Validators :
                    keySet.shares[p][part] = MulGenerator(Evaluate(f, p))
    IN  /\ keySet.threshold \in 1..Cardinality(Validators)
        /\ keySet.key # Identity
        /\ sharing(keySet.key, "decryption")
        /\ sharing(Identity, "context")

(* A key set is accepted exactly when it is a sharing of its key and of    *)
(* zero: whichever quorum a combiner ends up with opens with the same key, *)
(* although only the first threshold shares are interpolated to zero, and  *)
(* no sharing is refused, also when everybody is needed to decrypt.        *)
SharingsExactlyAccepted ==
    keySet # NoCall => (keySet.result = "Ok" <=> WellFormed)
=============================================================================
