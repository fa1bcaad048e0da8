---------------------------- MODULE IdentityKeys ----------------------------
(***************************************************************************)
(* IdentityKeyProof of golden-core's identity_key.rs, and the loop of      *)
(* ParticipantRegistry::new over the entries it is given.  Pure: module    *)
(* Registry runs the loop step by step, module Wire on decoded entries.    *)
(***************************************************************************)
EXTENDS Shamir, Functions

CONSTANTS
    ProofNonce(_),          \* hash of the secret to a non-zero scalar
    ProofChallenge(_, _)    \* hash of the key and the nonce point to a scalar

ASSUME ProofAssumption ==
    /\ \A s \in Scalars : ProofNonce(s) \in Scalars \ {0}
    /\ \A k, n \in Scalars : ProofChallenge(k, n) \in Scalars

(***************************************************************************)
(* IdentityKeyProof.                                                       *)
(***************************************************************************)
Prove(secret) ==
    LET nonce == ProofNonce(secret)
        challenge == ProofChallenge(MulGenerator(secret), MulGenerator(nonce))
    IN  [nonce_point |-> MulGenerator(nonce), response |-> Add(nonce, Mul(challenge, secret))]

Verify(proof, publicKey) ==
    /\ proof.nonce_point # Identity
    /\ MulGenerator(proof.response) =
         GAdd(proof.nonce_point, GMul(publicKey, ProofChallenge(publicKey, proof.nonce_point)))

(***************************************************************************)
(* ParticipantRegistry::new.  A registry maps indexes to keys and proofs.  *)
(***************************************************************************)
Outcome(kind, first, second) == [kind |-> kind, first |-> first, second |-> second]
Running == Outcome("Running", 0, 0)

(* Holders of a key among the participants so far. *)
Holders(key, registry) == {p \in DOMAIN registry : registry[p].public_key = key}

(* Mutant: negated keys are not refused. *)
Refusal_NoNegation(entry, registry) ==
    LET p == entry.participant
        key == entry.public_key
        known == Holders(key, registry)
    IN  IF p \in DOMAIN registry THEN Outcome("DuplicateParticipantIndex", p, p)
        ELSE IF key = Identity THEN Outcome("InvalidEncoding", 0, 0)
        ELSE IF known # {}
             THEN Outcome("DuplicateParticipantPublicKey", CHOOSE q \in known : TRUE, p)
        ELSE IF ~Verify(entry.proof, key) THEN Outcome("InvalidIdentityKeyProof", p, p)
        ELSE Running

(* The checks of one iteration, in order; Running when the entry is taken.  *)
(* At most one participant holds a key, so CHOOSE finds the first one.      *)
Refusal(entry, registry) ==
    LET p == entry.participant
        key == entry.public_key
        known == Holders(key, registry)
        negated == Holders(GSub(Identity, key), registry)
    IN  IF p \in DOMAIN registry THEN Outcome("DuplicateParticipantIndex", p, p)
        ELSE IF key = Identity THEN Outcome("InvalidEncoding", 0, 0)
        ELSE IF known # {}
             THEN Outcome("DuplicateParticipantPublicKey", CHOOSE q \in known : TRUE, p)
        ELSE IF negated # {}
             THEN Outcome("NegatedParticipantPublicKey", CHOOSE q \in negated : TRUE, p)
        ELSE IF ~Verify(entry.proof, key) THEN Outcome("InvalidIdentityKeyProof", p, p)
        ELSE Running

(* BTreeMap::insert. *)
Inserted(registry, p, value) ==
    [q \in DOMAIN registry \cup {p} |-> IF q = p THEN value ELSE registry[q]]

(* One iteration, on [result, registry]. *)
TakeEntry(taken, entry) ==
    LET refused == Refusal(entry, taken.registry)
    IN  IF taken.result # Running THEN taken
        ELSE IF refused # Running THEN [result |-> refused, registry |-> taken.registry]
        ELSE [result |-> Running,
              registry |-> Inserted(taken.registry, entry.participant,
                                    [public_key |-> entry.public_key, proof |-> entry.proof])]

NewRegistry(entries) ==
    FoldLeft(TakeEntry, [result |-> Running, registry |-> << >>], entries)

(* DkgConfig::new. *)
ConfigFits(threshold, registry) == threshold \in 1..Cardinality(DOMAIN registry)
=============================================================================
