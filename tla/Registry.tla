------------------------------ MODULE Registry ------------------------------
(***************************************************************************)
(* ParticipantRegistry::new and DkgConfig::new of golden-core: a list of   *)
(* (index, identity public key, proof) entries, put together from what the *)
(* participants announced, becomes a configuration or is refused.  One     *)
(* step per iteration of the loop over the entries.                        *)
(***************************************************************************)
EXTENDS IdentityKeys

CONSTANTS
    Indexes,                \* participant indexes
    Thresholds,             \* thresholds asked for, including unfit ones
    MaxEntries              \* bound on the length of the list

ASSUME RegistryAssumption ==
    /\ Indexes \subseteq Nat \ {0}
    /\ Thresholds \subseteq Nat
    /\ MaxEntries \in Nat

(***************************************************************************)
(* What can be announced: a key with the proof of its own secret or of the *)
(* secret 1, the identity, and a proof with the identity as nonce point    *)
(* (which verifies nothing about a key).                                   *)
(***************************************************************************)
Announcements ==
    UNION {[participant : Indexes, public_key : {MulGenerator(s)},
            proof : {Prove(s), Prove(1), [nonce_point |-> Identity, response |-> 0]}] :
           s \in Scalars}

VARIABLES
    entries,        \* the argument of ParticipantRegistry::new
    threshold,      \* the argument of DkgConfig::new
    next,           \* the loop's position in entries
    participants,   \* the map built so far
    result          \* "Running", "Ok" or the error, with the indexes it carries

vars == <<entries, threshold, next, participants, result>>

Init ==
    /\ \E n \in 0..MaxEntries : entries \in [1..n -> Announcements]
    /\ threshold \in Thresholds
    /\ next = 1
    /\ participants = << >>
    /\ result = Running

AddEntry ==
    LET taken == TakeEntry([result |-> result, registry |-> participants], entries[next])
    IN  /\ result = Running
        /\ next <= Len(entries)
        /\ result' = taken.result
        /\ participants' = taken.registry
        /\ next' = next + 1
        /\ UNCHANGED <<entries, threshold>>

(* Mutant: a threshold of everybody is refused. *)
Configure_NotEverybody ==
    /\ result = Running
    /\ next > Len(entries)
    /\ result' = IF threshold = 0 \/ threshold >= Cardinality(DOMAIN participants)
                 THEN Outcome("InvalidThreshold", 0, 0)
                 ELSE Outcome("Ok", 0, 0)
    /\ UNCHANGED <<entries, threshold, next, participants>>

(* The loop is over; DkgConfig::new checks the threshold. *)
Configure ==
    /\ result = Running
    /\ next > Len(entries)
    /\ result' = IF ConfigFits(threshold, participants)
                 THEN Outcome("Ok", 0, 0)
                 ELSE Outcome("InvalidThreshold", 0, 0)
    /\ UNCHANGED <<entries, threshold, next, participants>>

Next == AddEntry \/ Configure

Spec == Init /\ [][Next]_vars

-----------------------------------------------------------------------------
(* The x-coordinate of an element: it does not tell an element from its negation. *)
XCoordinate(e) == {e, GSub(Identity, e)}

(* Pads are derived from the x-coordinate of the Diffie-Hellman point.  In *)
(* an accepted configuration no two participants share it with anybody,    *)
(* so no two receivers of a dealer get related pads.                       *)
PadsAreUnrelated ==
    result.kind = "Ok" =>
        \A p, q \in DOMAIN participants : \A secret \in Scalars \ {0} :
            XCoordinate(GMul(participants[p].public_key, secret)) =
            XCoordinate(GMul(participants[q].public_key, secret)) => p = q

Good(i) == entries[i].public_key # Identity /\ Verify(entries[i].proof, entries[i].public_key)

Compatible(i, j) ==
    /\ entries[i].participant # entries[j].participant
    /\ XCoordinate(entries[i].public_key) # XCoordinate(entries[j].public_key)

(* Acceptance does not depend on the order of the entries, although every  *)
(* entry is compared only with the ones before it, and an accepted         *)
(* configuration leaves no entry out.                                      *)
OrderDoesNotMatter ==
    result # Running =>
        (result.kind = "Ok" <=>
            /\ \A i \in DOMAIN entries : Good(i)
            /\ \A i, j \in DOMAIN entries : i # j => Compatible(i, j)
            /\ threshold \in 1..Len(entries))
=============================================================================
