--------------------------- MODULE RegistryProofs ---------------------------
(***************************************************************************)
(* Which lists of entries ParticipantRegistry::new and DkgConfig::new      *)
(* accept, for every group, list of announcements and threshold.           *)
(***************************************************************************)
EXTENDS Registry, ShamirProofs

(***************************************************************************)
(* Elements with one x-coordinate.                                         *)
(***************************************************************************)
(* Negation is its own inverse. *)
LEMMA Negation ==
    ASSUME NEW a \in Scalars
    PROVE  GSub(Identity, a) \in Scalars /\ GSub(Identity, GSub(Identity, a)) = a
<1>1. a \in Int /\ 0 - a \in Int /\ 0 \in Int /\ a % P = a
    BY ScalarRemainder
<1>2. (0 - ((0 - a) % P)) % P = (0 - (0 - a)) % P
    BY <1>1, RemainderOfSum
<1>3. (0 - a) % P \in Scalars /\ 0 - (0 - a) = a
    BY <1>1, Remainder
<1>4. QED
    BY <1>1, <1>2, <1>3 DEF GSub, Identity

(* Only an element and its negation have the same x-coordinate. *)
LEMMA SameXCoordinate ==
    ASSUME NEW a \in Scalars, NEW b \in Scalars
    PROVE  XCoordinate(a) = XCoordinate(b) <=> a = b \/ b = GSub(Identity, a)
<1>1. GSub(Identity, GSub(Identity, a)) = a /\ GSub(Identity, GSub(Identity, b)) = b
    BY Negation
<1>2. QED
    BY <1>1 DEF XCoordinate

(* A Diffie-Hellman secret keeps x-coordinates apart. *)
LEMMA XCoordinateScaled ==
    ASSUME NEW a \in Scalars, NEW b \in Scalars, NEW s \in Scalars, s # 0,
           XCoordinate(GMul(a, s)) = XCoordinate(GMul(b, s))
    PROVE  XCoordinate(a) = XCoordinate(b)
<1>1. PICK na \in Scalars : na = GSub(Identity, a)
    BY Negation
<1>2. GMul(a, s) = Mul(a, s) /\ GMul(b, s) = Mul(b, s)
      /\ Mul(a, s) \in Scalars /\ Mul(b, s) \in Scalars
    BY MulLaws DEF GMul, Mul
<1>3. Mul(b, s) = Mul(a, s) \/ Mul(b, s) = GSub(Identity, Mul(a, s))
    BY <1>2, SameXCoordinate
<1>4. GSub(Identity, Mul(a, s)) = Mul(na, s)
    <2>1. a \in Int /\ s \in Int /\ 0 \in Int
        BY ScalarRemainder
    <2>2. PICK u \in Int : u = s * a
        BY <2>1
    <2>3. Mul(Sub(0, a), s) = ((s * 0) - (s * a)) % P
        BY <2>1, ProductForms
    <2>4. s * 0 = 0 /\ a * s = u
        BY <2>1, <2>2
    <2>5. (0 - (u % P)) % P = (0 - u) % P
        BY <2>1, <2>2, RemainderOfSum
    <2>6. na = Sub(0, a)
        BY <1>1 DEF GSub, Sub, Identity
    <2>7. Mul(a, s) = u % P
        BY <2>4 DEF Mul
    <2>8. QED
        BY <2>2, <2>3, <2>4, <2>5, <2>6, <2>7 DEF GSub, Identity
<1>5. b = a \/ b = na
    BY <1>3, <1>4, Cancel
<1>6. QED
    BY <1>1, <1>5, SameXCoordinate

(***************************************************************************)
(* The inductive invariant.                                                *)
(***************************************************************************)
(* The arguments: announcements, and the loop's place among them. *)
Listed ==
    /\ \E n \in 0..MaxEntries : entries \in [1..n -> Announcements]
    /\ next \in 1..(Len(entries) + 1)

(* The first k entries are good, fit together and are the map. *)
Taken(k) ==
    /\ \A i \in 1..k : Good(i)
    /\ \A i, j \in 1..k : i # j => Compatible(i, j)
    /\ DOMAIN participants = {entries[i].participant : i \in 1..k}
    /\ \A i \in 1..k : participants[entries[i].participant].public_key = entries[i].public_key

(* Some entry is not good, or two do not fit together. *)
Unfit ==
    \/ \E i \in DOMAIN entries : ~Good(i)
    \/ \E i, j \in DOMAIN entries : i # j /\ ~Compatible(i, j)

(* What each result says about the entries. *)
Judged ==
    \/ result = Running /\ Taken(next - 1)
    \/ /\ result.kind \in {"Ok", "InvalidThreshold"} /\ Taken(Len(entries))
       /\ result.kind = "Ok" <=> threshold \in 1..Len(entries)
    \/ result.kind \notin {"Ok", "Running"} /\ Unfit

(* The inductive invariant. *)
RegistryInv == Listed /\ Judged

(* The fields of an announcement. *)
LEMMA AnnouncedFields ==
    ASSUME NEW e \in Announcements
    PROVE  e.participant \in Indexes /\ e.public_key \in Scalars
<1>1. PICK s \in Scalars :
        e \in [participant : Indexes, public_key : {MulGenerator(s)},
               proof : {Prove(s), Prove(1), [nonce_point |-> Identity, response |-> 0]}]
    BY DEF Announcements
<1>2. MulGenerator(s) \in Scalars
    <2>1. s \in Int
        BY ScalarsAreInts
    <2>2. QED
        BY <2>1, GeneratorHomomorphism
<1>3. QED
    BY <1>1, <1>2

(* The lengths and fields of the list. *)
LEMMA ListedEntries ==
    ASSUME Listed
    PROVE  /\ Len(entries) \in Nat /\ DOMAIN entries = 1..Len(entries)
           /\ \A i \in DOMAIN entries :
                entries[i].participant \in Indexes /\ entries[i].public_key \in Scalars
<1>1. PICK n \in 0..MaxEntries : entries \in [1..n -> Announcements]
    BY DEF Listed
<1>2. Len(entries) = n /\ DOMAIN entries = 1..n
    BY <1>1
<1>3. QED
    BY <1>1, <1>2, AnnouncedFields

(***************************************************************************)
(* One iteration of the loop.                                              *)
(***************************************************************************)
(* When the first entries are taken, a participant is in the map exactly   *)
(* when one of them is about it, and a key has a holder exactly when one   *)
(* of them announces it.                                                   *)
LEMMA TakenLookups ==
    ASSUME NEW k, Taken(k)
    PROVE  /\ \A p : p \in DOMAIN participants <=> \E i \in 1..k : entries[i].participant = p
           /\ \A key : Holders(key, participants) # {} <=> \E i \in 1..k : entries[i].public_key = key
<1>1. \A p : p \in DOMAIN participants <=> \E i \in 1..k : entries[i].participant = p
    BY DEF Taken
<1>2. ASSUME NEW key, NEW p \in Holders(key, participants)
      PROVE  \E i \in 1..k : entries[i].public_key = key
    BY <1>1 DEF Taken, Holders
<1>3. ASSUME NEW i \in 1..k PROVE Holders(entries[i].public_key, participants) # {}
    <2>1. entries[i].participant \in DOMAIN participants
        BY <1>1
    <2>2. participants[entries[i].participant].public_key = entries[i].public_key
        BY DEF Taken
    <2>3. QED
        BY <2>1, <2>2 DEF Holders
<1>4. QED
    BY <1>1, <1>2, <1>3

(* The error of each check, in the order of the checks. *)
LEMMA RefusalKinds ==
    ASSUME NEW entry, NEW registry
    PROVE  LET r == Refusal(entry, registry)
               here == entry.participant \in DOMAIN registry
               key == entry.public_key
               known == Holders(key, registry)
               negated == Holders(GSub(Identity, key), registry)
               proved == Verify(entry.proof, key)
           IN  /\ here => r.kind = "DuplicateParticipantIndex"
               /\ ~here /\ key = Identity => r.kind = "InvalidEncoding"
               /\ ~here /\ key # Identity /\ known # {} => r.kind = "DuplicateParticipantPublicKey"
               /\ ~here /\ key # Identity /\ known = {} /\ negated # {}
                    => r.kind = "NegatedParticipantPublicKey"
               /\ ~here /\ key # Identity /\ known = {} /\ negated = {} /\ ~proved
                    => r.kind = "InvalidIdentityKeyProof"
               /\ ~here /\ key # Identity /\ known = {} /\ negated = {} /\ proved => r = Running
    BY DEF Refusal, Outcome

(* An entry that the loop refuses is not good or does not fit an earlier   *)
(* one; an entry that it takes is good and fits all of them.               *)
LEMMA RefusalDecides ==
    ASSUME Listed, NEW k \in Nat, k < Len(entries), Taken(k)
    PROVE  /\ Refusal(entries[k + 1], participants).kind \notin {"Ok", "InvalidThreshold"}
           /\ Refusal(entries[k + 1], participants) # Running =>
                Unfit /\ Refusal(entries[k + 1], participants).kind # "Running"
           /\ Refusal(entries[k + 1], participants) = Running =>
                Good(k + 1) /\ \A i \in 1..k : Compatible(i, k + 1) /\ Compatible(k + 1, i)
<1> DEFINE n == k + 1
<1>1. PICK p, key, r : /\ p = entries[n].participant /\ key = entries[n].public_key
                       /\ r = Refusal(entries[n], participants)
    OBVIOUS
<1>2. n \in DOMAIN entries /\ \A i \in 1..k : i \in DOMAIN entries /\ i # n
    BY ListedEntries
<1>3. key \in Scalars /\ \A i \in 1..k : entries[i].public_key \in Scalars
    BY <1>1, <1>2, ListedEntries
<1>4. PICK negated \in Scalars : negated = GSub(Identity, key)
    BY <1>3, Negation
<1>5. ASSUME NEW i \in 1..k
      PROVE  Compatible(i, n) /\ Compatible(n, i) <=>
               /\ entries[i].participant # p
               /\ entries[i].public_key # key /\ entries[i].public_key # negated
    <2>1. XCoordinate(key) = XCoordinate(entries[i].public_key)
            <=> key = entries[i].public_key \/ entries[i].public_key = negated
        BY <1>3, <1>4, SameXCoordinate
    <2>2. QED
        BY <1>1, <2>1 DEF Compatible
<1> DEFINE Here == p \in DOMAIN participants
           Known == Holders(key, participants)
           Negated == Holders(negated, participants)
           Proved == Verify(entries[n].proof, key)
<1>6. /\ Here <=> \E i \in 1..k : entries[i].participant = p
      /\ Known # {} <=> \E i \in 1..k : entries[i].public_key = key
      /\ Negated # {} <=> \E i \in 1..k : entries[i].public_key = negated
    BY TakenLookups
<1>7. /\ Here => r.kind = "DuplicateParticipantIndex"
      /\ ~Here /\ key = Identity => r.kind = "InvalidEncoding"
      /\ ~Here /\ key # Identity /\ Known # {} => r.kind = "DuplicateParticipantPublicKey"
      /\ ~Here /\ key # Identity /\ Known = {} /\ Negated # {} => r.kind = "NegatedParticipantPublicKey"
      /\ ~Here /\ key # Identity /\ Known = {} /\ Negated = {} /\ ~Proved
           => r.kind = "InvalidIdentityKeyProof"
      /\ ~Here /\ key # Identity /\ Known = {} /\ Negated = {} /\ Proved => r = Running
    BY <1>1, <1>4, RefusalKinds
<1>8. Good(n) <=> key # Identity /\ Proved
    BY <1>1 DEF Good
<1>9. (\A i \in 1..k : Compatible(i, n) /\ Compatible(n, i)) <=> ~Here /\ Known = {} /\ Negated = {}
    <2> HIDE DEF Here, Known, Negated, n
    <2>1. QED
        BY <1>5, <1>6
<1>10. \/ Good(n) /\ \A i \in 1..k : Compatible(i, n) /\ Compatible(n, i)
       \/ Unfit
    BY <1>2 DEF Unfit
<1>11. CASE Good(n) /\ \A i \in 1..k : Compatible(i, n) /\ Compatible(n, i)
    <2>1. r = Running
        <3> HIDE DEF Here, Known, Negated, Proved, n
        <3>1. QED
            BY <1>7, <1>8, <1>9, <1>11
    <2>2. QED
        BY <1>1, <1>11, <2>1 DEF Running, Outcome
<1>12. CASE ~(Good(n) /\ \A i \in 1..k : Compatible(i, n) /\ Compatible(n, i))
    <2>1. Here \/ key = Identity \/ Known # {} \/ Negated # {} \/ ~Proved
        <3> HIDE DEF Here, Known, Negated, Proved, n
        <3>1. QED
            BY <1>8, <1>9, <1>12
    <2>2. r.kind \in {"DuplicateParticipantIndex", "InvalidEncoding",
                      "DuplicateParticipantPublicKey", "NegatedParticipantPublicKey",
                      "InvalidIdentityKeyProof"}
        <3> HIDE DEF Here, Known, Negated, Proved, n
        <3>1. QED
            BY <1>7, <2>1
    <2>3. r.kind \notin {"Ok", "InvalidThreshold", "Running"} /\ r # Running
        BY <2>2 DEF Running, Outcome
    <2>4. Unfit
        BY <1>10, <1>12
    <2>5. QED
        BY <1>1, <2>3, <2>4
<1>13. QED
    BY <1>11, <1>12

(* An entry that fits extends what is taken. *)
LEMMA TakenGrows ==
    ASSUME Listed, NEW k \in Nat, k < Len(entries), Taken(k), Good(k + 1),
           \A i \in 1..k : Compatible(i, k + 1) /\ Compatible(k + 1, i),
           NEW proof, entries' = entries,
           participants' = Inserted(participants, entries[k + 1].participant,
                              [public_key |-> entries[k + 1].public_key, proof |-> proof])
    PROVE  Taken(k + 1)'
<1> DEFINE n == k + 1
<1>1. \A i \in 1..n : i \in 1..k \/ i = n
    OBVIOUS
<1>2. \A i \in 1..n : Good(i)
    BY <1>1 DEF Taken
<1>3. \A i, j \in 1..n : i # j => Compatible(i, j)
    BY <1>1 DEF Taken
<1>4. PICK p : p = entries[n].participant
    OBVIOUS
<1>5. /\ DOMAIN participants' = DOMAIN participants \cup {p}
      /\ \A q \in DOMAIN participants : q # p => participants'[q] = participants[q]
      /\ participants'[p].public_key = entries[n].public_key
    BY <1>4 DEF Inserted
<1>6. DOMAIN participants' = {entries[i].participant : i \in 1..n}
    <2>1. DOMAIN participants = {entries[i].participant : i \in 1..k}
        BY DEF Taken
    <2>2. n \in 1..n /\ \A i \in 1..k : i \in 1..n
        OBVIOUS
    <2>3. QED
        BY <1>1, <1>4, <1>5, <2>1, <2>2
<1>7. ASSUME NEW i \in 1..n
      PROVE  participants'[entries[i].participant].public_key = entries[i].public_key
    <2>1. CASE i = n
        BY <1>4, <1>5, <2>1
    <2>2. CASE i \in 1..k
        <3>1. entries[i].participant # p /\ entries[i].participant \in DOMAIN participants
            BY <1>4, <2>2, TakenLookups DEF Compatible
        <3>2. QED
            BY <1>5, <2>2, <3>1 DEF Taken
    <2>3. QED
        BY <1>1, <2>1, <2>2
<1>8. QED
    BY <1>2, <1>3, <1>6, <1>7 DEF Taken, Good, Compatible

(***************************************************************************)
(* The whole list.                                                         *)
(***************************************************************************)
(* Entries taken have different participants: as many are in the map. *)
LEMMA AllTaken ==
    ASSUME Listed, Taken(Len(entries))
    PROVE  Cardinality(DOMAIN participants) = Len(entries)
<1>1. PICK n \in Nat : n = Len(entries)
    BY ListedEntries
<1> DEFINE f == [i \in 1..n |-> entries[i].participant]
           D == DOMAIN participants
<1>2. f \in [1..n -> D] /\ \A p \in D : \E i \in 1..n : f[i] = p
    BY <1>1, TakenLookups
<1>3. ASSUME NEW i \in 1..n, NEW j \in 1..n, f[i] = f[j] PROVE i = j
    BY <1>1, <1>3 DEF Taken, Compatible
<1>4. ExistsBijection(1..n, D)
    <2> HIDE DEF f, D
    <2>1. f \in Bijection(1..n, D)
        BY <1>2, <1>3 DEF Bijection, Injection, IsInjective, Surjection
    <2>2. QED
        BY <2>1 DEF ExistsBijection
<1>5. IsFiniteSet(1..n) /\ Cardinality(1..n) = n
    BY FS_Interval
<1>6. QED
    BY <1>1, <1>4, <1>5, FS_Bijection

(* No list is read before the loop starts. *)
LEMMA InitRegistryInv == Init => RegistryInv
<1> SUFFICES ASSUME Init PROVE RegistryInv
    OBVIOUS
<1>1. PICK n \in 0..MaxEntries : entries \in [1..n -> Announcements]
    BY DEF Init
<1>2. Len(entries) \in Nat
    BY <1>1, RegistryAssumption
<1>3. Listed
    BY <1>1, <1>2 DEF Init, Listed
<1>4. Taken(0)
    <2>1. DOMAIN participants = {}
        BY DEF Init
    <2>2. QED
        BY <2>1 DEF Taken
<1>5. QED
    BY <1>3, <1>4 DEF Init, RegistryInv, Judged

(* Each step of the constructors keeps the invariant. *)
LEMMA NextRegistryInv == RegistryInv /\ [Next]_vars => RegistryInv'
<1> SUFFICES ASSUME RegistryInv, [Next]_vars PROVE RegistryInv'
    OBVIOUS
<1>1. Listed /\ Judged /\ Len(entries) \in Nat /\ next \in 1..(Len(entries) + 1)
    BY ListedEntries DEF RegistryInv, Listed
<1>2. CASE AddEntry
    <2>1. PICK k \in Nat : next = k + 1 /\ k < Len(entries)
        <3>1. next - 1 \in Nat /\ next = (next - 1) + 1 /\ next - 1 < Len(entries)
            BY <1>1, <1>2 DEF AddEntry
        <3>2. QED
            BY <3>1
    <2>2. Taken(k)
        <3>1. result = Running /\ result.kind = "Running" /\ next - 1 = k
            BY <1>2, <2>1 DEF AddEntry, Running, Outcome
        <3>2. QED
            BY <1>1, <3>1 DEF Judged
    <2>3. PICK r : r = Refusal(entries[k + 1], participants)
        OBVIOUS
    <2>4. /\ entries' = entries /\ threshold' = threshold /\ next' = k + 2
          /\ IF r # Running THEN result' = r /\ participants' = participants
             ELSE /\ result' = Running
                  /\ participants' = Inserted(participants, entries[k + 1].participant,
                       [public_key |-> entries[k + 1].public_key, proof |-> entries[k + 1].proof])
        BY <1>2, <2>1, <2>3 DEF AddEntry, TakeEntry
    <2>5. Listed'
        BY <1>1, <2>1, <2>4 DEF Listed
    <2>6. CASE r # Running
        <3>1. Unfit' /\ result'.kind \notin {"Ok", "Running"}
            BY <1>1, <2>1, <2>2, <2>3, <2>4, <2>6, RefusalDecides DEF Unfit, Good, Compatible
        <3>2. QED
            BY <2>5, <3>1 DEF RegistryInv, Judged
    <2>7. CASE r = Running
        <3>1. Good(k + 1) /\ \A i \in 1..k : Compatible(i, k + 1) /\ Compatible(k + 1, i)
            BY <1>1, <2>1, <2>2, <2>3, <2>7, RefusalDecides
        <3>2. Taken(k + 1)'
            BY <1>1, <2>1, <2>2, <2>4, <2>7, <3>1, TakenGrows
        <3>3. result' = Running /\ next' - 1 = k + 1
            BY <2>1, <2>4, <2>7
        <3>4. QED
            BY <2>5, <3>2, <3>3 DEF RegistryInv, Judged
    <2>8. QED
        BY <2>6, <2>7
<1>3. CASE Configure
    <2>1. result = Running /\ result.kind = "Running" /\ next - 1 = Len(entries)
        BY <1>1, <1>3 DEF Configure, Running, Outcome
    <2>2. Taken(Len(entries))
        BY <1>1, <2>1 DEF Judged
    <2>3. ConfigFits(threshold, participants) <=> threshold \in 1..Len(entries)
        BY <1>1, <2>2, AllTaken DEF ConfigFits
    <2>4. UNCHANGED <<entries, threshold, next, participants>>
        BY <1>3 DEF Configure
    <2>5. /\ result'.kind \in {"Ok", "InvalidThreshold"}
          /\ result'.kind = "Ok" <=> threshold \in 1..Len(entries)
        BY <1>3, <2>3 DEF Configure, Outcome
    <2>6. Listed' /\ Taken(Len(entries))'
        <3>1. Listed'
            BY <1>1, <2>4 DEF Listed
        <3>2. Taken(Len(entries))' <=> Taken(Len(entries))
            BY <2>4 DEF Taken, Good, Compatible
        <3>3. QED
            BY <2>2, <3>1, <3>2
    <2>7. QED
        BY <2>4, <2>5, <2>6 DEF RegistryInv, Judged
<1>4. CASE UNCHANGED vars
    <2>1. UNCHANGED <<entries, threshold, next, participants, result>>
        BY <1>4 DEF vars
    <2>2. Listed'
        BY <1>1, <2>1 DEF Listed
    <2>3. Unfit' <=> Unfit
        BY <2>1 DEF Unfit, Good, Compatible
    <2>4. (Taken(next - 1)' <=> Taken(next - 1)) /\ (Taken(Len(entries))' <=> Taken(Len(entries)))
        BY <2>1 DEF Taken, Good, Compatible
    <2>5. QED
        BY <1>1, <2>1, <2>2, <2>3, <2>4 DEF RegistryInv, Judged
<1>5. QED
    BY <1>2, <1>3, <1>4 DEF Next

(* The invariant holds at every step of the constructors. *)
LEMMA AlwaysRegistryInv == Spec => []RegistryInv
<1>1. QED
    BY InitRegistryInv, NextRegistryInv, PTL DEF Spec

(***************************************************************************)
(* Theorems.                                                               *)
(***************************************************************************)
(* Whatever list and threshold are given, the constructors end with Ok     *)
(* exactly when every entry is good, every two fit together and the        *)
(* threshold is among 1 to the number of entries: nothing in this depends  *)
(* on the order of the entries, although each is compared only with the    *)
(* ones before it.                                                         *)
THEOREM AcceptanceIsSymmetric == Spec => []OrderDoesNotMatter
<1>1. RegistryInv => OrderDoesNotMatter
    <2> SUFFICES ASSUME RegistryInv, result # Running PROVE OrderDoesNotMatter
        BY DEF OrderDoesNotMatter
    <2>1. DOMAIN entries = 1..Len(entries)
        BY ListedEntries DEF RegistryInv
    <2>2. CASE /\ result.kind \in {"Ok", "InvalidThreshold"} /\ Taken(Len(entries))
               /\ result.kind = "Ok" <=> threshold \in 1..Len(entries)
        BY <2>1, <2>2 DEF Taken, OrderDoesNotMatter
    <2>3. CASE result.kind # "Ok" /\ Unfit
        BY <2>3 DEF Unfit, OrderDoesNotMatter
    <2>4. QED
        BY <2>2, <2>3 DEF RegistryInv, Judged
<1>2. QED
    BY <1>1, AlwaysRegistryInv, PTL

(* In every accepted configuration of every group, a dealer's              *)
(* Diffie-Hellman points with two participants have different              *)
(* x-coordinates: the checks for repeated and for negated keys are enough  *)
(* for pads that are derived from the x-coordinate alone.                  *)
THEOREM NoRelatedPads == Spec => []PadsAreUnrelated
<1>1. RegistryInv => PadsAreUnrelated
    <2> SUFFICES ASSUME RegistryInv, result.kind = "Ok",
                        NEW p \in DOMAIN participants, NEW q \in DOMAIN participants,
                        NEW secret \in Scalars, secret # 0,
                        XCoordinate(GMul(participants[p].public_key, secret)) =
                        XCoordinate(GMul(participants[q].public_key, secret))
                 PROVE  p = q
        BY DEF PadsAreUnrelated
    <2>1. Listed /\ Taken(Len(entries))
        BY DEF RegistryInv, Judged, Running, Outcome
    <2>2. PICK i \in 1..Len(entries), j \in 1..Len(entries) :
            entries[i].participant = p /\ entries[j].participant = q
        BY <2>1, TakenLookups
    <2>3. /\ participants[p].public_key = entries[i].public_key
          /\ participants[q].public_key = entries[j].public_key
        BY <2>1, <2>2 DEF Taken
    <2>4. entries[i].public_key \in Scalars /\ entries[j].public_key \in Scalars
        BY <2>1, ListedEntries
    <2>5. XCoordinate(entries[i].public_key) = XCoordinate(entries[j].public_key)
        BY <2>3, <2>4, XCoordinateScaled
    <2>6. i = j
        BY <2>1, <2>5 DEF Taken, Compatible
    <2>7. QED
        BY <2>2, <2>6
<1>2. QED
    BY <1>1, AlwaysRegistryInv, PTL
=============================================================================
