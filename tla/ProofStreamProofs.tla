-------------------------- MODULE ProofStreamProofs --------------------------
(***************************************************************************)
(* Theorems about proof streams, for every script, proof id and payload,   *)
(* whatever the transport does.                                            *)
(***************************************************************************)
EXTENDS ProofStream, SequenceTheorems, WellFoundedInduction, TLAPS

(***************************************************************************)
(* How a proof's bytes are laid out.                                       *)
(***************************************************************************)
(* The operations of a script, and the labels of a log. *)
Operations == {"observe", "point", "any_point", "scalar", "nested", "challenge"}
Labels == Operations \cup {"id", "child"}

(* Messages of a log: a label and bytes. *)
Messages == Labels \X Seq(Nat)

(* e[k] is the part of the proof that holds the first k messages. *)
Layout(e, log) ==
    /\ e \in [0..Len(log) -> Seq(Nat)]
    /\ e[0] = << >>
    /\ \A k \in 1..Len(log) : e[k] = e[k - 1] \o Frame(log[k])

(* The bytes are those of the log's messages. *)
Encodes(log, bytes) ==
    \E e : Layout(e, log) /\ e[Len(log)] = bytes

(* Induction over 0..n, for the set T of the numbers that have a property. *)
LEMMA Upwards ==
    ASSUME NEW n \in Nat, NEW T, 0 \in T, \A k \in 1..n : k - 1 \in T => k \in T
    PROVE  0..n \subseteq T
<1> DEFINE S == {k \in 0..n : k \notin T}
           R == OpToRel(<, Nat)
<1> SUFFICES ASSUME S # {} PROVE FALSE
    OBVIOUS
<1>1. R = {ss \in Nat \X Nat : ss[1] < ss[2]}
    BY DEF OpToRel
<1>2. IsWellFoundedOn(R, Nat)
    BY NatLessThanWellFounded
<1>3. S \subseteq Nat
    OBVIOUS
<1> HIDE DEF R
<1>4. PICK x \in S : \A y \in S : ~(<<y, x>> \in R)
    <2> HIDE DEF S
    <2>1. QED
        BY <1>2, <1>3, WFMin
<1>5. x \in 1..n /\ x \notin T /\ x - 1 \in 0..n
    OBVIOUS
<1>6. x - 1 \in S
    BY <1>5
<1>7. <<x - 1, x>> \in R
    BY <1>1, <1>5
<1>8. QED
    BY <1>4, <1>6, <1>7

(* A frame is a sequence of bytes. *)
LEMMA FrameTyped ==
    ASSUME NEW label \in Labels, NEW bytes \in Seq(Nat)
    PROVE  /\ Message(label, bytes) \in Messages
           /\ Frame(Message(label, bytes)) \in Seq(Nat)
           /\ label \notin {"id", "child"} => Frame(Message(label, bytes)) = bytes
           /\ label \in {"id", "child"} => Frame(Message(label, bytes)) = <<Len(bytes)>> \o bytes
<1>1. Message(label, bytes)[1] = label /\ Message(label, bytes)[2] = bytes
    BY DEF Message
<1>2. <<Len(bytes)>> \in Seq(Nat) /\ <<Len(bytes)>> \o bytes \in Seq(Nat)
    OBVIOUS
<1>3. QED
    BY <1>1, <1>2 DEF Frame, Message, Messages

(* One more message, one more frame. *)
LEMMA LayoutExtends ==
    ASSUME NEW T \in Seq(Messages), NEW bytes, Encodes(T, bytes),
           NEW label \in Labels, NEW b \in Seq(Nat)
    PROVE  /\ Encodes(Append(T, Message(label, b)), bytes \o Frame(Message(label, b)))
           /\ bytes \in Seq(Nat)
<1> DEFINE m == Message(label, b)
           n == Len(T)
           U == Append(T, m)
<1>1. PICK e : Layout(e, T) /\ e[n] = bytes
    BY DEF Encodes
<1>2. m \in Messages /\ Frame(m) \in Seq(Nat) /\ n \in Nat
    <2>1. m \in Messages /\ Frame(m) \in Seq(Nat)
        BY FrameTyped
    <2>2. n \in Nat
        OBVIOUS
    <2>3. QED
        BY <2>1, <2>2, Zenon
<1> HIDE DEF m
<1>3. U \in Seq(Messages) /\ Len(U) = n + 1 /\ U[n + 1] = m /\ \A k \in 1..n : U[k] = T[k]
    BY <1>2
<1>4. e \in [0..n -> Seq(Nat)] /\ e[0] = << >> /\ \A k \in 1..n : e[k] = e[k - 1] \o Frame(T[k])
    BY <1>1 DEF Layout
<1>5. bytes \in Seq(Nat)
    <2>1. n \in 0..n
        BY <1>2
    <2> HIDE DEF n
    <2>2. QED
        BY <1>1, <1>4, <2>1
<1> DEFINE f == [k \in 0..(n + 1) |-> IF k = n + 1 THEN bytes \o Frame(m) ELSE e[k]]
<1>6. bytes \o Frame(m) \in Seq(Nat)
    BY <1>2, <1>5
<1> HIDE DEF n, U
<1>7. f \in [0..(n + 1) -> Seq(Nat)] /\ f[0] = << >>
    BY <1>2, <1>4, <1>6
<1>8. ASSUME NEW k \in 1..(n + 1) PROVE f[k] = f[k - 1] \o Frame(U[k])
    <2>1. CASE k = n + 1
        <3>1. f[k] = bytes \o Frame(m) /\ f[k - 1] = e[n] /\ U[k] = m
            BY <1>2, <1>3, <2>1
        <3>2. QED
            BY <1>1, <3>1
    <2>2. CASE k # n + 1
        <3>1. k \in 1..n /\ f[k] = e[k] /\ f[k - 1] = e[k - 1] /\ U[k] = T[k]
            BY <1>2, <1>3, <2>2
        <3>2. QED
            BY <1>4, <3>1
    <2>3. QED
        BY <2>1, <2>2
<1>9. f[n + 1] = bytes \o Frame(m)
    BY <1>2
<1> HIDE DEF f
<1>10. Layout(f, U) /\ f[Len(U)] = bytes \o Frame(m)
    BY <1>3, <1>7, <1>8, <1>9 DEF Layout
<1>11. QED
    BY <1>5, <1>10 DEF Encodes, U, m

(* Logs that begin alike are laid out alike. *)
LEMMA LayoutUnique ==
    ASSUME NEW T, NEW V, NEW e, Layout(e, T), NEW f, Layout(f, V),
           NEW n \in Nat, n <= Len(T), n <= Len(V), Len(T) \in Nat, Len(V) \in Nat,
           \A i \in 1..n : T[i] = V[i]
    PROVE  e[n] = f[n]
<1> DEFINE A == {k \in 0..n : e[k] = f[k]}
<1>1. 0 \in A
    BY DEF Layout
<1>2. ASSUME NEW k \in 1..n, k - 1 \in A PROVE k \in A
    <2>1. k \in 1..Len(T) /\ k \in 1..Len(V) /\ T[k] = V[k]
        OBVIOUS
    <2>2. e[k] = e[k - 1] \o Frame(T[k]) /\ f[k] = f[k - 1] \o Frame(V[k])
        BY <2>1 DEF Layout
    <2>3. e[k - 1] = f[k - 1]
        BY <1>2
    <2>4. e[k] = f[k]
        BY <2>1, <2>2, <2>3, Zenon
    <2>5. QED
        BY <2>4
<1> HIDE DEF A
<1>3. n \in A
    <2>1. 0..n \subseteq A
        BY <1>1, <1>2, Upwards
    <2>2. QED
        BY <2>1
<1>4. QED
    BY <1>3 DEF A

(* No two proofs have the same log. *)
LEMMA EncodingUnique ==
    ASSUME NEW T \in Seq(Messages), NEW a, Encodes(T, a), NEW b, Encodes(T, b)
    PROVE  a = b
<1>1. PICK e : Layout(e, T) /\ e[Len(T)] = a
    BY DEF Encodes
<1>2. PICK f : Layout(f, T) /\ f[Len(T)] = b
    BY DEF Encodes
<1>3. PICK n \in Nat : n = Len(T)
    OBVIOUS
<1>4. e[n] = f[n]
    BY <1>1, <1>2, <1>3, LayoutUnique
<1>5. QED
    BY <1>1, <1>2, <1>3, <1>4

(* a is the beginning of b. *)
Begins(a, b) == Len(a) <= Len(b) /\ \A i \in 1..Len(a) : a[i] = b[i]

(* A sequence is the beginning of what extends it. *)
LEMMA BeginsConcat ==
    ASSUME NEW a \in Seq(Nat), NEW b \in Seq(Nat), NEW c \in Seq(Nat), Begins(a, b)
    PROVE  Begins(a, b \o c) /\ b \o c \in Seq(Nat)
<1>1. b \o c \in Seq(Nat) /\ Len(b \o c) = Len(b) + Len(c) /\ Len(a) \in Nat /\ Len(b) \in Nat
      /\ Len(c) \in Nat
    OBVIOUS
<1>2. \A i \in 1..Len(b) : (b \o c)[i] = b[i]
    OBVIOUS
<1>3. QED
    BY <1>1, <1>2 DEF Begins

(* Every part of a layout is the beginning of the whole. *)
LEMMA LayoutBegins ==
    ASSUME NEW T \in Seq(Messages), NEW e, Layout(e, T), NEW k \in 0..Len(T)
    PROVE  Begins(e[k], e[Len(T)])
<1> DEFINE A == {j \in 0..(Len(T) - k) : Begins(e[k], e[k + j])}
<1>1. PICK n \in Nat : n = Len(T)
    OBVIOUS
<1>2. e \in [0..n -> Seq(Nat)] /\ \A j \in 1..n : e[j] = e[j - 1] \o Frame(T[j])
    BY <1>1 DEF Layout
<1>3. k \in 0..n /\ n - k \in Nat
    BY <1>1
<1>4. 0 \in A
    <2>1. k + 0 = k /\ e[k] \in Seq(Nat)
        BY <1>2, <1>3
    <2>2. Begins(e[k], e[k])
        BY <2>1 DEF Begins
    <2>3. QED
        BY <1>1, <1>3, <2>1, <2>2
<1>5. ASSUME NEW j \in 1..(n - k), j - 1 \in A PROVE j \in A
    <2>1. k + j \in 1..n /\ k + j - 1 \in 0..n /\ (k + j) - 1 = k + (j - 1)
        BY <1>3
    <2>2. PICK m \in 1..n : m = k + j
        BY <2>1
    <2>3. e[m] = e[m - 1] \o Frame(T[m]) /\ e[m - 1] \in Seq(Nat) /\ e[k] \in Seq(Nat)
        BY <1>2, <1>3, <2>1, <2>2
    <2>4. Begins(e[k], e[m - 1])
        BY <1>5, <2>1, <2>2
    <2>5. Frame(T[m]) \in Seq(Nat)
        <3>1. T[m] \in Messages
            BY <1>1
        <3>2. T[m] = Message(T[m][1], T[m][2]) /\ T[m][1] \in Labels /\ T[m][2] \in Seq(Nat)
            BY <3>1 DEF Messages, Message
        <3>3. QED
            BY <3>2, FrameTyped
    <2>6. Begins(e[k], e[m])
        BY <2>3, <2>4, <2>5, BeginsConcat
    <2>7. QED
        BY <1>1, <1>3, <2>2, <2>6
<1> HIDE DEF A
<1>6. 0..(n - k) \subseteq A
    BY <1>3, <1>4, <1>5, Upwards
<1>7. n - k \in A /\ k + (n - k) = n
    BY <1>3, <1>6
<1>8. QED
    BY <1>1, <1>7 DEF A

(* The bytes up to the cursor. *)
Taken(bytes, cursor) == SubSeq(bytes, 1, cursor)

(* F is what bytes hold behind the cursor. *)
HoldsAt(bytes, cursor, F) ==
    /\ cursor + Len(F) <= Len(bytes)
    /\ \A i \in 1..Len(F) : bytes[cursor + i] = F[i]

(* What the bytes up to the cursor are. *)
LEMMA TakenProperties ==
    ASSUME NEW bytes \in Seq(Nat), NEW cursor \in Nat, cursor <= Len(bytes)
    PROVE  /\ Taken(bytes, cursor) \in Seq(Nat) /\ Len(Taken(bytes, cursor)) = cursor
           /\ \A i \in 1..cursor : Taken(bytes, cursor)[i] = bytes[i]
BY DEF Taken

(* Three sequences of bytes in a row. *)
LEMMA Reassociated ==
    ASSUME NEW a \in Seq(Nat), NEW b \in Seq(Nat), NEW d \in Seq(Nat)
    PROVE  (a \o b) \o d = a \o (b \o d)
OBVIOUS

(* The entries of two sequences in a row. *)
LEMMA ConcatEntries ==
    ASSUME NEW a \in Seq(Nat), NEW F \in Seq(Nat)
    PROVE  /\ a \o F \in Seq(Nat) /\ Len(a \o F) = Len(a) + Len(F)
           /\ Len(a) \in Nat /\ Len(F) \in Nat
           /\ \A i \in 1..Len(a) : (a \o F)[i] = a[i]
           /\ \A i \in 1..Len(F) : (a \o F)[Len(a) + i] = F[i]
<1>1. a \o F \in Seq(Nat) /\ Len(a \o F) = Len(a) + Len(F)
      /\ Len(a) \in Nat /\ Len(F) \in Nat
    OBVIOUS
<1>2. \A i \in 1..Len(a) : (a \o F)[i] = a[i]
    OBVIOUS
<1>3. ASSUME NEW i \in 1..Len(F) PROVE (a \o F)[Len(a) + i] = F[i]
    OBVIOUS
<1>4. QED
    BY <1>1, <1>2, <1>3

(* What follows the first part of a sequence of bytes. *)
LEMMA HeldBehind ==
    ASSUME NEW a \in Seq(Nat), NEW F \in Seq(Nat), NEW bytes \in Seq(Nat), Begins(a \o F, bytes)
    PROVE  HoldsAt(bytes, Len(a), F)
<1>1. PICK c \in Seq(Nat) : c = a \o F
    BY ConcatEntries
<1>2. Len(c) = Len(a) + Len(F) /\ Len(a) \in Nat /\ Len(F) \in Nat
      /\ \A i \in 1..Len(F) : c[Len(a) + i] = F[i]
    BY <1>1, ConcatEntries
<1>3. Len(c) <= Len(bytes) /\ \A i \in 1..Len(c) : c[i] = bytes[i]
    BY <1>1 DEF Begins
<1>4. ASSUME NEW i \in 1..Len(F) PROVE bytes[Len(a) + i] = F[i]
    <2>1. Len(a) + i \in 1..Len(c)
        BY <1>2
    <2>2. QED
        BY <1>2, <1>3, <2>1
<1>5. QED
    BY <1>2, <1>3, <1>4 DEF HoldsAt

(* Taking what follows the cursor. *)
LEMMA TakenMore ==
    ASSUME NEW bytes \in Seq(Nat), NEW cursor \in Nat, cursor <= Len(bytes),
           NEW F \in Seq(Nat), HoldsAt(bytes, cursor, F)
    PROVE  /\ cursor + Len(F) \in Nat /\ cursor + Len(F) <= Len(bytes)
           /\ Taken(bytes, cursor + Len(F)) = Taken(bytes, cursor) \o F
<1>1. PICK n \in Nat : n = Len(F) /\ cursor + n \in Nat
    OBVIOUS
<1>2. cursor + n <= Len(bytes) /\ \A i \in 1..n : bytes[cursor + i] = F[i]
    BY <1>1 DEF HoldsAt
<1>3. PICK a \in Seq(Nat) : a = Taken(bytes, cursor) /\ Len(a) = cursor
                            /\ \A i \in 1..cursor : a[i] = bytes[i]
    BY TakenProperties
<1>4. PICK c \in Seq(Nat) : c = Taken(bytes, cursor + n) /\ Len(c) = cursor + n
                            /\ \A i \in 1..(cursor + n) : c[i] = bytes[i]
    BY <1>1, <1>2, TakenProperties
<1>5. PICK d \in Seq(Nat) : d = a \o F /\ Len(d) = cursor + n
                            /\ (\A i \in 1..cursor : d[i] = a[i])
                            /\ (\A i \in 1..n : d[cursor + i] = F[i])
    <2>1. /\ a \o F \in Seq(Nat) /\ Len(a \o F) = Len(a) + Len(F)
          /\ \A i \in 1..Len(a) : (a \o F)[i] = a[i]
          /\ \A i \in 1..Len(F) : (a \o F)[Len(a) + i] = F[i]
        BY ConcatEntries
    <2>2. PICK d \in Seq(Nat) : d = a \o F
        BY <2>1
    <2>3. Len(a) = cursor /\ Len(F) = n
        BY <1>1, <1>3
    <2>4. Len(d) = cursor + n /\ (\A i \in 1..cursor : d[i] = a[i])
          /\ (\A i \in 1..n : d[cursor + i] = F[i])
        BY <2>1, <2>2, <2>3, Zenon
    <2>5. QED
        BY <2>2, <2>4
<1>6. ASSUME NEW i \in 1..(cursor + n) PROVE c[i] = d[i]
    <2>1. c[i] = bytes[i]
        BY <1>4
    <2>2. CASE i <= cursor
        <3>1. i \in 1..cursor
            BY <2>2
        <3>2. QED
            BY <1>3, <1>5, <2>1, <3>1
    <2>3. CASE ~(i <= cursor)
        <3>1. i - cursor \in 1..n /\ i = cursor + (i - cursor)
            BY <2>3
        <3>2. PICK j \in 1..n : i = cursor + j
            BY <3>1
        <3>3. QED
            BY <1>2, <1>5, <2>1, <3>2
    <2>4. QED
        BY <2>2, <2>3
<1>7. c = d
    BY <1>4, <1>5, <1>6, SeqEqual
<1>8. QED
    BY <1>1, <1>2, <1>3, <1>4, <1>5, <1>7

(* V is the beginning of T and the cursor is behind its bytes. *)
Reading(V, T, cursor, bytes) ==
    /\ V \in Seq(Messages) /\ T \in Seq(Messages) /\ Len(V) < Len(T)
    /\ \A i \in 1..Len(V) : V[i] = T[i]
    /\ bytes \in Seq(Nat) /\ cursor \in Nat /\ cursor <= Len(bytes)
    /\ Encodes(T, bytes) /\ Encodes(V, Taken(bytes, cursor))

(* What follows is the frame of the next message. *)
LEMMA NextFrame ==
    ASSUME NEW V, NEW T, NEW cursor, NEW bytes, Reading(V, T, cursor, bytes),
           NEW F \in Seq(Nat), F = Frame(T[Len(V) + 1])
    PROVE  HoldsAt(bytes, cursor, F)
<1>1. PICK e : Layout(e, T) /\ e[Len(T)] = bytes
    BY DEF Encodes, Reading
<1>2. PICK f : Layout(f, V) /\ f[Len(V)] = Taken(bytes, cursor)
    BY DEF Encodes, Reading
<1>3. V \in Seq(Messages) /\ T \in Seq(Messages)
    BY DEF Reading
<1>4. PICK n \in Nat, t \in Nat : n = Len(V) /\ t = Len(T)
    BY <1>3
<1>5. n < t /\ \A i \in 1..n : V[i] = T[i]
    BY <1>4 DEF Reading
<1>6. n + 1 \in 1..t /\ n \in 0..t /\ n + 1 \in 0..t /\ (n + 1) - 1 = n
    BY <1>5
<1>7. e[n] = f[n]
    <2>1. \A i \in 1..n : T[i] = V[i]
        BY <1>5
    <2>2. n <= Len(T) /\ n <= Len(V) /\ Len(T) \in Nat /\ Len(V) \in Nat
        BY <1>4, <1>5
    <2>3. QED
        BY <1>1, <1>2, <2>1, <2>2, LayoutUnique
<1>8. PICK a \in Seq(Nat) : a = e[n] /\ Len(a) = cursor
    <2>1. Len(Taken(bytes, cursor)) = cursor /\ Taken(bytes, cursor) \in Seq(Nat)
        BY TakenProperties DEF Reading
    <2>2. QED
        BY <1>2, <1>4, <1>7, <2>1
<1>9. e[n + 1] = a \o F
    <2>1. e[n + 1] = e[(n + 1) - 1] \o Frame(T[n + 1])
        BY <1>1, <1>4, <1>6 DEF Layout
    <2>2. QED
        BY <1>4, <1>6, <1>8, <2>1
<1>10. Begins(a \o F, bytes)
    <2>1. Begins(e[n + 1], e[Len(T)])
        BY <1>1, <1>3, <1>4, <1>6, LayoutBegins
    <2>2. QED
        BY <1>1, <1>9, <2>1
<1>11. QED
    BY <1>8, <1>10, HeldBehind DEF Reading

(* Reading a frame appends its message. *)
LEMMA FrameRead ==
    ASSUME NEW V \in Seq(Messages), NEW bytes \in Seq(Nat), NEW cursor \in Nat,
           cursor <= Len(bytes), Encodes(V, Taken(bytes, cursor)),
           NEW label \in Labels, NEW b \in Seq(Nat), NEW F \in Seq(Nat),
           F = Frame(Message(label, b)), HoldsAt(bytes, cursor, F)
    PROVE  /\ cursor + Len(F) \in Nat /\ cursor + Len(F) <= Len(bytes)
           /\ Encodes(Append(V, Message(label, b)), Taken(bytes, cursor + Len(F)))
<1>1. /\ cursor + Len(F) \in Nat /\ cursor + Len(F) <= Len(bytes)
      /\ Taken(bytes, cursor + Len(F)) = Taken(bytes, cursor) \o F
    BY TakenMore
<1>2. Encodes(Append(V, Message(label, b)), Taken(bytes, cursor) \o F)
    BY LayoutExtends
<1>3. QED
    BY <1>1, <1>2

(***************************************************************************)
(* The inductive invariant.                                                *)
(***************************************************************************)
(* The message m is what the operation op may absorb. *)
Follows(op, m) ==
    \/ op \in {"observe", "challenge"} /\ m = Public(op)
    \/ /\ op \in {"point", "any_point"}
       /\ \E v \in Canonical : m = Message(op, EncodePoint(v)) /\ (op = "point" => v # 0)
    \/ op = "scalar" /\ \E v \in Canonical : m = Message("scalar", EncodeScalar(v))
    \/ op = "nested" /\ \E payload \in Payloads : m = Message("child", payload)

(* A side's log: the id, and one message for every step of s taken. *)
Logged(side, s) ==
    /\ side.log \in Seq(Messages)
    /\ side.step \in Nat \ {0} /\ side.step <= Len(s) + 1
    /\ Len(side.log) = side.step

(* The proof of the prover p is its log, which follows the script s. *)
Proves(p, s) ==
    /\ p \in [log : Seq(Messages), proof : Seq(Nat), step : Nat, retries : Nat]
    /\ Logged(p, s)
    /\ p.log[1] = Message("id", ProofId)
    /\ \A k \in 1..Len(s) : k < p.step => Follows(s[k], p.log[k + 1])
    /\ Encodes(p.log, p.proof)

(* What the verifier v has read of the bytes w is its log. *)
Reads(v, s, w) ==
    /\ Logged(v, s)
    /\ v.cursor \in Nat /\ v.cursor <= Len(w)
    /\ Encodes(v.log, Taken(w, v.cursor))

(* The verifier's log is the beginning of the prover's. *)
Agrees(v, p) == \A i \in 1..Len(v.log) : v.log[i] = p.log[i]

(* The prover sent a nested proof that the child protocol refuses. *)
BadChild(p) ==
    \E i \in DOMAIN p.log :
        p.log[i][1] = "child" /\ ~ChildAccepts(p.log[i][2])

(* What arrived, and when. *)
WireInv == wire = Nothing \/ (wire \in Seq(Nat) /\ prover.step = Len(script) + 1)

(* The verifier's own state. *)
VerifierInv ==
    /\ verifier \in [log : Seq(Messages), cursor : Nat, step : Nat,
                     status : {"idle", "running", "finished", "rejected"}]
    /\ wire = Nothing => verifier.status = "idle"
    /\ verifier.status = "idle" => verifier.step = 1
    /\ verifier.status \in {"running", "finished"} => Reads(verifier, script, wire)
    /\ verifier.status = "finished" =>
        verifier.cursor = Len(wire) /\ verifier.step = Len(script) + 1

(* On the prover's own bytes the two logs begin alike. *)
InSync ==
    wire = prover.proof =>
        /\ verifier.status \in {"running", "finished"} => Agrees(verifier, prover)
        /\ verifier.status = "rejected" => BadChild(prover)

(* The inductive invariant. *)
StreamInv ==
    script \in Seq(Operations) /\ Proves(prover, script) /\ WireInv /\ VerifierInv /\ InSync

(* The frames of what the script's operations absorb. *)
LEMMA OperationFrames ==
    /\ \A op \in {"observe", "challenge"} :
        Public(op) \in Messages /\ Frame(Public(op)) = << >>
    /\ \A op \in {"point", "any_point"}, v \in Canonical :
        /\ Message(op, EncodePoint(v)) \in Messages
        /\ Frame(Message(op, EncodePoint(v))) = EncodePoint(v)
        /\ EncodePoint(v) \in Seq(Nat) /\ Len(EncodePoint(v)) = PointBytes
    /\ \A v \in Canonical :
        /\ Message("scalar", EncodeScalar(v)) \in Messages
        /\ Frame(Message("scalar", EncodeScalar(v))) = EncodeScalar(v)
        /\ EncodeScalar(v) \in Seq(Nat) /\ Len(EncodeScalar(v)) = 1
    /\ \A payload \in Seq(Nat) :
        /\ Message("child", payload) \in Messages
        /\ Frame(Message("child", payload)) = <<Len(payload)>> \o payload
<1>1. ASSUME NEW op \in {"observe", "challenge"}
      PROVE  Public(op) \in Messages /\ Frame(Public(op)) = << >>
    <2>1. op \in Labels /\ << >> \in Seq(Nat) /\ op \notin {"id", "child"}
        BY DEF Labels, Operations
    <2>2. QED
        BY <2>1, FrameTyped DEF Public
<1>2. ASSUME NEW op \in {"point", "any_point"}, NEW v \in Canonical
      PROVE  /\ Message(op, EncodePoint(v)) \in Messages
             /\ Frame(Message(op, EncodePoint(v))) = EncodePoint(v)
             /\ EncodePoint(v) \in Seq(Nat) /\ Len(EncodePoint(v)) = PointBytes
    <2>1. EncodePoint(v) \in Seq(Nat) /\ Len(EncodePoint(v)) = PointBytes
        BY DEF EncodePoint, PointBytes, Canonical
    <2>2. op \in Labels /\ op \notin {"id", "child"}
        BY DEF Labels, Operations
    <2>3. QED
        BY <2>1, <2>2, FrameTyped
<1>3. ASSUME NEW v \in Canonical
      PROVE  /\ Message("scalar", EncodeScalar(v)) \in Messages
             /\ Frame(Message("scalar", EncodeScalar(v))) = EncodeScalar(v)
             /\ EncodeScalar(v) \in Seq(Nat) /\ Len(EncodeScalar(v)) = 1
    <2>1. EncodeScalar(v) \in Seq(Nat) /\ Len(EncodeScalar(v)) = 1
        BY DEF EncodeScalar, Canonical
    <2>2. "scalar" \in Labels /\ "scalar" \notin {"id", "child"}
        BY DEF Labels, Operations
    <2>3. QED
        BY <2>1, <2>2, FrameTyped
<1>4. ASSUME NEW payload \in Seq(Nat)
      PROVE  /\ Message("child", payload) \in Messages
             /\ Frame(Message("child", payload)) = <<Len(payload)>> \o payload
    <2>1. "child" \in Labels /\ "child" \in {"id", "child"}
        BY DEF Labels
    <2>2. QED
        BY <2>1, FrameTyped
<1>5. QED
    BY <1>1, <1>2, <1>3, <1>4

(***************************************************************************)
(* The prover.                                                             *)
(***************************************************************************)
(* The prover p becomes q by sending m. *)
Sends(q, p, m) ==
    /\ q \in [log : Seq(Messages), proof : Seq(Nat), step : Nat, retries : Nat]
    /\ q.log = Append(p.log, m)
    /\ q.proof = p.proof \o Frame(m)
    /\ q.step = p.step + 1

(* Appending a message to a log. *)
LEMMA LogAppend ==
    ASSUME NEW T \in Seq(Messages), NEW m \in Messages
    PROVE  /\ Append(T, m) \in Seq(Messages) /\ Len(Append(T, m)) = Len(T) + 1
           /\ Append(T, m)[Len(T) + 1] = m /\ \A i \in 1..Len(T) : Append(T, m)[i] = T[i]
OBVIOUS

(* Sending what the script asks for keeps proof and log together. *)
LEMMA SendStep ==
    ASSUME NEW s \in Seq(Operations), NEW p, Proves(p, s), p.step <= Len(s),
           NEW label \in Labels, NEW b \in Seq(Nat), Follows(s[p.step], Message(label, b)),
           NEW q, Sends(q, p, Message(label, b))
    PROVE  Proves(q, s)
<1> DEFINE m == Message(label, b)
<1>1. PICK T \in Seq(Messages), n \in Nat \ {0} :
        T = p.log /\ n = p.step /\ n = Len(T) /\ n <= Len(s)
    BY DEF Proves, Logged
<1>2. m \in Messages
    BY FrameTyped
<1> HIDE DEF m
<1>3. PICK U \in Seq(Messages) : U = Append(T, m) /\ Len(U) = n + 1 /\ U[n + 1] = m
                                 /\ \A i \in 1..n : U[i] = T[i]
    <2>1. /\ Append(T, m) \in Seq(Messages) /\ Len(Append(T, m)) = Len(T) + 1
          /\ Append(T, m)[Len(T) + 1] = m /\ \A i \in 1..Len(T) : Append(T, m)[i] = T[i]
        BY <1>2, LogAppend
    <2>2. QED
        BY <1>1, <2>1, Zenon
<1>4. q.log = U /\ q.step = n + 1 /\ q.proof = p.proof \o Frame(m)
    BY <1>1, <1>3 DEF Sends, m
<1>5. Encodes(U, p.proof \o Frame(m))
    <2>1. Encodes(T, p.proof)
        BY <1>1 DEF Proves
    <2>2. QED
        BY <1>3, <2>1, LayoutExtends DEF m
<1>6. U[1] = Message("id", ProofId)
    BY <1>1, <1>3 DEF Proves
<1>7. ASSUME NEW k \in 1..Len(s), k < n + 1 PROVE Follows(s[k], U[k + 1])
    <2>1. CASE k < n
        <3>1. k + 1 \in 1..n
            BY <1>1, <2>1
        <3>2. Follows(s[k], T[k + 1])
            BY <1>1, <2>1 DEF Proves
        <3>3. QED
            BY <1>3, <3>1, <3>2
    <2>2. CASE k = n
        <3>1. U[k + 1] = m
            BY <1>3, <2>2
        <3>2. QED
            BY <1>1, <2>2, <3>1 DEF m
    <2>3. QED
        BY <1>1, <1>7, <2>1, <2>2
<1>8. Logged(q, s)
    <2>1. n + 1 \in Nat \ {0} /\ n + 1 <= Len(s) + 1 /\ Len(s) \in Nat
        BY <1>1
    <2>2. QED
        BY <1>3, <1>4, <2>1 DEF Logged
<1>9. QED
    BY <1>4, <1>5, <1>6, <1>7, <1>8 DEF Proves, Sends

(***************************************************************************)
(* The verifier.                                                           *)
(***************************************************************************)
(* Two frames in a row. *)
LEMMA HoldsConcat ==
    ASSUME NEW w \in Seq(Nat), NEW c \in Nat, NEW a \in Seq(Nat), NEW b \in Seq(Nat)
    PROVE  HoldsAt(w, c, a \o b) <=> HoldsAt(w, c, a) /\ HoldsAt(w, c + Len(a), b)
<1>1. PICK d \in Seq(Nat), n \in Nat, k \in Nat, z \in Nat :
            /\ d = a \o b /\ n = Len(a) /\ k = Len(b) /\ z = Len(w) /\ Len(d) = n + k
    <2>1. a \o b \in Seq(Nat) /\ Len(a \o b) = Len(a) + Len(b)
        BY ConcatEntries
    <2>2. Len(a) \in Nat /\ Len(b) \in Nat /\ Len(w) \in Nat
        OBVIOUS
    <2>3. QED
        BY <2>1, <2>2, Zenon
<1>2. (\A i \in 1..n : d[i] = a[i]) /\ (\A i \in 1..k : d[n + i] = b[i])
    BY <1>1, ConcatEntries
<1>3. ASSUME HoldsAt(w, c, d) PROVE HoldsAt(w, c, a) /\ HoldsAt(w, c + n, b)
    <2>1. c + (n + k) <= z /\ \A i \in 1..(n + k) : w[c + i] = d[i]
        BY <1>1, <1>3 DEF HoldsAt
    <2>2. ASSUME NEW i \in 1..n PROVE w[c + i] = a[i]
        <3>1. i \in 1..(n + k)
            OBVIOUS
        <3>2. QED
            BY <1>2, <2>1, <3>1
    <2>3. ASSUME NEW i \in 1..k PROVE w[(c + n) + i] = b[i]
        <3>1. n + i \in 1..(n + k) /\ c + (n + i) = (c + n) + i
            OBVIOUS
        <3>2. QED
            BY <1>2, <2>1, <3>1
    <2>4. c + n <= z /\ (c + n) + k <= z
        BY <2>1
    <2>5. QED
        BY <1>1, <2>2, <2>3, <2>4 DEF HoldsAt
<1>4. ASSUME HoldsAt(w, c, a), HoldsAt(w, c + n, b) PROVE HoldsAt(w, c, d)
    <2>1. (c + n) + k <= z /\ (\A i \in 1..n : w[c + i] = a[i])
          /\ (\A i \in 1..k : w[(c + n) + i] = b[i])
        BY <1>1, <1>4 DEF HoldsAt
    <2>2. ASSUME NEW i \in 1..(n + k) PROVE w[c + i] = d[i]
        <3>1. CASE i <= n
            <4>1. i \in 1..n
                BY <3>1
            <4>2. QED
                BY <1>2, <2>1, <4>1
        <3>2. CASE ~(i <= n)
            <4>1. PICK j \in 1..k : i = n + j /\ c + i = (c + n) + j
                <5>1. i - n \in 1..k /\ i = n + (i - n) /\ c + i = (c + n) + (i - n)
                    BY <3>2
                <5>2. QED
                    BY <5>1
            <4>2. QED
                BY <1>2, <2>1, <4>1
        <3>3. QED
            BY <3>1, <3>2
    <2>3. c + (n + k) <= z
        BY <2>1
    <2>4. QED
        BY <1>1, <2>2, <2>3 DEF HoldsAt
<1>5. QED
    BY <1>1, <1>3, <1>4

(* No bytes are Nothing. *)
LEMMA BytesAreNotNothing ==
    ASSUME NEW F \in Seq(Nat)
    PROVE  F # Nothing
<1>1. Nothing[1] = -1 /\ Len(Nothing) = 1
    BY DEF Nothing
<1>2. Len(F) = 1 => F[1] \in Nat
    <2>1. Len(F) = 1 => 1 \in 1..Len(F)
        OBVIOUS
    <2>2. QED
        BY <2>1, ElementOfSeq
<1>3. QED
    BY <1>1, <1>2

(* get_bytes returns what the proof holds at the cursor, or nothing when   *)
(* the proof is too short.                                                 *)
LEMMA GetBytes ==
    ASSUME wire \in Seq(Nat), NEW from \in Nat, NEW n \in Nat
    PROVE  /\ Get(from, n) # Nothing => /\ Get(from, n) \in Seq(Nat) /\ Len(Get(from, n)) = n
                                        /\ HoldsAt(wire, from, Get(from, n))
           /\ \A F \in Seq(Nat) : HoldsAt(wire, from, F) /\ Len(F) = n
                => Get(from, n) = F /\ F # Nothing
<1>1. PICK w \in Seq(Nat), z \in Nat : w = wire /\ z = Len(w)
    OBVIOUS
<1>2. from + n <= z => Get(from, n) = SubSeq(w, from + 1, from + n)
    BY <1>1 DEF Get
<1>3. ~(from + n <= z) => Get(from, n) = Nothing
    BY <1>1 DEF Get
<1>4. ASSUME from + n <= z
      PROVE  /\ SubSeq(w, from + 1, from + n) \in Seq(Nat)
             /\ Len(SubSeq(w, from + 1, from + n)) = n
             /\ \A i \in 1..n : SubSeq(w, from + 1, from + n)[i] = w[from + i]
    <2>1. PICK lo \in Nat, hi \in Nat : lo = from + 1 /\ hi = from + n
        OBVIOUS
    <2>2. \A i \in lo..hi : w[i] \in Nat
        BY <1>1, <1>4, <2>1
    <2>3. /\ SubSeq(w, lo, hi) \in Seq(Nat)
          /\ Len(SubSeq(w, lo, hi)) = (IF lo <= hi THEN hi - lo + 1 ELSE 0)
          /\ \A i \in 1..(hi - lo + 1) : SubSeq(w, lo, hi)[i] = w[lo + i - 1]
        BY <2>1, <2>2, SubSeqProperties
    <2>4. hi - lo + 1 = n /\ (lo <= hi <=> n >= 1)
        BY <2>1
    <2>5. \A i \in 1..n : lo + i - 1 = from + i
        BY <2>1
    <2>6. QED
        BY <2>1, <2>3, <2>4, <2>5
<1>5. ASSUME Get(from, n) # Nothing
      PROVE  /\ Get(from, n) \in Seq(Nat) /\ Len(Get(from, n)) = n
             /\ HoldsAt(wire, from, Get(from, n))
    <2>1. from + n <= z
        BY <1>3, <1>5
    <2>2. PICK g \in Seq(Nat) : g = Get(from, n) /\ Len(g) = n /\ \A i \in 1..n : g[i] = w[from + i]
        BY <1>2, <1>4, <2>1
    <2>3. HoldsAt(w, from, g)
        BY <1>1, <2>1, <2>2 DEF HoldsAt
    <2>4. QED
        BY <1>1, <2>2, <2>3
<1>6. ASSUME NEW F \in Seq(Nat), HoldsAt(wire, from, F), Len(F) = n
      PROVE  Get(from, n) = F /\ F # Nothing
    <2>1. from + n <= z /\ \A i \in 1..n : w[from + i] = F[i]
        BY <1>1, <1>6 DEF HoldsAt
    <2>2. PICK g \in Seq(Nat) : g = Get(from, n) /\ Len(g) = n /\ \A i \in 1..n : g[i] = w[from + i]
        BY <1>2, <1>4, <2>1
    <2>3. g = F
        BY <1>6, <2>1, <2>2, SeqEqual
    <2>4. F # Nothing
        BY BytesAreNotNothing
    <2>5. QED
        BY <2>2, <2>3, <2>4
<1>7. QED
    BY <1>5, <1>6

(* The length prefix of a payload: one byte. *)
LEMMA LengthPrefix ==
    ASSUME NEW b \in Seq(Nat)
    PROVE  \E n \in Nat, l \in Seq(Nat) :
            /\ n = Len(b) /\ l = <<Len(b)>> /\ l = <<n>> /\ Len(l) = 1 /\ l[1] = n
            /\ l # Nothing
<1>1. PICK n \in Nat : n = Len(b)
    OBVIOUS
<1>2. <<n>> \in Seq(Nat) /\ Len(<<n>>) = 1 /\ <<n>>[1] = n
    OBVIOUS
<1>3. <<n>> # Nothing
    <2>1. Nothing[1] = -1
        BY DEF Nothing
    <2>2. n # -1
        OBVIOUS
    <2>3. QED
        BY <1>2, <2>1, <2>2
<1>4. QED
    BY <1>1, <1>2, <1>3, Zenon

(* The first entry of a sequence that has one. *)
LEMMA FirstByte ==
    ASSUME NEW l \in Seq(Nat), Len(l) = 1
    PROVE  \E n \in Nat : n = l[1] /\ l = <<n>>
<1>1. l[1] \in Nat
    <2>1. 1 \in 1..Len(l)
        OBVIOUS
    <2>2. QED
        BY <2>1, ElementOfSeq
<1>2. l = <<l[1]>>
    BY <1>1
<1>3. QED
    BY <1>1, <1>2

(* get_bytes finds exactly the bytes that are there. *)
LEMMA GetFinds ==
    ASSUME wire \in Seq(Nat), NEW from \in Nat, NEW F \in Seq(Nat)
    PROVE  HoldsAt(wire, from, F) <=> Get(from, Len(F)) = F /\ F # Nothing
<1>1. PICK n \in Nat : n = Len(F)
    OBVIOUS
<1>2. /\ Get(from, n) # Nothing => HoldsAt(wire, from, Get(from, n))
      /\ HoldsAt(wire, from, F) => Get(from, n) = F /\ F # Nothing
    BY <1>1, GetBytes
<1>3. QED
    BY <1>1, <1>2, Zenon

(* The verifier v becomes q by absorbing m, whose frame is F. *)
Absorbs(q, v, m, F) ==
    /\ q.log = Append(v.log, m)
    /\ q.cursor = v.cursor + Len(F)
    /\ q.step = v.step + 1

(* A verifier that absorbs a frame has read it. *)
LEMMA AbsorbStep ==
    ASSUME NEW s \in Seq(Operations), NEW w \in Seq(Nat), NEW v, Reads(v, s, w), v.step <= Len(s),
           NEW label \in Labels, NEW b \in Seq(Nat), NEW F \in Seq(Nat),
           F = Frame(Message(label, b)), HoldsAt(w, v.cursor, F),
           NEW q, Absorbs(q, v, Message(label, b), F)
    PROVE  Reads(q, s, w)
<1> DEFINE m == Message(label, b)
<1>1. PICK V \in Seq(Messages), n \in Nat \ {0}, c \in Nat :
        V = v.log /\ n = v.step /\ n = Len(V) /\ n <= Len(s) /\ c = v.cursor
    BY DEF Reads, Logged
<1>2. m \in Messages
    BY FrameTyped
<1>3. c <= Len(w) /\ Encodes(V, Taken(w, c)) /\ HoldsAt(w, c, F)
    BY <1>1 DEF Reads
<1>4. /\ c + Len(F) \in Nat /\ c + Len(F) <= Len(w)
      /\ Encodes(Append(V, m), Taken(w, c + Len(F)))
    BY <1>3, FrameRead
<1> HIDE DEF m
<1>5. Append(V, m) \in Seq(Messages) /\ Len(Append(V, m)) = Len(V) + 1
    BY <1>2, LogAppend
<1>6. q.log = Append(V, m) /\ q.cursor = c + Len(F) /\ q.step = n + 1
    BY <1>1 DEF Absorbs, m
<1>7. n + 1 \in Nat \ {0} /\ n + 1 <= Len(s) + 1 /\ Len(s) \in Nat
    BY <1>1
<1>8. QED
    BY <1>1, <1>4, <1>5, <1>6, <1>7 DEF Reads, Logged

(* On the prover's bytes, what the verifier reads next is the frame of the *)
(* prover's next message, which is one for the operation both are at.      *)
LEMMA NextMessage ==
    ASSUME NEW s \in Seq(Operations), NEW p, Proves(p, s), p.step = Len(s) + 1,
           NEW v, Reads(v, s, p.proof), Agrees(v, p), v.step <= Len(s),
           NEW m, m = p.log[v.step + 1], NEW F \in Seq(Nat), F = Frame(m)
    PROVE  HoldsAt(p.proof, v.cursor, F) /\ Follows(s[v.step], m)
<1>1. PICK V \in Seq(Messages), T \in Seq(Messages), n \in Nat \ {0}, c \in Nat, w \in Seq(Nat) :
        /\ V = v.log /\ T = p.log /\ n = v.step /\ n = Len(V) /\ n <= Len(s)
        /\ c = v.cursor /\ w = p.proof /\ Len(T) = Len(s) + 1
    BY DEF Reads, Logged, Proves
<1>2. n < Len(T) /\ Len(V) < Len(T) /\ n < p.step /\ n \in 1..Len(s)
    BY <1>1
<1>3. \A i \in 1..Len(V) : V[i] = T[i]
    BY <1>1 DEF Agrees
<1>4. c <= Len(w) /\ Encodes(T, w) /\ Encodes(V, Taken(w, c))
    BY <1>1 DEF Reads, Proves
<1>5. Reading(V, T, c, w)
    BY <1>2, <1>3, <1>4 DEF Reading
<1>6. F = Frame(T[Len(V) + 1])
    BY <1>1
<1>7. HoldsAt(w, c, F)
    BY <1>5, <1>6, NextFrame
<1>8. Follows(s[n], T[n + 1])
    BY <1>1, <1>2 DEF Proves
<1>9. QED
    BY <1>1, <1>7, <1>8

(* Absorbing the prover's next message keeps the logs alike. *)
LEMMA AgreesStep ==
    ASSUME NEW s, NEW w, NEW v, Reads(v, s, w), NEW p, Agrees(v, p),
           NEW m \in Messages, m = p.log[v.step + 1], NEW F, NEW q, Absorbs(q, v, m, F)
    PROVE  Agrees(q, p)
<1>1. PICK V \in Seq(Messages), n \in Nat : V = v.log /\ n = v.step /\ n = Len(V)
    BY DEF Reads, Logged
<1>2. /\ Len(Append(V, m)) = n + 1 /\ Append(V, m)[n + 1] = m
      /\ \A i \in 1..n : Append(V, m)[i] = V[i]
    BY <1>1, LogAppend
<1>3. q.log = Append(V, m) /\ \A i \in 1..n : V[i] = p.log[i]
    BY <1>1 DEF Absorbs, Agrees
<1>4. ASSUME NEW i \in 1..(n + 1) PROVE q.log[i] = p.log[i]
    <2>1. CASE i = n + 1
        BY <1>1, <1>2, <1>3, <2>1
    <2>2. CASE i # n + 1
        <3>1. i \in 1..n
            BY <2>2
        <3>2. QED
            BY <1>2, <1>3, <3>1
    <2>3. QED
        BY <2>1, <2>2
<1>5. QED
    BY <1>2, <1>3, <1>4 DEF Agrees

(***************************************************************************)
(* The initial states.                                                     *)
(***************************************************************************)
(* What the constants are. *)
LEMMA Constants ==
    /\ ProofId \in Seq(Nat) /\ Payloads \subseteq Seq(Nat) /\ Scripts \subseteq Seq(Operations)
    /\ NewLog = Append(<< >>, Message("id", ProofId))
    /\ Header = Frame(Message("id", ProofId)) /\ Header \in Seq(Nat)
    /\ "id" \in Labels /\ "child" \in Labels /\ "scalar" \in Labels
    /\ Message("id", ProofId) \in Messages
<1>1. Bytes \subseteq Nat
    BY DEF Bytes
<1>2. ProofId \in Seq(Nat) /\ Payloads \subseteq Seq(Nat) /\ Scripts \subseteq Seq(Operations)
    <2>1. ASSUME NEW x \in Seq(Bytes) PROVE x \in Seq(Nat)
        <3>1. Len(x) \in Nat /\ x \in [1..Len(x) -> Bytes]
            BY LenProperties
        <3>2. x \in [1..Len(x) -> Nat]
            BY <1>1, <3>1
        <3>3. QED
            BY <3>1, <3>2
    <2>2. ProofId \in Seq(Bytes) /\ Payloads \subseteq Seq(Bytes)
        BY StreamAssumption
    <2>3. Scripts \subseteq Seq(Operations)
        BY StreamAssumption DEF Operations
    <2>4. QED
        BY <2>1, <2>2, <2>3
<1>3. "id" \in Labels /\ "child" \in Labels /\ "scalar" \in Labels
    BY DEF Labels, Operations
<1>4. Header = Frame(Message("id", ProofId)) /\ Header \in Seq(Nat)
      /\ Message("id", ProofId) \in Messages
    BY <1>2, <1>3, FrameTyped DEF Header
<1>5. NewLog = Append(<< >>, Message("id", ProofId))
    BY DEF NewLog
<1>6. QED
    BY <1>2, <1>3, <1>4, <1>5

(* No message, no bytes. *)
LEMMA EmptyLayout == Encodes(<< >>, << >>) /\ << >> \in Seq(Messages) /\ << >> \in Seq(Nat)
<1> DEFINE e == [k \in 0..0 |-> << >>]
<1>1. << >> \in Seq(Messages) /\ << >> \in Seq(Nat) /\ Len(<< >>) = 0
    OBVIOUS
<1>2. e \in [0..0 -> Seq(Nat)] /\ e[0] = << >>
    OBVIOUS
<1> HIDE DEF e
<1>3. Layout(e, << >>)
    BY <1>1, <1>2 DEF Layout
<1>4. QED
    BY <1>1, <1>2, <1>3 DEF Encodes

(* A prover that has only written the header. *)
LEMMA StreamStart == Init => StreamInv
<1> SUFFICES ASSUME Init PROVE StreamInv
    OBVIOUS
<1> DEFINE m == Message("id", ProofId)
<1>1. /\ script \in Seq(Operations) /\ wire = Nothing
      /\ prover = [log |-> NewLog, proof |-> Header, step |-> 1, retries |-> 0]
      /\ verifier = [log |-> << >>, cursor |-> 0, step |-> 1, status |-> "idle"]
    BY Constants DEF Init
<1>2. Encodes(NewLog, Header)
    <2>1. Encodes(Append(<< >>, m), << >> \o Frame(m))
        BY EmptyLayout, Constants, LayoutExtends
    <2>2. << >> \o Header = Header
        BY Constants, ConcatEmptySeq
    <2>3. QED
        BY <2>1, <2>2, Constants
<1>3. NewLog \in Seq(Messages) /\ Len(NewLog) = 1 /\ NewLog[1] = m
    <2>1. m \in Messages
        BY Constants
    <2> HIDE DEF m
    <2>2. <<m>> \in Seq(Messages) /\ Len(<<m>>) = 1 /\ <<m>>[1] = m
        BY <2>1
    <2>3. QED
        BY <2>2 DEF NewLog, m
<1>4. Len(script) \in Nat
    BY <1>1
<1>5. Logged(prover, script)
    <2>1. 1 \in Nat \ {0} /\ 1 <= Len(script) + 1
        BY <1>4
    <2>2. QED
        BY <1>1, <1>3, <2>1 DEF Logged
<1>6. Proves(prover, script)
    <2>1. \A k \in 1..Len(script) : ~(k < 1)
        BY <1>4
    <2>2. prover \in [log : Seq(Messages), proof : Seq(Nat), step : Nat, retries : Nat]
        BY <1>1, <1>3, Constants
    <2>3. QED
        BY <1>1, <1>2, <1>3, <1>5, <2>1, <2>2 DEF Proves
<1>7. VerifierInv
    BY <1>1, EmptyLayout DEF VerifierInv
<1>8. QED
    BY <1>1, <1>6, <1>7 DEF StreamInv, WireInv, InSync

(***************************************************************************)
(* Every step keeps the invariant.                                         *)
(***************************************************************************)
(* The prover moves while nothing is delivered. *)
LEMMA ProverMoves ==
    ASSUME StreamInv, wire = Nothing, Proves(prover', script), UNCHANGED <<script, wire, verifier>>
    PROVE  StreamInv'
<1>1. verifier.status = "idle"
    BY DEF StreamInv, VerifierInv
<1>2. Proves(prover', script') /\ WireInv'
    BY DEF WireInv
<1>3. VerifierInv'
    BY <1>1 DEF StreamInv, VerifierInv
<1>4. InSync'
    BY <1>1 DEF InSync
<1>5. QED
    BY <1>2, <1>3, <1>4 DEF StreamInv

(* A call of the prover that fails changes neither proof nor log. *)
LEMMA FailStep ==
    ASSUME StreamInv, ProverFails
    PROVE  Proves(prover', script)
<1>1. prover \in [log : Seq(Messages), proof : Seq(Nat), step : Nat, retries : Nat]
    BY DEF StreamInv, Proves
<1>2. /\ prover' \in [log : Seq(Messages), proof : Seq(Nat), step : Nat, retries : Nat]
      /\ prover'.log = prover.log /\ prover'.proof = prover.proof
      /\ prover'.step = prover.step
    BY <1>1 DEF ProverFails
<1>3. QED
    BY <1>2 DEF StreamInv, Proves, Logged

(* A call that succeeds sends a message for the script's operation. *)
LEMMA SendingStep ==
    ASSUME StreamInv, Proving, NEW label \in Labels, NEW b \in Seq(Nat), NEW F \in Seq(Nat),
           F = Frame(Message(label, b)), Follows(script[prover.step], Message(label, b)),
           prover' = [prover EXCEPT !.proof = @ \o F,
                                    !.log = Append(@, Message(label, b)),
                                    !.step = @ + 1]
    PROVE  Proves(prover', script)
<1>1. prover \in [log : Seq(Messages), proof : Seq(Nat), step : Nat, retries : Nat]
    BY DEF StreamInv, Proves
<1>2. Message(label, b) \in Messages
    BY FrameTyped
<1>3. Append(prover.log, Message(label, b)) \in Seq(Messages)
    BY <1>1, <1>2, LogAppend
<1>4. prover.proof \o F \in Seq(Nat)
    BY <1>1, ConcatEntries
<1>5. Sends(prover', prover, Message(label, b))
    <2>1. /\ prover'.log = Append(prover.log, Message(label, b))
          /\ prover'.proof = prover.proof \o F /\ prover'.step = prover.step + 1
          /\ prover'.retries = prover.retries /\ prover.retries \in Nat /\ prover.step + 1 \in Nat
        BY <1>1
    <2>2. prover' \in [log : Seq(Messages), proof : Seq(Nat), step : Nat, retries : Nat]
        BY <1>1, <1>3, <1>4, <2>1
    <2>3. QED
        BY <2>1, <2>2 DEF Sends
<1>6. prover.step <= Len(script) /\ script \in Seq(Operations) /\ Proves(prover, script)
    BY DEF Proving, StreamInv
<1>7. QED
    BY <1>5, <1>6, SendStep

(* The steps of the prover. *)
LEMMA ProverStep ==
    ASSUME StreamInv, ProverObserves \/ SendPoint \/ SendScalar \/ SendNested
    PROVE  StreamInv'
<1>1. prover \in [log : Seq(Messages), proof : Seq(Nat), step : Nat, retries : Nat]
    BY DEF StreamInv, Proves
<1>2. CASE ProverObserves
    <2>1. PICK op \in {"observe", "challenge"} : op = script[prover.step]
        BY <1>2 DEF ProverObserves
    <2>2. op \in Labels /\ << >> \in Seq(Nat) /\ Public(op) = Message(op, << >>)
        BY DEF Labels, Operations, Public
    <2>3. Frame(Message(op, << >>)) = << >> /\ Follows(op, Message(op, << >>))
        BY <2>2, OperationFrames DEF Follows
    <2>4. prover.proof \o << >> = prover.proof
        BY <1>1, ConcatEmptySeq
    <2>5. prover' = [prover EXCEPT !.proof = @ \o << >>,
                                   !.log = Append(@, Message(op, << >>)),
                                   !.step = @ + 1]
        <3>1. prover' = [prover EXCEPT !.log = Append(@, Message(op, << >>)), !.step = @ + 1]
            BY <1>2, <2>1, <2>2 DEF ProverObserves, Observe
        <3>2. QED
            BY <1>1, <2>4, <3>1
    <2>6. Proving /\ wire = Nothing /\ UNCHANGED <<script, wire, verifier>>
        BY <1>2 DEF ProverObserves, Proving
    <2>7. Proves(prover', script)
        BY <2>1, <2>2, <2>3, <2>5, <2>6, SendingStep
    <2>8. QED
        BY <2>6, <2>7, ProverMoves
<1>3. CASE SendPoint
    <2>1. Proving /\ wire = Nothing /\ UNCHANGED <<script, wire, verifier>>
        BY <1>3 DEF SendPoint, Proving
    <2>2. PICK op \in {"point", "any_point"}, v \in Canonical :
            /\ op = script[prover.step]
            /\ IF v = 0 /\ op = "point" THEN ProverFails ELSE SendBytes(EncodePoint(v))
        BY <1>3 DEF SendPoint
    <2>3. CASE v = 0 /\ op = "point"
        BY <2>1, <2>2, <2>3, FailStep, ProverMoves
    <2>4. CASE ~(v = 0 /\ op = "point")
        <3>1. PICK F \in Seq(Nat) : F = EncodePoint(v) /\ F = Frame(Message(op, F))
            BY OperationFrames
        <3>2. op \in Labels
            BY DEF Labels, Operations
        <3>3. Follows(op, Message(op, F))
            BY <2>4, <3>1 DEF Follows
        <3>4. SendBytes(F)
            BY <2>2, <2>4, <3>1
        <3>5. prover' = [prover EXCEPT !.proof = @ \o F, !.log = Append(@, Message(op, F)),
                                       !.step = @ + 1]
            BY <2>2, <3>4 DEF SendBytes
        <3>6. Proves(prover', script)
            BY <2>1, <2>2, <3>1, <3>2, <3>3, <3>5, SendingStep
        <3>7. QED
            BY <2>1, <3>6, ProverMoves
    <2>5. QED
        BY <2>3, <2>4
<1>4. CASE SendScalar
    <2>1. Proving /\ wire = Nothing /\ UNCHANGED <<script, wire, verifier>>
          /\ script[prover.step] = "scalar"
        BY <1>4 DEF SendScalar, Proving
    <2>2. PICK v \in Canonical : SendBytes(EncodeScalar(v))
        BY <1>4 DEF SendScalar
    <2>3. PICK F \in Seq(Nat) : F = EncodeScalar(v) /\ F = Frame(Message("scalar", F))
        BY OperationFrames
    <2>4. Follows("scalar", Message("scalar", F))
        BY <2>3 DEF Follows
    <2>5. prover' = [prover EXCEPT !.proof = @ \o F, !.log = Append(@, Message("scalar", F)),
                                   !.step = @ + 1]
        BY <2>1, <2>2, <2>3 DEF SendBytes
    <2>6. Proves(prover', script)
        BY <2>1, <2>3, <2>4, <2>5, Constants, SendingStep
    <2>7. QED
        BY <2>1, <2>6, ProverMoves
<1>5. CASE SendNested
    <2>1. Proving /\ wire = Nothing /\ UNCHANGED <<script, wire, verifier>>
          /\ script[prover.step] = "nested"
        BY <1>5 DEF SendNested, Proving
    <2>2. PICK payload \in Payloads :
            \/ ProverFails
            \/ prover' = [prover EXCEPT !.log = Append(prover.log, Message("child", payload)),
                                        !.proof = @ \o <<Len(payload)>> \o payload,
                                        !.step = @ + 1]
        BY <1>5, Zenon DEF SendNested
    <2>3. CASE ProverFails
        BY <2>1, <2>3, FailStep, ProverMoves
    <2>4. CASE prover' = [prover EXCEPT !.log = Append(prover.log, Message("child", payload)),
                                        !.proof = @ \o <<Len(payload)>> \o payload,
                                        !.step = @ + 1]
        <3>1. payload \in Seq(Nat) /\ <<Len(payload)>> \in Seq(Nat)
            BY Constants
        <3>2. PICK F \in Seq(Nat) : F = <<Len(payload)>> \o payload
                                    /\ F = Frame(Message("child", payload))
            BY <3>1, OperationFrames, ConcatEntries
        <3>3. Follows("nested", Message("child", payload))
            BY DEF Follows
        <3>4. (prover.proof \o <<Len(payload)>>) \o payload = prover.proof \o F
            <4>1. PICK P \in Seq(Nat), l \in Seq(Nat) : P = prover.proof /\ l = <<Len(payload)>>
                BY <1>1, <3>1 DEF Proves
            <4>2. (P \o l) \o payload = P \o (l \o payload)
                BY <3>1, <4>1, Reassociated, Zenon
            <4>3. QED
                BY <3>2, <4>1, <4>2
        <3>5. prover' = [prover EXCEPT !.proof = @ \o F,
                                       !.log = Append(@, Message("child", payload)),
                                       !.step = @ + 1]
            BY <1>1, <2>4, <3>4
        <3>6. Proves(prover', script)
            BY <2>1, <3>1, <3>2, <3>3, <3>5, Constants, SendingStep
        <3>7. QED
            BY <2>1, <3>6, ProverMoves
    <2>5. QED
        BY <2>2, <2>3, <2>4
<1>6. QED
    BY <1>2, <1>3, <1>4, <1>5

(* Whatever the transport does to the bytes, they are bytes. *)
LEMMA DeliverStep ==
    ASSUME StreamInv, Deliver
    PROVE  StreamInv'
<1>1. prover.proof \in Seq(Nat)
    BY DEF StreamInv, Proves
<1>2. wire' \in Seq(Nat)
    <2>1. PICK proof \in Seq(Nat) : proof = prover.proof
        BY <1>1
    <2>2. wire' \in Arrivals(proof)
        BY <2>1 DEF Deliver
    <2>3. Bytes \subseteq Nat
        BY DEF Bytes
    <2>4. ASSUME NEW i \in DOMAIN proof, NEW b \in Bytes PROVE [proof EXCEPT ![i] = b] \in Seq(Nat)
        BY <2>3, ExceptSeq
    <2>5. ASSUME NEW b \in Bytes PROVE Append(proof, b) \in Seq(Nat)
        BY <2>3
    <2>6. ASSUME NEW k \in 1..Truncate PROVE SubSeq(proof, 1, Len(proof) - k) \in Seq(Nat)
        <3>1. Truncate \in Nat /\ Len(proof) - k \in Int /\ Len(proof) - k <= Len(proof)
            BY StreamAssumption
        <3>2. \A i \in 1..(Len(proof) - k) : proof[i] \in Nat
            BY <3>1
        <3>3. QED
            BY <3>1, <3>2, SubSeqProperties
    <2>7. \/ wire' = proof
          \/ \E i \in DOMAIN proof, b \in Bytes : wire' = [proof EXCEPT ![i] = b]
          \/ \E b \in Bytes : wire' = Append(proof, b)
          \/ \E k \in 1..Truncate : wire' = SubSeq(proof, 1, Len(proof) - k)
        BY <2>2 DEF Arrivals
    <2>8. QED
        BY <2>4, <2>5, <2>6, <2>7
<1>3. prover.step = Len(script) + 1 /\ wire = Nothing /\ UNCHANGED <<script, prover, verifier>>
    BY DEF Deliver
<1>4. verifier.status = "idle" /\ verifier.step = 1
    BY <1>3 DEF StreamInv, VerifierInv
<1>5. WireInv'
    BY <1>2, <1>3 DEF WireInv
<1>6. VerifierInv'
    BY <1>3, <1>4 DEF StreamInv, VerifierInv
<1>7. QED
    BY <1>3, <1>4, <1>5, <1>6 DEF StreamInv, InSync

(* A verifier that rejects proofs that are not the prover's, or one with a *)
(* bad child.                                                              *)
LEMMA RejectStep ==
    ASSUME StreamInv, wire # Nothing, Reject, UNCHANGED <<script, prover, wire>>,
           wire = prover.proof => BadChild(prover)
    PROVE  StreamInv'
<1>1. verifier \in [log : Seq(Messages), cursor : Nat, step : Nat,
                    status : {"idle", "running", "finished", "rejected"}]
    BY DEF StreamInv, VerifierInv
<1>2. /\ verifier' \in [log : Seq(Messages), cursor : Nat, step : Nat,
                        status : {"idle", "running", "finished", "rejected"}]
      /\ verifier'.status = "rejected"
    BY <1>1 DEF Reject
<1>3. VerifierInv'
    BY <1>2 DEF VerifierInv
<1>4. QED
    BY <1>2, <1>3 DEF StreamInv, WireInv, InSync

(* What holds while the verifier runs. *)
LEMMA Running ==
    ASSUME StreamInv, verifier.status = "running"
    PROVE  /\ wire # Nothing /\ wire \in Seq(Nat) /\ prover.step = Len(script) + 1
           /\ script \in Seq(Operations) /\ Proves(prover, script)
           /\ Reads(verifier, script, wire)
           /\ wire = prover.proof => Agrees(verifier, prover)
           /\ verifier \in [log : Seq(Messages), cursor : Nat, step : Nat,
                            status : {"idle", "running", "finished", "rejected"}]
BY DEF StreamInv, VerifierInv, WireInv, InSync

(* A verifier that absorbs what the proof holds, which on the prover's     *)
(* bytes is what the prover sent.                                          *)
LEMMA AbsorbingStep ==
    ASSUME StreamInv, Verifying, NEW label \in Labels, NEW b \in Seq(Nat), NEW F \in Seq(Nat),
           F = Frame(Message(label, b)), HoldsAt(wire, verifier.cursor, F),
           wire = prover.proof => Message(label, b) = prover.log[verifier.step + 1],
           verifier' = [verifier EXCEPT !.log = Append(@, Message(label, b)),
                                        !.cursor = verifier.cursor + Len(F), !.step = @ + 1],
           UNCHANGED <<script, prover, wire>>
    PROVE  StreamInv'
<1> DEFINE m == Message(label, b)
<1>1. verifier.status = "running" /\ verifier.step <= Len(script)
    BY DEF Verifying
<1>2. /\ wire # Nothing /\ wire \in Seq(Nat)
      /\ script \in Seq(Operations)
      /\ Reads(verifier, script, wire)
      /\ wire = prover.proof => Agrees(verifier, prover)
      /\ verifier \in [log : Seq(Messages), cursor : Nat, step : Nat,
                       status : {"idle", "running", "finished", "rejected"}]
    BY <1>1, Running
<1>3. m \in Messages /\ Append(verifier.log, m) \in Seq(Messages)
    <2>1. m \in Messages
        BY FrameTyped
    <2> HIDE DEF m
    <2>2. QED
        BY <1>2, <2>1, LogAppend
<1>4. verifier.cursor + Len(F) \in Nat /\ verifier.step + 1 \in Nat
    BY <1>2
<1>5. /\ Absorbs(verifier', verifier, m, F) /\ verifier'.status = "running"
      /\ verifier' \in [log : Seq(Messages), cursor : Nat, step : Nat,
                        status : {"idle", "running", "finished", "rejected"}]
    BY <1>1, <1>2, <1>3, <1>4 DEF Absorbs
<1>6. Reads(verifier', script, wire)
    BY <1>1, <1>2, <1>5, AbsorbStep
<1>7. wire = prover.proof => Agrees(verifier', prover)
    <2> SUFFICES ASSUME wire = prover.proof PROVE Agrees(verifier', prover)
        OBVIOUS
    <2>1. Agrees(verifier, prover) /\ m = prover.log[verifier.step + 1]
        BY <1>2
    <2> HIDE DEF m
    <2>2. QED
        BY <1>2, <1>3, <1>5, <2>1, AgreesStep
<1>8. script' = script /\ prover' = prover /\ wire' = wire
    OBVIOUS
<1>9. VerifierInv'
    BY <1>2, <1>5, <1>6, <1>8 DEF VerifierInv
<1>10. InSync'
    BY <1>5, <1>7, <1>8 DEF InSync
<1>11. QED
    BY <1>8, <1>9, <1>10 DEF StreamInv, WireInv

(* On its own bytes the verifier finds the prover's next message. *)
LEMMA FindsNext ==
    ASSUME StreamInv, Verifying, wire = prover.proof,
           NEW m, m = prover.log[verifier.step + 1], NEW F \in Seq(Nat), F = Frame(m)
    PROVE  HoldsAt(wire, verifier.cursor, F)
<1>1. verifier.status = "running" /\ verifier.step <= Len(script)
    BY DEF Verifying
<1>2. /\ prover.step = Len(script) + 1 /\ script \in Seq(Operations) /\ Proves(prover, script)
      /\ Reads(verifier, script, prover.proof) /\ Agrees(verifier, prover)
    BY <1>1, Running
<1>3. HoldsAt(prover.proof, verifier.cursor, F)
    BY <1>1, <1>2, NextMessage
<1>4. QED
    BY <1>3

(* The prover's next message is one for the operation the verifier is at. *)
LEMMA SameOperation ==
    ASSUME StreamInv, Verifying
    PROVE  Follows(script[verifier.step], prover.log[verifier.step + 1])
<1>1. verifier.status = "running" /\ verifier.step <= Len(script)
    BY DEF Verifying
<1>2. /\ prover.step = Len(script) + 1 /\ script \in Seq(Operations) /\ Proves(prover, script)
      /\ Reads(verifier, script, wire)
    BY <1>1, Running
<1>3. verifier.step \in 1..Len(script) /\ verifier.step < prover.step
    BY <1>1, <1>2 DEF Reads, Logged
<1>4. QED
    BY <1>2, <1>3 DEF Proves

(* Public data and challenges read no bytes. *)
LEMMA VerifierObservesStep ==
    ASSUME StreamInv, VerifierObserves
    PROVE  StreamInv'
<1>1. Verifying /\ UNCHANGED <<script, prover, wire>>
    BY DEF VerifierObserves
<1>2. PICK op \in {"observe", "challenge"} : op = script[verifier.step]
    BY DEF VerifierObserves
<1>3. op \in Labels /\ << >> \in Seq(Nat) /\ Public(op) = Message(op, << >>)
    BY DEF Labels, Operations, Public
<1>4. << >> = Frame(Message(op, << >>))
    BY <1>3, OperationFrames
<1>5. verifier.status = "running"
    BY <1>1 DEF Verifying
<1>6. verifier.cursor \in Nat /\ verifier.cursor <= Len(wire) /\ wire \in Seq(Nat)
      /\ verifier \in [log : Seq(Messages), cursor : Nat, step : Nat,
                       status : {"idle", "running", "finished", "rejected"}]
    BY <1>5, Running DEF Reads
<1>7. HoldsAt(wire, verifier.cursor, << >>)
    <2>1. Len(<< >>) = 0
        OBVIOUS
    <2>2. verifier.cursor + 0 <= Len(wire) /\ 1..0 = {}
        BY <1>6
    <2>3. QED
        BY <2>1, <2>2 DEF HoldsAt
<1>8. wire = prover.proof => Message(op, << >>) = prover.log[verifier.step + 1]
    BY <1>1, <1>2, <1>3, SameOperation DEF Follows
<1>9. verifier' = [verifier EXCEPT !.log = Append(@, Message(op, << >>)),
                                   !.cursor = verifier.cursor + Len(<< >>), !.step = @ + 1]
    <2>1. verifier' = [verifier EXCEPT !.log = Append(@, Message(op, << >>)), !.step = @ + 1]
        BY <1>2, <1>3 DEF VerifierObserves, Observe
    <2>2. verifier.cursor + Len(<< >>) = verifier.cursor
        BY <1>6
    <2>3. QED
        BY <1>6, <2>1, <2>2
<1>10. QED
    BY <1>1, <1>3, <1>4, <1>7, <1>8, <1>9, AbsorbingStep

(* receive_point accepts canonical points only, and on the prover's bytes  *)
(* finds the one that was sent.                                            *)
LEMMA ReceivePointStep ==
    ASSUME StreamInv, ReceivePoint
    PROVE  StreamInv'
<1> DEFINE c == verifier.cursor
<1>1. Verifying /\ UNCHANGED <<script, prover, wire>>
    BY DEF ReceivePoint
<1>2. PICK op \in {"point", "any_point"} : op = script[verifier.step]
    BY DEF ReceivePoint
<1>3. PICK encoded : encoded = Get(c, PointBytes)
    OBVIOUS
<1>4. IF encoded # Nothing /\ IsPoint(encoded, op)
      THEN Absorb(op, encoded, c + PointBytes) ELSE Reject
    BY <1>2, <1>3 DEF ReceivePoint
<1>5. verifier.status = "running"
    BY <1>1 DEF Verifying
<1>6. c \in Nat /\ wire \in Seq(Nat) /\ wire # Nothing /\ PointBytes \in Nat
    BY <1>5, Running DEF Reads, PointBytes
<1>7. ASSUME wire = prover.proof
      PROVE  /\ encoded # Nothing /\ IsPoint(encoded, op)
             /\ Message(op, encoded) = prover.log[verifier.step + 1]
    <2>1. Follows(op, prover.log[verifier.step + 1])
        BY <1>1, <1>2, SameOperation
    <2>2. PICK v \in Canonical : /\ prover.log[verifier.step + 1] = Message(op, EncodePoint(v))
                                 /\ op = "point" => v # 0
        BY <2>1 DEF Follows
    <2>3. PICK F \in Seq(Nat) : F = EncodePoint(v) /\ F = Frame(Message(op, F)) /\ Len(F) = PointBytes
        BY OperationFrames
    <2>4. HoldsAt(wire, c, F)
        BY <1>1, <1>7, <2>2, <2>3, FindsNext
    <2>5. Get(c, PointBytes) = F /\ F # Nothing
        BY <1>6, <2>3, <2>4, GetBytes
    <2>6. IsPoint(F, op)
        BY <2>2, <2>3 DEF IsPoint
    <2>7. QED
        BY <1>3, <2>2, <2>3, <2>5, <2>6
<1>8. CASE encoded # Nothing /\ IsPoint(encoded, op)
    <2>1. PICK v \in Canonical : encoded = EncodePoint(v)
        BY <1>8 DEF IsPoint
    <2>2. encoded \in Seq(Nat) /\ encoded = Frame(Message(op, encoded)) /\ Len(encoded) = PointBytes
        BY <2>1, OperationFrames
    <2>3. HoldsAt(wire, c, encoded)
        BY <1>3, <1>6, <1>8, GetBytes
    <2>4. op \in Labels
        BY DEF Labels, Operations
    <2>5. verifier' = [verifier EXCEPT !.log = Append(@, Message(op, encoded)),
                                       !.cursor = verifier.cursor + Len(encoded), !.step = @ + 1]
        BY <1>4, <1>8, <2>2 DEF Absorb
    <2>6. QED
        BY <1>1, <1>7, <2>2, <2>3, <2>4, <2>5, AbsorbingStep
<1>9. CASE ~(encoded # Nothing /\ IsPoint(encoded, op))
    <2>1. Reject
        BY <1>4, <1>9
    <2>2. wire = prover.proof => BadChild(prover)
        BY <1>7, <1>9
    <2>3. QED
        BY <1>1, <1>6, <2>1, <2>2, RejectStep
<1>10. QED
    BY <1>8, <1>9

(* receive_scalar, likewise. *)
LEMMA ReceiveScalarStep ==
    ASSUME StreamInv, ReceiveScalar
    PROVE  StreamInv'
<1> DEFINE c == verifier.cursor
<1>1. Verifying /\ UNCHANGED <<script, prover, wire>> /\ script[verifier.step] = "scalar"
    BY DEF ReceiveScalar
<1>2. PICK encoded : encoded = Get(c, 1)
    OBVIOUS
<1>3. IF encoded # Nothing /\ IsScalar(encoded) THEN Absorb("scalar", encoded, c + 1) ELSE Reject
    BY <1>2 DEF ReceiveScalar
<1>4. verifier.status = "running"
    BY <1>1 DEF Verifying
<1>5. c \in Nat /\ wire \in Seq(Nat) /\ wire # Nothing
    BY <1>4, Running DEF Reads
<1>6. ASSUME wire = prover.proof
      PROVE  /\ encoded # Nothing /\ IsScalar(encoded)
             /\ Message("scalar", encoded) = prover.log[verifier.step + 1]
    <2>1. Follows("scalar", prover.log[verifier.step + 1])
        BY <1>1, SameOperation
    <2>2. PICK v \in Canonical :
            prover.log[verifier.step + 1] = Message("scalar", EncodeScalar(v))
        BY <2>1 DEF Follows
    <2>3. PICK F \in Seq(Nat) : F = EncodeScalar(v) /\ F = Frame(Message("scalar", F)) /\ Len(F) = 1
        BY OperationFrames
    <2>4. HoldsAt(wire, c, F)
        BY <1>1, <1>6, <2>2, <2>3, FindsNext
    <2>5. Get(c, 1) = F /\ F # Nothing
        BY <1>5, <2>3, <2>4, GetBytes
    <2>6. IsScalar(F)
        BY <2>2, <2>3 DEF IsScalar
    <2>7. QED
        BY <1>2, <2>2, <2>3, <2>5, <2>6
<1>7. CASE encoded # Nothing /\ IsScalar(encoded)
    <2>1. PICK v \in Canonical : encoded = EncodeScalar(v)
        BY <1>7 DEF IsScalar
    <2>2. encoded \in Seq(Nat) /\ encoded = Frame(Message("scalar", encoded)) /\ Len(encoded) = 1
        BY <2>1, OperationFrames
    <2>3. HoldsAt(wire, c, encoded)
        BY <1>2, <1>5, <1>7, GetBytes
    <2>4. verifier' = [verifier EXCEPT !.log = Append(@, Message("scalar", encoded)),
                                       !.cursor = verifier.cursor + Len(encoded), !.step = @ + 1]
        BY <1>3, <1>7, <2>2 DEF Absorb
    <2>5. QED
        BY <1>1, <1>6, <2>2, <2>3, <2>4, Constants, AbsorbingStep
<1>8. CASE ~(encoded # Nothing /\ IsScalar(encoded))
    <2>1. Reject
        BY <1>3, <1>8
    <2>2. wire = prover.proof => BadChild(prover)
        BY <1>6, <1>8
    <2>3. QED
        BY <1>1, <1>5, <2>1, <2>2, RejectStep
<1>9. QED
    BY <1>7, <1>8

(* receive_nested reads the length and then that many bytes; on the        *)
(* prover's bytes they are the child's, so only the child can refuse.      *)
LEMMA ReceiveNestedStep ==
    ASSUME StreamInv, ReceiveNested
    PROVE  StreamInv'
<1> DEFINE c == verifier.cursor
<1>1. Verifying /\ UNCHANGED <<script, prover, wire>> /\ script[verifier.step] = "nested"
    BY DEF ReceiveNested
<1>2. PICK length, payload : length = Get(c, 1) /\ payload = Get(c + 1, length[1])
    OBVIOUS
<1>3. IF length # Nothing /\ payload # Nothing /\ ChildAccepts(payload)
      THEN Absorb("child", payload, c + 1 + Len(payload)) ELSE Reject
    BY <1>2 DEF ReceiveNested
<1>4. verifier.status = "running"
    BY <1>1 DEF Verifying
<1>5. c \in Nat /\ c + 1 \in Nat /\ wire \in Seq(Nat) /\ wire # Nothing
    BY <1>4, Running DEF Reads
<1>6. ASSUME wire = prover.proof
      PROVE  /\ length # Nothing /\ payload # Nothing
             /\ Message("child", payload) = prover.log[verifier.step + 1]
    <2>1. Follows("nested", prover.log[verifier.step + 1])
        BY <1>1, SameOperation
    <2>2. PICK b \in Payloads : prover.log[verifier.step + 1] = Message("child", b)
        BY <2>1 DEF Follows
    <2>3. b \in Seq(Nat)
        BY Constants
    <2>4. PICK n \in Nat, l \in Seq(Nat) :
            n = Len(b) /\ l = <<Len(b)>> /\ Len(l) = 1 /\ l[1] = n
        BY <2>3, LengthPrefix
    <2>5. PICK F \in Seq(Nat) : F = l \o b /\ F = Frame(Message("child", b))
        BY <2>3, <2>4, OperationFrames, ConcatEntries
    <2>6. HoldsAt(wire, c, l \o b)
        BY <1>1, <1>6, <2>2, <2>5, FindsNext
    <2>7. HoldsAt(wire, c, l) /\ HoldsAt(wire, c + 1, b)
        BY <1>5, <2>3, <2>4, <2>6, HoldsConcat
    <2>8. length = l /\ l # Nothing
        <3>1. Get(c, Len(l)) = l /\ l # Nothing
            BY <1>5, <2>7, GetFinds
        <3>2. QED
            BY <1>2, <2>4, <3>1
    <2>9. payload = b /\ b # Nothing
        <3>1. Get(c + 1, Len(b)) = b /\ b # Nothing
            BY <1>5, <2>3, <2>7, GetFinds
        <3>2. QED
            BY <1>2, <2>4, <2>8, <3>1
    <2>10. QED
        BY <2>2, <2>8, <2>9
<1>7. CASE length # Nothing /\ payload # Nothing /\ ChildAccepts(payload)
    <2>1. length \in Seq(Nat) /\ Len(length) = 1 /\ HoldsAt(wire, c, length)
        BY <1>2, <1>5, <1>7, GetBytes
    <2>2. PICK n \in Nat : n = length[1] /\ length = <<n>>
        BY <2>1, FirstByte
    <2>3. payload \in Seq(Nat) /\ Len(payload) = n /\ HoldsAt(wire, c + 1, payload)
        BY <1>2, <1>5, <1>7, <2>2, GetBytes
    <2>4. PICK F \in Seq(Nat) : F = length \o payload /\ Len(F) = 1 + n
        <3>1. length \o payload \in Seq(Nat)
              /\ Len(length \o payload) = Len(length) + Len(payload)
            BY <2>1, <2>3, ConcatEntries
        <3>2. QED
            BY <2>1, <2>3, <3>1
    <2>5. F = Frame(Message("child", payload))
        BY <2>2, <2>3, <2>4, OperationFrames
    <2>6. HoldsAt(wire, c, F)
        BY <1>5, <2>1, <2>3, <2>4, HoldsConcat
    <2>7. c + 1 + Len(payload) = c + Len(F)
        <3>1. c + 1 + n = c + (1 + n)
            BY <1>5
        <3>2. QED
            BY <2>3, <2>4, <3>1
    <2>8. verifier' = [verifier EXCEPT !.log = Append(@, Message("child", payload)),
                                       !.cursor = verifier.cursor + Len(F), !.step = @ + 1]
        BY <1>3, <1>7, <2>7 DEF Absorb
    <2>9. QED
        BY <1>1, <1>6, <2>3, <2>5, <2>6, <2>8, Constants, AbsorbingStep
<1>8. CASE ~(length # Nothing /\ payload # Nothing /\ ChildAccepts(payload))
    <2>1. Reject
        BY <1>3, <1>8
    <2>2. ASSUME wire = prover.proof PROVE BadChild(prover)
        <3>1. ~ChildAccepts(payload) /\ prover.log[verifier.step + 1] = Message("child", payload)
            BY <1>6, <1>8, <2>2
        <3>2. verifier.step + 1 \in DOMAIN prover.log
            <4>1. prover.step = Len(script) + 1 /\ Proves(prover, script)
                BY <1>4, Running
            <4>2. PICK T \in Seq(Messages) : T = prover.log /\ Len(T) = Len(script) + 1
                BY <4>1 DEF Proves, Logged
            <4>3. verifier.step \in Nat \ {0} /\ verifier.step <= Len(script)
                BY <1>1, <1>4, Running DEF Verifying, Reads, Logged
            <4>4. verifier.step + 1 \in 1..Len(T)
                BY <4>2, <4>3
            <4>5. QED
                BY <4>2, <4>4
        <3>3. Message("child", payload)[1] = "child" /\ Message("child", payload)[2] = payload
            BY DEF Message
        <3>4. QED
            BY <3>1, <3>2, <3>3, Zenon DEF BadChild
    <2>3. QED
        BY <1>1, <1>5, <2>1, <2>2, RejectStep
<1>9. QED
    BY <1>7, <1>8

(* VerifierProofStream::new reads the id, which the prover's bytes begin with. *)
LEMMA VerifierNewStep ==
    ASSUME StreamInv, VerifierNew
    PROVE  StreamInv'
<1> DEFINE m == Message("id", ProofId)
<1>1. /\ wire # Nothing /\ verifier.status = "idle" /\ UNCHANGED <<script, prover, wire>>
      /\ IF Get(0, 1) = <<Len(ProofId)>> /\ Get(1, Len(ProofId)) = ProofId
         THEN verifier' = [verifier EXCEPT !.log = NewLog,
                                           !.cursor = Len(Header), !.status = "running"]
         ELSE Reject
    BY DEF VerifierNew
<1>2. /\ wire \in Seq(Nat) /\ verifier.step = 1 /\ script \in Seq(Operations)
      /\ prover.step = Len(script) + 1 /\ Proves(prover, script)
      /\ verifier \in [log : Seq(Messages), cursor : Nat, step : Nat,
                       status : {"idle", "running", "finished", "rejected"}]
    BY <1>1 DEF StreamInv, VerifierInv, WireInv
<1>3. PICK b \in Seq(Nat), n \in Nat, l \in Seq(Nat) :
        b = ProofId /\ n = Len(b) /\ l = <<Len(b)>> /\ Len(l) = 1 /\ l # Nothing
    <2>1. PICK b \in Seq(Nat) : b = ProofId
        BY Constants
    <2>2. PICK n \in Nat, l \in Seq(Nat) :
            n = Len(b) /\ l = <<Len(b)>> /\ Len(l) = 1 /\ l # Nothing
        BY LengthPrefix
    <2>3. QED
        BY <2>1, <2>2
<1>4. PICK F \in Seq(Nat) : F = l \o b /\ F = Header /\ F = Frame(m)
    BY <1>3, Constants DEF Header
<1>5. HoldsAt(wire, 0, F) <=> HoldsAt(wire, 0, l) /\ HoldsAt(wire, 1, b)
    <2>1. 0 + 1 = 1 /\ 0 \in Nat
        OBVIOUS
    <2>2. HoldsAt(wire, 0, l \o b) <=> HoldsAt(wire, 0, l) /\ HoldsAt(wire, 0 + Len(l), b)
        BY <1>2, <2>1, HoldsConcat
    <2>3. QED
        BY <1>3, <1>4, <2>1, <2>2
<1>6. HoldsAt(wire, 0, l) <=> Get(0, 1) = l
    <2>1. HoldsAt(wire, 0, l) <=> Get(0, Len(l)) = l /\ l # Nothing
        BY <1>2, GetFinds
    <2>2. QED
        BY <1>3, <2>1
<1>7. HoldsAt(wire, 1, b) <=> Get(1, n) = b
    <2>1. HoldsAt(wire, 1, b) <=> Get(1, Len(b)) = b /\ b # Nothing
        BY <1>2, GetFinds
    <2>2. b # Nothing
        BY BytesAreNotNothing
    <2>3. QED
        BY <1>3, <2>1, <2>2
<1>8. CASE Get(0, 1) = <<Len(ProofId)>> /\ Get(1, Len(ProofId)) = ProofId
    <2>1. HoldsAt(wire, 0, F)
        BY <1>3, <1>5, <1>6, <1>7, <1>8
    <2>2. Encodes(<< >>, Taken(wire, 0))
        <3>1. Taken(wire, 0) \in Seq(Nat) /\ Len(Taken(wire, 0)) = 0
            BY <1>2, TakenProperties
        <3>2. Taken(wire, 0) = << >>
            BY <3>1
        <3>3. QED
            BY <3>2, EmptyLayout
    <2>3. /\ 0 + Len(F) \in Nat /\ 0 + Len(F) <= Len(wire)
          /\ Encodes(Append(<< >>, m), Taken(wire, 0 + Len(F)))
        <3>1. 0 \in Nat /\ 0 <= Len(wire) /\ "id" \in Labels
            BY <1>2, Constants
        <3>2. QED
            BY <1>2, <1>3, <1>4, <2>1, <2>2, <3>1, EmptyLayout, FrameRead
    <2>4. 0 + Len(F) = Len(F) /\ Len(F) \in Nat
        OBVIOUS
    <2>5. Len(F) <= Len(wire) /\ Encodes(NewLog, Taken(wire, Len(F)))
        BY <2>3, <2>4, Constants
    <2>6. NewLog \in Seq(Messages) /\ Len(NewLog) = 1 /\ NewLog[1] = m
        <3>1. m \in Messages
            BY Constants
        <3> HIDE DEF m
        <3>2. <<m>> \in Seq(Messages) /\ Len(<<m>>) = 1 /\ <<m>>[1] = m
            BY <3>1
        <3>3. QED
            BY <3>2 DEF NewLog, m
    <2>7. verifier' = [verifier EXCEPT !.log = NewLog, !.cursor = Len(F),
                                       !.status = "running"]
        BY <1>1, <1>4, <1>8
    <2>8. /\ verifier' \in [log : Seq(Messages), cursor : Nat, step : Nat,
                            status : {"idle", "running", "finished", "rejected"}]
          /\ verifier'.log = NewLog /\ verifier'.cursor = Len(F)
          /\ verifier'.step = 1 /\ verifier'.status = "running"
        BY <1>2, <2>4, <2>6, <2>7
    <2>9. Reads(verifier', script, wire)
        <3>1. Len(script) \in Nat /\ 1 \in Nat \ {0} /\ 1 <= Len(script) + 1
            BY <1>2
        <3>2. QED
            BY <2>4, <2>5, <2>6, <2>8, <3>1 DEF Reads, Logged
    <2>10. Agrees(verifier', prover)
        <3>1. prover.log[1] = m
            BY <1>2 DEF Proves
        <3>2. \A i \in 1..1 : i = 1
            OBVIOUS
        <3>3. \A i \in 1..Len(verifier'.log) : verifier'.log[i] = prover.log[i]
            BY <2>6, <2>8, <3>1, <3>2
        <3>4. QED
            BY <3>3 DEF Agrees
    <2>11. script' = script /\ prover' = prover /\ wire' = wire
        BY <1>1
    <2>12. VerifierInv'
        BY <1>1, <2>8, <2>9, <2>11 DEF VerifierInv
    <2>13. InSync'
        BY <2>8, <2>10, <2>11 DEF InSync
    <2>14. QED
        BY <2>11, <2>12, <2>13 DEF StreamInv, WireInv
<1>9. CASE ~(Get(0, 1) = <<Len(ProofId)>> /\ Get(1, Len(ProofId)) = ProofId)
    <2>1. Reject
        BY <1>1, <1>9
    <2>2. ASSUME wire = prover.proof PROVE FALSE
        <3>1. PICK e : Layout(e, prover.log) /\ e[Len(prover.log)] = wire
            BY <1>2, <2>2 DEF Proves, Encodes
        <3>2. PICK T \in Seq(Messages) : T = prover.log /\ Len(T) = Len(script) + 1
                                         /\ T[1] = m
            BY <1>2 DEF Proves, Logged
        <3>3. Len(script) \in Nat /\ 1 \in 1..Len(T) /\ 1 \in 0..Len(T) /\ 1 - 1 = 0
            BY <1>2, <3>2
        <3>4. e[1] = e[1 - 1] \o Frame(T[1]) /\ e[0] = << >>
            BY <3>1, <3>2, <3>3 DEF Layout
        <3>5. e[1] = << >> \o F
            BY <1>4, <3>2, <3>3, <3>4
        <3>6. Begins(e[1], wire)
            BY <3>1, <3>2, <3>3, LayoutBegins
        <3>7. HoldsAt(wire, Len(<< >>), F)
            BY <1>2, <3>5, <3>6, EmptyLayout, HeldBehind
        <3>8. HoldsAt(wire, 0, F)
            <4>1. Len(<< >>) = 0
                OBVIOUS
            <4>2. QED
                BY <3>7, <4>1
        <3>9. QED
            BY <1>3, <1>5, <1>6, <1>7, <1>9, <3>8
    <2>3. QED
        BY <1>1, <2>1, <2>2, RejectStep
<1>10. QED
    BY <1>8, <1>9

(* finish accepts at the end of the bytes, where the verifier is on the    *)
(* prover's own.                                                           *)
LEMMA FinishStep ==
    ASSUME StreamInv, Finish
    PROVE  StreamInv'
<1>1. /\ verifier.status = "running" /\ verifier.step = Len(script) + 1
      /\ UNCHANGED <<script, prover, wire>>
      /\ IF verifier.cursor = Len(wire) THEN verifier' = [verifier EXCEPT !.status = "finished"]
         ELSE Reject
    BY DEF Finish
<1>2. /\ wire # Nothing /\ wire \in Seq(Nat) /\ prover.step = Len(script) + 1
      /\ script \in Seq(Operations) /\ Proves(prover, script)
      /\ Reads(verifier, script, wire)
      /\ wire = prover.proof => Agrees(verifier, prover)
      /\ verifier \in [log : Seq(Messages), cursor : Nat, step : Nat,
                       status : {"idle", "running", "finished", "rejected"}]
    BY <1>1, Running
<1>3. CASE verifier.cursor = Len(wire)
    <2>1. /\ verifier' \in [log : Seq(Messages), cursor : Nat, step : Nat,
                            status : {"idle", "running", "finished", "rejected"}]
          /\ verifier'.log = verifier.log /\ verifier'.cursor = verifier.cursor
          /\ verifier'.step = verifier.step /\ verifier'.status = "finished"
        BY <1>1, <1>2, <1>3
    <2>2. Reads(verifier', script, wire) /\ (wire = prover.proof => Agrees(verifier', prover))
        BY <1>2, <2>1 DEF Reads, Logged, Agrees
    <2>3. script' = script /\ prover' = prover /\ wire' = wire
        BY <1>1
    <2>4. VerifierInv'
        BY <1>1, <1>2, <1>3, <2>1, <2>2, <2>3 DEF VerifierInv
    <2>5. InSync'
        BY <2>1, <2>2, <2>3 DEF InSync
    <2>6. QED
        BY <2>3, <2>4, <2>5 DEF StreamInv, WireInv
<1>4. CASE verifier.cursor # Len(wire)
    <2>1. Reject
        BY <1>1, <1>4
    <2>2. ASSUME wire = prover.proof PROVE FALSE
        <3>1. PICK V \in Seq(Messages), T \in Seq(Messages) :
                V = verifier.log /\ T = prover.log
                /\ Len(V) = Len(script) + 1 /\ Len(T) = Len(script) + 1
            BY <1>1, <1>2 DEF Reads, Logged, Proves
        <3>2. \A i \in 1..Len(V) : V[i] = T[i]
            BY <1>2, <2>2, <3>1 DEF Agrees
        <3>3. V = T
            BY <3>1, <3>2, SeqEqual
        <3>4. Encodes(T, wire) /\ Encodes(T, Taken(wire, verifier.cursor))
            BY <1>2, <2>2, <3>1, <3>3 DEF Proves, Reads
        <3>5. wire = Taken(wire, verifier.cursor)
            BY <3>4, EncodingUnique
        <3>6. verifier.cursor \in Nat /\ verifier.cursor <= Len(wire)
            BY <1>2 DEF Reads
        <3>7. Len(Taken(wire, verifier.cursor)) = verifier.cursor
            BY <1>2, <3>6, TakenProperties
        <3>8. QED
            BY <1>4, <3>5, <3>7
    <2>3. QED
        BY <1>1, <1>2, <2>1, <2>2, RejectStep
<1>5. QED
    BY <1>3, <1>4

(* Every step keeps the invariant. *)
LEMMA StreamStep == StreamInv /\ [Next]_vars => StreamInv'
<1> SUFFICES ASSUME StreamInv, [Next]_vars PROVE StreamInv'
    OBVIOUS
<1>1. CASE ProverObserves \/ SendPoint \/ SendScalar \/ SendNested
    BY <1>1, ProverStep
<1>2. CASE Deliver
    BY <1>2, DeliverStep
<1>3. CASE VerifierNew
    BY <1>3, VerifierNewStep
<1>4. CASE VerifierObserves
    BY <1>4, VerifierObservesStep
<1>5. CASE ReceivePoint
    BY <1>5, ReceivePointStep
<1>6. CASE ReceiveScalar
    BY <1>6, ReceiveScalarStep
<1>7. CASE ReceiveNested
    BY <1>7, ReceiveNestedStep
<1>8. CASE Finish
    BY <1>8, FinishStep
<1>9. CASE UNCHANGED vars
    <2>1. script' = script /\ prover' = prover /\ wire' = wire /\ verifier' = verifier
        BY <1>9 DEF vars
    <2>2. QED
        BY <2>1 DEF StreamInv, WireInv, VerifierInv, InSync
<1>10. QED
    BY <1>1, <1>2, <1>3, <1>4, <1>5, <1>6, <1>7, <1>8, <1>9 DEF Next

(* The invariant holds in every reachable state. *)
THEOREM StreamInvariant == Spec => []StreamInv
BY StreamStart, StreamStep, PTL DEF Spec

(***************************************************************************)
(* Logs and what they determine.                                           *)
(***************************************************************************)
(* A proof is determined by its log. *)
LEMMA ProofOfLog ==
    ASSUME NEW T \in Seq(Messages), NEW b, Encodes(T, b)
    PROVE  b = ProofOf(T)
<1> DEFINE n == Len(T)
           Body(h) == [k \in 0..n |-> IF k = 0 THEN << >> ELSE h[k - 1] \o Frame(T[k])]
           bytes == CHOOSE h : h = Body(h)
<1>1. PICK e : Layout(e, T) /\ e[n] = b
    BY DEF Encodes
<1>2. n \in Nat
    OBVIOUS
<1>3. ProofOf(T) = bytes[n]
    BY DEF ProofOf
<1>4. e \in [0..n -> Seq(Nat)] /\ e[0] = << >> /\ \A k \in 1..n : e[k] = e[k - 1] \o Frame(T[k])
    BY <1>1 DEF Layout
<1> HIDE DEF n
<1>5. e = Body(e)
    <2>1. ASSUME NEW k \in 0..n PROVE e[k] = Body(e)[k]
        <3>1. CASE k = 0
            BY <1>4, <3>1
        <3>2. CASE k # 0
            <4>1. k \in 1..n
                BY <1>2, <3>2
            <4>2. e[k] = e[k - 1] \o Frame(T[k])
                BY <1>4, <4>1
            <4>3. Body(e)[k] = e[k - 1] \o Frame(T[k])
                BY <3>2
            <4>4. QED
                BY <4>2, <4>3, Zenon
        <3>3. QED
            BY <3>1, <3>2
    <2>2. e = [k \in 0..n |-> e[k]]
        BY <1>4
    <2>3. QED
        BY <2>1, <2>2, Zenon
<1>6. bytes = Body(bytes)
    <2>1. \E h : h = Body(h)
        BY <1>5, Zenon
    <2> HIDE DEF Body
    <2>2. QED
        BY <2>1, Zenon
<1> HIDE DEF bytes
<1> DEFINE A == {k \in 0..n : bytes[k] = e[k]}
<1>7. 0 \in A
    BY <1>2, <1>4, <1>6
<1>8. ASSUME NEW k \in 1..n, k - 1 \in A PROVE k \in A
    <2>1. k \in 0..n /\ k # 0 /\ bytes[k - 1] = e[k - 1]
        BY <1>2, <1>8
    <2>2. bytes[k] = bytes[k - 1] \o Frame(T[k])
        BY <1>6, <2>1, Zenon
    <2>3. bytes[k] = e[k]
        BY <1>4, <2>1, <2>2, Zenon
    <2>4. QED
        BY <2>1, <2>3
<1> HIDE DEF A
<1>9. 0..n \subseteq A
    BY <1>2, <1>7, <1>8, Upwards
<1>10. n \in A
    BY <1>2, <1>9
<1>11. QED
    BY <1>1, <1>3, <1>10 DEF A

(* What is observed of a message tells its label, and the message unless a *)
(* nested protocol is behind it.                                           *)
LEMMA ObservedMessages ==
    ASSUME NEW m \in Messages, NEW k \in Messages, Observed(m) = Observed(k)
    PROVE  m[1] = k[1] /\ (m[1] # "child" => m = k)
<1>1. ASSUME NEW x \in Messages
      PROVE  Observed(x)[1] = x[1] /\ (x[1] # "child" => Observed(x) = x)
    BY DEF Observed, Message
<1>2. m[1] = k[1]
    BY <1>1
<1>3. QED
    BY <1>1, <1>2

(* What can be in a transcript. *)
Observations == {Observed(m) : m \in Messages}

(* A transcript has one entry for every message of the log. *)
LEMMA TranscriptEntries ==
    ASSUME NEW side, side.log \in Seq(Messages)
    PROVE  /\ Transcript(side) \in Seq(Observations)
           /\ Len(Transcript(side)) = Len(side.log)
           /\ \A i \in 1..Len(side.log) : Transcript(side)[i] = Observed(side.log[i])
<1>1. PICK T \in Seq(Messages) : T = side.log
    OBVIOUS
<1>2. PICK n \in Nat : n = Len(T) /\ DOMAIN T = 1..n
    OBVIOUS
<1>3. Transcript(side) = [i \in 1..n |-> Observed(T[i])]
    BY <1>1, <1>2 DEF Transcript
<1>4. ASSUME NEW i \in 1..n PROVE Observed(T[i]) \in Observations
    BY <1>2 DEF Observations
<1>5. [i \in 1..n |-> Observed(T[i])] \in [1..n -> Observations]
    BY <1>4
<1>6. /\ [i \in 1..n |-> Observed(T[i])] \in Seq(Observations)
      /\ Len([i \in 1..n |-> Observed(T[i])]) = n
    BY <1>5
<1>7. QED
    BY <1>1, <1>2, <1>3, <1>6

(* Logs that begin alike have transcripts that begin alike. *)
LEMMA TranscriptBegins ==
    ASSUME NEW v, NEW p, v.log \in Seq(Messages), p.log \in Seq(Messages),
           Len(v.log) <= Len(p.log), Agrees(v, p)
    PROVE  IsPrefix(Transcript(v), Transcript(p))
<1>1. PICK V \in Seq(Observations) : V = Transcript(v) /\ Len(V) = Len(v.log)
                                     /\ \A i \in 1..Len(v.log) : V[i] = Observed(v.log[i])
    BY TranscriptEntries
<1>2. PICK T \in Seq(Observations) : T = Transcript(p) /\ Len(T) = Len(p.log)
                                     /\ \A i \in 1..Len(p.log) : T[i] = Observed(p.log[i])
    BY TranscriptEntries
<1>3. Len(V) \in Nat /\ Len(T) \in Nat /\ Len(V) <= Len(T)
    BY <1>1, <1>2
<1>4. ASSUME NEW i \in 1..Len(V) PROVE V[i] = T[i]
    <2>1. i \in 1..Len(v.log) /\ i \in 1..Len(p.log)
        BY <1>1, <1>2, <1>3
    <2>2. v.log[i] = p.log[i]
        BY <2>1 DEF Agrees
    <2>3. QED
        BY <1>1, <1>2, <2>1, <2>2
<1>5. SubSeq(V, 1, Len(V)) = SubSeq(T, 1, Len(V))
    BY <1>3, <1>4
<1>6. QED
    BY <1>1, <1>2, <1>3, <1>5 DEF IsPrefix

(***************************************************************************)
(* The properties.                                                         *)
(***************************************************************************)
(* A verifier that reads the prover's own bytes has the prover's           *)
(* transcript and challenges, also after calls of the prover failed, and   *)
(* refuses only bad nested proofs (proof_stream.rs).                       *)
THEOREM IntactProofsStayInSync == Spec => []IntactProofsInSync
<1>1. StreamInv => IntactProofsInSync
    <2> SUFFICES ASSUME StreamInv, wire = prover.proof PROVE IntactProofsInSync
        BY DEF IntactProofsInSync
    <2>1. ASSUME verifier.status \in {"running", "finished"}
          PROVE  IsPrefix(Transcript(verifier), Transcript(prover))
        <3>1. /\ wire \in Seq(Nat) /\ prover.step = Len(script) + 1 /\ script \in Seq(Operations)
              /\ Proves(prover, script) /\ Reads(verifier, script, wire) /\ Agrees(verifier, prover)
            BY <2>1 DEF StreamInv, VerifierInv, WireInv, InSync
        <3>2. /\ verifier.log \in Seq(Messages) /\ prover.log \in Seq(Messages)
              /\ Len(verifier.log) <= Len(prover.log)
            BY <3>1 DEF Reads, Logged, Proves
        <3>3. QED
            BY <3>1, <3>2, TranscriptBegins
    <2>2. ASSUME verifier.status = "finished" PROVE Transcript(verifier) = Transcript(prover)
        <3>1. /\ prover.step = Len(script) + 1 /\ verifier.step = Len(script) + 1
              /\ Proves(prover, script) /\ Reads(verifier, script, wire) /\ Agrees(verifier, prover)
            BY <2>2 DEF StreamInv, VerifierInv, WireInv, InSync
        <3>2. PICK V \in Seq(Messages), T \in Seq(Messages) :
                V = verifier.log /\ T = prover.log /\ Len(V) = Len(T)
            BY <3>1 DEF Reads, Logged, Proves
        <3>3. \A i \in 1..Len(V) : V[i] = T[i]
            BY <3>1, <3>2 DEF Agrees
        <3>4. verifier.log = prover.log
            BY <3>2, <3>3, SeqEqual
        <3>5. QED
            BY <3>4, Zenon DEF Transcript
    <2>3. verifier.status = "rejected" => BadChild(prover)
        BY DEF StreamInv, InSync
    <2>4. QED
        BY <2>1, <2>2, <2>3 DEF IntactProofsInSync, BadChild
<1>2. QED
    BY <1>1, StreamInvariant, PTL

(* Bytes accepted with the prover's transcript are the prover's proof but  *)
(* for nested payloads, whatever the transport did and whatever the child  *)
(* protocol appends (VerifierProofStream in proof_stream.rs).              *)
THEOREM AcceptedBytesAreFramedAlike == Spec => []AcceptedBytesAreBound
<1>1. StreamInv => AcceptedBytesAreBound
    <2> SUFFICES ASSUME StreamInv, verifier.status = "finished",
                        Transcript(verifier) = Transcript(prover)
                 PROVE  wire = ProofOf(WithPayloadsOf(verifier.log, prover.log))
        BY DEF AcceptedBytesAreBound
    <2>1. /\ wire \in Seq(Nat) /\ verifier.cursor = Len(wire)
          /\ Proves(prover, script) /\ Reads(verifier, script, wire)
        BY DEF StreamInv, VerifierInv, WireInv
    <2>2. PICK V \in Seq(Messages), T \in Seq(Messages) : V = verifier.log /\ T = prover.log
        BY <2>1 DEF Proves, Reads, Logged
    <2>3. Len(V) = Len(T) /\ \A i \in 1..Len(V) : Observed(V[i]) = Observed(T[i])
        <3>1. /\ Len(Transcript(verifier)) = Len(V) /\ Len(Transcript(prover)) = Len(T)
              /\ \A i \in 1..Len(V) : Transcript(verifier)[i] = Observed(V[i])
              /\ \A i \in 1..Len(T) : Transcript(prover)[i] = Observed(T[i])
            BY <2>2, TranscriptEntries
        <3>2. QED
            BY <3>1
    <2>4. WithPayloadsOf(V, T) = V
        <3>1. PICK n \in Nat : n = Len(V) /\ DOMAIN T = 1..n /\ V = [i \in 1..n |-> V[i]]
            BY <2>3
        <3>2. ASSUME NEW i \in 1..n PROVE (IF T[i][1] = "child" THEN V[i] ELSE T[i]) = V[i]
            <4>1. V[i] \in Messages /\ T[i] \in Messages /\ Observed(V[i]) = Observed(T[i])
                BY <2>3, <3>1
            <4>2. T[i][1] # "child" => T[i] = V[i]
                BY <4>1, ObservedMessages
            <4>3. QED
                BY <4>2
        <3>3. WithPayloadsOf(V, T) = [i \in 1..n |-> IF T[i][1] = "child" THEN V[i] ELSE T[i]]
            BY <3>1 DEF WithPayloadsOf
        <3>4. QED
            BY <3>1, <3>2, <3>3
    <2>5. Encodes(V, wire)
        <3>1. Encodes(V, Taken(wire, Len(wire)))
            BY <2>1, <2>2 DEF Reads
        <3>2. Taken(wire, Len(wire)) = wire
            BY <2>1, SubSeqFull DEF Taken
        <3>3. QED
            BY <3>1, <3>2
    <2>6. wire = ProofOf(V)
        BY <2>5, ProofOfLog
    <2>7. QED
        BY <2>2, <2>4, <2>6
<1>2. QED
    BY <1>1, StreamInvariant, PTL
=============================================================================
