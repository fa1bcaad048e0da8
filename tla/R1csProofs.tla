----------------------------- MODULE R1csProofs -----------------------------
(***************************************************************************)
(* Prover and verifier of a circuit build one constraint system, and the   *)
(* encoding of the proof loses nothing, for every circuit, every field,    *)
(* all inputs and challenges.                                              *)
(***************************************************************************)
EXTENDS R1csSession, ShamirProofs

(***************************************************************************)
(* Callbacks.                                                              *)
(***************************************************************************)
(* The callback is run call by call. *)
ProverRuns(t, x, calls, inputs, public, challenge) ==
    /\ t[0] = x
    /\ \A n \in 1..Len(calls) : t[n] = ProverRun(t[n - 1], calls[n], inputs, public, challenge)

LEMMA ProverCallbackTable ==
    ASSUME NEW x, NEW calls, Len(calls) \in Nat, NEW inputs, NEW public, NEW challenge
    PROVE  \E t : /\ ProverRuns(t, x, calls, inputs, public, challenge)
                 /\ ProverCallback(x, calls, inputs, public, challenge) = t[Len(calls)]
<1> DEFINE Body(k, h) == [n \in 0..k |-> IF n = 0 THEN x
                            ELSE ProverRun(h[n - 1], calls[n], inputs, public, challenge)]
           T == {k \in Nat : \E h : h = Body(k, h)}
<1>1. 0 \in T
    <2> DEFINE h == [n \in 0..0 |-> x]
    <2>1. h = Body(0, h)
        OBVIOUS
    <2>2. QED
        BY <2>1
<1>2. ASSUME NEW k \in Nat, k \in T PROVE k + 1 \in T
    <2>1. PICK h : h = Body(k, h)
        BY <1>2
    <2> DEFINE g == [n \in 0..(k + 1) |-> IF n <= k THEN h[n]
                        ELSE ProverRun(h[k], calls[k + 1], inputs, public, challenge)]
    <2>2. ASSUME NEW n \in 0..(k + 1)
          PROVE  g[n] = IF n = 0 THEN x ELSE ProverRun(g[n - 1], calls[n], inputs, public, challenge)
        <3>1. CASE n = 0
            <4>1. n \in 0..k
                BY <3>1
            <4>2. QED
                BY <2>1, <3>1, <4>1
        <3>2. CASE n # 0 /\ n <= k
            <4>1. n \in 0..k /\ n - 1 \in 0..(k + 1) /\ n - 1 <= k
                BY <3>2
            <4>2. h[n] = ProverRun(h[n - 1], calls[n], inputs, public, challenge)
                BY <2>1, <3>2, <4>1
            <4>3. g[n] = h[n] /\ g[n - 1] = h[n - 1]
                BY <3>2, <4>1
            <4>4. QED
                BY <3>2, <4>2, <4>3
        <3>3. CASE ~(n <= k)
            <4>1. n = k + 1 /\ k \in 0..(k + 1) /\ k <= k /\ n - 1 = k
                BY <3>3
            <4>2. QED
                BY <3>3, <4>1
        <3>4. QED
            BY <3>1, <3>2, <3>3
    <2>3. g = Body(k + 1, g)
        BY <2>2
    <2> HIDE DEF g, Body
    <2>4. QED
        BY <2>3
<1> DEFINE run == CHOOSE h : h = Body(Len(calls), h)
<1>3. Len(calls) \in T
    <2> HIDE DEF T
    <2>1. QED
        BY <1>1, <1>2, Induction
<1>4. run = Body(Len(calls), run)
    <2>1. \E h : h = Body(Len(calls), h)
        BY <1>3
    <2> HIDE DEF Body
    <2>2. QED
        BY <2>1, Zenon
<1>5. ProverCallback(x, calls, inputs, public, challenge) = run[Len(calls)]
    BY DEF ProverCallback
<1> HIDE DEF run
<1>6. run[0] = x /\ \A n \in 1..Len(calls) :
                        run[n] = ProverRun(run[n - 1], calls[n], inputs, public, challenge)
    <2>1. Len(calls) \in Nat /\ 0 \in 0..Len(calls)
        OBVIOUS
    <2>2. run[0] = x
        BY <1>4, <2>1
    <2>3. ASSUME NEW n \in 1..Len(calls)
          PROVE  run[n] = ProverRun(run[n - 1], calls[n], inputs, public, challenge)
        <3>1. n \in 0..Len(calls) /\ n # 0
            BY <2>1
        <3>2. QED
            BY <1>4, <3>1
    <2>4. QED
        BY <2>2, <2>3
<1>7. ProverRuns(run, x, calls, inputs, public, challenge)
    BY <1>6 DEF ProverRuns
<1>8. QED
    BY <1>5, <1>7

(* The callback is run call by call. *)
VerifierRuns(t, x, calls, commitments, public, challenge) ==
    /\ t[0] = x
    /\ \A n \in 1..Len(calls) : t[n] = VerifierRun(t[n - 1], calls[n], commitments, public, challenge)

LEMMA VerifierCallbackTable ==
    ASSUME NEW x, NEW calls, Len(calls) \in Nat, NEW commitments, NEW public, NEW challenge
    PROVE  \E t : /\ VerifierRuns(t, x, calls, commitments, public, challenge)
                 /\ VerifierCallback(x, calls, commitments, public, challenge) = t[Len(calls)]
<1> DEFINE Body(k, h) == [n \in 0..k |-> IF n = 0 THEN x
                            ELSE VerifierRun(h[n - 1], calls[n], commitments, public, challenge)]
           T == {k \in Nat : \E h : h = Body(k, h)}
<1>1. 0 \in T
    <2> DEFINE h == [n \in 0..0 |-> x]
    <2>1. h = Body(0, h)
        OBVIOUS
    <2>2. QED
        BY <2>1
<1>2. ASSUME NEW k \in Nat, k \in T PROVE k + 1 \in T
    <2>1. PICK h : h = Body(k, h)
        BY <1>2
    <2> DEFINE g == [n \in 0..(k + 1) |-> IF n <= k THEN h[n]
                        ELSE VerifierRun(h[k], calls[k + 1], commitments, public, challenge)]
    <2>2. ASSUME NEW n \in 0..(k + 1)
          PROVE  g[n] = IF n = 0 THEN x ELSE VerifierRun(g[n - 1], calls[n], commitments, public, challenge)
        <3>1. CASE n = 0
            <4>1. n \in 0..k
                BY <3>1
            <4>2. QED
                BY <2>1, <3>1, <4>1
        <3>2. CASE n # 0 /\ n <= k
            <4>1. n \in 0..k /\ n - 1 \in 0..(k + 1) /\ n - 1 <= k
                BY <3>2
            <4>2. h[n] = VerifierRun(h[n - 1], calls[n], commitments, public, challenge)
                BY <2>1, <3>2, <4>1
            <4>3. g[n] = h[n] /\ g[n - 1] = h[n - 1]
                BY <3>2, <4>1
            <4>4. QED
                BY <3>2, <4>2, <4>3
        <3>3. CASE ~(n <= k)
            <4>1. n = k + 1 /\ k \in 0..(k + 1) /\ k <= k /\ n - 1 = k
                BY <3>3
            <4>2. QED
                BY <3>3, <4>1
        <3>4. QED
            BY <3>1, <3>2, <3>3
    <2>3. g = Body(k + 1, g)
        BY <2>2
    <2> HIDE DEF g, Body
    <2>4. QED
        BY <2>3
<1> DEFINE run == CHOOSE h : h = Body(Len(calls), h)
<1>3. Len(calls) \in T
    <2> HIDE DEF T
    <2>1. QED
        BY <1>1, <1>2, Induction
<1>4. run = Body(Len(calls), run)
    <2>1. \E h : h = Body(Len(calls), h)
        BY <1>3
    <2> HIDE DEF Body
    <2>2. QED
        BY <2>1, Zenon
<1>5. VerifierCallback(x, calls, commitments, public, challenge) = run[Len(calls)]
    BY DEF VerifierCallback
<1> HIDE DEF run
<1>6. run[0] = x /\ \A n \in 1..Len(calls) :
                        run[n] = VerifierRun(run[n - 1], calls[n], commitments, public, challenge)
    <2>1. Len(calls) \in Nat /\ 0 \in 0..Len(calls)
        OBVIOUS
    <2>2. run[0] = x
        BY <1>4, <2>1
    <2>3. ASSUME NEW n \in 1..Len(calls)
          PROVE  run[n] = VerifierRun(run[n - 1], calls[n], commitments, public, challenge)
        <3>1. n \in 0..Len(calls) /\ n # 0
            BY <2>1
        <3>2. QED
            BY <1>4, <3>1
    <2>4. QED
        BY <2>2, <2>3
<1>7. VerifierRuns(run, x, calls, commitments, public, challenge)
    BY <1>6 DEF VerifierRuns
<1>8. QED
    BY <1>5, <1>7

(* The callbacks are run in order, without the half-allocated gate. *)
ProverRunsCallbacks(t, x, inputs, public, challenges) ==
    /\ t[0] = [x EXCEPT !.pending = NoPending, !.deferred = << >>]
    /\ \A n \in 1..Len(x.deferred) :
            t[n] = ProverCallback(t[n - 1], x.deferred[n], inputs, public, challenges[n])

LEMMA ProverRandomizedTable ==
    ASSUME NEW x, Len(x.deferred) \in Nat, NEW inputs, NEW public, NEW challenges
    PROVE  \E t : /\ ProverRunsCallbacks(t, x, inputs, public, challenges)
                 /\ ProverCreateRandomized(x, inputs, public, challenges) = t[Len(x.deferred)]
<1> DEFINE start == [x EXCEPT !.pending = NoPending, !.deferred = << >>]
           Body(k, h) == [n \in 0..k |-> IF n = 0 THEN start
                            ELSE ProverCallback(h[n - 1], x.deferred[n], inputs, public, challenges[n])]
           T == {k \in Nat : \E h : h = Body(k, h)}
<1> HIDE DEF start
<1>1. 0 \in T
    <2> DEFINE h == [n \in 0..0 |-> start]
    <2>1. h = Body(0, h)
        OBVIOUS
    <2>2. QED
        BY <2>1
<1>2. ASSUME NEW k \in Nat, k \in T PROVE k + 1 \in T
    <2>1. PICK h : h = Body(k, h)
        BY <1>2
    <2> DEFINE g == [n \in 0..(k + 1) |-> IF n <= k THEN h[n]
                        ELSE ProverCallback(h[k], x.deferred[k + 1], inputs, public, challenges[k + 1])]
    <2>2. ASSUME NEW n \in 0..(k + 1)
          PROVE  g[n] = IF n = 0 THEN start
                        ELSE ProverCallback(g[n - 1], x.deferred[n], inputs, public, challenges[n])
        <3>1. CASE n = 0
            <4>1. n \in 0..k
                BY <3>1
            <4>2. QED
                BY <2>1, <3>1, <4>1
        <3>2. CASE n # 0 /\ n <= k
            <4>1. n \in 0..k /\ n - 1 \in 0..(k + 1) /\ n - 1 <= k
                BY <3>2
            <4>2. h[n] = ProverCallback(h[n - 1], x.deferred[n], inputs, public, challenges[n])
                BY <2>1, <3>2, <4>1
            <4>3. g[n] = h[n] /\ g[n - 1] = h[n - 1]
                BY <3>2, <4>1
            <4>4. QED
                BY <3>2, <4>2, <4>3
        <3>3. CASE ~(n <= k)
            <4>1. n = k + 1 /\ k \in 0..(k + 1) /\ k <= k /\ n - 1 = k
                BY <3>3
            <4>2. QED
                BY <3>3, <4>1
        <3>4. QED
            BY <3>1, <3>2, <3>3
    <2>3. g = Body(k + 1, g)
        BY <2>2
    <2> HIDE DEF g, Body
    <2>4. QED
        BY <2>3
<1> DEFINE run == CHOOSE h : h = Body(Len(x.deferred), h)
<1>3. Len(x.deferred) \in T
    <2> HIDE DEF T
    <2>1. QED
        BY <1>1, <1>2, Induction
<1>4. run = Body(Len(x.deferred), run)
    <2>1. \E h : h = Body(Len(x.deferred), h)
        BY <1>3
    <2> HIDE DEF Body
    <2>2. QED
        BY <2>1, Zenon
<1>5. ProverCreateRandomized(x, inputs, public, challenges) = run[Len(x.deferred)]
    BY DEF ProverCreateRandomized, start
<1> HIDE DEF run
<1>6. run[0] = start /\ \A n \in 1..Len(x.deferred) :
                        run[n] = ProverCallback(run[n - 1], x.deferred[n], inputs, public, challenges[n])
    <2>1. Len(x.deferred) \in Nat /\ 0 \in 0..Len(x.deferred)
        OBVIOUS
    <2>2. run[0] = start
        BY <1>4, <2>1
    <2>3. ASSUME NEW n \in 1..Len(x.deferred)
          PROVE  run[n] = ProverCallback(run[n - 1], x.deferred[n], inputs, public, challenges[n])
        <3>1. n \in 0..Len(x.deferred) /\ n # 0
            BY <2>1
        <3>2. QED
            BY <1>4, <3>1
    <2>4. QED
        BY <2>2, <2>3
<1>7. ProverRunsCallbacks(run, x, inputs, public, challenges)
    BY <1>6 DEF ProverRunsCallbacks, start
<1>8. QED
    BY <1>5, <1>7

(* The callbacks are run in order, without the half-allocated gate. *)
VerifierRunsCallbacks(t, x, commitments, public, challenges) ==
    /\ t[0] = [x EXCEPT !.pending = NoPending, !.deferred = << >>]
    /\ \A n \in 1..Len(x.deferred) :
            t[n] = VerifierCallback(t[n - 1], x.deferred[n], commitments, public, challenges[n])

LEMMA VerifierRandomizedTable ==
    ASSUME NEW x, Len(x.deferred) \in Nat, NEW commitments, NEW public, NEW challenges
    PROVE  \E t : /\ VerifierRunsCallbacks(t, x, commitments, public, challenges)
                 /\ VerifierCreateRandomized(x, commitments, public, challenges) = t[Len(x.deferred)]
<1> DEFINE start == [x EXCEPT !.pending = NoPending, !.deferred = << >>]
           Body(k, h) == [n \in 0..k |-> IF n = 0 THEN start
                            ELSE VerifierCallback(h[n - 1], x.deferred[n], commitments, public, challenges[n])]
           T == {k \in Nat : \E h : h = Body(k, h)}
<1> HIDE DEF start
<1>1. 0 \in T
    <2> DEFINE h == [n \in 0..0 |-> start]
    <2>1. h = Body(0, h)
        OBVIOUS
    <2>2. QED
        BY <2>1
<1>2. ASSUME NEW k \in Nat, k \in T PROVE k + 1 \in T
    <2>1. PICK h : h = Body(k, h)
        BY <1>2
    <2> DEFINE g == [n \in 0..(k + 1) |-> IF n <= k THEN h[n]
                        ELSE VerifierCallback(h[k], x.deferred[k + 1], commitments, public, challenges[k + 1])]
    <2>2. ASSUME NEW n \in 0..(k + 1)
          PROVE  g[n] = IF n = 0 THEN start
                        ELSE VerifierCallback(g[n - 1], x.deferred[n], commitments, public, challenges[n])
        <3>1. CASE n = 0
            <4>1. n \in 0..k
                BY <3>1
            <4>2. QED
                BY <2>1, <3>1, <4>1
        <3>2. CASE n # 0 /\ n <= k
            <4>1. n \in 0..k /\ n - 1 \in 0..(k + 1) /\ n - 1 <= k
                BY <3>2
            <4>2. h[n] = VerifierCallback(h[n - 1], x.deferred[n], commitments, public, challenges[n])
                BY <2>1, <3>2, <4>1
            <4>3. g[n] = h[n] /\ g[n - 1] = h[n - 1]
                BY <3>2, <4>1
            <4>4. QED
                BY <3>2, <4>2, <4>3
        <3>3. CASE ~(n <= k)
            <4>1. n = k + 1 /\ k \in 0..(k + 1) /\ k <= k /\ n - 1 = k
                BY <3>3
            <4>2. QED
                BY <3>3, <4>1
        <3>4. QED
            BY <3>1, <3>2, <3>3
    <2>3. g = Body(k + 1, g)
        BY <2>2
    <2> HIDE DEF g, Body
    <2>4. QED
        BY <2>3
<1> DEFINE run == CHOOSE h : h = Body(Len(x.deferred), h)
<1>3. Len(x.deferred) \in T
    <2> HIDE DEF T
    <2>1. QED
        BY <1>1, <1>2, Induction
<1>4. run = Body(Len(x.deferred), run)
    <2>1. \E h : h = Body(Len(x.deferred), h)
        BY <1>3
    <2> HIDE DEF Body
    <2>2. QED
        BY <2>1, Zenon
<1>5. VerifierCreateRandomized(x, commitments, public, challenges) = run[Len(x.deferred)]
    BY DEF VerifierCreateRandomized, start
<1> HIDE DEF run
<1>6. run[0] = start /\ \A n \in 1..Len(x.deferred) :
                        run[n] = VerifierCallback(run[n - 1], x.deferred[n], commitments, public, challenges[n])
    <2>1. Len(x.deferred) \in Nat /\ 0 \in 0..Len(x.deferred)
        OBVIOUS
    <2>2. run[0] = start
        BY <1>4, <2>1
    <2>3. ASSUME NEW n \in 1..Len(x.deferred)
          PROVE  run[n] = VerifierCallback(run[n - 1], x.deferred[n], commitments, public, challenges[n])
        <3>1. n \in 0..Len(x.deferred) /\ n # 0
            BY <2>1
        <3>2. QED
            BY <1>4, <3>1
    <2>4. QED
        BY <2>2, <2>3
<1>7. VerifierRunsCallbacks(run, x, commitments, public, challenges)
    BY <1>6 DEF VerifierRunsCallbacks, start
<1>8. QED
    BY <1>5, <1>7

(***************************************************************************)
(* One constraint system on both sides.                                    *)
(***************************************************************************)
IsSeq(s) == \E S : s \in Seq(S)

IsTerm(t) == t = [kind |-> t.kind, i |-> t.i, coeff |-> t.coeff]

(* Terms, linear combinations and constraints that differ in constants only. *)
SameTerm(s, t) ==
    /\ IsTerm(s) /\ IsTerm(t)
    /\ s.kind = t.kind /\ s.i = t.i
    /\ s.kind # "One" => s.coeff = t.coeff

SameTerms(a, b) ==
    /\ IsSeq(a) /\ IsSeq(b) /\ Len(a) = Len(b)
    /\ \A k \in 1..Len(a) : SameTerm(a[k], b[k])

SameConstraints(a, b) ==
    /\ IsSeq(a) /\ IsSeq(b) /\ Len(a) = Len(b)
    /\ \A q \in 1..Len(a) : SameTerms(a[q], b[q])

(* The two sides, as records. *)
ProverFields ==
    {"a_L", "a_R", "a_O", "v", "v_blinding", "constraints", "deferred", "pending", "err"}
VerifierFields == {"num_vars", "V", "constraints", "deferred", "pending", "err"}

IsProver(p) ==
    /\ p = [f \in ProverFields |-> p[f]]
    /\ IsSeq(p.a_L) /\ p.deferred \in Seq(Seq(Calls))

IsVerifier(v) == v = [f \in VerifierFields |-> v[f]]

(* The verifier v has the gates, constraints and callbacks of the prover p. *)
Alike(p, v) ==
    /\ IsProver(p) /\ IsVerifier(v)
    /\ v.err = "None"
    /\ v.pending = p.pending /\ v.num_vars = Len(p.a_L) /\ v.deferred = p.deferred
    /\ SameConstraints(p.constraints, v.constraints)

(* As long as the prover has met no error. *)
Simulates(v, p) ==
    /\ p.err \in {"None", "MissingAssignment", "GadgetError"}
    /\ p.err = "None" => Alike(p, v)

(* What is appended to a sequence. *)
LEMMA AppendSeq ==
    ASSUME NEW s, IsSeq(s), NEW x
    PROVE  /\ IsSeq(Append(s, x)) /\ Len(s) \in Nat /\ Len(Append(s, x)) = Len(s) + 1
           /\ \A k \in 1..(Len(s) + 1) :
                Append(s, x)[k] = IF k = Len(s) + 1 THEN x ELSE s[k]
<1>1. PICK S : s \in Seq(S)
    BY DEF IsSeq
<1>2. PICK R : R = S \cup {x}
    OBVIOUS
<1>3. s \in Seq(R) /\ x \in R
    BY <1>1, <1>2
<1>4. Append(s, x) \in Seq(R) /\ Len(Append(s, x)) = Len(s) + 1 /\ Len(s) \in Nat
    BY <1>3
<1>5. ASSUME NEW k \in 1..(Len(s) + 1)
      PROVE  Append(s, x)[k] = IF k = Len(s) + 1 THEN x ELSE s[k]
    BY <1>3, <1>5
<1>6. QED
    BY <1>4, <1>5 DEF IsSeq

(* A function on 1..n is a sequence. *)
LEMMA SeqOfFunction ==
    ASSUME NEW n \in Nat, NEW f, f = [k \in 1..n |-> f[k]]
    PROVE  IsSeq(f) /\ Len(f) = n
<1>1. f \in [1..n -> {f[k] : k \in 1..n}]
    OBVIOUS
<1>2. f \in Seq({f[k] : k \in 1..n}) /\ Len(f) = n
    BY <1>1
<1>3. QED
    BY <1>2 DEF IsSeq

(* The constraints of two gates' inputs are appended one after the other. *)
LEMMA AppendTwo ==
    ASSUME NEW s, IsSeq(s), NEW x, NEW y
    PROVE  s \o <<x, y>> = Append(Append(s, x), y)
<1>1. PICK S : s \in Seq(S)
    BY DEF IsSeq
<1>2. PICK R : R = S \cup {x, y}
    OBVIOUS
<1>3. s \in Seq(R) /\ x \in R /\ y \in R
    BY <1>1, <1>2
<1>4. QED
    BY <1>3

(* A constant that each side fills in for itself is a constant. *)
LEMMA ResolvedSame ==
    ASSUME NEW lc \in Seq(Terms), NEW x, NEW y
    PROVE  SameTerms(Resolved(lc, x), Resolved(lc, y))
<1>1. PICK n \in Nat : n = Len(lc) /\ DOMAIN lc = 1..n
    OBVIOUS
<1>2. ASSUME NEW z
      PROVE  Resolved(lc, z) = [k \in 1..n |->
                IF lc[k].kind = "Public" THEN Term("One", 0, Mul(lc[k].coeff, z)) ELSE lc[k]]
    BY <1>1 DEF Resolved
<1>3. ASSUME NEW z PROVE IsSeq(Resolved(lc, z)) /\ Len(Resolved(lc, z)) = n
    <2>1. PICK f : f = Resolved(lc, z)
        OBVIOUS
    <2>2. f = [k \in 1..n |-> f[k]]
        BY <1>2, <2>1
    <2>3. QED
        BY <2>1, <2>2, SeqOfFunction
<1>4. ASSUME NEW k \in 1..n PROVE SameTerm(Resolved(lc, x)[k], Resolved(lc, y)[k])
    <2>1. lc[k] \in Terms
        BY <1>1
    <2>2. CASE lc[k].kind = "Public"
        <3>1. /\ Resolved(lc, x)[k] = Term("One", 0, Mul(lc[k].coeff, x))
              /\ Resolved(lc, y)[k] = Term("One", 0, Mul(lc[k].coeff, y))
            BY <1>2, <2>2
        <3>2. QED
            BY <3>1 DEF SameTerm, IsTerm, Term
    <2>3. CASE lc[k].kind # "Public"
        <3>1. Resolved(lc, x)[k] = lc[k] /\ Resolved(lc, y)[k] = lc[k]
            BY <1>2, <2>3
        <3>2. IsTerm(lc[k])
            BY <2>1 DEF Terms, IsTerm
        <3>3. QED
            BY <3>1, <3>2 DEF SameTerm
    <2>4. QED
        BY <2>2, <2>3
<1>5. QED
    BY <1>1, <1>3, <1>4 DEF SameTerms

(* Scaling keeps two linear combinations alike. *)
LEMMA ScaledSame ==
    ASSUME NEW a, NEW b, SameTerms(a, b), NEW c
    PROVE  SameTerms(Scaled(a, c), Scaled(b, c))
<1>1. PICK n \in Nat : n = Len(a) /\ n = Len(b) /\ DOMAIN a = 1..n /\ DOMAIN b = 1..n
    BY DEF SameTerms, IsSeq
<1>2. ASSUME NEW s, DOMAIN s = 1..n
      PROVE  /\ IsSeq(Scaled(s, c)) /\ Len(Scaled(s, c)) = n
             /\ \A k \in 1..n : Scaled(s, c)[k] = [s[k] EXCEPT !.coeff = Mul(@, c)]
    <2>1. PICK f : f = Scaled(s, c)
        OBVIOUS
    <2>2. f = [k \in 1..n |-> f[k]]
        BY <1>2, <2>1 DEF Scaled
    <2>3. IsSeq(f) /\ Len(f) = n
        BY <2>2, SeqOfFunction
    <2>4. \A k \in 1..n : f[k] = [s[k] EXCEPT !.coeff = Mul(@, c)]
        BY <1>2, <2>1 DEF Scaled
    <2>5. QED
        BY <2>1, <2>3, <2>4
<1>3. ASSUME NEW k \in 1..n PROVE SameTerm(Scaled(a, c)[k], Scaled(b, c)[k])
    <2>1. SameTerm(a[k], b[k])
        BY <1>1 DEF SameTerms
    <2>2. ASSUME NEW t, IsTerm(t)
          PROVE  [t EXCEPT !.coeff = Mul(@, c)]
                    = [kind |-> t.kind, i |-> t.i, coeff |-> Mul(t.coeff, c)]
        BY <2>2 DEF IsTerm
    <2>3. /\ Scaled(a, c)[k] = [a[k] EXCEPT !.coeff = Mul(@, c)]
          /\ Scaled(b, c)[k] = [b[k] EXCEPT !.coeff = Mul(@, c)]
        BY <1>1, <1>2
    <2>4. QED
        BY <2>1, <2>2, <2>3 DEF SameTerm, IsTerm
<1>4. QED
    BY <1>1, <1>2, <1>3 DEF SameTerms

(* One more term, one more constraint. *)
LEMMA OneMoreTerm ==
    ASSUME NEW a, NEW b, SameTerms(a, b), NEW t, IsTerm(t)
    PROVE  SameTerms(Append(a, t), Append(b, t))
<1>1. PICK n \in Nat : n = Len(a) /\ n = Len(b)
    BY AppendSeq DEF SameTerms
<1>2. /\ IsSeq(Append(a, t)) /\ Len(Append(a, t)) = n + 1
      /\ \A k \in 1..(n + 1) : Append(a, t)[k] = IF k = n + 1 THEN t ELSE a[k]
    BY <1>1, AppendSeq DEF SameTerms
<1>3. /\ IsSeq(Append(b, t)) /\ Len(Append(b, t)) = n + 1
      /\ \A k \in 1..(n + 1) : Append(b, t)[k] = IF k = n + 1 THEN t ELSE b[k]
    BY <1>1, AppendSeq DEF SameTerms
<1>4. ASSUME NEW k \in 1..(n + 1) PROVE SameTerm(Append(a, t)[k], Append(b, t)[k])
    <2>1. CASE k = n + 1
        BY <1>2, <1>3, <2>1 DEF SameTerm
    <2>2. CASE k # n + 1
        <3>1. k \in 1..n
            BY <2>2
        <3>2. SameTerm(a[k], b[k])
            BY <1>1, <3>1 DEF SameTerms
        <3>3. QED
            BY <1>2, <1>3, <2>2, <3>2
    <2>3. QED
        BY <2>1, <2>2
<1>5. QED
    BY <1>2, <1>3, <1>4 DEF SameTerms

LEMMA OneMoreConstraint ==
    ASSUME NEW a, NEW b, SameConstraints(a, b), NEW s, NEW t, SameTerms(s, t)
    PROVE  SameConstraints(Append(a, s), Append(b, t))
<1>1. PICK n \in Nat : n = Len(a) /\ n = Len(b)
    BY AppendSeq DEF SameConstraints
<1>2. /\ IsSeq(Append(a, s)) /\ Len(Append(a, s)) = n + 1
      /\ \A k \in 1..(n + 1) : Append(a, s)[k] = IF k = n + 1 THEN s ELSE a[k]
    BY <1>1, AppendSeq DEF SameConstraints
<1>3. /\ IsSeq(Append(b, t)) /\ Len(Append(b, t)) = n + 1
      /\ \A k \in 1..(n + 1) : Append(b, t)[k] = IF k = n + 1 THEN t ELSE b[k]
    BY <1>1, AppendSeq DEF SameConstraints
<1>4. ASSUME NEW k \in 1..(n + 1) PROVE SameTerms(Append(a, s)[k], Append(b, t)[k])
    <2>1. CASE k = n + 1
        BY <1>2, <1>3, <2>1
    <2>2. CASE k # n + 1
        <3>1. k \in 1..n
            BY <2>2
        <3>2. SameTerms(a[k], b[k])
            BY <1>1, <3>1 DEF SameConstraints
        <3>3. QED
            BY <1>2, <1>3, <2>2, <3>2
    <2>3. QED
        BY <2>1, <2>2
<1>5. QED
    BY <1>2, <1>3, <1>4 DEF SameConstraints

(* Such constraints are equal without their constants. *)
LEMMA SameWithoutConstants ==
    ASSUME NEW a, NEW b, SameConstraints(a, b)
    PROVE  WithoutConstants(a) = WithoutConstants(b)
<1> DEFINE F(lc) == [k \in DOMAIN lc |-> IF lc[k].kind = "One" THEN [lc[k] EXCEPT !.coeff = 0]
                                         ELSE lc[k]]
<1>1. PICK n \in Nat : DOMAIN a = 1..n /\ DOMAIN b = 1..n /\ n = Len(a)
    BY DEF SameConstraints, IsSeq
<1>2. ASSUME NEW q \in 1..n PROVE F(a[q]) = F(b[q])
    <2>1. SameTerms(a[q], b[q])
        BY <1>1 DEF SameConstraints
    <2>2. PICK m \in Nat : DOMAIN a[q] = 1..m /\ DOMAIN b[q] = 1..m /\ m = Len(a[q])
        BY <2>1 DEF SameTerms, IsSeq
    <2>3. ASSUME NEW k \in 1..m PROVE F(a[q])[k] = F(b[q])[k]
        <3>1. SameTerm(a[q][k], b[q][k])
            BY <2>1, <2>2 DEF SameTerms
        <3>2. ASSUME NEW t, IsTerm(t)
              PROVE  [t EXCEPT !.coeff = 0] = [kind |-> t.kind, i |-> t.i, coeff |-> 0]
            BY <3>2 DEF IsTerm
        <3>3. CASE a[q][k].kind = "One"
            <4>1. F(a[q])[k] = [a[q][k] EXCEPT !.coeff = 0]
                BY <2>2, <3>3
            <4>2. F(b[q])[k] = [b[q][k] EXCEPT !.coeff = 0]
                BY <2>2, <3>1, <3>3 DEF SameTerm
            <4>3. /\ [a[q][k] EXCEPT !.coeff = 0]
                        = [kind |-> a[q][k].kind, i |-> a[q][k].i, coeff |-> 0]
                  /\ [b[q][k] EXCEPT !.coeff = 0]
                        = [kind |-> b[q][k].kind, i |-> b[q][k].i, coeff |-> 0]
                BY <3>1, <3>2 DEF SameTerm
            <4>4. a[q][k].kind = b[q][k].kind /\ a[q][k].i = b[q][k].i
                BY <3>1 DEF SameTerm
            <4> HIDE DEF F
            <4>5. QED
                BY <4>1, <4>2, <4>3, <4>4
        <3>4. CASE a[q][k].kind # "One"
            BY <2>2, <3>1, <3>4 DEF SameTerm, IsTerm
        <3>5. QED
            BY <3>3, <3>4
    <2>4. DOMAIN F(a[q]) = 1..m /\ DOMAIN F(b[q]) = 1..m
        BY <2>2
    <2>5. QED
        BY <2>2, <2>3
<1> HIDE DEF F
<1>3. /\ WithoutConstants(a) = [q \in 1..n |-> F(a[q])]
      /\ WithoutConstants(b) = [q \in 1..n |-> F(b[q])]
    BY <1>1 DEF WithoutConstants, F
<1>4. QED
    BY <1>2, <1>3

(***************************************************************************)
(* The calls of a circuit.                                                 *)
(***************************************************************************)
(* One more wire. *)
LEMMA OneLonger ==
    ASSUME NEW s, IsSeq(s), NEW x
    PROVE  IsSeq(Append(s, x)) /\ Len(Append(s, x)) = Len(s) + 1
BY AppendSeq

(* Two more constraints. *)
LEMMA TwoMoreConstraints ==
    ASSUME NEW a, NEW b, SameConstraints(a, b), NEW s, NEW t, SameTerms(s, t),
           NEW x, NEW y, SameTerms(x, y)
    PROVE  SameConstraints(a \o <<s, x>>, b \o <<t, y>>)
<1>1. IsSeq(a) /\ IsSeq(b)
    BY DEF SameConstraints
<1>2. a \o <<s, x>> = Append(Append(a, s), x)
    BY <1>1, AppendTwo
<1>3. b \o <<t, y>> = Append(Append(b, t), y)
    BY <1>1, AppendTwo
<1>4. SameConstraints(Append(a, s), Append(b, t))
    BY OneMoreConstraint
<1>5. SameConstraints(Append(Append(a, s), x), Append(Append(b, t), y))
    BY <1>4, OneMoreConstraint
<1>6. QED
    BY <1>2, <1>3, <1>5

(* What makes two sides alike after a call. *)
LEMMA AlikeAfter ==
    ASSUME NEW p, NEW v, Alike(p, v), p.err = "None", NEW q, NEW u,
           q = [f \in ProverFields |-> q[f]], u = [f \in VerifierFields |-> u[f]],
           q.err = "None", u.err = "None",
           IsSeq(q.a_L), u.num_vars = Len(q.a_L), u.pending = q.pending,
           q.deferred \in Seq(Seq(Calls)), u.deferred = q.deferred,
           SameConstraints(q.constraints, u.constraints)
    PROVE  Simulates(u, q)
BY DEF Simulates, Alike, IsProver, IsVerifier

(* commit concerns neither gates nor constraints. *)
LEMMA CommitSame ==
    ASSUME NEW p, NEW v, Alike(p, v), p.err = "None", NEW x, NEW b, NEW c
    PROVE  Simulates(VerifierCommit(v, c), ProverCommit(p, x, b))
<1>1. PICK q, u : q = ProverCommit(p, x, b) /\ u = VerifierCommit(v, c)
    OBVIOUS
<1>2. /\ q = [f \in ProverFields |-> q[f]] /\ q.err = p.err /\ q.a_L = p.a_L
      /\ q.pending = p.pending /\ q.deferred = p.deferred /\ q.constraints = p.constraints
    BY <1>1 DEF ProverCommit, Alike, IsProver, ProverFields
<1>3. /\ u = [f \in VerifierFields |-> u[f]] /\ u.err = v.err /\ u.num_vars = v.num_vars
      /\ u.pending = v.pending /\ u.deferred = v.deferred /\ u.constraints = v.constraints
    BY <1>1 DEF VerifierCommit, Alike, IsVerifier, VerifierFields
<1>4. Simulates(u, q)
    BY <1>2, <1>3, AlikeAfter DEF Alike, IsProver
<1>5. QED
    BY <1>1, <1>4

(* allocate opens a gate or completes the one that is open. *)
LEMMA AllocateSame ==
    ASSUME NEW p, NEW v, Alike(p, v), p.err = "None", NEW x
    PROVE  Simulates(VerifierAllocate(v), ProverAllocate(p, x))
<1>1. PICK q, u : q = ProverAllocate(p, x) /\ u = VerifierAllocate(v)
    OBVIOUS
<1>2. v.pending = p.pending /\ v.num_vars = Len(p.a_L) /\ IsSeq(p.a_L)
    BY DEF Alike, IsProver
<1>3. CASE p.pending = NoPending
    <2>1. /\ q = [f \in ProverFields |-> q[f]] /\ q.err = p.err
          /\ q.a_L = Append(p.a_L, x) /\ q.pending = Len(p.a_L) + 1
          /\ q.deferred = p.deferred /\ q.constraints = p.constraints
        BY <1>1, <1>3 DEF ProverAllocate, Alike, IsProver, ProverFields
    <2>2. /\ u = [f \in VerifierFields |-> u[f]] /\ u.err = v.err
          /\ u.num_vars = v.num_vars + 1 /\ u.pending = v.num_vars + 1
          /\ u.deferred = v.deferred /\ u.constraints = v.constraints
        BY <1>1, <1>2, <1>3 DEF VerifierAllocate, Alike, IsVerifier, VerifierFields
    <2>3. IsSeq(q.a_L) /\ u.num_vars = Len(q.a_L) /\ u.pending = q.pending
        <3>1. IsSeq(Append(p.a_L, x)) /\ Len(Append(p.a_L, x)) = Len(p.a_L) + 1
            BY <1>2, OneLonger
        <3>2. QED
            BY <1>2, <2>1, <2>2, <3>1
    <2>4. Simulates(u, q)
        BY <2>1, <2>2, <2>3, AlikeAfter DEF Alike, IsProver
    <2>5. QED
        BY <1>1, <2>4
<1>4. CASE p.pending # NoPending
    <2>1. /\ q = [f \in ProverFields |-> q[f]] /\ q.err = p.err
          /\ q.a_L = p.a_L /\ q.pending = NoPending
          /\ q.deferred = p.deferred /\ q.constraints = p.constraints
        BY <1>1, <1>4 DEF ProverAllocate, Alike, IsProver, ProverFields
    <2>2. /\ u = [f \in VerifierFields |-> u[f]] /\ u.err = v.err
          /\ u.num_vars = v.num_vars /\ u.pending = NoPending
          /\ u.deferred = v.deferred /\ u.constraints = v.constraints
        BY <1>1, <1>2, <1>4 DEF VerifierAllocate, Alike, IsVerifier, VerifierFields
    <2>3. Simulates(u, q)
        BY <1>2, <2>1, <2>2, AlikeAfter DEF Alike, IsProver
    <2>4. QED
        BY <1>1, <2>3
<1>5. QED
    BY <1>3, <1>4

(* allocate_multiplier is a gate with both inputs. *)
LEMMA GateSame ==
    ASSUME NEW p, NEW v, Alike(p, v), p.err = "None", NEW l, NEW r
    PROVE  Simulates([v EXCEPT !.num_vars = @ + 1], Gate(p, l, r))
<1>1. PICK q, u : q = Gate(p, l, r) /\ u = [v EXCEPT !.num_vars = @ + 1]
    OBVIOUS
<1>2. v.num_vars = Len(p.a_L) /\ IsSeq(p.a_L)
    BY DEF Alike, IsProver
<1>3. /\ q = [f \in ProverFields |-> q[f]] /\ q.err = p.err /\ q.a_L = Append(p.a_L, l)
      /\ q.pending = p.pending /\ q.deferred = p.deferred /\ q.constraints = p.constraints
    BY <1>1 DEF Gate, Alike, IsProver, ProverFields
<1>4. /\ u = [f \in VerifierFields |-> u[f]] /\ u.err = v.err /\ u.num_vars = v.num_vars + 1
      /\ u.pending = v.pending /\ u.deferred = v.deferred /\ u.constraints = v.constraints
    BY <1>1 DEF Alike, IsVerifier, VerifierFields
<1>5. IsSeq(q.a_L) /\ u.num_vars = Len(q.a_L)
    <2>1. IsSeq(Append(p.a_L, l)) /\ Len(Append(p.a_L, l)) = Len(p.a_L) + 1
        BY <1>2, OneLonger
    <2>2. QED
        BY <1>2, <1>3, <1>4, <2>1
<1>6. Simulates(u, q)
    BY <1>3, <1>4, <1>5, AlikeAfter DEF Alike, IsProver
<1>7. QED
    BY <1>1, <1>6

(* constrain appends a constraint. *)
LEMMA ConstrainSame ==
    ASSUME NEW p, NEW v, Alike(p, v), p.err = "None", NEW a, NEW b, SameTerms(a, b)
    PROVE  Simulates([v EXCEPT !.constraints = Append(@, b)], ProverConstrain(p, a))
<1>1. PICK q, u : q = ProverConstrain(p, a) /\ u = [v EXCEPT !.constraints = Append(@, b)]
    OBVIOUS
<1>2. SameConstraints(Append(p.constraints, a), Append(v.constraints, b))
    BY OneMoreConstraint DEF Alike
<1>3. /\ q = [f \in ProverFields |-> q[f]] /\ q.err = p.err /\ q.a_L = p.a_L
      /\ q.pending = p.pending /\ q.deferred = p.deferred
      /\ q.constraints = Append(p.constraints, a)
    BY <1>1 DEF ProverConstrain, Alike, IsProver, ProverFields
<1>4. /\ u = [f \in VerifierFields |-> u[f]] /\ u.err = v.err /\ u.num_vars = v.num_vars
      /\ u.pending = v.pending /\ u.deferred = v.deferred
      /\ u.constraints = Append(v.constraints, b)
    BY <1>1 DEF Alike, IsVerifier, VerifierFields
<1>5. Simulates(u, q)
    BY <1>2, <1>3, <1>4, AlikeAfter DEF Alike, IsProver
<1>6. QED
    BY <1>1, <1>5

(* multiply is a gate whose inputs are constrained to two combinations. *)
LEMMA MultiplySame ==
    ASSUME NEW p, NEW v, Alike(p, v), p.err = "None",
           NEW a, NEW b, SameTerms(a, b), NEW c, NEW d, SameTerms(c, d)
    PROVE  Simulates(VerifierMultiply(v, b, d), ProverMultiply(p, a, c))
<1>1. PICK q, u : q = ProverMultiply(p, a, c) /\ u = VerifierMultiply(v, b, d)
    OBVIOUS
<1>2. v.num_vars = Len(p.a_L) /\ IsSeq(p.a_L) /\ SameConstraints(p.constraints, v.constraints)
    BY DEF Alike, IsProver
<1>3. PICK i, l, r : i = Len(p.a_L) + 1 /\ l = Term("L", i, Neg(1)) /\ r = Term("R", i, Neg(1))
    OBVIOUS
<1>4. IsTerm(l) /\ IsTerm(r)
    BY <1>3 DEF IsTerm, Term
<1>5. SameTerms(Append(a, l), Append(b, l)) /\ SameTerms(Append(c, r), Append(d, r))
    BY <1>4, OneMoreTerm
<1>6. PICK cs, ds : /\ cs = p.constraints \o <<Append(a, l), Append(c, r)>>
                    /\ ds = v.constraints \o <<Append(b, l), Append(d, r)>>
    OBVIOUS
<1>7. SameConstraints(cs, ds)
    BY <1>2, <1>5, <1>6, TwoMoreConstraints
<1>8. PICK g : g = Gate(p, Eval(p, a), Eval(p, c))
    OBVIOUS
<1>9. /\ g = [f \in ProverFields |-> g[f]] /\ g.err = p.err
      /\ g.a_L = Append(p.a_L, Eval(p, a)) /\ g.pending = p.pending
      /\ g.deferred = p.deferred /\ g.constraints = p.constraints
    BY <1>8 DEF Gate, Alike, IsProver, ProverFields
<1>10. q = [g EXCEPT !.constraints = @ \o <<Append(a, l), Append(c, r)>>]
    BY <1>1, <1>3, <1>8 DEF ProverMultiply
<1>11. /\ q = [f \in ProverFields |-> q[f]] /\ q.err = p.err
       /\ q.a_L = Append(p.a_L, Eval(p, a)) /\ q.pending = p.pending
       /\ q.deferred = p.deferred /\ q.constraints = cs
    BY <1>6, <1>9, <1>10 DEF ProverFields
<1>12. u = [v EXCEPT !.num_vars = i, !.constraints = @ \o <<Append(b, l), Append(d, r)>>]
    BY <1>1, <1>2, <1>3 DEF VerifierMultiply
<1>13. /\ u = [f \in VerifierFields |-> u[f]] /\ u.err = v.err /\ u.num_vars = i
       /\ u.pending = v.pending /\ u.deferred = v.deferred /\ u.constraints = ds
    BY <1>6, <1>12 DEF Alike, IsVerifier, VerifierFields
<1>14. IsSeq(q.a_L) /\ u.num_vars = Len(q.a_L)
    <2>1. PICK x : x = Eval(p, a)
        OBVIOUS
    <2>2. IsSeq(Append(p.a_L, x)) /\ Len(Append(p.a_L, x)) = Len(p.a_L) + 1
        BY <1>2, OneLonger
    <2>3. q.a_L = Append(p.a_L, x) /\ u.num_vars = Len(p.a_L) + 1
        BY <1>3, <1>11, <1>13, <2>1
    <2>4. QED
        BY <2>2, <2>3
<1>15. Simulates(u, q)
    BY <1>7, <1>11, <1>13, <1>14, AlikeAfter DEF Alike, IsProver
<1>16. QED
    BY <1>1, <1>15

(* An error of the prover ends its side. *)
LEMMA ErrorSame ==
    ASSUME NEW p, NEW v, NEW u, Alike(p, v), NEW e \in {"MissingAssignment", "GadgetError"}
    PROVE  Simulates(u, [p EXCEPT !.err = e])
<1>1. [p EXCEPT !.err = e].err = e
    BY DEF Alike, IsProver, ProverFields
<1>2. e # "None"
    OBVIOUS
<1>3. QED
    BY <1>1, <1>2 DEF Simulates

(* specify_randomized_constraints keeps the callback for later. *)
LEMMA SpecifySame ==
    ASSUME NEW p, NEW v, Alike(p, v), p.err = "None", NEW c \in Seq(Calls)
    PROVE  Simulates([v EXCEPT !.deferred = Append(@, c)], [p EXCEPT !.deferred = Append(@, c)])
<1>1. PICK q, u : /\ q = [p EXCEPT !.deferred = Append(@, c)]
                  /\ u = [v EXCEPT !.deferred = Append(@, c)]
    OBVIOUS
<1>2. /\ q = [f \in ProverFields |-> q[f]] /\ q.err = p.err /\ q.a_L = p.a_L
      /\ q.pending = p.pending /\ q.deferred = Append(p.deferred, c)
      /\ q.constraints = p.constraints
    BY <1>1 DEF Alike, IsProver, ProverFields
<1>3. /\ u = [f \in VerifierFields |-> u[f]] /\ u.err = v.err /\ u.num_vars = v.num_vars
      /\ u.pending = v.pending /\ u.deferred = Append(v.deferred, c)
      /\ u.constraints = v.constraints
    BY <1>1 DEF Alike, IsVerifier, VerifierFields
<1>4. v.deferred = p.deferred /\ Append(p.deferred, c) \in Seq(Seq(Calls))
    <2>1. PICK C : C = Seq(Calls)
        OBVIOUS
    <2>2. p.deferred \in Seq(C) /\ c \in C
        BY <2>1 DEF Alike, IsProver
    <2>3. Append(p.deferred, c) \in Seq(C)
        BY <2>2
    <2>4. QED
        BY <2>1, <2>3 DEF Alike
<1>5. Simulates(u, q)
    BY <1>2, <1>3, <1>4, AlikeAfter DEF Alike, IsProver
<1>6. QED
    BY <1>1, <1>5

(* Every instruction keeps the verifier's system that of the prover. *)
LEMMA RunSame ==
    ASSUME NEW p, NEW v, Simulates(v, p), NEW instr \in Instructions, NEW inputs,
           NEW commitments, NEW mine, NEW yours, NEW challenge
    PROVE  Simulates(VerifierRun(v, instr, commitments, yours, challenge),
                     ProverRun(p, instr, inputs, mine, challenge))
<1>1. PICK q, u : /\ q = ProverRun(p, instr, inputs, mine, challenge)
                  /\ u = VerifierRun(v, instr, commitments, yours, challenge)
    OBVIOUS
<1>2. CASE p.err # "None"
    <2>1. q = p
        BY <1>1, <1>2 DEF ProverRun
    <2>2. QED
        BY <1>1, <1>2, <2>1 DEF Simulates
<1>3. CASE p.err = "None"
    <2>1. Alike(p, v) /\ v.err = "None"
        BY <1>3 DEF Simulates, Alike
    <2>2. CASE instr.op = "commit"
        <3>1. q = ProverCommit(p, inputs[instr.input], Random(100 + Len(p.v)))
            BY <1>1, <1>3, <2>2 DEF ProverRun
        <3>2. u = VerifierCommit(v, commitments[Len(v.V) + 1])
            BY <1>1, <2>1, <2>2 DEF VerifierRun
        <3>3. QED
            BY <1>1, <1>3, <2>1, <3>1, <3>2, CommitSame
    <2>3. CASE instr.op = "allocate"
        <3>1. q = IF instr.input = 0 THEN [p EXCEPT !.err = "MissingAssignment"]
                  ELSE ProverAllocate(p, inputs[instr.input])
            BY <1>1, <1>3, <2>3 DEF ProverRun
        <3>2. u = VerifierAllocate(v)
            BY <1>1, <2>1, <2>3 DEF VerifierRun
        <3>3. CASE instr.input = 0
            BY <1>1, <2>1, <3>1, <3>3, ErrorSame
        <3>4. CASE instr.input # 0
            BY <1>1, <1>3, <2>1, <3>1, <3>2, <3>4, AllocateSame
        <3>5. QED
            BY <3>3, <3>4
    <2>4. CASE instr.op = "allocate_multiplier"
        <3>1. q = IF 0 \in {instr.left, instr.right} THEN [p EXCEPT !.err = "MissingAssignment"]
                  ELSE Gate(p, inputs[instr.left], inputs[instr.right])
            BY <1>1, <1>3, <2>4 DEF ProverRun
        <3>2. u = [v EXCEPT !.num_vars = @ + 1]
            BY <1>1, <2>1, <2>4 DEF VerifierRun
        <3>3. CASE 0 \in {instr.left, instr.right}
            BY <1>1, <2>1, <3>1, <3>3, ErrorSame
        <3>4. CASE ~(0 \in {instr.left, instr.right})
            BY <1>1, <1>3, <2>1, <3>1, <3>2, <3>4, GateSame
        <3>5. QED
            BY <3>3, <3>4
    <2>5. CASE instr.op = "multiply"
        <3>1. q = ProverMultiply(p, Resolved(instr.left, mine), Resolved(instr.right, mine))
            BY <1>1, <1>3, <2>5 DEF ProverRun
        <3>2. u = VerifierMultiply(v, Resolved(instr.left, yours), Resolved(instr.right, yours))
            BY <1>1, <2>1, <2>5 DEF VerifierRun
        <3>3. instr.left \in Seq(Terms) /\ instr.right \in Seq(Terms)
            BY <2>5 DEF Instructions, Calls
        <3>4. /\ SameTerms(Resolved(instr.left, mine), Resolved(instr.left, yours))
              /\ SameTerms(Resolved(instr.right, mine), Resolved(instr.right, yours))
            BY <3>3, ResolvedSame
        <3>5. QED
            BY <1>1, <1>3, <2>1, <3>1, <3>2, <3>4, MultiplySame
    <2>6. CASE instr.op \in {"constrain", "constrain_scaled"}
        <3>1. PICK a, b : /\ a = Resolved(instr.lc, mine) /\ b = Resolved(instr.lc, yours)
                          /\ SameTerms(a, b)
            <4>1. instr.lc \in Seq(Terms)
                BY <2>6 DEF Instructions, Calls
            <4>2. QED
                BY <4>1, ResolvedSame
        <3>2. CASE instr.op = "constrain"
            <4>1. q = ProverConstrain(p, a)
                BY <1>1, <1>3, <3>1, <3>2 DEF ProverRun
            <4>2. u = [v EXCEPT !.constraints = Append(@, b)]
                BY <1>1, <2>1, <3>1, <3>2 DEF VerifierRun
            <4>3. QED
                BY <1>1, <1>3, <2>1, <3>1, <4>1, <4>2, ConstrainSame
        <3>3. CASE instr.op = "constrain_scaled"
            <4>1. q = ProverConstrain(p, Scaled(a, challenge))
                BY <1>1, <1>3, <3>1, <3>3 DEF ProverRun
            <4>2. u = [v EXCEPT !.constraints = Append(@, Scaled(b, challenge))]
                BY <1>1, <2>1, <3>1, <3>3 DEF VerifierRun
            <4>3. SameTerms(Scaled(a, challenge), Scaled(b, challenge))
                BY <3>1, ScaledSame
            <4>4. QED
                BY <1>1, <1>3, <2>1, <4>1, <4>2, <4>3, ConstrainSame
        <3>4. QED
            BY <2>6, <3>2, <3>3
    <2>7. CASE instr.op = "fail"
        <3>1. q = [p EXCEPT !.err = "GadgetError"]
            BY <1>1, <1>3, <2>7 DEF ProverRun
        <3>2. Simulates(u, [p EXCEPT !.err = "GadgetError"])
            BY <2>1, ErrorSame
        <3>3. QED
            BY <1>1, <3>1, <3>2
    <2>8. CASE instr.op = "specify_randomized_constraints"
        <3>1. q = [p EXCEPT !.deferred = Append(@, instr.callback)]
            BY <1>1, <1>3, <2>8 DEF ProverRun
        <3>2. u = [v EXCEPT !.deferred = Append(@, instr.callback)]
            BY <1>1, <2>1, <2>8 DEF VerifierRun
        <3>3. instr.callback \in Seq(Calls)
            BY <2>8 DEF Instructions, Calls
        <3>4. QED
            BY <1>1, <1>3, <2>1, <3>1, <3>2, <3>3, SpecifySame
    <2>9. QED
        BY <2>2, <2>3, <2>4, <2>5, <2>6, <2>7, <2>8 DEF Instructions, Calls
<1>4. QED
    BY <1>2, <1>3

(* A callback keeps the verifier's system that of the prover. *)
LEMMA CallbackSame ==
    ASSUME NEW p, NEW v, Simulates(v, p), NEW calls \in Seq(Calls), NEW inputs,
           NEW commitments, NEW mine, NEW yours, NEW challenge
    PROVE  Simulates(VerifierCallback(v, calls, commitments, yours, challenge),
                     ProverCallback(p, calls, inputs, mine, challenge))
<1>1. Len(calls) \in Nat /\ \A n \in 1..Len(calls) : calls[n] \in Calls
    OBVIOUS
<1>2. PICK h : /\ ProverRuns(h, p, calls, inputs, mine, challenge)
               /\ ProverCallback(p, calls, inputs, mine, challenge) = h[Len(calls)]
    BY <1>1, ProverCallbackTable
<1>3. PICK g : /\ VerifierRuns(g, v, calls, commitments, yours, challenge)
               /\ VerifierCallback(v, calls, commitments, yours, challenge) = g[Len(calls)]
    BY <1>1, VerifierCallbackTable
<1> DEFINE T == {n \in Nat : n <= Len(calls) => Simulates(g[n], h[n])}
<1>4. 0 \in T
    BY <1>2, <1>3 DEF ProverRuns, VerifierRuns
<1>5. ASSUME NEW n \in Nat, n \in T PROVE n + 1 \in T
    <2>1. SUFFICES ASSUME n + 1 <= Len(calls) PROVE Simulates(g[n + 1], h[n + 1])
        OBVIOUS
    <2>2. n <= Len(calls) /\ n + 1 \in 1..Len(calls) /\ (n + 1) - 1 = n
        BY <2>1
    <2>3. Simulates(g[n], h[n])
        BY <1>5, <2>2
    <2>4. /\ h[n + 1] = ProverRun(h[n], calls[n + 1], inputs, mine, challenge)
          /\ g[n + 1] = VerifierRun(g[n], calls[n + 1], commitments, yours, challenge)
        BY <1>2, <1>3, <2>2 DEF ProverRuns, VerifierRuns
    <2>5. calls[n + 1] \in Instructions
        BY <1>1, <2>2 DEF Instructions
    <2>6. QED
        BY <2>3, <2>4, <2>5, RunSame
<1>6. Len(calls) \in T
    <2> HIDE DEF T
    <2>1. QED
        BY <1>4, <1>5, Induction
<1>7. QED
    BY <1>2, <1>3, <1>6

(* The second phase keeps it, too. *)
LEMMA RandomizedSame ==
    ASSUME NEW p, NEW v, Alike(p, v), p.err = "None", NEW inputs,
           NEW commitments, NEW mine, NEW yours, NEW challenges
    PROVE  Simulates(VerifierCreateRandomized(v, commitments, yours, challenges),
                     ProverCreateRandomized(p, inputs, mine, challenges))
<1>1. v.deferred = p.deferred
    BY DEF Alike
<1>2. Len(p.deferred) \in Nat /\ \A n \in 1..Len(p.deferred) : p.deferred[n] \in Seq(Calls)
    <2>1. PICK C : C = Seq(Calls)
        OBVIOUS
    <2>2. p.deferred \in Seq(C)
        BY <2>1 DEF Alike, IsProver
    <2>3. Len(p.deferred) \in Nat /\ \A n \in 1..Len(p.deferred) : p.deferred[n] \in C
        BY <2>2
    <2>4. QED
        BY <2>1, <2>3
<1>3. PICK q, u : /\ q = [p EXCEPT !.pending = NoPending, !.deferred = << >>]
                  /\ u = [v EXCEPT !.pending = NoPending, !.deferred = << >>]
    OBVIOUS
<1>4. Simulates(u, q)
    <2>1. /\ q = [f \in ProverFields |-> q[f]] /\ q.err = p.err /\ q.a_L = p.a_L
          /\ q.pending = NoPending /\ q.deferred = << >> /\ q.constraints = p.constraints
        BY <1>3 DEF Alike, IsProver, ProverFields
    <2>2. /\ u = [f \in VerifierFields |-> u[f]] /\ u.err = v.err /\ u.num_vars = v.num_vars
          /\ u.pending = NoPending /\ u.deferred = << >> /\ u.constraints = v.constraints
        BY <1>3 DEF Alike, IsVerifier, VerifierFields
    <2>3. << >> \in Seq(Seq(Calls))
        OBVIOUS
    <2>4. QED
        BY <2>1, <2>2, <2>3, AlikeAfter DEF Alike, IsProver
<1>5. PICK h : /\ ProverRunsCallbacks(h, p, inputs, mine, challenges)
               /\ ProverCreateRandomized(p, inputs, mine, challenges) = h[Len(p.deferred)]
    BY <1>2, ProverRandomizedTable
<1>6. PICK g : /\ VerifierRunsCallbacks(g, v, commitments, yours, challenges)
               /\ VerifierCreateRandomized(v, commitments, yours, challenges) = g[Len(v.deferred)]
    BY <1>1, <1>2, VerifierRandomizedTable
<1> DEFINE T == {n \in Nat : n <= Len(p.deferred) => Simulates(g[n], h[n])}
<1>7. 0 \in T
    BY <1>3, <1>4, <1>5, <1>6 DEF ProverRunsCallbacks, VerifierRunsCallbacks
<1>8. ASSUME NEW n \in Nat, n \in T PROVE n + 1 \in T
    <2>1. SUFFICES ASSUME n + 1 <= Len(p.deferred) PROVE Simulates(g[n + 1], h[n + 1])
        OBVIOUS
    <2>2. n <= Len(p.deferred) /\ n + 1 \in 1..Len(p.deferred) /\ (n + 1) - 1 = n
        BY <2>1
    <2>3. Simulates(g[n], h[n])
        BY <1>8, <2>2
    <2>4. /\ h[n + 1] = ProverCallback(h[n], p.deferred[n + 1], inputs, mine, challenges[n + 1])
          /\ g[n + 1] = VerifierCallback(g[n], p.deferred[n + 1], commitments, yours, challenges[n + 1])
        BY <1>1, <1>5, <1>6, <2>2 DEF ProverRunsCallbacks, VerifierRunsCallbacks
    <2>5. p.deferred[n + 1] \in Seq(Calls)
        BY <1>2, <2>2
    <2>6. QED
        BY <2>3, <2>4, <2>5, CallbackSame
<1>9. Len(p.deferred) \in T
    <2> HIDE DEF T
    <2>1. QED
        BY <1>7, <1>8, Induction
<1>10. QED
    BY <1>1, <1>5, <1>6, <1>9

(***************************************************************************)
(* A session.                                                              *)
(***************************************************************************)
(* h[n] is the prover's system after n instructions. *)
ProverHistory(h, n) ==
    /\ h[0] = NewProver
    /\ \A k \in 1..n :
            h[k] = ProverRun(h[k - 1], session.circuit[k], session.inputs, session.public.prover, 0)

(* The verifier's system is what the prover's was after as many            *)
(* instructions: the two do not run at the same time, so the invariant     *)
(* needs the prover's past.                                                *)
VerifierFollows ==
    \E h : /\ ProverHistory(h, step.prover) /\ h[step.prover] = prover
           /\ Simulates(verifier, h[step.verifier])

(* Some verifier could follow the prover up to where it is. *)
ProverFollowable == \E v : Simulates(v, prover)

StepsTyped ==
    /\ session \in Sessions
    /\ step = [prover |-> step.prover, verifier |-> step.verifier]
    /\ step.prover \in 0..Len(session.circuit) /\ step.verifier \in 0..step.prover

(* A proof exists only of a whole circuit without an error, and the        *)
(* verifier starts only after that.                                        *)
ProofOfWholeCircuit ==
    made.kind = "Ok" =>
        step.prover = Len(session.circuit) /\ prover.err = "None" /\ FinalProver.err = "None"

VerifierAfterProof ==
    (received.kind = "Ok" \/ step.verifier > 0) => made.kind = "Ok"

SidesInv ==
    /\ StepsTyped
    /\ VerifierFollows
    /\ ProverFollowable
    /\ ProofOfWholeCircuit
    /\ VerifierAfterProof

(* Empty systems are alike. *)
LEMMA NewSidesSame == Simulates(NewVerifier, NewProver)
<1>1. PICK q, u : q = NewProver /\ u = NewVerifier
    OBVIOUS
<1>2. /\ q = [f \in ProverFields |-> q[f]] /\ q.err = "None" /\ q.a_L = << >>
      /\ q.pending = NoPending /\ q.deferred = << >> /\ q.constraints = << >>
    BY <1>1 DEF NewProver, ProverFields
<1>3. /\ u = [f \in VerifierFields |-> u[f]] /\ u.err = "None" /\ u.num_vars = 0
      /\ u.pending = NoPending /\ u.deferred = << >> /\ u.constraints = << >>
    BY <1>1 DEF NewVerifier, VerifierFields
<1>4. IsSeq(<< >>) /\ Len(<< >>) = 0
    <2>1. << >> \in Seq({})
        OBVIOUS
    <2>2. QED
        BY <2>1 DEF IsSeq
<1>5. SameConstraints(<< >>, << >>)
    BY <1>4 DEF SameConstraints
<1>6. << >> \in Seq(Seq(Calls))
    OBVIOUS
<1>7. Alike(q, u)
    BY <1>2, <1>3, <1>4, <1>5, <1>6 DEF Alike, IsProver, IsVerifier
<1>8. QED
    BY <1>1, <1>2, <1>7 DEF Simulates

LEMMA SidesInit == Init => SidesInv
<1> SUFFICES ASSUME Init PROVE SidesInv
    OBVIOUS
<1>1. /\ session \in Sessions /\ step = [prover |-> 0, verifier |-> 0]
      /\ prover = NewProver /\ verifier = NewVerifier
      /\ made.kind = "None" /\ received.kind = "None"
    BY DEF Init, NotCalled, Fail
<1>2. Len(session.circuit) \in Nat
    BY <1>1, SessionAssumption
<1>3. StepsTyped
    BY <1>1, <1>2 DEF StepsTyped
<1>4. VerifierFollows
    <2>1. PICK h : h = [k \in {0} |-> NewProver]
        OBVIOUS
    <2>2. ProverHistory(h, step.prover) /\ h[step.prover] = prover
        BY <1>1, <2>1 DEF ProverHistory
    <2>3. Simulates(verifier, h[step.verifier])
        BY <1>1, <2>1, NewSidesSame
    <2>4. QED
        BY <2>2, <2>3 DEF VerifierFollows
<1>5. ProverFollowable
    BY <1>1, NewSidesSame DEF ProverFollowable
<1>6. ProofOfWholeCircuit /\ VerifierAfterProof
    BY <1>1 DEF ProofOfWholeCircuit, VerifierAfterProof
<1>7. QED
    BY <1>3, <1>4, <1>5, <1>6 DEF SidesInv

(* The prover's step makes the history longer; no verifier runs yet. *)
LEMMA SidesProverStep == SidesInv /\ ProverStep => SidesInv'
<1> SUFFICES ASSUME SidesInv, ProverStep PROVE SidesInv'
    OBVIOUS
<1>1. PICK n \in Nat, m \in Nat : n = step.prover /\ m = step.verifier
    BY SessionAssumption DEF SidesInv, StepsTyped
<1>2. /\ n < Len(session.circuit) /\ step = [prover |-> n, verifier |-> m]
      /\ session' = session /\ verifier' = verifier /\ made' = made /\ received' = received
      /\ drawn' = drawn /\ step' = [prover |-> n + 1, verifier |-> m]
    BY <1>1 DEF ProverStep, SidesInv, StepsTyped
<1>3. PICK q : /\ q = ProverRun(prover, session.circuit[n + 1], session.inputs, session.public.prover, 0)
               /\ prover' = q
    BY <1>1 DEF ProverStep
<1>4. Len(session.circuit) \in Nat /\ session.circuit[n + 1] \in Instructions
    BY <1>2, SessionAssumption DEF SidesInv, StepsTyped
<1>5. made.kind # "Ok" /\ received.kind # "Ok" /\ m = 0
    BY <1>1, <1>2, <1>4 DEF SidesInv, ProofOfWholeCircuit, VerifierAfterProof
<1>6. StepsTyped'
    BY <1>2, <1>4, <1>5 DEF SidesInv, StepsTyped
<1>7. VerifierFollows'
    <2>1. PICK h : /\ ProverHistory(h, n) /\ h[n] = prover /\ Simulates(verifier, h[0])
        BY <1>1, <1>5 DEF SidesInv, VerifierFollows
    <2>2. PICK g : g = [k \in 0..(n + 1) |-> IF k <= n THEN h[k] ELSE q]
        OBVIOUS
    <2>3. g[0] = h[0] /\ g[n + 1] = q /\ g[n] = h[n]
        BY <2>2
    <2>4. ASSUME NEW k \in 1..(n + 1)
          PROVE  g[k] = ProverRun(g[k - 1], session.circuit[k], session.inputs, session.public.prover, 0)
        <3>1. CASE k = n + 1
            <4>1. k - 1 = n
                BY <3>1
            <4>2. QED
                BY <1>3, <2>1, <2>3, <3>1, <4>1
        <3>2. CASE k # n + 1
            <4>1. k \in 1..n /\ k \in 0..(n + 1) /\ k - 1 \in 0..(n + 1) /\ k <= n /\ k - 1 <= n
                BY <3>2
            <4>2. g[k] = h[k] /\ g[k - 1] = h[k - 1]
                BY <2>2, <4>1
            <4>3. h[k] = ProverRun(h[k - 1], session.circuit[k], session.inputs, session.public.prover, 0)
                BY <2>1, <4>1 DEF ProverHistory
            <4>4. QED
                BY <4>2, <4>3
        <3>3. QED
            BY <3>1, <3>2
    <2>5. ProverHistory(g, n + 1)'
        BY <1>2, <2>1, <2>3, <2>4 DEF ProverHistory
    <2>6. step'.prover = n + 1 /\ step'.verifier = 0
        BY <1>2, <1>5
    <2>7. QED
        BY <1>2, <1>3, <2>1, <2>3, <2>5, <2>6 DEF VerifierFollows
<1>8. ProverFollowable'
    <2>1. PICK v : Simulates(v, prover)
        BY DEF SidesInv, ProverFollowable
    <2>2. PICK u : u = VerifierRun(v, session.circuit[n + 1], 0, 0, 0)
        OBVIOUS
    <2>3. Simulates(u, q)
        BY <1>3, <1>4, <2>1, <2>2, RunSame
    <2>4. QED
        BY <1>3, <2>3 DEF ProverFollowable
<1>9. ProofOfWholeCircuit' /\ VerifierAfterProof'
    BY <1>2, <1>5 DEF ProofOfWholeCircuit, VerifierAfterProof
<1>10. QED
    BY <1>6, <1>7, <1>8, <1>9 DEF SidesInv

(* What the invariant speaks of is left alone. *)
LEMMA SidesFollowUnchanged ==
    ASSUME SidesInv, UNCHANGED <<session, prover, verifier, step>>
    PROVE  (StepsTyped /\ VerifierFollows /\ ProverFollowable)'
<1>1. StepsTyped'
    BY DEF SidesInv, StepsTyped
<1>2. VerifierFollows'
    <2>1. PICK h : /\ ProverHistory(h, step.prover) /\ h[step.prover] = prover
                   /\ Simulates(verifier, h[step.verifier])
        BY DEF SidesInv, VerifierFollows
    <2>2. ProverHistory(h, step.prover)'
        BY <2>1 DEF ProverHistory
    <2>3. QED
        BY <2>1, <2>2 DEF VerifierFollows
<1>3. ProverFollowable'
    BY DEF SidesInv, ProverFollowable
<1>4. QED
    BY <1>1, <1>2, <1>3

(* A proof is only made when the second phase has met no error either. *)
LEMMA SidesCallProve == SidesInv /\ CallProve => SidesInv'
<1> SUFFICES ASSUME SidesInv, CallProve PROVE SidesInv'
    OBVIOUS
<1>1. /\ made.kind = "None" /\ step.prover = Len(session.circuit) /\ prover.err = "None"
      /\ UNCHANGED <<session, prover, verifier, step, drawn, received>>
    BY DEF CallProve, NotCalled, Fail
<1>2. (StepsTyped /\ VerifierFollows /\ ProverFollowable)'
    BY <1>1, SidesFollowUnchanged
<1>3. PICK p : p = FinalProver
    OBVIOUS
<1>4. p.err \in {"None", "MissingAssignment", "GadgetError"}
    <2>1. PICK v : Simulates(v, prover)
        BY DEF SidesInv, ProverFollowable
    <2>2. Alike(prover, v)
        BY <1>1, <2>1 DEF Simulates
    <2>3. PICK u : u = VerifierCreateRandomized(v, 0, 0, drawn.g)
        OBVIOUS
    <2>4. Simulates(u, p)
        BY <1>1, <1>3, <2>2, <2>3, RandomizedSame DEF FinalProver
    <2>5. QED
        BY <2>4 DEF Simulates
<1>5. made'.kind = "Ok" => p.err = "None"
    <2>1. SUFFICES ASSUME p.err # "None" PROVE made'.kind # "Ok"
        OBVIOUS
    <2>2. made' = Fail("InvalidGeneratorsLength") \/ made' = Fail(p.err)
        BY <1>3, <2>1 DEF CallProve, Prove, FinalProver
    <2>3. QED
        BY <1>4, <2>2 DEF Fail
<1>6. FinalProver' = p
    BY <1>1, <1>3 DEF FinalProver
<1>7. ProofOfWholeCircuit'
    BY <1>1, <1>5, <1>6 DEF ProofOfWholeCircuit
<1>8. VerifierAfterProof'
    BY <1>1 DEF SidesInv, VerifierAfterProof
<1>9. QED
    BY <1>2, <1>7, <1>8 DEF SidesInv

(* The verifier does what the prover did at the same instruction. *)
LEMMA SidesVerifierStep == SidesInv /\ VerifierStep => SidesInv'
<1> SUFFICES ASSUME SidesInv, VerifierStep PROVE SidesInv'
    OBVIOUS
<1>1. PICK n \in Nat, m \in Nat : n = step.prover /\ m = step.verifier
    BY SessionAssumption DEF SidesInv, StepsTyped
<1>2. /\ m < Len(session.circuit) /\ step = [prover |-> n, verifier |-> m]
      /\ received.kind = "Ok" /\ step' = [prover |-> n, verifier |-> m + 1]
      /\ UNCHANGED <<session, prover, drawn, made, received>>
    BY <1>1 DEF VerifierStep, SidesInv, StepsTyped
<1>3. PICK u : /\ u = VerifierRun(verifier, session.circuit[m + 1], Commitments(prover),
                                  session.public.verifier, 0)
               /\ verifier' = u
    BY <1>1 DEF VerifierStep
<1>4. made.kind = "Ok" /\ n = Len(session.circuit)
    BY <1>1, <1>2 DEF SidesInv, VerifierAfterProof, ProofOfWholeCircuit
<1>5. m + 1 \in 1..n /\ session.circuit[m + 1] \in Instructions
    BY <1>2, <1>4, SessionAssumption DEF SidesInv, StepsTyped
<1>6. StepsTyped'
    BY <1>1, <1>2, <1>5 DEF SidesInv, StepsTyped
<1>7. VerifierFollows'
    <2>1. PICK h : /\ ProverHistory(h, n) /\ h[n] = prover /\ Simulates(verifier, h[m])
        BY <1>1 DEF SidesInv, VerifierFollows
    <2>2. (m + 1) - 1 = m
        OBVIOUS
    <2>3. h[m + 1] = ProverRun(h[m], session.circuit[m + 1], session.inputs, session.public.prover, 0)
        BY <1>5, <2>1, <2>2 DEF ProverHistory
    <2>4. Simulates(u, h[m + 1])
        BY <1>3, <1>5, <2>1, <2>3, RunSame
    <2>5. ProverHistory(h, n)'
        BY <1>2, <2>1 DEF ProverHistory
    <2>6. step'.prover = n /\ step'.verifier = m + 1
        BY <1>2
    <2>7. QED
        BY <1>2, <1>3, <2>1, <2>4, <2>5, <2>6 DEF VerifierFollows
<1>8. ProverFollowable'
    BY <1>2 DEF SidesInv, ProverFollowable
<1>9. FinalProver' = FinalProver
    BY <1>2 DEF FinalProver
<1>10. ProofOfWholeCircuit' /\ VerifierAfterProof'
    BY <1>1, <1>2, <1>4, <1>9 DEF SidesInv, ProofOfWholeCircuit, VerifierAfterProof
<1>11. QED
    BY <1>6, <1>7, <1>8, <1>10 DEF SidesInv

(* The other steps change neither side. *)
LEMMA SidesOther ==
    ASSUME SidesInv, UNCHANGED <<session, prover, verifier, step, drawn, made>>,
           received'.kind = "Ok" => received.kind = "Ok" \/ made.kind = "Ok"
    PROVE  SidesInv'
<1>1. (StepsTyped /\ VerifierFollows /\ ProverFollowable)'
    BY SidesFollowUnchanged
<1>2. FinalProver' = FinalProver
    BY DEF FinalProver
<1>3. ProofOfWholeCircuit' /\ VerifierAfterProof'
    BY <1>2 DEF SidesInv, ProofOfWholeCircuit, VerifierAfterProof
<1>4. QED
    BY <1>1, <1>3 DEF SidesInv

LEMMA SidesNext == SidesInv /\ [Next]_vars => SidesInv'
<1> SUFFICES ASSUME SidesInv, [Next]_vars PROVE SidesInv'
    OBVIOUS
<1>1. CASE ProverStep
    BY <1>1, SidesProverStep
<1>2. CASE CallProve
    BY <1>2, SidesCallProve
<1>3. CASE Receive
    BY <1>3, SidesOther DEF Receive
<1>4. CASE VerifierStep
    BY <1>4, SidesVerifierStep
<1>5. CASE CallVerificationEquation
    BY <1>5, SidesOther DEF CallVerificationEquation
<1>6. CASE CallVerify
    BY <1>6, SidesOther DEF CallVerify
<1>7. CASE CallVerifyBatch
    BY <1>7, SidesOther DEF CallVerifyBatch
<1>8. CASE UNCHANGED vars
    BY <1>8, SidesOther DEF vars
<1>9. QED
    BY <1>1, <1>2, <1>3, <1>4, <1>5, <1>6, <1>7, <1>8 DEF Next

(* Of a proof's circuit both sides have the same gates and constraints. *)
LEMMA SidesInvAgree == SidesInv => SidesAgree
<1> SUFFICES ASSUME SidesInv, made.kind = "Ok", step.prover = step.verifier
             PROVE  /\ verifier.pending = prover.pending
                    /\ verifier.num_vars = Len(prover.a_L)
                    /\ FinalVerifier.num_vars = Len(FinalProver.a_L)
                    /\ WithoutConstants(FinalVerifier.constraints)
                            = WithoutConstants(FinalProver.constraints)
    BY DEF SidesAgree
<1>1. prover.err = "None" /\ FinalProver.err = "None"
    BY DEF SidesInv, ProofOfWholeCircuit
<1>2. Simulates(verifier, prover)
    BY DEF SidesInv, VerifierFollows
<1>3. Alike(prover, verifier)
    BY <1>1, <1>2 DEF Simulates
<1>4. PICK q, u : q = FinalProver /\ u = FinalVerifier
    OBVIOUS
<1>5. Simulates(u, q)
    BY <1>1, <1>3, <1>4, RandomizedSame DEF FinalProver, FinalVerifier
<1>6. Alike(q, u)
    BY <1>1, <1>4, <1>5 DEF Simulates
<1>7. WithoutConstants(q.constraints) = WithoutConstants(u.constraints)
    BY <1>6, SameWithoutConstants DEF Alike
<1>8. QED
    BY <1>3, <1>4, <1>6, <1>7 DEF Alike

(* Whatever circuit the two sides run, with whatever inputs, public values *)
(* and challenges, and whatever happens to the proof on its way: when the  *)
(* verifier has run the circuit of a proof, it gives every variable the    *)
(* place the prover gave it, in both phases.                               *)
THEOREM SidesAlwaysAgree == Spec => []SidesAgree
<1>1. Spec => []SidesInv
    BY SidesInit, SidesNext, PTL DEF Spec
<1>2. QED
    BY <1>1, SidesInvAgree, PTL

(***************************************************************************)
(* Encoding proofs.                                                        *)
(***************************************************************************)
(* What a proof is: five commitments T and as many L as R. *)
IsArgument(ipp) ==
    /\ ipp = [L_vec |-> ipp.L_vec, R_vec |-> ipp.R_vec, a |-> ipp.a, b |-> ipp.b]
    /\ IsSeq(ipp.L_vec) /\ IsSeq(ipp.R_vec) /\ Len(ipp.L_vec) = Len(ipp.R_vec)

IsProof(proof) ==
    /\ proof = [A_I1 |-> proof.A_I1, A_O1 |-> proof.A_O1, S1 |-> proof.S1,
                A_I2 |-> proof.A_I2, A_O2 |-> proof.A_O2, S2 |-> proof.S2,
                T |-> proof.T, t_x |-> proof.t_x, t_x_blinding |-> proof.t_x_blinding,
                e_blinding |-> proof.e_blinding, ipp |-> proof.ipp]
    /\ proof.T = [k \in 1..5 |-> proof.T[k]]
    /\ IsArgument(proof.ipp)

(* The entries of two sequences in a row. *)
InARow(row, s, t) ==
    /\ IsSeq(row) /\ Len(s) \in Nat /\ Len(t) \in Nat
    /\ Len(row) = Len(s) + Len(t)
    /\ \A k \in 1..Len(s) : row[k] = s[k]
    /\ \A k \in 1..Len(t) : row[Len(s) + k] = t[k]

LEMMA ConcatEntries ==
    ASSUME NEW s, IsSeq(s), NEW t, IsSeq(t)
    PROVE  InARow(s \o t, s, t)
<1>1. PICK S, T : s \in Seq(S) /\ t \in Seq(T)
    BY DEF IsSeq
<1>2. PICK R : R = S \cup T
    OBVIOUS
<1>3. s \in Seq(R) /\ t \in Seq(R)
    BY <1>1, <1>2
<1>4. s \o t \in Seq(R) /\ Len(s) \in Nat /\ Len(t) \in Nat /\ Len(s \o t) = Len(s) + Len(t)
    BY <1>3
<1>5. \A k \in 1..Len(s) : (s \o t)[k] = s[k]
    BY <1>3
<1>6. \A k \in 1..Len(t) : (s \o t)[Len(s) + k] = t[k]
    BY <1>3
<1>7. QED
    BY <1>4, <1>5, <1>6 DEF IsSeq, InARow

LEMMA ShortSeqs ==
    ASSUME NEW x, NEW y, NEW z
    PROVE  /\ IsSeq(<<x>>) /\ Len(<<x>>) = 1
           /\ IsSeq(<<x, y>>) /\ Len(<<x, y>>) = 2
           /\ IsSeq(<<x, y, z>>) /\ Len(<<x, y, z>>) = 3
<1>1. PICK S : S = {x, y, z}
    OBVIOUS
<1>2. <<x>> \in Seq(S) /\ <<x, y>> \in Seq(S) /\ <<x, y, z>> \in Seq(S)
    BY <1>1
<1>3. QED
    BY <1>2 DEF IsSeq

(* Five sequences in a row, after a first entry. *)
FiveInARow(row, b, p, t, s, q, e) ==
    /\ IsSeq(row)
    /\ Len(p) \in Nat /\ Len(t) \in Nat /\ Len(s) \in Nat /\ Len(q) \in Nat /\ Len(e) \in Nat
    /\ Len(row) = 1 + Len(p) + Len(t) + Len(s) + Len(q) + Len(e)
    /\ row[1] = b
    /\ \A k \in 1..Len(p) : row[1 + k] = p[k]
    /\ \A k \in 1..Len(t) : row[1 + Len(p) + k] = t[k]
    /\ \A k \in 1..Len(s) : row[1 + Len(p) + Len(t) + k] = s[k]
    /\ \A k \in 1..Len(q) : row[1 + Len(p) + Len(t) + Len(s) + k] = q[k]
    /\ \A k \in 1..Len(e) : row[1 + Len(p) + Len(t) + Len(s) + Len(q) + k] = e[k]

LEMMA RowEntries ==
    ASSUME NEW b, NEW p, IsSeq(p), NEW t, IsSeq(t), NEW s, IsSeq(s), NEW q, IsSeq(q), NEW e, IsSeq(e)
    PROVE  FiveInARow(<<b>> \o (p \o t \o s \o q \o e), b, p, t, s, q, e)
<1>1. PICK x, y, z, w, f : /\ x = p \o t /\ y = x \o s /\ z = y \o q /\ w = z \o e /\ f = <<b>>
    OBVIOUS
<1>2. InARow(x, p, t) /\ IsSeq(x)
    BY <1>1, ConcatEntries DEF InARow
<1>3. InARow(y, x, s) /\ IsSeq(y)
    <2>1. InARow(y, x, s)
        BY <1>1, <1>2, ConcatEntries
    <2>2. QED
        BY <2>1 DEF InARow
<1>4. InARow(z, y, q) /\ IsSeq(z)
    <2>1. InARow(z, y, q)
        BY <1>1, <1>3, ConcatEntries
    <2>2. QED
        BY <2>1 DEF InARow
<1>5. InARow(w, z, e) /\ IsSeq(w)
    <2>1. InARow(w, z, e)
        BY <1>1, <1>4, ConcatEntries
    <2>2. QED
        BY <2>1 DEF InARow
<1>6. IsSeq(f) /\ Len(f) = 1 /\ f[1] = b
    BY <1>1, ShortSeqs
<1>7. PICK row : row = f \o w
    OBVIOUS
<1>8. /\ IsSeq(row) /\ Len(row) = 1 + Len(w) /\ row[1] = b
      /\ \A k \in 1..Len(w) : row[1 + k] = w[k]
    <2>1. InARow(row, f, w)
        BY <1>5, <1>6, <1>7, ConcatEntries
    <2>2. QED
        BY <1>6, <2>1 DEF InARow
<1>9. ASSUME NEW k \in 1..Len(p) PROVE row[1 + k] = p[k]
    <2>1. k \in 1..Len(x) /\ k \in 1..Len(y) /\ k \in 1..Len(z) /\ k \in 1..Len(w)
        BY <1>2, <1>3, <1>4, <1>5 DEF InARow
    <2>2. QED
        BY <1>2, <1>3, <1>4, <1>5, <1>8, <2>1 DEF InARow
<1>10. ASSUME NEW k \in 1..Len(t) PROVE row[1 + Len(p) + k] = t[k]
    <2>1. PICK j : j = Len(p) + k
        OBVIOUS
    <2>2. j \in 1..Len(x) /\ j \in 1..Len(y) /\ j \in 1..Len(z) /\ j \in 1..Len(w)
          /\ 1 + Len(p) + k = 1 + j
        BY <1>2, <1>3, <1>4, <1>5, <2>1 DEF InARow
    <2>3. x[j] = t[k] /\ y[j] = x[j] /\ z[j] = y[j] /\ w[j] = z[j] /\ row[1 + j] = w[j]
        BY <1>2, <1>3, <1>4, <1>5, <1>8, <2>1, <2>2 DEF InARow
    <2>4. QED
        BY <2>2, <2>3
<1>11. ASSUME NEW k \in 1..Len(s) PROVE row[1 + Len(p) + Len(t) + k] = s[k]
    <2>1. PICK j : j = Len(x) + k
        OBVIOUS
    <2>2. j \in 1..Len(y) /\ j \in 1..Len(z) /\ j \in 1..Len(w)
          /\ 1 + Len(p) + Len(t) + k = 1 + j
        BY <1>2, <1>3, <1>4, <1>5, <2>1 DEF InARow
    <2>3. y[j] = s[k] /\ z[j] = y[j] /\ w[j] = z[j] /\ row[1 + j] = w[j]
        BY <1>3, <1>4, <1>5, <1>8, <2>1, <2>2 DEF InARow
    <2>4. QED
        BY <2>2, <2>3
<1>12. ASSUME NEW k \in 1..Len(q) PROVE row[1 + Len(p) + Len(t) + Len(s) + k] = q[k]
    <2>1. PICK j : j = Len(y) + k
        OBVIOUS
    <2>2. j \in 1..Len(z) /\ j \in 1..Len(w)
          /\ 1 + Len(p) + Len(t) + Len(s) + k = 1 + j
        BY <1>2, <1>3, <1>4, <1>5, <2>1 DEF InARow
    <2>3. z[j] = q[k] /\ w[j] = z[j] /\ row[1 + j] = w[j]
        BY <1>4, <1>5, <1>8, <2>1, <2>2 DEF InARow
    <2>4. QED
        BY <2>2, <2>3
<1>13. ASSUME NEW k \in 1..Len(e) PROVE row[1 + Len(p) + Len(t) + Len(s) + Len(q) + k] = e[k]
    <2>1. PICK j : j = Len(z) + k
        OBVIOUS
    <2>2. j \in 1..Len(w) /\ 1 + Len(p) + Len(t) + Len(s) + Len(q) + k = 1 + j
        BY <1>2, <1>3, <1>4, <1>5, <2>1 DEF InARow
    <2>3. w[j] = e[k] /\ row[1 + j] = w[j]
        BY <1>5, <1>8, <2>1, <2>2 DEF InARow
    <2>4. QED
        BY <2>2, <2>3
<1>14. Len(row) = 1 + Len(p) + Len(t) + Len(s) + Len(q) + Len(e)
    BY <1>2, <1>3, <1>4, <1>5, <1>8 DEF InARow
<1>15. row = <<b>> \o (p \o t \o s \o q \o e)
    BY <1>1, <1>7
<1>16. FiveInARow(row, b, p, t, s, q, e)
    <2>1. Len(p) \in Nat /\ Len(t) \in Nat /\ Len(s) \in Nat /\ Len(q) \in Nat /\ Len(e) \in Nat
        BY <1>2, <1>3, <1>4, <1>5 DEF InARow
    <2>2. QED
        BY <1>8, <1>9, <1>10, <1>11, <1>12, <1>13, <1>14, <2>1 DEF FiveInARow
<1>17. QED
    BY <1>15, <1>16

(* The rest of a sequence. *)
LEMMA RestEntries ==
    ASSUME NEW b, IsSeq(b), NEW n \in Nat, NEW m \in Nat, Len(b) = n + m, NEW i,
           i = SubSeq(b, n + 1, Len(b))
    PROVE  Len(i) = m /\ \A k \in 1..m : i[k] = b[n + k]
<1>1. PICK S : b \in Seq(S)
    BY DEF IsSeq
<1>2. Len(b) \in Nat /\ n + 1 \in Nat
    BY <1>1
<1>3. i = [k \in 1..m |-> b[n + k]]
    <2>1. i = [k \in 1..((Len(b) - (n + 1)) + 1) |-> b[(k + (n + 1)) - 1]]
        BY <1>1, <1>2
    <2>2. (Len(b) - (n + 1)) + 1 = m /\ \A k \in 1..m : (k + (n + 1)) - 1 = n + k
        BY <1>2
    <2>3. QED
        BY <2>1, <2>2
<1>4. Len(i) = m
    BY <1>3, SeqOfFunction
<1>5. QED
    BY <1>3, <1>4

(* The rows of an encoded proof, behind n commitments p and before m commitments q. *)
ProofRow(row, f, p, t, s, q, e, n, m) ==
    /\ IsSeq(row) /\ Len(row) = n + 11 + m
    /\ row[1] = f
    /\ \A k \in 1..n : row[1 + k] = p[k]
    /\ \A k \in 1..5 : row[1 + n + k] = t[k]
    /\ row[n + 7] = s[1] /\ row[n + 8] = s[2] /\ row[n + 9] = s[3]
    /\ \A k \in 1..m : row[(n + 9) + k] = q[k]
    /\ row[n + 10 + m] = e[1] /\ row[n + 11 + m] = e[2]

LEMMA ProofRowEntries ==
    ASSUME NEW f, NEW p, IsSeq(p), NEW t, IsSeq(t), NEW s, IsSeq(s), NEW q, IsSeq(q),
           NEW e, IsSeq(e), NEW n \in Nat, NEW m \in Nat,
           Len(p) = n, Len(t) = 5, Len(s) = 3, Len(q) = m, Len(e) = 2
    PROVE  ProofRow(<<f>> \o (p \o t \o s \o q \o e), f, p, t, s, q, e, n, m)
<1>1. PICK row : row = <<f>> \o (p \o t \o s \o q \o e)
    OBVIOUS
<1>2. FiveInARow(row, f, p, t, s, q, e)
    BY <1>1, RowEntries
<1>3. Len(row) = n + 11 + m
    BY <1>2 DEF FiveInARow
<1>4. \A k \in 1..n : row[1 + k] = p[k]
    BY <1>2 DEF FiveInARow
<1>5. \A k \in 1..5 : row[1 + n + k] = t[k]
    BY <1>2 DEF FiveInARow
<1>6. row[n + 7] = s[1] /\ row[n + 8] = s[2] /\ row[n + 9] = s[3]
    <2>1. ASSUME NEW k \in 1..3 PROVE row[n + 6 + k] = s[k]
        <3>1. 1 + Len(p) + Len(t) + k = n + 6 + k /\ k \in 1..Len(s)
            OBVIOUS
        <3>2. QED
            BY <1>2, <3>1 DEF FiveInARow
    <2>2. n + 6 + 1 = n + 7 /\ n + 6 + 2 = n + 8 /\ n + 6 + 3 = n + 9
        OBVIOUS
    <2>3. row[n + 6 + 1] = s[1] /\ row[n + 6 + 2] = s[2] /\ row[n + 6 + 3] = s[3]
        BY <2>1
    <2>4. QED
        BY <2>2, <2>3
<1>7. ASSUME NEW k \in 1..m PROVE row[(n + 9) + k] = q[k]
    <2>1. 1 + Len(p) + Len(t) + Len(s) + k = (n + 9) + k /\ k \in 1..Len(q)
        OBVIOUS
    <2>2. QED
        BY <1>2, <2>1 DEF FiveInARow
<1>8. row[n + 10 + m] = e[1] /\ row[n + 11 + m] = e[2]
    <2>1. ASSUME NEW k \in 1..2 PROVE row[n + 9 + m + k] = e[k]
        <3>1. 1 + Len(p) + Len(t) + Len(s) + Len(q) + k = n + 9 + m + k /\ k \in 1..Len(e)
            OBVIOUS
        <3>2. QED
            BY <1>2, <3>1 DEF FiveInARow
    <2>2. n + 9 + m + 1 = n + 10 + m /\ n + 9 + m + 2 = n + 11 + m
        OBVIOUS
    <2>3. row[n + 9 + m + 1] = e[1] /\ row[n + 9 + m + 2] = e[2]
        BY <2>1
    <2>4. QED
        BY <2>2, <2>3
<1>9. QED
    BY <1>1, <1>2, <1>3, <1>4, <1>5, <1>6, <1>7, <1>8 DEF ProofRow, FiveInARow

(* Where the fields of an encoded proof are, behind n commitments. *)
FieldsAt(b, proof, version, points, n, r) ==
    /\ IsSeq(b) /\ Len(b) = n + 11 + 2 * r
    /\ b[1] = [version |-> version]
    /\ \A k \in 1..n : b[1 + k] = PointField(points[k])
    /\ \A k \in 1..5 : b[1 + n + k] = PointField(proof.T[k])
    /\ b[n + 7] = ScalarField(proof.t_x)
    /\ b[n + 8] = ScalarField(proof.t_x_blinding)
    /\ b[n + 9] = ScalarField(proof.e_blinding)
    /\ \A k \in 1..r : /\ b[(n + 9) + (2 * k - 1)] = PointField(proof.ipp.L_vec[k])
                       /\ b[(n + 9) + 2 * k] = PointField(proof.ipp.R_vec[k])
    /\ b[n + 10 + 2 * r] = ScalarField(proof.ipp.a)
    /\ b[n + 11 + 2 * r] = ScalarField(proof.ipp.b)

LEMMA FieldsOfEntries ==
    ASSUME NEW proof, IsProof(proof), NEW version, NEW points, IsSeq(points),
           NEW n \in Nat, n = Len(points), NEW r, r = Len(proof.ipp.L_vec)
    PROVE  r \in Nat /\ FieldsAt(<<[version |-> version]>> \o FieldsOf(proof, points), proof,
                                 version, points, n, r)
<1>1. r \in Nat /\ DOMAIN points = 1..n
    BY DEF IsProof, IsArgument, IsSeq
<1>2. PICK p : p = [k \in 1..n |-> PointField(points[k])]
    OBVIOUS
<1>3. PICK t : t = [k \in 1..5 |-> PointField(proof.T[k])]
    OBVIOUS
<1>4. PICK s : s = <<ScalarField(proof.t_x), ScalarField(proof.t_x_blinding), ScalarField(proof.e_blinding)>>
    OBVIOUS
<1>5. PICK c : c = Pairs(proof.ipp)
    OBVIOUS
<1>6. /\ DOMAIN c = 1..(2 * r)
      /\ \A k \in 1..(2 * r) :
            c[k] = IF k % 2 = 1 THEN proof.ipp.L_vec[(k + 1) \div 2] ELSE proof.ipp.R_vec[k \div 2]
    BY <1>5 DEF Pairs
<1>7. PICK q : q = [k \in 1..(2 * r) |-> PointField(c[k])]
    OBVIOUS
<1>8. PICK e : e = <<ScalarField(proof.ipp.a), ScalarField(proof.ipp.b)>>
    OBVIOUS
<1>9. FieldsOf(proof, points) = p \o t \o s \o q \o e
    BY <1>1, <1>2, <1>3, <1>4, <1>5, <1>6, <1>7, <1>8 DEF FieldsOf
<1>10. IsSeq(p) /\ Len(p) = n
    BY <1>2, SeqOfFunction
<1>11. IsSeq(t) /\ Len(t) = 5
    BY <1>3, SeqOfFunction
<1>12. IsSeq(s) /\ Len(s) = 3
    BY <1>4, ShortSeqs
<1>13. IsSeq(q) /\ Len(q) = 2 * r
    <2>1. 2 * r \in Nat
        BY <1>1
    <2>2. QED
        BY <1>7, <2>1, SeqOfFunction
<1>14. IsSeq(e) /\ Len(e) = 2
    BY <1>8, ShortSeqs
<1>15. PICK f, b : f = [version |-> version] /\ b = <<f>> \o (p \o t \o s \o q \o e)
    OBVIOUS
<1>16. PICK m : m = 2 * r
    OBVIOUS
<1>17. ProofRow(b, f, p, t, s, q, e, n, m)
    <2>1. m \in Nat
        BY <1>1, <1>16
    <2>2. QED
        BY <1>10, <1>11, <1>12, <1>13, <1>14, <1>15, <1>16, <2>1, ProofRowEntries
<1>18. ASSUME NEW k \in 1..r
       PROVE  /\ b[(n + 9) + (2 * k - 1)] = PointField(proof.ipp.L_vec[k])
              /\ b[(n + 9) + 2 * k] = PointField(proof.ipp.R_vec[k])
    <2>1. PICK j, l : j = 2 * k - 1 /\ l = 2 * k
        OBVIOUS
    <2>2. /\ j \in 1..(2 * r) /\ l \in 1..(2 * r) /\ j % 2 = 1 /\ l % 2 = 0
          /\ (j + 1) \div 2 = k /\ l \div 2 = k
        BY <1>1, <2>1
    <2>3. c[j] = proof.ipp.L_vec[k] /\ c[l] = proof.ipp.R_vec[k]
        BY <1>6, <2>2
    <2>4. b[(n + 9) + j] = q[j] /\ b[(n + 9) + l] = q[l]
        BY <1>16, <1>17, <2>2 DEF ProofRow
    <2>6. QED
        BY <1>7, <2>1, <2>2, <2>3, <2>4
<1>19. FieldsAt(b, proof, version, points, n, r)
    <2>1. \A k \in 1..n : b[1 + k] = PointField(points[k])
        BY <1>2, <1>17 DEF ProofRow
    <2>2. \A k \in 1..5 : b[1 + n + k] = PointField(proof.T[k])
        BY <1>3, <1>17 DEF ProofRow
    <2>3. /\ s[1] = ScalarField(proof.t_x) /\ s[2] = ScalarField(proof.t_x_blinding)
          /\ s[3] = ScalarField(proof.e_blinding)
          /\ e[1] = ScalarField(proof.ipp.a) /\ e[2] = ScalarField(proof.ipp.b)
        BY <1>4, <1>8
    <2>4. QED
        BY <1>15, <1>16, <1>17, <1>18, <2>1, <2>2, <2>3 DEF FieldsAt, ProofRow
<1>20. QED
    BY <1>1, <1>9, <1>15, <1>19

(* Places behind n + 9 fields. *)
LEMMA PlacesBehind ==
    ASSUME NEW n \in Nat, NEW r \in Nat
    PROVE  /\ n + 9 \in Nat /\ 2 * r + 2 \in Nat /\ (n + 9) + (2 * r + 2) = n + 11 + 2 * r
           /\ n + 10 = (n + 9) + 1
           /\ 2 * r + 1 \in 1..(2 * r + 2) /\ 2 * r + 2 \in 1..(2 * r + 2)
           /\ (n + 9) + (2 * r + 1) = n + 10 + 2 * r
           /\ ((2 * r + 2) - 2) \div 2 = r /\ (2 * r + 2) - 1 = 2 * r + 1
           /\ ~(2 * r + 2 < 2) /\ (2 * r + 2) % 2 = 0
           /\ \A k \in 1..r : 2 * k - 1 \in 1..(2 * r + 2) /\ 2 * k \in 1..(2 * r + 2)
OBVIOUS

(* The fields of an argument of r rounds. *)
ArgumentFields(i, ipp, r) ==
    /\ Len(i) = 2 * r + 2
    /\ \A k \in 1..r : i[2 * k - 1] = PointField(ipp.L_vec[k]) /\ i[2 * k] = PointField(ipp.R_vec[k])
    /\ i[2 * r + 1] = ScalarField(ipp.a) /\ i[2 * r + 2] = ScalarField(ipp.b)

LEMMA ArgumentDecoded ==
    ASSUME NEW ipp, IsArgument(ipp), NEW r \in Nat, r = Len(ipp.L_vec),
           NEW i, ArgumentFields(i, ipp, r)
    PROVE  DecodedArgument(i) = ipp
<1>1. PICK l : l = Len(i)
    OBVIOUS
<1>2. l = 2 * r + 2
    BY <1>1 DEF ArgumentFields
<1>3. (l - 2) \div 2 = r /\ l - 1 = 2 * r + 1
    BY <1>2, PlacesBehind
<1>4. ASSUME NEW k \in 1..r
      PROVE  i[2 * k - 1].point = ipp.L_vec[k] /\ i[2 * k].point = ipp.R_vec[k]
    <2>1. i[2 * k - 1] = PointField(ipp.L_vec[k]) /\ i[2 * k] = PointField(ipp.R_vec[k])
        BY DEF ArgumentFields
    <2>2. QED
        BY <2>1 DEF PointField
<1>5. i[l - 1].scalar = ipp.a /\ i[l].scalar = ipp.b
    BY <1>2, <1>3 DEF ArgumentFields, ScalarField
<1>6. /\ ipp.L_vec = [k \in 1..r |-> i[2 * k - 1].point]
      /\ ipp.R_vec = [k \in 1..r |-> i[2 * k].point]
    <2>1. PICK L, R : L = ipp.L_vec /\ R = ipp.R_vec
        OBVIOUS
    <2>2. IsSeq(L) /\ IsSeq(R) /\ Len(L) = r /\ Len(R) = r
        BY <2>1 DEF IsArgument
    <2>3. L = [k \in 1..r |-> L[k]]
        BY <2>2 DEF IsSeq
    <2>4. R = [k \in 1..r |-> R[k]]
        BY <2>2 DEF IsSeq
    <2>5. QED
        BY <1>4, <2>1, <2>3, <2>4
<1>7. ipp = [L_vec |-> ipp.L_vec, R_vec |-> ipp.R_vec, a |-> ipp.a, b |-> ipp.b]
    BY DEF IsArgument
<1>8. DecodedArgument(i) = [L_vec |-> [k \in 1..r |-> i[2 * k - 1].point],
                            R_vec |-> [k \in 1..r |-> i[2 * k].point],
                            a |-> i[l - 1].scalar, b |-> i[l].scalar]
    BY <1>1, <1>3 DEF DecodedArgument
<1>9. QED
    BY <1>5, <1>6, <1>7, <1>8

(* They follow the other fields. *)
LEMMA ArgumentBehind ==
    ASSUME NEW b, NEW proof, NEW version, NEW points, NEW n \in Nat, NEW r \in Nat,
           FieldsAt(b, proof, version, points, n, r)
    PROVE  ArgumentFields(SubSeq(b, n + 10, Len(b)), proof.ipp, r)
<1>1. PICK m, l : m = n + 9 /\ l = 2 * r + 2
    OBVIOUS
<1>2. m \in Nat /\ l \in Nat /\ m + l = n + 11 + 2 * r /\ n + 10 = m + 1
    BY <1>1, PlacesBehind
<1>3. PICK i : i = SubSeq(b, n + 10, Len(b))
    OBVIOUS
<1>4. Len(i) = l /\ \A k \in 1..l : i[k] = b[m + k]
    <2>1. IsSeq(b) /\ Len(b) = m + l
        BY <1>2 DEF FieldsAt
    <2>2. i = SubSeq(b, m + 1, Len(b))
        BY <1>2, <1>3
    <2>3. QED
        BY <1>2, <2>1, <2>2, RestEntries
<1>5. ASSUME NEW k \in 1..r
      PROVE  i[2 * k - 1] = PointField(proof.ipp.L_vec[k]) /\ i[2 * k] = PointField(proof.ipp.R_vec[k])
    <2>1. PICK j, h : j = 2 * k - 1 /\ h = 2 * k
        OBVIOUS
    <2>2. j \in 1..l /\ h \in 1..l
        BY <1>1, <2>1, PlacesBehind
    <2>3. b[m + j] = PointField(proof.ipp.L_vec[k]) /\ b[m + h] = PointField(proof.ipp.R_vec[k])
        BY <1>1, <2>1 DEF FieldsAt
    <2>4. i[j] = PointField(proof.ipp.L_vec[k]) /\ i[h] = PointField(proof.ipp.R_vec[k])
        BY <1>4, <2>2, <2>3
    <2>5. QED
        BY <2>1, <2>4
<1>6. i[2 * r + 1] = ScalarField(proof.ipp.a) /\ i[2 * r + 2] = ScalarField(proof.ipp.b)
    <2>1. PICK j : j = 2 * r + 1
        OBVIOUS
    <2>2. j \in 1..l /\ l \in 1..l /\ m + j = n + 10 + 2 * r
        BY <1>1, <2>1, PlacesBehind
    <2>3. i[j] = b[n + 10 + 2 * r] /\ i[l] = b[n + 11 + 2 * r]
        BY <1>2, <1>4, <2>2
    <2>4. i[j] = ScalarField(proof.ipp.a) /\ i[l] = ScalarField(proof.ipp.b)
        BY <2>3 DEF FieldsAt
    <2>5. QED
        BY <1>1, <2>1, <2>4
<1>7. QED
    BY <1>1, <1>3, <1>4, <1>5, <1>6 DEF ArgumentFields

(* Which fields there are. *)
LEMMA FieldPlaces ==
    ASSUME NEW n \in Nat, NEW r \in Nat, NEW l, l = n + 11 + 2 * r, NEW k \in 2..l
    PROVE  \/ k \in {n + 7, n + 8, n + 9} /\ k \in (n + 7)..(n + 9)
           \/ k \in {n + 10 + 2 * r, n + 11 + 2 * r} /\ ~(k <= l - 2)
           \/ /\ k \notin (n + 7)..(n + 9) /\ k <= l - 2
              /\ \/ \E j \in 1..n : k = 1 + j
                 \/ \E j \in 1..5 : k = 1 + n + j
                 \/ \E j \in 1..r : k \in {(n + 9) + (2 * j - 1), (n + 9) + 2 * j}
<1>1. CASE k \in (n + 7)..(n + 9)
    BY <1>1
<1>2. CASE ~(k <= l - 2)
    BY <1>2
<1>3. CASE k <= n + 1
    <2>1. k - 1 \in 1..n /\ k = 1 + (k - 1)
        BY <1>3
    <2>2. k \notin (n + 7)..(n + 9) /\ k <= l - 2
        BY <1>3
    <2>3. QED
        BY <2>1, <2>2
<1>4. CASE ~(k <= n + 1) /\ k <= n + 6
    <2>1. k - (1 + n) \in 1..5 /\ k = 1 + n + (k - (1 + n))
        BY <1>4
    <2>2. k \notin (n + 7)..(n + 9) /\ k <= l - 2
        BY <1>4
    <2>3. QED
        BY <2>1, <2>2
<1>5. CASE ~(k <= n + 9) /\ k <= l - 2
    <2>1. PICK d : d = k - (n + 9)
        OBVIOUS
    <2>2. d \in 1..(2 * r) /\ k = (n + 9) + d
        BY <1>5, <2>1
    <2>3. PICK j : j = (d + 1) \div 2
        OBVIOUS
    <2>4. j \in 1..r /\ (d = 2 * j - 1 \/ d = 2 * j)
        BY <2>2, <2>3
    <2>5. k \notin (n + 7)..(n + 9)
        BY <1>5
    <2>6. QED
        BY <1>5, <2>2, <2>4, <2>5
<1>6. QED
    BY <1>1, <1>2, <1>3, <1>4, <1>5

(* Every field is of the kind the decoder expects there. *)
LEMMA FieldKinds ==
    ASSUME NEW b, NEW proof, NEW version, NEW points, NEW n \in Nat, NEW r \in Nat,
           FieldsAt(b, proof, version, points, n, r), NEW l, l = Len(b), NEW k \in 2..l
    PROVE  ("point" \in DOMAIN b[k]) <=> (k \notin (n + 7)..(n + 9) /\ k <= l - 2)
<1>1. l = n + 11 + 2 * r
    BY DEF FieldsAt
<1>2. CASE k \in {n + 7, n + 8, n + 9} /\ k \in (n + 7)..(n + 9)
    <2>1. PICK x : b[k] = ScalarField(x)
        BY <1>2 DEF FieldsAt
    <2>2. QED
        BY <1>2, <2>1 DEF ScalarField
<1>3. CASE k \in {n + 10 + 2 * r, n + 11 + 2 * r} /\ ~(k <= l - 2)
    <2>1. PICK x : b[k] = ScalarField(x)
        BY <1>3 DEF FieldsAt
    <2>2. QED
        BY <1>3, <2>1 DEF ScalarField
<1>4. CASE /\ k \notin (n + 7)..(n + 9) /\ k <= l - 2
           /\ \/ \E j \in 1..n : k = 1 + j
              \/ \E j \in 1..5 : k = 1 + n + j
              \/ \E j \in 1..r : k \in {(n + 9) + (2 * j - 1), (n + 9) + 2 * j}
    <2>1. PICK x : b[k] = PointField(x)
        <3>1. CASE \E j \in 1..n : k = 1 + j
            BY <3>1 DEF FieldsAt
        <3>2. CASE \E j \in 1..5 : k = 1 + n + j
            BY <3>2 DEF FieldsAt
        <3>3. CASE \E j \in 1..r : k \in {(n + 9) + (2 * j - 1), (n + 9) + 2 * j}
            <4>1. PICK j \in 1..r : k = (n + 9) + (2 * j - 1) \/ k = (n + 9) + 2 * j
                BY <3>3
            <4>2. b[k] = PointField(proof.ipp.L_vec[j]) \/ b[k] = PointField(proof.ipp.R_vec[j])
                BY <4>1 DEF FieldsAt
            <4>3. QED
                BY <4>2
        <3>4. QED
            BY <1>4, <3>1, <3>2, <3>3
    <2>2. QED
        BY <1>4, <2>1 DEF PointField
<1>5. QED
    BY <1>1, <1>2, <1>3, <1>4, FieldPlaces

LEMMA NotMalformed ==
    ASSUME NEW b, NEW proof, NEW version \in {0, 1}, NEW points, NEW n \in Nat, NEW r \in Nat,
           FieldsAt(b, proof, version, points, n, r)
    PROVE  ~Malformed(b, n)
<1>1. PICK i : i = SubSeq(b, n + 10, Len(b))
    OBVIOUS
<1>2. ArgumentFields(i, proof.ipp, r)
    BY <1>1, ArgumentBehind
<1>3. ~(Len(i) < 2) /\ Len(i) % 2 = 0
    BY <1>2, PlacesBehind DEF ArgumentFields
<1>4. PICK l : l = Len(b)
    OBVIOUS
<1>5. l = n + 11 + 2 * r /\ b[1] = [version |-> version]
    BY <1>4 DEF FieldsAt
<1>6. ~(l < 1 + n + 8) /\ l # 0
    BY <1>5
<1>7. b # << >>
    <2>1. Len(<< >>) = 0
        OBVIOUS
    <2>2. QED
        BY <1>4, <1>6, <2>1
<1>8. \A k \in 2..l : ("point" \in DOMAIN b[k]) <=> (k \notin (n + 7)..(n + 9) /\ k <= l - 2)
    BY <1>4, FieldKinds
<1>9. b[1].version \in {0, 1}
    BY <1>5
<1>10. \A k \in 2..l :
            ~(("point" \in DOMAIN b[k]) # (k \notin (n + 7)..(n + 9) /\ k <= l - 2))
    BY <1>8, SMT
<1>11. QED
    BY <1>1, <1>3, <1>4, <1>6, <1>7, <1>9, <1>10 DEF Malformed

(* The commitments of a proof are those that were written, the others the identity. *)
CommitmentsWritten(proof, points, n) ==
    /\ n >= 3 /\ points[1] = proof.A_I1 /\ points[2] = proof.A_O1 /\ points[3] = proof.S1
    /\ \/ n = 3 /\ MissingPhase2(proof)
       \/ n = 6 /\ points[4] = proof.A_I2 /\ points[5] = proof.A_O2 /\ points[6] = proof.S2

LEMMA DecodedAt ==
    ASSUME NEW b, NEW proof, IsProof(proof), NEW version, NEW points, NEW n \in Nat, NEW r \in Nat,
           r = Len(proof.ipp.L_vec), FieldsAt(b, proof, version, points, n, r),
           CommitmentsWritten(proof, points, n)
    PROVE  Decoded(b, n) = proof
<1>1. ASSUME NEW k \in 1..n PROVE b[1 + k].point = points[k]
    <2>1. b[1 + k] = PointField(points[k])
        BY DEF FieldsAt
    <2>2. QED
        BY <2>1 DEF PointField
<1>2. 1 \in 1..n /\ 2 \in 1..n /\ 3 \in 1..n /\ 1 + 1 = 2 /\ 1 + 2 = 3 /\ 1 + 3 = 4
    BY DEF CommitmentsWritten
<1>3. b[2].point = proof.A_I1 /\ b[3].point = proof.A_O1 /\ b[4].point = proof.S1
    <2>1. b[1 + 1].point = points[1] /\ b[1 + 2].point = points[2] /\ b[1 + 3].point = points[3]
        BY <1>1, <1>2
    <2>2. QED
        BY <1>2, <2>1 DEF CommitmentsWritten
<1>4. PICK x, y, z : /\ x = (IF n = 6 THEN b[4 + 1].point ELSE IdentityPoint)
                     /\ y = (IF n = 6 THEN b[4 + 2].point ELSE IdentityPoint)
                     /\ z = (IF n = 6 THEN b[4 + 3].point ELSE IdentityPoint)
    OBVIOUS
<1>5. x = proof.A_I2 /\ y = proof.A_O2 /\ z = proof.S2
    <2>1. CASE n = 3 /\ MissingPhase2(proof)
        BY <1>4, <2>1 DEF MissingPhase2
    <2>2. CASE n = 6 /\ points[4] = proof.A_I2 /\ points[5] = proof.A_O2 /\ points[6] = proof.S2
        <3>1. 4 \in 1..n /\ 5 \in 1..n /\ 6 \in 1..n /\ 4 + 1 = 1 + 4 /\ 4 + 2 = 1 + 5 /\ 4 + 3 = 1 + 6
            BY <2>2
        <3>2. b[1 + 4].point = points[4] /\ b[1 + 5].point = points[5] /\ b[1 + 6].point = points[6]
            BY <1>1, <3>1
        <3>3. QED
            BY <1>4, <2>2, <3>1, <3>2
    <2>3. QED
        BY <2>1, <2>2 DEF CommitmentsWritten
<1>6. PICK T : T = [k \in 1..5 |-> b[1 + n + k].point]
    OBVIOUS
<1>7. T = proof.T
    <2>1. ASSUME NEW k \in 1..5 PROVE b[1 + n + k].point = proof.T[k]
        <3>1. b[1 + n + k] = PointField(proof.T[k])
            BY DEF FieldsAt
        <3>2. QED
            BY <3>1 DEF PointField
    <2>2. proof.T = [k \in 1..5 |-> proof.T[k]]
        BY DEF IsProof
    <2>3. QED
        BY <1>6, <2>1, <2>2
<1>8. /\ b[n + 7].scalar = proof.t_x /\ b[n + 8].scalar = proof.t_x_blinding
      /\ b[n + 9].scalar = proof.e_blinding
    BY DEF FieldsAt, ScalarField
<1>9. PICK a : a = DecodedArgument(SubSeq(b, n + 10, Len(b)))
    OBVIOUS
<1>10. a = proof.ipp
    <2>1. PICK i : i = SubSeq(b, n + 10, Len(b))
        OBVIOUS
    <2>2. ArgumentFields(i, proof.ipp, r) /\ IsArgument(proof.ipp)
        BY <2>1, ArgumentBehind DEF IsProof
    <2>3. QED
        BY <1>9, <2>1, <2>2, ArgumentDecoded
<1>11. Decoded(b, n) = [A_I1 |-> b[2].point, A_O1 |-> b[3].point, S1 |-> b[4].point,
                        A_I2 |-> x, A_O2 |-> y, S2 |-> z, T |-> T,
                        t_x |-> b[n + 7].scalar, t_x_blinding |-> b[n + 8].scalar,
                        e_blinding |-> b[n + 9].scalar, ipp |-> a]
    BY <1>4, <1>6, <1>9 DEF Decoded
<1>12. QED
    BY <1>3, <1>5, <1>7, <1>8, <1>10, <1>11 DEF IsProof

(* What decodes to a proof. *)
LEMMA Decodes ==
    ASSUME NEW proof, IsProof(proof), NEW version, NEW points, IsSeq(points), NEW n, n = Len(points),
           (version = 0 /\ n = 3) \/ (version = 1 /\ n = 6), CommitmentsWritten(proof, points, n)
    PROVE  FromBytes(<<[version |-> version]>> \o FieldsOf(proof, points))
                = [kind |-> "Ok", proof |-> proof]
<1>1. PICK b, r : b = <<[version |-> version]>> \o FieldsOf(proof, points) /\ r = Len(proof.ipp.L_vec)
    OBVIOUS
<1>2. n \in Nat
    OBVIOUS
<1>3. r \in Nat /\ FieldsAt(b, proof, version, points, n, r)
    BY <1>1, <1>2, FieldsOfEntries
<1>4. b[1].version = version
    BY <1>3 DEF FieldsAt
<1>5. ~Malformed(b, n)
    BY <1>2, <1>3, NotMalformed
<1>6. Decoded(b, n) = proof
    BY <1>1, <1>2, <1>3, DecodedAt
<1>7. n = IF b[1].version = 1 THEN 6 ELSE 3
    BY <1>4
<1>8. QED
    BY <1>1, <1>5, <1>6, <1>7 DEF FromBytes

(* Encoding a proof and decoding it gives the proof. *)
LEMMA RoundTrip ==
    ASSUME NEW proof, IsProof(proof)
    PROVE  FromBytes(ToBytes(proof)) = [kind |-> "Ok", proof |-> proof]
<1>1. PICK p, q : p = Phase1(proof) /\ q = Phase2(proof)
    OBVIOUS
<1>2. /\ IsSeq(p) /\ Len(p) = 3 /\ p[1] = proof.A_I1 /\ p[2] = proof.A_O1 /\ p[3] = proof.S1
      /\ IsSeq(q) /\ Len(q) = 3 /\ q[1] = proof.A_I2 /\ q[2] = proof.A_O2 /\ q[3] = proof.S2
    BY <1>1, ShortSeqs DEF Phase1, Phase2
<1>3. CASE MissingPhase2(proof)
    <2>1. CommitmentsWritten(proof, p, 3)
        BY <1>2, <1>3 DEF CommitmentsWritten
    <2>2. ToBytes(proof) = <<[version |-> 0]>> \o FieldsOf(proof, p)
        BY <1>1, <1>3 DEF ToBytes
    <2>3. IsSeq(p) /\ Len(p) = 3
        BY <1>2
    <2>4. QED
        BY <2>1, <2>2, <2>3, Decodes
<1>4. CASE ~MissingPhase2(proof)
    <2>1. PICK points : points = p \o q
        OBVIOUS
    <2>2. InARow(points, p, q)
        BY <1>2, <2>1, ConcatEntries
    <2>3. IsSeq(points) /\ Len(points) = 6
        BY <1>2, <2>2 DEF InARow
    <2>4. points[1] = p[1] /\ points[2] = p[2] /\ points[3] = p[3]
        BY <1>2, <2>2 DEF InARow
    <2>5. points[4] = q[1] /\ points[5] = q[2] /\ points[6] = q[3]
        <3>1. 3 + 1 = 4 /\ 3 + 2 = 5 /\ 3 + 3 = 6
            OBVIOUS
        <3>2. points[3 + 1] = q[1] /\ points[3 + 2] = q[2] /\ points[3 + 3] = q[3]
            BY <1>2, <2>2 DEF InARow
        <3>3. QED
            BY <3>1, <3>2
    <2>6. CommitmentsWritten(proof, points, 6)
        BY <1>2, <2>4, <2>5 DEF CommitmentsWritten
    <2>7. ToBytes(proof) = <<[version |-> 1]>> \o FieldsOf(proof, points)
        BY <1>1, <1>4, <2>1 DEF ToBytes
    <2>8. QED
        BY <2>3, <2>6, <2>7, Decodes
<1>5. QED
    BY <1>3, <1>4

(***************************************************************************)
(* What proving returns is a proof.                                        *)
(***************************************************************************)
(* A function of the numbers below n, each from smaller ones, exists. *)
LEMMA HalvingsTable ==
    ASSUME NEW n \in Nat \ {0}
    PROVE  \E h : h = [m \in 1..n |-> IF m = 1 THEN 0 ELSE 1 + h[m \div 2]]
<1> DEFINE Body(k, h) == [m \in 1..k |-> IF m = 1 THEN 0 ELSE 1 + h[m \div 2]]
           T == {k \in Nat : \E h : h = Body(k, h)}
<1>1. 0 \in T
    <2> DEFINE h == [m \in 1..0 |-> 0]
    <2>1. h = Body(0, h)
        OBVIOUS
    <2>2. QED
        BY <2>1
<1>2. ASSUME NEW k \in Nat, k \in T PROVE k + 1 \in T
    <2>1. PICK h : h = Body(k, h)
        BY <1>2
    <2> DEFINE last == IF k + 1 = 1 THEN 0 ELSE 1 + h[(k + 1) \div 2]
               g == [m \in 1..(k + 1) |-> IF m <= k THEN h[m] ELSE last]
    <2>2. ASSUME NEW m \in 1..(k + 1)
          PROVE  g[m] = IF m = 1 THEN 0 ELSE 1 + g[m \div 2]
        <3>1. CASE m = 1
            <4>1. CASE 1 <= k
                <5>1. m \in 1..k /\ m <= k
                    BY <3>1, <4>1
                <5>2. h[m] = 0
                    BY <2>1, <3>1, <5>1
                <5>3. QED
                    BY <3>1, <5>1, <5>2
            <4>2. CASE ~(1 <= k)
                <5>1. k + 1 = 1 /\ ~(m <= k)
                    BY <3>1, <4>2
                <5>2. QED
                    BY <3>1, <5>1
            <4>3. QED
                BY <4>1, <4>2
        <3>2. CASE m # 1 /\ m <= k
            <4>1. m \in 1..k /\ m \div 2 \in 1..(k + 1) /\ m \div 2 <= k
                BY <3>2
            <4>2. h[m] = 1 + h[m \div 2]
                BY <2>1, <3>2, <4>1
            <4>3. g[m] = h[m] /\ g[m \div 2] = h[m \div 2]
                BY <3>2, <4>1
            <4>4. QED
                BY <3>2, <4>2, <4>3
        <3>3. CASE m # 1 /\ ~(m <= k)
            <4>1. m = k + 1 /\ k + 1 # 1 /\ m \div 2 \in 1..(k + 1) /\ m \div 2 <= k
                BY <3>3
            <4>2. g[m] = 1 + h[m \div 2] /\ g[m \div 2] = h[m \div 2]
                BY <3>3, <4>1
            <4>3. QED
                BY <3>3, <4>2
        <3>4. QED
            BY <3>1, <3>2, <3>3
    <2>3. g = Body(k + 1, g)
        BY <2>2
    <2> HIDE DEF g, Body
    <2>4. QED
        BY <2>3
<1>3. n \in T
    <2> HIDE DEF T
    <2>1. QED
        BY <1>1, <1>2, Induction
<1>4. QED
    BY <1>3

LEMMA Log2Nat ==
    ASSUME NEW n \in Nat \ {0}
    PROVE  Log2(n) \in Nat
<1> DEFINE Body(h) == [m \in 1..n |-> IF m = 1 THEN 0 ELSE 1 + h[m \div 2]]
           halvings == CHOOSE h : h = Body(h)
<1>1. halvings = Body(halvings)
    <2>1. \E h : h = Body(h)
        BY HalvingsTable
    <2> HIDE DEF Body
    <2>2. QED
        BY <2>1, Zenon
<1>2. Log2(n) = halvings[n]
    BY DEF Log2
<1> HIDE DEF halvings
<1> DEFINE T == {k \in Nat : \A m \in 1..n : m <= k => halvings[m] \in Nat}
<1>3. 0 \in T
    OBVIOUS
<1>4. ASSUME NEW k \in Nat, k \in T PROVE k + 1 \in T
    <2>1. SUFFICES ASSUME NEW m \in 1..n, m <= k + 1 PROVE halvings[m] \in Nat
        OBVIOUS
    <2>2. CASE m = 1
        BY <1>1, <2>2
    <2>3. CASE m # 1
        <3>1. m \div 2 \in 1..n /\ m \div 2 <= k
            BY <2>1, <2>3
        <3>2. halvings[m \div 2] \in Nat
            BY <1>4, <3>1
        <3>3. halvings[m] = 1 + halvings[m \div 2]
            BY <1>1, <2>3
        <3>4. QED
            BY <3>2, <3>3
    <2>4. QED
        BY <2>2, <2>3
<1>5. n \in T
    <2> HIDE DEF T
    <2>1. QED
        BY <1>3, <1>4, Induction
<1>6. QED
    BY <1>2, <1>5

LEMMA PowersTable ==
    ASSUME NEW n \in Nat
    PROVE  \E h : h = [m \in 0..n |-> IF m <= 1 THEN 1 ELSE 2 * h[(m + 1) \div 2]]
<1> DEFINE Body(k, h) == [m \in 0..k |-> IF m <= 1 THEN 1 ELSE 2 * h[(m + 1) \div 2]]
           T == {k \in Nat : \E h : h = Body(k, h)}
<1>1. 0 \in T
    <2> DEFINE h == [m \in 0..0 |-> 1]
    <2>1. h = Body(0, h)
        OBVIOUS
    <2>2. QED
        BY <2>1
<1>2. ASSUME NEW k \in Nat, k \in T PROVE k + 1 \in T
    <2>1. PICK h : h = Body(k, h)
        BY <1>2
    <2> DEFINE last == IF k + 1 <= 1 THEN 1 ELSE 2 * h[(k + 2) \div 2]
               g == [m \in 0..(k + 1) |-> IF m <= k THEN h[m] ELSE last]
    <2>2. ASSUME NEW m \in 0..(k + 1)
          PROVE  g[m] = IF m <= 1 THEN 1 ELSE 2 * g[(m + 1) \div 2]
        <3>1. CASE m <= k
            <4>1. m \in 0..k
                BY <3>1
            <4>2. h[m] = IF m <= 1 THEN 1 ELSE 2 * h[(m + 1) \div 2]
                BY <2>1, <4>1
            <4>3. ~(m <= 1) => (m + 1) \div 2 \in 0..(k + 1) /\ (m + 1) \div 2 <= k
                BY <3>1
            <4>4. ~(m <= 1) => g[(m + 1) \div 2] = h[(m + 1) \div 2]
                BY <4>3
            <4>5. g[m] = h[m]
                BY <3>1
            <4>6. QED
                BY <4>2, <4>4, <4>5
        <3>2. CASE ~(m <= k)
            <4>1. m = k + 1 /\ m + 1 = k + 2
                BY <3>2
            <4>2. g[m] = last
                BY <3>2
            <4>3. ~(m <= 1) => (k + 2) \div 2 \in 0..(k + 1) /\ (k + 2) \div 2 <= k
                BY <4>1
            <4>4. ~(m <= 1) => g[(k + 2) \div 2] = h[(k + 2) \div 2]
                BY <4>3
            <4>5. QED
                BY <4>1, <4>2, <4>4
        <3>3. QED
            BY <3>1, <3>2
    <2>3. g = Body(k + 1, g)
        BY <2>2
    <2> HIDE DEF g, Body
    <2>4. QED
        BY <2>3
<1>3. n \in T
    <2> HIDE DEF T
    <2>1. QED
        BY <1>1, <1>2, Induction
<1>4. QED
    BY <1>3

LEMMA NextPowerOfTwoNat ==
    ASSUME NEW n \in Nat
    PROVE  NextPowerOfTwo(n) \in Nat \ {0}
<1> DEFINE Body(h) == [m \in 0..n |-> IF m <= 1 THEN 1 ELSE 2 * h[(m + 1) \div 2]]
           next == CHOOSE h : h = Body(h)
<1>1. next = Body(next)
    <2>1. \E h : h = Body(h)
        BY PowersTable
    <2> HIDE DEF Body
    <2>2. QED
        BY <2>1, Zenon
<1>2. NextPowerOfTwo(n) = next[n]
    BY DEF NextPowerOfTwo
<1> HIDE DEF next
<1> DEFINE T == {k \in Nat : \A m \in 0..n : m <= k => next[m] \in Nat \ {0}}
<1>3. 0 \in T
    <2>1. ASSUME NEW m \in 0..n, m <= 0 PROVE next[m] = 1
        BY <1>1, <2>1
    <2>2. QED
        BY <2>1
<1>4. ASSUME NEW k \in Nat, k \in T PROVE k + 1 \in T
    <2>1. SUFFICES ASSUME NEW m \in 0..n, m <= k + 1 PROVE next[m] \in Nat \ {0}
        OBVIOUS
    <2>2. CASE m <= 1
        BY <1>1, <2>2
    <2>3. CASE ~(m <= 1)
        <3>1. (m + 1) \div 2 \in 0..n /\ (m + 1) \div 2 <= k
            BY <2>1, <2>3
        <3>2. next[(m + 1) \div 2] \in Nat \ {0}
            BY <1>4, <3>1
        <3>3. next[m] = 2 * next[(m + 1) \div 2]
            BY <1>1, <2>3
        <3>4. QED
            BY <3>2, <3>3
    <2>4. QED
        BY <2>2, <2>3
<1>5. n \in T
    <2> HIDE DEF T
    <2>1. QED
        BY <1>3, <1>4, Induction
<1>6. QED
    BY <1>2, <1>5

(* A prover's state after k rounds. *)
AfterRound(st, k) ==
    /\ IsSeq(st.a)
    /\ IsSeq(st.L_vec) /\ Len(st.L_vec) = k
    /\ IsSeq(st.R_vec) /\ Len(st.R_vec) = k

(* The folded half of a vector is a vector. *)
LEMMA FoldedSeq ==
    ASSUME NEW s, IsSeq(s), NEW m, m = Len(s) \div 2, NEW t, NEW x, NEW y
    PROVE  IsSeq(FoldedVector(Prefix(s, m), t, x, y))
<1>1. PICK S : s \in Seq(S)
    BY DEF IsSeq
<1>2. m \in Nat /\ m <= Len(s)
    BY <1>1
<1>3. PICK low : low = Prefix(s, m)
    OBVIOUS
<1>4. DOMAIN low = 1..m
    <2>1. low = SubSeq(s, 1, m)
        BY <1>3 DEF Prefix
    <2>2. SubSeq(s, 1, m) \in Seq(S) /\ Len(SubSeq(s, 1, m)) = m
        BY <1>1, <1>2
    <2>3. QED
        BY <2>1, <2>2
<1>5. PICK f : f = [i \in 1..m |-> Add(Mul(low[i], x), Mul(t[i], y))]
    OBVIOUS
<1>6. FoldedVector(low, t, x, y) = f
    BY <1>4, <1>5 DEF FoldedVector
<1>7. IsSeq(f)
    BY <1>2, <1>5, SeqOfFunction
<1>8. QED
    BY <1>3, <1>6, <1>7

(* A round of either kind adds one L and one R. *)
LEMMA RoundAfter ==
    ASSUME NEW st, NEW k \in Nat, AfterRound(st, k), NEW u, NEW Q, NEW G, NEW H
    PROVE  AfterRound(Round(st, u, Q, G, H), k + 1)
<1>1. PICK next, m : next = Round(st, u, Q, G, H) /\ m = Len(st.a) \div 2
    OBVIOUS
<1>2. next.a = FoldedVector(Prefix(st.a, m), Suffix(st.a, m), u, Invert(u))
    BY <1>1 DEF Round
<1>3. \E L : next.L_vec = Append(st.L_vec, L)
    BY <1>1 DEF Round
<1>4. \E R : next.R_vec = Append(st.R_vec, R)
    BY <1>1 DEF Round
<1>5. IsSeq(st.a) /\ IsSeq(st.L_vec) /\ IsSeq(st.R_vec) /\ Len(st.L_vec) = k /\ Len(st.R_vec) = k
    BY DEF AfterRound
<1>6. IsSeq(next.a)
    BY <1>1, <1>2, <1>5, FoldedSeq
<1>7. IsSeq(next.L_vec) /\ Len(next.L_vec) = k + 1
    BY <1>3, <1>5, AppendSeq
<1>8. IsSeq(next.R_vec) /\ Len(next.R_vec) = k + 1
    BY <1>4, <1>5, AppendSeq
<1>9. QED
    BY <1>1, <1>6, <1>7, <1>8 DEF AfterRound

LEMMA TailRoundAfter ==
    ASSUME NEW st, NEW k \in Nat, AfterRound(st, k), NEW u, NEW Q
    PROVE  AfterRound(TailRound(st, u, Q), k + 1)
<1>1. PICK next, m : next = TailRound(st, u, Q) /\ m = Len(st.a) \div 2
    OBVIOUS
<1>2. next.a = FoldedVector(Prefix(st.a, m), Suffix(st.a, m), u, Invert(u))
    BY <1>1 DEF TailRound
<1>3. \E L : next.L_vec = Append(st.L_vec, L)
    BY <1>1 DEF TailRound
<1>4. \E R : next.R_vec = Append(st.R_vec, R)
    BY <1>1 DEF TailRound
<1>5. IsSeq(st.a) /\ IsSeq(st.L_vec) /\ IsSeq(st.R_vec) /\ Len(st.L_vec) = k /\ Len(st.R_vec) = k
    BY DEF AfterRound
<1>6. IsSeq(next.a)
    BY <1>1, <1>2, <1>5, FoldedSeq
<1>7. IsSeq(next.L_vec) /\ Len(next.L_vec) = k + 1
    BY <1>3, <1>5, AppendSeq
<1>8. IsSeq(next.R_vec) /\ Len(next.R_vec) = k + 1
    BY <1>4, <1>5, AppendSeq
<1>9. QED
    BY <1>1, <1>6, <1>7, <1>8 DEF AfterRound

(* The rounds are run one by one. *)
RunsRounds(h, n, x, challenges, Q, G, H) ==
    h = [k \in 0..n |-> IF k = 0 THEN x ELSE Round(h[k - 1], challenges[k], Q, G, H)]

RunsTailRounds(h, n, x, challenges, done, Q) ==
    h = [k \in 0..n |-> IF k = 0 THEN x ELSE TailRound(h[k - 1], challenges[done + k], Q)]

LEMMA RoundsTable ==
    ASSUME NEW n \in Nat, NEW x, NEW challenges, NEW Q, NEW G, NEW H
    PROVE  \E h : RunsRounds(h, n, x, challenges, Q, G, H)
<1> DEFINE Body(j, h) == [k \in 0..j |-> IF k = 0 THEN x ELSE Round(h[k - 1], challenges[k], Q, G, H)]
           T == {j \in Nat : \E h : h = Body(j, h)}
<1>1. 0 \in T
    <2> DEFINE h == [k \in 0..0 |-> x]
    <2>1. h = Body(0, h)
        OBVIOUS
    <2>2. QED
        BY <2>1
<1>2. ASSUME NEW j \in Nat, j \in T PROVE j + 1 \in T
    <2>1. PICK h : h = Body(j, h)
        BY <1>2
    <2> DEFINE g == [k \in 0..(j + 1) |-> IF k <= j THEN h[k]
                        ELSE Round(h[j], challenges[j + 1], Q, G, H)]
    <2>2. ASSUME NEW k \in 0..(j + 1)
          PROVE  g[k] = IF k = 0 THEN x ELSE Round(g[k - 1], challenges[k], Q, G, H)
        <3>1. CASE k = 0
            <4>1. k \in 0..j
                BY <3>1
            <4>2. QED
                BY <2>1, <3>1, <4>1
        <3>2. CASE k # 0 /\ k <= j
            <4>1. k \in 0..j /\ k - 1 \in 0..(j + 1) /\ k - 1 <= j
                BY <3>2
            <4>2. h[k] = Round(h[k - 1], challenges[k], Q, G, H)
                BY <2>1, <3>2, <4>1
            <4>3. g[k] = h[k] /\ g[k - 1] = h[k - 1]
                BY <3>2, <4>1
            <4>4. QED
                BY <3>2, <4>2, <4>3
        <3>3. CASE ~(k <= j)
            <4>1. k = j + 1 /\ j \in 0..(j + 1) /\ j <= j /\ k - 1 = j
                BY <3>3
            <4>2. QED
                BY <3>3, <4>1
        <3>4. QED
            BY <3>1, <3>2, <3>3
    <2>3. g = Body(j + 1, g)
        BY <2>2
    <2> HIDE DEF g, Body
    <2>4. QED
        BY <2>3
<1>3. n \in T
    <2> HIDE DEF T
    <2>1. QED
        BY <1>1, <1>2, Induction
<1>4. QED
    BY <1>3 DEF RunsRounds

LEMMA TailRoundsTable ==
    ASSUME NEW n \in Nat, NEW x, NEW challenges, NEW done, NEW Q
    PROVE  \E h : RunsTailRounds(h, n, x, challenges, done, Q)
<1> DEFINE Body(j, h) == [k \in 0..j |-> IF k = 0 THEN x ELSE TailRound(h[k - 1], challenges[done + k], Q)]
           T == {j \in Nat : \E h : h = Body(j, h)}
<1>1. 0 \in T
    <2> DEFINE h == [k \in 0..0 |-> x]
    <2>1. h = Body(0, h)
        OBVIOUS
    <2>2. QED
        BY <2>1
<1>2. ASSUME NEW j \in Nat, j \in T PROVE j + 1 \in T
    <2>1. PICK h : h = Body(j, h)
        BY <1>2
    <2> DEFINE g == [k \in 0..(j + 1) |-> IF k <= j THEN h[k]
                        ELSE TailRound(h[j], challenges[done + (j + 1)], Q)]
    <2>2. ASSUME NEW k \in 0..(j + 1)
          PROVE  g[k] = IF k = 0 THEN x ELSE TailRound(g[k - 1], challenges[done + k], Q)
        <3>1. CASE k = 0
            <4>1. k \in 0..j
                BY <3>1
            <4>2. QED
                BY <2>1, <3>1, <4>1
        <3>2. CASE k # 0 /\ k <= j
            <4>1. k \in 0..j /\ k - 1 \in 0..(j + 1) /\ k - 1 <= j
                BY <3>2
            <4>2. h[k] = TailRound(h[k - 1], challenges[done + k], Q)
                BY <2>1, <3>2, <4>1
            <4>3. g[k] = h[k] /\ g[k - 1] = h[k - 1]
                BY <3>2, <4>1
            <4>4. QED
                BY <3>2, <4>2, <4>3
        <3>3. CASE ~(k <= j)
            <4>1. k = j + 1 /\ j \in 0..(j + 1) /\ j <= j /\ k - 1 = j
                BY <3>3
            <4>2. QED
                BY <3>3, <4>1
        <3>4. QED
            BY <3>1, <3>2, <3>3
    <2>3. g = Body(j + 1, g)
        BY <2>2
    <2> HIDE DEF g, Body
    <2>4. QED
        BY <2>3
<1>3. n \in T
    <2> HIDE DEF T
    <2>1. QED
        BY <1>1, <1>2, Induction
<1>4. QED
    BY <1>3 DEF RunsTailRounds

(* The tail adds as many L as R. *)
LEMMA TailArgument ==
    ASSUME NEW st, NEW d \in Nat, AfterRound(st, d), NEW n \in Nat, n = Log2(Len(st.a)),
           NEW Q, NEW G, NEW H, NEW challenges, NEW done
    PROVE  AfterRound(FoldedTail(st, Q, G, H, challenges, done), d + n)
<1> DEFINE x == [a |-> st.a, b |-> st.b, L_vec |-> st.L_vec, R_vec |-> st.R_vec,
                 G |-> Collapsed(st.g, G, Len(st.a)), H |-> Collapsed(st.h, H, Len(st.a))]
           Body(h) == [k \in 0..n |-> IF k = 0 THEN x ELSE TailRound(h[k - 1], challenges[done + k], Q)]
           folded == CHOOSE h : h = Body(h)
<1>1. folded = Body(folded)
    <2> HIDE DEF x
    <2>1. \E h : h = Body(h)
        <3>1. \E h : RunsTailRounds(h, n, x, challenges, done, Q)
            BY TailRoundsTable
        <3>2. QED
            BY <3>1 DEF RunsTailRounds
    <2> HIDE DEF Body
    <2>2. QED
        BY <2>1, Zenon
<1>2. FoldedTail(st, Q, G, H, challenges, done) = folded[n]
    BY DEF FoldedTail
<1>3. AfterRound(x, d)
    BY DEF AfterRound
<1> HIDE DEF folded, x
<1> DEFINE T == {k \in Nat : k <= n => AfterRound(folded[k], d + k)}
<1>4. 0 \in T
    <2>1. folded[0] = x
        BY <1>1
    <2>2. d + 0 = d
        OBVIOUS
    <2>3. QED
        BY <1>3, <2>1, <2>2
<1>5. ASSUME NEW k \in Nat, k \in T PROVE k + 1 \in T
    <2>1. SUFFICES ASSUME k + 1 <= n PROVE AfterRound(folded[k + 1], d + (k + 1))
        OBVIOUS
    <2>2. AfterRound(folded[k], d + k)
        BY <1>5, <2>1
    <2>3. folded[k + 1] = TailRound(folded[k], challenges[done + (k + 1)], Q)
        <3>1. k + 1 \in 0..n /\ k + 1 # 0 /\ (k + 1) - 1 = k
            BY <2>1
        <3>2. QED
            BY <1>1, <3>1
    <2>4. PICK j \in Nat : j = d + k
        OBVIOUS
    <2>5. AfterRound(folded[k + 1], j + 1)
        BY <2>2, <2>3, <2>4, TailRoundAfter
    <2>6. j + 1 = d + (k + 1)
        BY <2>4
    <2>7. QED
        BY <2>5, <2>6
<1>6. n \in T
    <2> HIDE DEF T
    <2>1. QED
        BY <1>4, <1>5, Induction
<1>7. QED
    BY <1>2, <1>6

(* Whatever a state is after its rounds, its argument has as many L as R. *)
LEMMA AfterRoundsArgument ==
    ASSUME NEW st, NEW d \in Nat, AfterRound(st, d), NEW Q, NEW G, NEW H, NEW challenges, NEW done
    PROVE  IsArgument(AfterRounds(st, Q, G, H, challenges, done))
<1>1. ASSUME NEW s, NEW k \in Nat, AfterRound(s, k) PROVE IsArgument(ArgumentOf(s))
    BY <1>1 DEF AfterRound, IsArgument, ArgumentOf
<1>2. CASE Len(st.a) > 1
    <2>1. Len(st.a) \in Nat \ {0}
        <3>1. PICK a : a = st.a
            OBVIOUS
        <3>2. PICK S : a \in Seq(S)
            BY <3>1 DEF AfterRound, IsSeq
        <3>3. Len(a) \in Nat /\ Len(a) > 1
            BY <1>2, <3>1, <3>2
        <3>4. QED
            BY <3>1, <3>3
    <2>2. PICK n : n = Log2(Len(st.a))
        OBVIOUS
    <2>3. n \in Nat
        BY <2>1, <2>2, Log2Nat
    <2>4. AfterRound(FoldedTail(st, Q, G, H, challenges, done), d + n) /\ d + n \in Nat
        BY <2>2, <2>3, TailArgument
    <2>5. IsArgument(ArgumentOf(FoldedTail(st, Q, G, H, challenges, done)))
        BY <1>1, <2>4
    <2>6. QED
        BY <1>2, <2>5 DEF AfterRounds
<1>3. CASE ~(Len(st.a) > 1)
    BY <1>1, <1>3 DEF AfterRounds
<1>4. QED
    BY <1>2, <1>3

LEMMA CreateArgument ==
    ASSUME NEW n \in Nat, NEW Q, NEW g, NEW h, NEW G, NEW H, NEW a, IsSeq(a), NEW b, NEW challenges
    PROVE  IsArgument(CreateWith(n, Q, g, h, G, H, a, b, challenges))
<1> DEFINE x == [a |-> a, b |-> b, g |-> g, h |-> h, L_vec |-> << >>, R_vec |-> << >>]
           Body(t) == [k \in 0..n |-> IF k = 0 THEN x ELSE Round(t[k - 1], challenges[k], Q, G, H)]
           state == CHOOSE t : t = Body(t)
<1>1. state = Body(state)
    <2> HIDE DEF x
    <2>1. \E t : t = Body(t)
        <3>1. \E t : RunsRounds(t, n, x, challenges, Q, G, H)
            BY RoundsTable
        <3>2. QED
            BY <3>1 DEF RunsRounds
    <2> HIDE DEF Body
    <2>2. QED
        BY <2>1, Zenon
<1>2. CreateWith(n, Q, g, h, G, H, a, b, challenges) = AfterRounds(state[n], Q, G, H, challenges, n)
    BY DEF CreateWith
<1>3. AfterRound(x, 0)
    <2>1. << >> \in Seq({}) /\ Len(<< >>) = 0
        OBVIOUS
    <2>2. IsSeq(<< >>)
        BY <2>1 DEF IsSeq
    <2>3. QED
        BY <2>1, <2>2 DEF AfterRound
<1> HIDE DEF state, x
<1> DEFINE T == {k \in Nat : k <= n => AfterRound(state[k], k)}
<1>4. 0 \in T
    <2>1. state[0] = x
        BY <1>1
    <2>2. QED
        BY <1>3, <2>1
<1>5. ASSUME NEW k \in Nat, k \in T PROVE k + 1 \in T
    <2>1. SUFFICES ASSUME k + 1 <= n PROVE AfterRound(state[k + 1], k + 1)
        OBVIOUS
    <2>2. AfterRound(state[k], k)
        BY <1>5, <2>1
    <2>3. state[k + 1] = Round(state[k], challenges[k + 1], Q, G, H)
        <3>1. k + 1 \in 0..n /\ k + 1 # 0 /\ (k + 1) - 1 = k
            BY <2>1
        <3>2. QED
            BY <1>1, <3>1
    <2>4. QED
        BY <2>2, <2>3, RoundAfter
<1>6. n \in T
    <2> HIDE DEF T
    <2>1. QED
        BY <1>4, <1>5, Induction
<1>7. AfterRound(state[n], n)
    BY <1>6
<1>8. QED
    BY <1>2, <1>7, AfterRoundsArgument

(* Generators are sequences. *)
LEMMA GensPrefix ==
    ASSUME NEW gens, IsGens(gens), NEW n \in Nat, ~(gens.capacity < n)
    PROVE  Len(Prefix(gens.G, n)) = n
<1>1. PICK m : m = Len(gens.G)
    OBVIOUS
<1>2. m \in Nat /\ n <= m
    BY <1>1 DEF IsGens
<1>3. PICK g : g = [i \in 1..m |-> GPoint(i)]
    OBVIOUS
<1>4. gens.G = g
    BY <1>1, <1>3 DEF IsGens, Gens
<1>5. IsSeq(g) /\ Len(g) = m
    BY <1>2, <1>3, SeqOfFunction
<1>6. PICK S : g \in Seq(S)
    BY <1>5 DEF IsSeq
<1>7. Len(SubSeq(g, 1, n)) = n
    BY <1>2, <1>5, <1>6
<1>8. QED
    BY <1>4, <1>7 DEF Prefix

(* What the prover makes is a proof. *)
LEMMA ProofForIsProof ==
    ASSUME NEW p, Len(p.a_L) \in Nat, NEW n1, NEW gens, IsGens(gens),
           ~(gens.capacity < NextPowerOfTwo(Len(p.a_L))), NEW c
    PROVE  IsProof(ProofFor(p, n1, gens, c))
<1>1. PICK proof : proof = ProofFor(p, n1, gens, c)
    OBVIOUS
<1>2. PICK padded : padded = NextPowerOfTwo(Len(p.a_L))
    OBVIOUS
<1>3. padded \in Nat \ {0}
    BY <1>2, NextPowerOfTwoNat
<1>4. Len(Prefix(gens.G, padded)) = padded
    BY <1>2, <1>3, GensPrefix
<1>5. PICK rounds : rounds = OriginalRounds(padded)
    OBVIOUS
<1>6. rounds \in Nat
    BY <1>3, <1>5, Log2Nat, InnerProductAssumption DEF OriginalRounds
<1>7. \E n, l1, l2, l3, Q, g, h, H, b :
            proof.ipp = Create(Q, g, h, Prefix(gens.G, padded), H,
                               LeftVector(padded, n, l1, l2, l3, c.x), b, c.e)
    BY <1>1, <1>2 DEF ProofFor
<1>8. PICK n, l1, l2, l3, Q, g, h, H, b :
            proof.ipp = Create(Q, g, h, Prefix(gens.G, padded), H,
                               LeftVector(padded, n, l1, l2, l3, c.x), b, c.e)
    BY <1>7
<1>9. IsSeq(LeftVector(padded, n, l1, l2, l3, c.x))
    <2>1. PICK f : f = LeftVector(padded, n, l1, l2, l3, c.x)
        OBVIOUS
    <2>2. f = [i \in 1..padded |-> f[i]]
        BY <2>1 DEF LeftVector
    <2>3. QED
        BY <1>3, <2>1, <2>2, SeqOfFunction
<1>10. IsArgument(proof.ipp)
    BY <1>4, <1>5, <1>6, <1>8, <1>9, CreateArgument DEF Create
<1>11. proof = [A_I1 |-> proof.A_I1, A_O1 |-> proof.A_O1, S1 |-> proof.S1,
                A_I2 |-> proof.A_I2, A_O2 |-> proof.A_O2, S2 |-> proof.S2,
                T |-> proof.T, t_x |-> proof.t_x, t_x_blinding |-> proof.t_x_blinding,
                e_blinding |-> proof.e_blinding, ipp |-> proof.ipp]
    BY <1>1 DEF ProofFor
<1>12. \E s, t, u, v, w : proof.T = <<s, t, u, v, w>>
    BY <1>1 DEF ProofFor
<1>13. proof.T = [k \in 1..5 |-> proof.T[k]]
    BY <1>12
<1>14. QED
    BY <1>1, <1>10, <1>11, <1>13 DEF IsProof

(* A proof that was made is a proof, and nothing else was returned with it. *)
MadeProof ==
    made.kind = "Ok" => IsProof(made.proof) /\ made = [kind |-> "Ok", proof |-> made.proof]

LEMMA MadeByProve == SidesInv /\ CallProve => MadeProof'
<1> SUFFICES ASSUME SidesInv, CallProve, made'.kind = "Ok"
             PROVE  IsProof(made'.proof) /\ made' = [kind |-> "Ok", proof |-> made'.proof]
    BY DEF MadeProof
<1>1. PICK p, gens : p = FinalProver /\ gens = session.gens.prover
    OBVIOUS
<1>2. made' = Prove(prover, session.inputs, session.public.prover, gens, drawn)
    BY <1>1 DEF CallProve
<1>3. p.err \in {"None", "MissingAssignment", "GadgetError"} /\ (p.err = "None" => Len(p.a_L) \in Nat)
    <2>1. PICK v : Simulates(v, prover)
        BY DEF SidesInv, ProverFollowable
    <2>2. Alike(prover, v) /\ prover.err = "None"
        BY <2>1 DEF Simulates, CallProve
    <2>3. PICK u : u = VerifierCreateRandomized(v, 0, 0, drawn.g)
        OBVIOUS
    <2>4. Simulates(u, p)
        BY <1>1, <2>2, <2>3, RandomizedSame DEF FinalProver
    <2>5. IsSeq(p.a_L) => Len(p.a_L) \in Nat
        BY AppendSeq
    <2>6. QED
        BY <2>4, <2>5 DEF Simulates, Alike, IsProver
<1>4. PICK n1 : n1 = Len(prover.a_L)
    OBVIOUS
<1>5. made' \in {Fail("InvalidGeneratorsLength"), Fail(p.err)}
      \/ /\ p.err = "None" /\ ~(gens.capacity < NextPowerOfTwo(Len(p.a_L)))
         /\ made' = [kind |-> "Ok", proof |-> ProofFor(p, n1, gens, drawn)]
    BY <1>1, <1>2, <1>4 DEF Prove, FinalProver
<1>6. made' \notin {Fail("InvalidGeneratorsLength"), Fail(p.err)}
    BY <1>3 DEF Fail
<1>7. PICK proof : proof = ProofFor(p, n1, gens, drawn)
    OBVIOUS
<1>8. made' = [kind |-> "Ok", proof |-> proof]
    BY <1>5, <1>6, <1>7
<1>9. IsGens(gens)
    BY <1>1, SessionAssumption DEF SidesInv, StepsTyped
<1>10. IsProof(proof)
    BY <1>3, <1>5, <1>6, <1>7, <1>9, ProofForIsProof
<1>11. QED
    BY <1>8, <1>10

(* Decoding what is sent of a proof gives the proof that was made: for     *)
(* every circuit and field, however many rounds the argument has and       *)
(* whatever the commitments are, although the version that is written      *)
(* depends on them.                                                        *)
THEOREM EncodingAlwaysRoundTrips == Spec => []EncodingRoundTrips
<1>1. Spec => []SidesInv
    BY SidesInit, SidesNext, PTL DEF Spec
<1>2. Init => MadeProof
    BY DEF Init, MadeProof, NotCalled, Fail
<1>3. SidesInv /\ MadeProof /\ [Next]_vars => MadeProof'
    <2> SUFFICES ASSUME SidesInv, MadeProof, [Next]_vars PROVE MadeProof'
        OBVIOUS
    <2>1. CASE CallProve
        BY <2>1, MadeByProve
    <2>2. CASE UNCHANGED made
        BY <2>2 DEF MadeProof
    <2>3. CallProve \/ UNCHANGED made
        BY DEF Next, vars, ProverStep, Receive, VerifierStep, CallVerificationEquation,
               CallVerify, CallVerifyBatch
    <2>4. QED
        BY <2>1, <2>2, <2>3
<1>4. MadeProof => EncodingRoundTrips
    BY RoundTrip DEF MadeProof, EncodingRoundTrips
<1>5. QED
    BY <1>1, <1>2, <1>3, <1>4, PTL DEF Spec
=============================================================================
