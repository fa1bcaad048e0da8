------------------------ MODULE SecretSharingProofs -------------------------
(***************************************************************************)
(* A dealer's shares reconstruct its secret, for every prime, threshold,   *)
(* set of participants and order in which the shares arrive; and a public  *)
(* key set is accepted exactly when its public shares are a sharing.       *)
(***************************************************************************)
EXTENDS KeySets, ShamirProofs

(***************************************************************************)
(* The inductive invariant.                                                *)
(***************************************************************************)
(* The dealer holds a polynomial with at least one coefficient. *)
Dealer == \E t \in Nat \ {0} : polynomial \in [1..t -> Scalars]

(* A share of the dealer's polynomial. *)
DealtShare(share) ==
    /\ share \in [participant : Nat, value : Scalars]
    /\ share.value = Evaluate(polynomial, share.participant)

(* What is dealt are shares of the polynomial. *)
Dealt == \A i \in DOMAIN shares : DealtShare(shares[i])

(* What is collected are shares of the polynomial. *)
Collected ==
    /\ collected \in Seq([participant : Nat, value : Scalars])
    /\ \A i \in DOMAIN collected : DealtShare(collected[i])

(* The result is that of reconstruct_secret on what was collected. *)
Returned == result = NotCalled \/ result = ReconstructSecret(collected, Threshold)

(* The inductive invariant. *)
SharingInv == Dealer /\ Dealt /\ Collected /\ Returned

(* Polynomial::evaluate at a participant returns a scalar. *)
LEMMA SharesAreDealt ==
    ASSUME Dealer, NEW p \in Nat
    PROVE  DealtShare([participant |-> p, value |-> Evaluate(polynomial, p)])
<1>1. PICK t \in Nat : polynomial \in [1..t -> Scalars]
    BY DEF Dealer
<1>2. PICK h : Horner(h, polynomial, ToScalar(p), t) /\ Evaluate(polynomial, p) = h[1]
    BY <1>1, HornerAtPoint
<1>3. Evaluate(polynomial, p) \in Scalars
    BY <1>2 DEF Horner
<1>4. QED
    BY <1>3 DEF DealtShare

(* Only Deal, Collect and Reconstruct change anything, and each keeps the  *)
(* invariant.                                                              *)
LEMMA SharingStep == SharingInv /\ [Next]_vars => SharingInv'
<1> SUFFICES ASSUME SharingInv, [Next]_vars PROVE SharingInv'
    OBVIOUS
<1> USE DEF SharingInv
<1>1. polynomial' = polynomial
    BY DEF Next, Deal, Collect, Reconstruct, vars
<1>2. Dealer' /\ Threshold' = Threshold
    BY <1>1 DEF Dealer, Threshold
<1>3. CASE Deal
    <2>1. /\ collected' = collected /\ result' = result
          /\ shares' = [i \in DOMAIN InOrder(Indexes) |->
                          [participant |-> InOrder(Indexes)[i],
                           value |-> Evaluate(polynomial, InOrder(Indexes)[i])]]
        BY <1>3 DEF Deal
    <2>2. \A i \in DOMAIN InOrder(Indexes) : InOrder(Indexes)[i] \in Nat
        <3>1. Indexes \subseteq Nat /\ IsFiniteSet(Indexes)
            BY SharingAssumption
        <3>2. InOrder(Indexes) \in [1..Cardinality(Indexes) -> Indexes]
            BY <3>1, InOrderLists
        <3>3. QED
            BY <3>1, <3>2
    <2>3. ASSUME NEW i \in DOMAIN shares' PROVE DealtShare(shares'[i])
        <3>1. PICK p \in Nat : p = InOrder(Indexes)[i]
            BY <2>1, <2>2
        <3>2. shares'[i] = [participant |-> p, value |-> Evaluate(polynomial, p)]
            BY <2>1, <3>1
        <3>3. QED
            BY <3>2, SharesAreDealt
    <2>4. Dealt'
        BY <1>1, <2>3 DEF Dealt, DealtShare
    <2>5. QED
        BY <1>1, <1>2, <2>1, <2>4 DEF Collected, DealtShare, Returned
<1>4. CASE Collect
    <2>1. PICK i \in DOMAIN shares : collected' = Append(collected, shares[i])
        BY <1>4 DEF Collect
    <2>2. result' = result /\ result = NotCalled /\ shares' = shares
        BY <1>4 DEF Collect
    <2>3. PICK share \in [participant : Nat, value : Scalars] :
              share = shares[i] /\ DealtShare(share)
        BY DEF Dealt, DealtShare
    <2>4. collected' \in Seq([participant : Nat, value : Scalars])
        BY <2>1, <2>3 DEF Collected
    <2>5. ASSUME NEW k \in DOMAIN collected' PROVE DealtShare(collected'[k])
        <3>1. (k \in DOMAIN collected /\ collected'[k] = collected[k]) \/ collected'[k] = share
            BY <2>1, <2>3 DEF Collected
        <3>2. QED
            BY <2>3, <3>1 DEF Collected
    <2>6. QED
        BY <1>1, <1>2, <2>2, <2>4, <2>5 DEF Collected, Dealt, DealtShare, Returned
<1>5. CASE Reconstruct
    BY <1>1, <1>2, <1>5 DEF Reconstruct, Collected, Dealt, DealtShare, Returned
<1>6. CASE UNCHANGED vars
    BY <1>1, <1>2, <1>6 DEF vars, Collected, Dealt, DealtShare, Returned
<1>7. QED
    BY <1>3, <1>4, <1>5, <1>6 DEF Next

(* The invariant holds in every reachable state. *)
LEMMA SharingInvariant == Spec => []SharingInv
<1>1. Init => SharingInv
    BY SharingAssumption DEF Init, SharingInv, Dealer, Dealt, Collected, Returned
<1>2. QED
    BY <1>1, SharingStep, PTL DEF Spec

(* What the invariant says about a returned result. *)
LEMMA ReturnedResult ==
    ASSUME SharingInv, result # NotCalled
    PROVE  /\ result.kind = "Ok" => result.value = polynomial[1]
           /\ Len(collected) >= Threshold /\ ScalarsDistinct(collected) => result.kind = "Ok"
<1>1. PICK t \in Nat \ {0} : polynomial \in [1..t -> Scalars]
    BY DEF SharingInv, Dealer
<1>2. Threshold = t
    BY <1>1 DEF Threshold
<1>3. result = ReconstructSecret(collected, t)
    BY <1>2 DEF SharingInv, Returned
<1>4. PICK m \in Nat : m = Len(collected) /\ DOMAIN collected = 1..m
    BY DEF SharingInv, Collected
<1>5. SharesOfPolynomial(collected, polynomial, m)
    BY <1>4 DEF SharingInv, Collected, DealtShare, SharesOfPolynomial
<1>6. ScalarsDistinct(collected) => Points(PointsOf(collected, m), 1..m)
    <2>1. \A i \in 1..m : ToScalar(collected[i].participant) \in Scalars
        BY <1>5, Remainder DEF SharesOfPolynomial, ToScalar
    <2>2. QED
        BY <1>4, <2>1 DEF ScalarsDistinct, Points, PointsOf
<1>7. /\ ReconstructSecret(collected, t).kind = "Ok"
            => ReconstructSecret(collected, t).value = polynomial[1]
      /\ m >= t /\ Points(PointsOf(collected, m), 1..m)
            => ReconstructSecret(collected, t).kind = "Ok"
    BY <1>1, <1>5, ReconstructsSecret
<1>8. QED
    BY <1>2, <1>3, <1>4, <1>6, <1>7

(* reconstruct_secret (shamir.rs) never returns a wrong secret, for every  *)
(* prime, threshold and set of participants, whatever shares arrived, in   *)
(* whatever order and however often.                                       *)
THEOREM OkIsTheSecret == Spec => []NeverWrongSecret
<1>1. SharingInv => NeverWrongSecret
    BY ReturnedResult DEF NeverWrongSecret, NotCalled
<1>2. QED
    BY <1>1, SharingInvariant, PTL

(* A threshold of shares at different points always reconstructs, and more *)
(* shares do not hurt (reconstruct_secret in shamir.rs).                   *)
THEOREM ThresholdReconstructs == Spec => []ThresholdSuffices
<1>1. SharingInv => ThresholdSuffices
    BY ReturnedResult DEF ThresholdSuffices
<1>2. QED
    BY <1>1, SharingInvariant, PTL

(***************************************************************************)
(* The Lagrange basis as interpolate_public_key_share computes it.         *)
(***************************************************************************)
(* FoldFunction(Mul, 1, G) over the entries s of F is the table's entry. *)
LEMMA ProductOfEntries ==
    ASSUME NEW D, IsFiniteSet(D), NEW F \in [D -> Scalars], NEW g, Table(g, F, Times, 1),
           NEW s \in SUBSET D, NEW G \in [s -> Scalars], \A j \in s : G[j] = F[j]
    PROVE  FoldFunction(Mul, 1, G) = g[s]
<1> DEFINE Body(h) == [r \in SUBSET s |-> IF r = {} THEN 1
                                           ELSE Mul(G[Picked(r)], h[r \ {Picked(r)}])]
           iter == CHOOSE h : h = Body(h)
           k == [r \in SUBSET s |-> g[r]]
<1>1. IsFiniteSet(s) /\ SUBSET s \subseteq SUBSET D
    BY FS_Subset
<1>2. \A r \in SUBSET s : r # {} => Picked(r) \in r
    BY DEF Picked
<1>3. g \in [SUBSET D -> Scalars] /\ g[{}] = 1
    BY DEF Table
<1>4. ASSUME NEW r \in SUBSET s, r # {}
      PROVE  g[r] = Mul(G[Picked(r)], g[r \ {Picked(r)}])
    <2>1. PICK p \in r : p = Picked(r)
        BY <1>2, <1>4
    <2>2. r \in SUBSET D /\ r \ {p} \in SUBSET D
        BY <1>1
    <2>3. g[r] = Times[<<F[p], g[r \ {p}]>>]
        BY <2>2 DEF Table
    <2>4. F[p] \in Scalars /\ g[r \ {p}] \in Scalars /\ G[p] = F[p]
        BY <1>3, <2>2
    <2>5. QED
        BY <2>1, <2>3, <2>4, SumsCommute
<1>5. k = Body(k)
    BY <1>3, <1>4
<1>6. iter = Body(iter)
    <2> HIDE DEF Body, k
    <2>1. QED
        BY <1>5, Zenon
<1>7. FoldFunction(Mul, 1, G) = iter[s]
    <2>1. DOMAIN G = s
        OBVIOUS
    <2>2. QED
        BY <2>1, Zenon DEF FoldFunction, FoldFunctionOnSet, MapThenFoldSet, Picked
<1> HIDE DEF iter
<1>8. iter[s] = g[s]
    <2> DEFINE T == {r \in SUBSET s : iter[r] = g[r]}
    <2>1. {} \in T
        BY <1>3, <1>6
    <2>2. ASSUME NEW r \in SUBSET s, r # {}, r \ {Picked(r)} \in T PROVE r \in T
        <3>1. iter[r] = Mul(G[Picked(r)], iter[r \ {Picked(r)}])
            BY <1>6, <2>2
        <3>2. QED
            BY <1>4, <2>2, <3>1
    <2> HIDE DEF T
    <2>3. s \in T
        BY <1>1, <2>1, <2>2, PickedInduction
    <2> USE DEF T
    <2>4. QED
        BY <2>3
<1>9. QED
    BY <1>7, <1>8

(* The points of a set of participants. *)
PointsAt(B) == [i \in B |-> ToScalar(i)]

(* The Lagrange basis of every part of a set of participants. *)
BasisAt(B, x) == [s \in SUBSET B |-> [i \in B |-> LagrangeAt(i, s, x)]]

(* lagrange_at computes the coefficients for the value at x. *)
LEMMA BasisIsWeights ==
    ASSUME NEW B, IsFiniteSet(B), Points(PointsAt(B), B), NEW x \in Scalars
    PROVE  WeightsAt(BasisAt(B, x), PointsAt(B), B, x)
<1> DEFINE X == PointsAt(B)
           factor(i, j) == Mul(Sub(x, ToScalar(j)), Invert(Sub(ToScalar(i), ToScalar(j))))
           others(i, s) == [j \in s \ {i} |-> factor(i, j)]
<1>1. \A i \in B : X[i] = ToScalar(i) /\ ToScalar(i) \in Scalars
    BY DEF Points, PointsAt
<1>2. ASSUME NEW i \in B, NEW j \in B, i # j
      PROVE  /\ factor(i, j) \in Scalars
             /\ Mul(factor(i, j), Sub(X[i], X[j])) = Sub(x, X[j])
    <2>1. PICK a \in Scalars, b \in Scalars : a = ToScalar(i) /\ b = ToScalar(j)
        BY <1>1
    <2>2. a # b /\ X[i] = a /\ X[j] = b
        BY <1>1, <1>2, <2>1 DEF Points
    <2>3. PICK d \in Scalars, e \in Scalars : d = Sub(a, b) /\ e = Sub(x, b) /\ d # 0
        BY <2>2, SubLaws
    <2>4. Invert(d) \in Scalars /\ Mul(d, Invert(d)) = 1
        BY <2>3, InvertLaw
    <2>5. PICK v \in Scalars : v = Invert(d) /\ Mul(d, v) = 1
        BY <2>4
    <2>6. Mul(e, v) \in Scalars /\ Mul(Mul(e, v), d) = Mul(e, Mul(v, d)) /\ Mul(v, d) = Mul(d, v)
          /\ Mul(e, 1) = e
        BY MulLaws
    <2>7. factor(i, j) = Mul(e, v)
        BY <2>1, <2>3, <2>5
    <2> HIDE DEF factor
    <2>8. QED
        BY <2>2, <2>3, <2>5, <2>6, <2>7
<1>3. ASSUME NEW i \in B
      PROVE  \E g : /\ \A s \in SUBSET B : LagrangeAt(i, s, x) = g[s \ {i}]
                    /\ g \in [SUBSET (B \ {i}) -> Scalars] /\ g[{}] = 1
                    /\ \A s \in SUBSET (B \ {i}) : \A j \in s : g[s] = Mul(factor(i, j), g[s \ {j}])
    <2> DEFINE D == B \ {i}
               F == [j \in D |-> factor(i, j)]
    <2>1. IsFiniteSet(D)
        BY FS_Subset
    <2>2. F \in [D -> Scalars]
        BY <1>2
    <2>3. \A j \in D : F[j] = factor(i, j) /\ F[j] \in Scalars
        BY <1>2
    <2>4. \A s \in SUBSET B : LagrangeAt(i, s, x) = FoldFunction(Mul, 1, others(i, s))
        BY Zenon DEF LagrangeAt
    <2> HIDE DEF factor
    <2>5. ASSUME NEW s \in SUBSET B
          PROVE  /\ s \ {i} \in SUBSET D /\ others(i, s) \in [s \ {i} -> Scalars]
                 /\ \A j \in s \ {i} : others(i, s)[j] = F[j]
        BY <2>3
    <2> HIDE DEF F, D, others
    <2>6. PICK g : Table(g, F, Times, 1)
        BY <2>1, <2>2, SumsCommute, TableExists, NonZeroProduct
    <2>7. \A s \in SUBSET B : LagrangeAt(i, s, x) = g[s \ {i}]
        <3> SUFFICES ASSUME NEW s \in SUBSET B PROVE LagrangeAt(i, s, x) = g[s \ {i}]
            OBVIOUS
        <3>1. PICK G, r : G = others(i, s) /\ r = s \ {i}
            OBVIOUS
        <3>2. r \in SUBSET D /\ G \in [r -> Scalars] /\ \A j \in r : G[j] = F[j]
            BY <2>5, <3>1
        <3>3. FoldFunction(Mul, 1, G) = g[r]
            BY <2>1, <2>2, <2>6, <3>2, ProductOfEntries
        <3>4. QED
            BY <2>4, <3>1, <3>3
    <2>8. g \in [SUBSET D -> Scalars] /\ g[{}] = 1
        BY <2>2, <2>6 DEF Table
    <2>9. ASSUME NEW s \in SUBSET D, NEW j \in s PROVE g[s] = Mul(factor(i, j), g[s \ {j}])
        <3>1. g[s] = Times[<<F[j], g[s \ {j}]>>]
            BY <2>2, <2>6 DEF Table
        <3>2. F[j] \in Scalars /\ g[s \ {j}] \in Scalars /\ F[j] = factor(i, j)
            BY <2>3, <2>8
        <3>3. QED
            BY <3>1, <3>2, SumsCommute
    <2>10. QED
        BY <2>7, <2>8, <2>9 DEF D
<1> DEFINE W == BasisAt(B, x)
<1>4. \A s \in SUBSET B : \A i \in B : W[s][i] = LagrangeAt(i, s, x)
    BY DEF BasisAt
<1> HIDE DEF factor, others
<1>5. W \in [SUBSET B -> [B -> Scalars]]
    <2>1. ASSUME NEW s \in SUBSET B, NEW i \in B PROVE LagrangeAt(i, s, x) \in Scalars
        <3>1. PICK g : /\ \A r \in SUBSET B : LagrangeAt(i, r, x) = g[r \ {i}]
                       /\ g \in [SUBSET (B \ {i}) -> Scalars]
            BY <1>3, Zenon
        <3>2. PICK r \in SUBSET (B \ {i}) : r = s \ {i}
            OBVIOUS
        <3>3. g[r] \in Scalars
            BY <3>1
        <3>4. QED
            BY <3>1, <3>2, <3>3, Zenon
    <2>2. QED
        BY <2>1 DEF BasisAt
<1> HIDE DEF W
<1>6. ASSUME NEW i \in B PROVE W[{i}][i] = 1
    <2>1. {i} \in SUBSET B /\ {i} \ {i} = {}
        OBVIOUS
    <2>2. PICK g : (\A r \in SUBSET B : LagrangeAt(i, r, x) = g[r \ {i}]) /\ g[{}] = 1
        BY <1>3, Zenon
    <2>3. QED
        BY <1>4, <2>1, <2>2
<1>7. ASSUME NEW s \in SUBSET B, NEW i \in s, NEW j \in s, i # j
      PROVE  Mul(W[s][i], Sub(X[i], X[j])) = Mul(W[s \ {j}][i], Sub(x, X[j]))
    <2>1. PICK g : /\ \A r \in SUBSET B : LagrangeAt(i, r, x) = g[r \ {i}]
                   /\ g \in [SUBSET (B \ {i}) -> Scalars] /\ g[{}] = 1
                   /\ \A r \in SUBSET (B \ {i}) : \A k \in r : g[r] = Mul(factor(i, k), g[r \ {k}])
        BY <1>3
    <2>2. PICK r, q : r = s \ {i} /\ q = r \ {j}
        OBVIOUS
    <2>3. /\ r \in SUBSET (B \ {i}) /\ q \in SUBSET (B \ {i}) /\ j \in r
          /\ (s \ {j}) \ {i} = q /\ s \ {j} \in SUBSET B
        BY <1>7, <2>2
    <2>4. W[s][i] = g[r] /\ W[s \ {j}][i] = g[q] /\ g[r] = Mul(factor(i, j), g[q])
        BY <1>4, <2>1, <2>2, <2>3
    <2>5. PICK f \in Scalars, d \in Scalars, e \in Scalars, v \in Scalars :
            f = factor(i, j) /\ d = Sub(X[i], X[j]) /\ e = Sub(x, X[j]) /\ v = g[q]
        <3>1. X[i] \in Scalars /\ X[j] \in Scalars /\ factor(i, j) \in Scalars /\ g[q] \in Scalars
            BY <1>1, <1>2, <1>7, <2>1, <2>3
        <3>2. Sub(X[i], X[j]) \in Scalars /\ Sub(x, X[j]) \in Scalars
            BY <3>1, SubLaws
        <3>3. QED
            BY <3>1, <3>2, Zenon
    <2>6. Mul(f, d) = e
        BY <1>2, <1>7, <2>5
    <2>7. Mul(Mul(f, v), d) = Mul(f, Mul(v, d)) /\ Mul(v, d) = Mul(d, v)
          /\ Mul(Mul(f, d), v) = Mul(f, Mul(d, v)) /\ Mul(e, v) = Mul(v, e)
        BY MulLaws
    <2>8. QED
        BY <2>4, <2>5, <2>6, <2>7
<1>8. QED
    BY <1>5, <1>6, <1>7 DEF WeightsAt, W

(***************************************************************************)
(* A polynomial through given points.                                      *)
(***************************************************************************)
(* One row of (y - x) Q(y) + d, from one row of Q. *)
LEMMA ShiftedRow ==
    ASSUME NEW x \in Scalars, NEW y \in Scalars, NEW q \in Scalars, NEW e \in Scalars,
           NEW d \in Scalars
    PROVE  Add(Mul(Add(Mul(q, y), e), Sub(y, x)), d)
               = Add(Mul(Add(Mul(q, Sub(y, x)), e), y), Sub(d, Mul(e, x)))
<1>1. PICK w \in Scalars : w = Sub(y, x) /\ Add(w, x) = y
    <2>1. Sub(y, x) \in Scalars /\ Add(Sub(y, x), x) = y
        BY SubLaws
    <2>2. QED
        BY <2>1
<1>2. PICK qy \in Scalars, qw \in Scalars : qy = Mul(q, y) /\ qw = Mul(q, w)
    BY MulLaws
<1>3. PICK a \in Scalars, b \in Scalars, g \in Scalars :
        a = Mul(qy, w) /\ b = Mul(e, w) /\ g = Mul(e, x)
    BY MulLaws
<1>4. Mul(qw, y) = a
    <2>1. Mul(Mul(q, w), y) = Mul(q, Mul(w, y)) /\ Mul(w, y) = Mul(y, w)
          /\ Mul(Mul(q, y), w) = Mul(q, Mul(y, w))
        BY MulLaws
    <2>2. QED
        BY <1>2, <1>3, <2>1
<1>5. Mul(e, y) = Add(b, g)
    <2>1. Mul(Add(w, x), e) = Add(Mul(w, e), Mul(x, e))
        BY MulDistributes, ScalarsAreInts
    <2>2. Mul(w, e) = b /\ Mul(x, e) = g /\ Mul(y, e) = Mul(e, y)
        BY <1>3, MulLaws
    <2>3. QED
        BY <1>1, <2>1, <2>2
<1>6. Mul(Add(qy, e), w) = Add(a, b)
    BY <1>3, MulDistributes, ScalarsAreInts
<1>7. Mul(Add(qw, e), y) = Add(a, Add(b, g))
    BY <1>4, <1>5, MulDistributes, ScalarsAreInts
<1>8. a \in Int /\ b \in Int /\ g \in Int /\ d \in Int
    BY ScalarsAreInts
<1>9. Add(Add(a, b), d) = (a + b + d) % P
    BY <1>8, RemainderOfSum DEF Add
<1>10. Add(Add(a, Add(b, g)), Sub(d, g)) = (a + b + d) % P
    <2>1. Add(a, Add(b, g)) = (a + b + g) % P
        BY <1>8, AddLaws
    <2>2. PICK u \in Int, v \in Int : u = a + b + g /\ v = d - g
        BY <1>8
    <2>3. ((u % P) + (v % P)) % P = (u + v) % P
        BY RemainderOfBoth
    <2>4. u + v = a + b + d
        BY <1>8, <2>2
    <2>5. QED
        BY <2>1, <2>2, <2>3, <2>4 DEF Add, Sub
<1>11. QED
    BY <1>1, <1>2, <1>3, <1>6, <1>7, <1>9, <1>10

(* The coefficients of (y - x) Q(y) + d: E holds d, those of Q, and 0. *)
Shifted(E, x, n) == [k \in 1..(n + 1) |-> Sub(E[k - 1], Mul(E[k], x))]

(* Its value. *)
LEMMA ShiftedValue ==
    ASSUME NEW n \in Nat, NEW Q \in [1..n -> Scalars], NEW x \in Scalars,
           NEW E \in [0..(n + 1) -> Scalars], E[n + 1] = 0, \A k \in 1..n : E[k] = Q[k],
           NEW y \in Scalars, NEW q, Horner(q, Q, y, n),
           NEW t, Horner(t, Shifted(E, x, n), y, n + 1)
    PROVE  t[1] = Add(Mul(q[1], Sub(y, x)), E[0])
<1> DEFINE C == Shifted(E, x, n)
           Equals(k) == t[k] = Add(Mul(q[k], Sub(y, x)), E[k - 1])
           T == {k \in 1..(n + 1) : Equals(k)}
<1>1. Sub(y, x) \in Scalars /\ 0 \in Scalars
    BY SubLaws, ScalarsAreInts
<1>2. q \in [1..(n + 1) -> Scalars] /\ q[n + 1] = 0
      /\ \A k \in 1..n : q[k] = Add(Mul(q[k + 1], y), Q[k])
    BY DEF Horner
<1>3. t \in [1..((n + 1) + 1) -> Scalars] /\ t[(n + 1) + 1] = 0
      /\ \A k \in 1..(n + 1) : t[k] = Add(Mul(t[k + 1], y), C[k])
    BY DEF Horner
<1>4. \A k \in 1..(n + 1) : C[k] = Sub(E[k - 1], Mul(E[k], x))
    BY DEF Shifted
<1> HIDE DEF C
<1>5. n + 1 \in T
    <2>1. n + 1 \in 1..(n + 1) /\ n \in 0..(n + 1) /\ (n + 1) - 1 = n
        OBVIOUS
    <2>2. PICK e \in Scalars : e = E[n]
        BY <2>1
    <2>3. t[n + 1] = Add(Mul(0, y), Sub(e, Mul(0, x)))
        BY <1>3, <1>4, <2>1, <2>2
    <2>4. Mul(0, y) = 0 /\ Mul(0, x) = 0 /\ Mul(0, Sub(y, x)) = 0
        BY <1>1, MulLaws
    <2>5. Sub(e, 0) = e /\ Add(0, e) = e
        <3>1. Add(e, 0) = e /\ Add(0, e) = e
            BY <1>1, AddLaws, ScalarsAreInts
        <3>2. Sub(Add(e, 0), 0) = e
            BY AddThenSub, ScalarsAreInts
        <3>3. QED
            BY <3>1, <3>2
    <2>6. Equals(n + 1)
        BY <1>2, <2>1, <2>2, <2>3, <2>4, <2>5
    <2>7. QED
        BY <2>1, <2>6
<1>6. ASSUME NEW k \in 1..n, k + 1 \in T PROVE k \in T
    <2>1. /\ k \in 1..(n + 1) /\ k + 1 \in 1..(n + 1) /\ (k + 1) - 1 = k
          /\ k \in 0..(n + 1) /\ k - 1 \in 0..(n + 1)
        OBVIOUS
    <2>2. PICK r \in Scalars, e \in Scalars, d \in Scalars :
            r = q[k + 1] /\ e = E[k] /\ d = E[k - 1]
        BY <1>2, <2>1
    <2>3. t[k + 1] = Add(Mul(r, Sub(y, x)), e)
        BY <1>6, <2>1, <2>2
    <2>4. t[k] = Add(Mul(Add(Mul(r, Sub(y, x)), e), y), Sub(d, Mul(e, x)))
        BY <1>3, <1>4, <2>1, <2>2, <2>3
    <2>5. q[k] = Add(Mul(r, y), e)
        BY <1>2, <2>2
    <2>6. Add(Mul(Add(Mul(r, y), e), Sub(y, x)), d)
            = Add(Mul(Add(Mul(r, Sub(y, x)), e), y), Sub(d, Mul(e, x)))
        BY ShiftedRow
    <2>7. Equals(k)
        BY <2>2, <2>4, <2>5, <2>6
    <2>8. QED
        BY <2>1, <2>7
<1> HIDE DEF T
<1>7. 1 \in T
    BY <1>5, <1>6, RowInduction
<1>8. QED
    BY <1>7 DEF T

(* C takes the values E at the points X of s. *)
Interpolates(C, n, X, E, s) ==
    /\ C \in [1..n -> Scalars]
    /\ \A i \in s : \A t : Horner(t, C, X[i], n) => t[1] = E[i]

(* There is a polynomial with as many coefficients as points. *)
LEMMA InterpolatingPolynomial ==
    ASSUME NEW D, IsFiniteSet(D), NEW X, Points(X, D), NEW E \in [D -> Scalars]
    PROVE  \E C : Interpolates(C, Cardinality(D), X, E, D)
<1> DEFINE Has(s, F) == \E C : Interpolates(C, Cardinality(s), X, F, s)
           N == {n \in Nat : \A s \in SUBSET D : Cardinality(s) = n =>
                                \A F \in [D -> Scalars] : Has(s, F)}
<1>1. \A s \in SUBSET D : IsFiniteSet(s) /\ Cardinality(s) \in Nat
    BY FS_Subset, FS_CardinalityType
<1>2. X \in [D -> Scalars] /\ 0 \in Scalars
    BY ScalarsAreInts DEF Points
<1>3. 0 \in N
    <2> SUFFICES ASSUME NEW s \in SUBSET D, Cardinality(s) = 0, NEW F \in [D -> Scalars]
                 PROVE  Has(s, F)
        OBVIOUS
    <2>1. s = {}
        BY <1>1, FS_EmptySet
    <2>2. [k \in 1..0 |-> 0] \in [1..0 -> Scalars]
        OBVIOUS
    <2>3. Interpolates([k \in 1..0 |-> 0], 0, X, F, s)
        BY <2>1, <2>2 DEF Interpolates
    <2>4. QED
        BY <2>3
<1>4. ASSUME NEW n \in Nat, n \in N PROVE n + 1 \in N
    <2> SUFFICES ASSUME NEW s \in SUBSET D, Cardinality(s) = n + 1, NEW F \in [D -> Scalars]
                 PROVE  Has(s, F)
        OBVIOUS
    <2>1. PICK j \in s : TRUE
        BY <1>1, FS_EmptySet
    <2>2. PICK r \in SUBSET D : r = s \ {j}
        OBVIOUS
    <2>3. Cardinality(r) = n
        BY <1>1, <2>1, <2>2, FS_RemoveElement
    <2>4. PICK x \in Scalars, d \in Scalars : x = X[j] /\ d = F[j]
        BY <1>2
    <2> DEFINE G == [i \in D |-> IF i \in r THEN Mul(Sub(F[i], d), Invert(Sub(X[i], x))) ELSE 0]
    <2>5. ASSUME NEW i \in r
          PROVE  /\ G[i] \in Scalars /\ Add(Mul(G[i], Sub(X[i], x)), d) = F[i]
        <3>1. PICK f \in Scalars, y \in Scalars : f = F[i] /\ y = X[i]
            BY <1>2
        <3>2. y # x
            BY <2>2, <2>4, <3>1 DEF Points
        <3>3. PICK u \in Scalars, v \in Scalars : u = Sub(f, d) /\ v = Sub(y, x) /\ v # 0
            BY <3>2, SubLaws
        <3>4. PICK w \in Scalars : w = Invert(v) /\ Mul(v, w) = 1
            BY <3>3, InvertLaw
        <3>5. G[i] = Mul(u, w)
            BY <3>1, <3>3, <3>4
        <3>6. /\ Mul(u, w) \in Scalars /\ Mul(Mul(u, w), v) = Mul(u, Mul(w, v))
              /\ Mul(w, v) = Mul(v, w) /\ Mul(u, 1) = u
            BY MulLaws
        <3>7. Add(u, d) = f
            BY <3>3, SubLaws
        <3> HIDE DEF G
        <3>8. QED
            BY <3>1, <3>3, <3>4, <3>5, <3>6, <3>7
    <2>6. G \in [D -> Scalars]
        <3>1. ASSUME NEW i \in D PROVE G[i] \in Scalars
            BY <1>2, <2>5, <3>1
        <3>2. QED
            BY <3>1
    <2> HIDE DEF G
    <2>7. PICK Q : Interpolates(Q, n, X, G, r)
        BY <1>4, <2>3, <2>6
    <2>8. Q \in [1..n -> Scalars]
        BY <2>7 DEF Interpolates
    <2> DEFINE H == [k \in 0..(n + 1) |-> IF k = 0 THEN d ELSE IF k = n + 1 THEN 0 ELSE Q[k]]
               C == Shifted(H, x, n)
    <2>9. /\ H \in [0..(n + 1) -> Scalars] /\ H[n + 1] = 0 /\ H[0] = d
          /\ \A k \in 1..n : H[k] = Q[k]
        BY <1>2, <2>8
    <2> HIDE DEF H
    <2>10. C \in [1..(n + 1) -> Scalars]
        <3>1. ASSUME NEW k \in 1..(n + 1) PROVE Sub(H[k - 1], Mul(H[k], x)) \in Scalars
            <4>1. H[k - 1] \in Scalars /\ H[k] \in Scalars
                BY <2>9
            <4>2. Mul(H[k], x) \in Scalars
                BY <4>1, MulLaws
            <4>3. QED
                BY <4>1, <4>2, SubLaws
        <3>2. QED
            BY <3>1 DEF Shifted
    <2> HIDE DEF C
    <2>11. ASSUME NEW i \in s, NEW t, Horner(t, C, X[i], n + 1) PROVE t[1] = F[i]
        <3>1. PICK y \in Scalars : y = X[i]
            BY <1>2
        <3>2. PICK q : Horner(q, Q, y, n)
            <4>1. y \in Nat
                BY DEF Scalars
            <4>2. QED
                BY <2>8, <4>1, EvaluateIsHorner
        <3>3. Horner(t, Shifted(H, x, n), y, n + 1)
            BY <2>11, <3>1 DEF C
        <3>4. t[1] = Add(Mul(q[1], Sub(y, x)), H[0])
            BY <2>8, <2>9, <3>2, <3>3, ShiftedValue
        <3>5. CASE i = j
            <4>1. Sub(y, x) = 0
                BY <2>4, <3>1, <3>5, SubLaws
            <4>2. q[1] \in Scalars
                BY <3>2 DEF Horner
            <4>3. Mul(q[1], 0) = 0 /\ Add(0, d) = d
                BY <1>2, <4>2, MulLaws, AddLaws, ScalarsAreInts
            <4>4. QED
                BY <2>4, <2>9, <3>4, <3>5, <4>1, <4>3
        <3>6. CASE i # j
            <4>1. i \in r
                BY <2>2, <3>6
            <4>2. q[1] = G[i]
                BY <2>7, <3>1, <3>2, <4>1 DEF Interpolates
            <4>3. QED
                BY <2>5, <2>9, <3>1, <3>4, <4>1, <4>2
        <3>7. QED
            BY <3>5, <3>6
    <2>12. Interpolates(C, n + 1, X, F, s)
        BY <2>10, <2>11 DEF Interpolates
    <2>13. QED
        BY <2>12
<1> HIDE DEF Has
<1>5. Nat \subseteq N
    BY <1>3, <1>4, Induction
<1>6. Has(D, E)
    BY <1>1, <1>5
<1>7. QED
    BY <1>6 DEF Has

(***************************************************************************)
(* PublicKeySet::new on the public shares of every validator.              *)
(***************************************************************************)
(* The first n participants of a set are n participants. *)
LEMMA FirstMembers ==
    ASSUME NEW S, S \subseteq Nat, IsFiniteSet(S), NEW n \in 1..Cardinality(S)
    PROVE  /\ FirstParticipants(n, S) \in SUBSET S /\ IsFiniteSet(FirstParticipants(n, S))
           /\ Cardinality(FirstParticipants(n, S)) = n
<1> DEFINE F == FirstParticipants(n, S)
           rank == [x \in F |-> Cardinality({y \in S : y < x})]
<1>1. Cardinality(S) \in Nat /\ n \in Nat
    BY FS_CardinalityType
<1>2. F \in SUBSET S
    BY DEF FirstParticipants
<1>3. \A x \in F : rank[x] = Cardinality({y \in S : y < x})
    BY Zenon
<1>4. \A x \in S : x \in F <=> Cardinality({y \in S : y < x}) < n
    BY Zenon DEF FirstParticipants
<1>5. \A x \in S : Cardinality({y \in S : y < x}) \in 0..(Cardinality(S) - 1)
    BY Ranks, Zenon
<1>6. \A x, z \in S : Cardinality({y \in S : y < x}) = Cardinality({y \in S : y < z}) => x = z
    BY Ranks, Zenon
<1>7. \A k \in 0..(Cardinality(S) - 1) : \E x \in S : Cardinality({y \in S : y < x}) = k
    BY InOrderLists, Zenon
<1>8. rank = [x \in F |-> rank[x]]
    BY Zenon
<1>9. ASSUME NEW x \in F PROVE rank[x] \in 0..(n - 1)
    <2>1. PICK r \in 0..(Cardinality(S) - 1) : r = Cardinality({y \in S : y < x})
        BY <1>2, <1>5
    <2>2. r < n
        BY <1>2, <1>4, <2>1
    <2>3. rank[x] = r
        BY <1>3, <2>1, Zenon
    <2>4. QED
        BY <1>1, <2>2, <2>3
<1>10. ASSUME NEW x \in F, NEW z \in F, rank[x] = rank[z] PROVE x = z
    BY <1>2, <1>3, <1>6, <1>10, Zenon
<1>11. ASSUME NEW k \in 0..(n - 1) PROVE \E x \in F : rank[x] = k
    <2>1. k \in 0..(Cardinality(S) - 1) /\ k < n
        BY <1>1
    <2>2. PICK x \in S : Cardinality({y \in S : y < x}) = k
        BY <1>7, <2>1, Zenon
    <2>3. x \in F
        BY <1>4, <2>1, <2>2, Zenon
    <2>4. rank[x] = k
        BY <1>3, <2>2, <2>3, Zenon
    <2>5. QED
        BY <2>3, <2>4, Zenon
<1> HIDE DEF F, rank
<1>12. IsFiniteSet(F)
    BY <1>2, FS_Subset
<1>13. rank \in Bijection(F, 0..(n - 1))
    BY <1>8, <1>9, <1>10, <1>11 DEF Bijection, Injection, Surjection, IsInjective
<1>14. Cardinality(0..(n - 1)) = Cardinality(F)
    BY <1>12, <1>13, FS_Bijection DEF ExistsBijection
<1>15. Cardinality(0..(n - 1)) = n
    <2>1. 0 \in Int /\ n - 1 \in Int
        BY <1>1
    <2>2. QED
        BY <1>1, <2>1, FS_Interval
<1>16. QED
    BY <1>2, <1>12, <1>14, <1>15 DEF F

(* Interpolating public shares interpolates their discrete logarithms. *)
LEMMA InterpolatesLogs ==
    ASSUME NEW B, IsFiniteSet(B), Points(PointsAt(B), B), NEW x \in Scalars,
           NEW d, NEW e \in [B -> Scalars], \A i \in B : d[i] = MulGenerator(e[i])
    PROVE  /\ InterpolatePublicKeyShare(B, x, d) = MulGenerator(Weighted(BasisAt(B, x), B, e))
           /\ Weighted(BasisAt(B, x), B, e) \in Scalars
<1> DEFINE W == BasisAt(B, x)
           F == [i \in B |-> Mul(W[B][i], e[i])]
           G == [i \in B |-> GMul(d[i], LagrangeAt(i, B, x))]
<1>1. WeightsAt(W, PointsAt(B), B, x)
    BY BasisIsWeights
<1>2. \A i \in B : W[B][i] = LagrangeAt(i, B, x)
    BY DEF BasisAt
<1>3. \A i \in B : W[B][i] \in Scalars
    BY <1>1 DEF WeightsAt
<1>4. \A i \in B : F[i] \in Scalars
    BY <1>3, MulLaws
<1>5. ASSUME NEW i \in B PROVE G[i] = MulGenerator(F[i])
    <2>1. PICK w \in Scalars, a \in Scalars : w = W[B][i] /\ a = e[i]
        BY <1>3
    <2>2. G[i] = Mul(Mul(Gen, a), w) /\ F[i] = Mul(w, a)
        BY <1>2, <2>1 DEF GMul, MulGenerator, Mul
    <2>3. Gen \in Scalars
        BY GenAssumption, PAssumption DEF Scalars
    <2>4. Mul(Mul(Gen, a), w) = Mul(Gen, Mul(a, w)) /\ Mul(a, w) = Mul(w, a)
        BY <2>3, MulLaws
    <2>5. QED
        BY <2>2, <2>4 DEF MulGenerator, GMul, Mul
<1>6. F \in [B -> Scalars] /\ G = [i \in B |-> MulGenerator(F[i])]
    BY <1>4, <1>5
<1>7. InterpolatePublicKeyShare(B, x, d) = FoldFunction(Add, 0, G)
    BY GroupSum, Zenon DEF InterpolatePublicKeyShare
<1>8. Weighted(W, B, e) = FoldFunction(Add, 0, F)
    BY Zenon DEF Weighted, Total
<1> HIDE DEF F, G, W
<1>9. FoldFunction(Add, 0, G) = MulGenerator(FoldFunction(Add, 0, F))
    BY <1>6, SumGenerator
<1>10. FoldFunction(Add, 0, F) \in Scalars
    BY <1>6, SumClosed
<1>11. QED
    BY <1>7, <1>8, <1>9, <1>10 DEF W

(* v holds the values of the polynomial C at the points X of D. *)
ValuesOn(v, C, n, X, D) ==
    /\ v \in [D -> Scalars]
    /\ \A i \in D : \E t : Horner(t, C, X[i], n) /\ v[i] = t[1]

(* Interpolation in terms of the values alone. *)
LEMMA ValuesInterpolate ==
    ASSUME NEW D, IsFiniteSet(D), NEW X, Points(X, D), NEW at \in Scalars, NEW W,
           WeightsAt(W, X, D, at),
           NEW n \in Nat \ {0}, NEW C \in [1..n -> Scalars], Cardinality(D) >= n,
           NEW v, ValuesOn(v, C, n, X, D), NEW h, Horner(h, C, at, n)
    PROVE  Weighted(W, D, v) = h[1]
<1> DEFINE Row(i, t) == Horner(t, C, X[i], n) /\ v[i] = t[1]
           rows == [i \in D |-> CHOOSE t : Row(i, t)]
<1>1. v \in [D -> Scalars] /\ \A i \in D : \E t : Row(i, t)
    BY DEF ValuesOn
<1>2. \A i \in D : Row(i, rows[i])
    BY <1>1, Zenon
<1>3. PICK u : \A i \in D : Row(i, u[i])
    BY <1>2, Zenon
<1>4. (\A i \in D : Horner(u[i], C, X[i], n)) /\ (\A i \in D : v[i] = u[i][1])
    BY <1>3
<1> HIDE DEF rows
<1>5. QED
    BY <1>1, <1>4, InterpolationAt

(* Public shares d on B interpolate to those of f at every participant,    *)
(* and at zero to that of its constant coefficient.                        *)
InterpolateTo(B, d, f) ==
    /\ InterpolatePublicKeyShare(B, 0, d) = MulGenerator(f[1])
    /\ \A p \in Nat :
        InterpolatePublicKeyShare(B, ToScalar(p), d) = MulGenerator(Evaluate(f, p))

(* That holds when f has as many coefficients as B has members. *)
LEMMA InterpolatedShare ==
    ASSUME NEW B, IsFiniteSet(B), B \subseteq Nat, Points(PointsAt(B), B),
           NEW n \in Nat \ {0}, Cardinality(B) = n, NEW f \in [1..n -> Scalars],
           NEW d, \A i \in B : d[i] = MulGenerator(Evaluate(f, i))
    PROVE  InterpolateTo(B, d, f)
<1> DEFINE X == PointsAt(B)
           e == [i \in B |-> Evaluate(f, i)]
<1>1. ASSUME NEW i \in B PROVE \E t : Horner(t, f, X[i], n) /\ e[i] = t[1]
    <2>1. X[i] = ToScalar(i) /\ i \in Nat
        BY DEF PointsAt
    <2>2. QED
        BY <2>1, HornerAtPoint
<1>2. ASSUME NEW i \in B PROVE e[i] \in Scalars
    BY PublicKeyShareEvaluates
<1>3. ValuesOn(e, f, n, X, B) /\ e \in [B -> Scalars] /\ \A i \in B : d[i] = MulGenerator(e[i])
    BY <1>1, <1>2 DEF ValuesOn
<1> HIDE DEF e
<1>4. PICK v : ValuesOn(v, f, n, X, B) /\ v \in [B -> Scalars] /\ \A i \in B : d[i] = MulGenerator(v[i])
    BY <1>3
<1>5. Cardinality(B) >= n
    OBVIOUS
<1> HIDE DEF X
<1>6. ASSUME NEW x \in Scalars, NEW h, Horner(h, f, x, n)
      PROVE  InterpolatePublicKeyShare(B, x, d) = MulGenerator(h[1])
    <2>1. WeightsAt(BasisAt(B, x), X, B, x) /\ Points(X, B)
        BY BasisIsWeights DEF X
    <2>2. Weighted(BasisAt(B, x), B, v) = h[1]
        BY <1>4, <1>5, <1>6, <2>1, ValuesInterpolate
    <2>3. InterpolatePublicKeyShare(B, x, d) = MulGenerator(Weighted(BasisAt(B, x), B, v))
        BY <1>4, InterpolatesLogs
    <2>4. QED
        BY <2>2, <2>3
<1>7. ASSUME NEW p \in Nat
      PROVE  InterpolatePublicKeyShare(B, ToScalar(p), d) = MulGenerator(Evaluate(f, p))
    <2>1. ToScalar(p) \in Scalars
        BY HornerAtPoint
    <2>2. PICK h : Horner(h, f, ToScalar(p), n) /\ Evaluate(f, p) = h[1]
        BY HornerAtPoint
    <2>3. QED
        BY <1>6, <2>1, <2>2
<1>8. InterpolatePublicKeyShare(B, 0, d) = MulGenerator(f[1])
    <2>1. ToScalar(0) = 0 /\ 0 \in Scalars
        BY ScalarRemainder, ScalarsAreInts DEF ToScalar
    <2>2. PICK h : Horner(h, f, ToScalar(0), n)
        BY HornerAtPoint
    <2>3. h[1] = Add(Mul(h[2], 0), f[1]) /\ h[2] \in Scalars /\ f[1] \in Scalars
        BY <2>1, <2>2 DEF Horner
    <2>4. h[1] = f[1]
        <3>1. Mul(h[2], 0) = 0
            BY <2>1, <2>3, MulLaws
        <3>2. Add(0, f[1]) = f[1]
            BY <2>3, AddLaws, ScalarsAreInts
        <3>3. QED
            BY <2>3, <3>1, <3>2
    <2>5. QED
        BY <1>6, <2>1, <2>2, <2>4
<1>9. QED
    BY <1>7, <1>8 DEF InterpolateTo

(* The public shares d of S are those of a polynomial with n coefficients  *)
(* and the constant's logarithm as constant coefficient.                   *)
SharedBy(f, n, S, constant, d) ==
    /\ f \in [1..n -> Scalars]
    /\ MulGenerator(f[1]) = constant
    /\ \A p \in S : d[p] = MulGenerator(Evaluate(f, p))

(* What validate_public_shares compares, for one of the two sharings. *)
InterpolatedFrom(B, S, constant, d) ==
    /\ InterpolatePublicKeyShare(B, 0, d) = constant
    /\ \A p \in S \ B : InterpolatePublicKeyShare(B, ToScalar(p), d) = d[p]

(* The comparisons of validate_public_shares decide whether public shares  *)
(* are shares of one polynomial, although they use only the basis.         *)
LEMMA InterpolationDecides ==
    ASSUME NEW S, S \subseteq Nat, IsFiniteSet(S),
           \A p, q \in S : ToScalar(p) = ToScalar(q) => p = q,
           NEW n \in Nat \ {0}, NEW B \in SUBSET S, Cardinality(B) = n,
           NEW d \in [S -> Scalars], NEW constant
    PROVE  InterpolatedFrom(B, S, constant, d) <=> \E f : SharedBy(f, n, S, constant, d)
<1>1. IsFiniteSet(B) /\ B \subseteq Nat
    BY FS_Subset
<1>2. \A p \in S : ToScalar(p) \in Scalars
    BY Remainder DEF ToScalar
<1>3. Points(PointsAt(B), B)
    BY <1>2 DEF Points, PointsAt
<1>4. ASSUME NEW f, SharedBy(f, n, S, constant, d) PROVE InterpolatedFrom(B, S, constant, d)
    <2>1. f \in [1..n -> Scalars] /\ MulGenerator(f[1]) = constant
          /\ \A p \in S : d[p] = MulGenerator(Evaluate(f, p))
        BY <1>4 DEF SharedBy
    <2>2. \A i \in B : d[i] = MulGenerator(Evaluate(f, i))
        BY <2>1
    <2>3. InterpolateTo(B, d, f)
        BY <1>1, <1>3, <2>1, <2>2, InterpolatedShare
    <2>4. InterpolatePublicKeyShare(B, 0, d) = constant
        BY <2>1, <2>3 DEF InterpolateTo
    <2>5. ASSUME NEW p \in S \ B PROVE InterpolatePublicKeyShare(B, ToScalar(p), d) = d[p]
        BY <2>1, <2>3 DEF InterpolateTo
    <2>6. QED
        BY <2>4, <2>5 DEF InterpolatedFrom
<1>5. ASSUME InterpolatedFrom(B, S, constant, d) PROVE \E f : SharedBy(f, n, S, constant, d)
    <2> DEFINE e == [i \in B |-> CHOOSE x \in Scalars : MulGenerator(x) = d[i]]
    <2>1. \A i \in B : e[i] \in Scalars /\ MulGenerator(e[i]) = d[i]
        <3>1. \A i \in B : \E x \in Scalars : MulGenerator(x) = d[i]
            BY DiscreteLogarithm
        <3>2. QED
            BY <3>1, Zenon
    <2>2. e \in [B -> Scalars]
        BY <2>1
    <2> HIDE DEF e
    <2>3. PICK f : Interpolates(f, n, PointsAt(B), e, B)
        BY <1>1, <1>3, <2>2, InterpolatingPolynomial
    <2>4. f \in [1..n -> Scalars]
        BY <2>3 DEF Interpolates
    <2>5. ASSUME NEW i \in B PROVE d[i] = MulGenerator(Evaluate(f, i))
        <3>1. i \in Nat /\ PointsAt(B)[i] = ToScalar(i)
            BY DEF PointsAt
        <3>2. PICK h : Horner(h, f, ToScalar(i), n) /\ Evaluate(f, i) = h[1]
            BY <2>4, <3>1, HornerAtPoint
        <3>3. h[1] = e[i]
            BY <2>3, <3>1, <3>2 DEF Interpolates
        <3>4. QED
            BY <2>1, <3>2, <3>3
    <2>6. InterpolateTo(B, d, f)
        BY <1>1, <1>3, <2>4, <2>5, InterpolatedShare
    <2>7. MulGenerator(f[1]) = constant
        BY <1>5, <2>6 DEF InterpolatedFrom, InterpolateTo
    <2>8. ASSUME NEW p \in S PROVE d[p] = MulGenerator(Evaluate(f, p))
        <3>1. p \in Nat
            OBVIOUS
        <3>2. InterpolatePublicKeyShare(B, ToScalar(p), d) = MulGenerator(Evaluate(f, p))
            BY <2>6, <3>1 DEF InterpolateTo
        <3>3. p \notin B => InterpolatePublicKeyShare(B, ToScalar(p), d) = d[p]
            BY <1>5 DEF InterpolatedFrom
        <3>4. QED
            BY <2>5, <3>2, <3>3
    <2>9. QED
        BY <2>4, <2>7, <2>8 DEF SharedBy
<1>6. QED
    BY <1>4, <1>5

(* The public shares of one part. *)
PartOf(public, part) == [p \in Validators |-> public[p][part]]

(* The arguments have the types of PublicKeySet::new. *)
PublicArguments(threshold, public) ==
    /\ threshold \in Nat
    /\ public \in [Validators -> [decryption : Scalars, context : Scalars]]

(* The points of the validators are finitely many and different. *)
LEMMA ValidatorPoints ==
    /\ Validators \subseteq Nat /\ IsFiniteSet(Validators)
    /\ \A p, q \in Validators : ToScalar(p) = ToScalar(q) => p = q
<1>1. Validators \in SUBSET Indexes /\ IsFiniteSet(Indexes) /\ Indexes \subseteq Nat
    BY SharingAssumption, KeySetsAssumption
<1>2. IsFiniteSet(Validators)
    BY <1>1, FS_Subset
<1>3. QED
    BY <1>1, <1>2, KeySetsAssumption

(* validate_public_shares accepts exactly the public shares of two         *)
(* polynomials with threshold coefficients, one with the key and one with  *)
(* zero as constant.                                                       *)
LEMMA ValidationDecides ==
    ASSUME NEW n \in 1..Cardinality(Validators), NEW key, NEW public, PublicArguments(n, public)
    PROVE  ValidatePublicShares(n, key, public)
               <=> /\ \E f : SharedBy(f, n, Validators, key, PartOf(public, "decryption"))
                   /\ \E f : SharedBy(f, n, Validators, Identity, PartOf(public, "context"))
<1> DEFINE B == FirstParticipants(n, Validators)
           d == PartOf(public, "decryption")
           c == PartOf(public, "context")
<1>1. Cardinality(Validators) \in Nat /\ n \in Nat \ {0}
    BY ValidatorPoints, FS_CardinalityType
<1>2. B \in SUBSET Validators /\ Cardinality(B) = n
    BY ValidatorPoints, FirstMembers
<1>3. DOMAIN public = Validators
    BY DEF PublicArguments
<1>4. d \in [Validators -> Scalars] /\ c \in [Validators -> Scalars]
    BY DEF PublicArguments, PartOf
<1>5. d = [i \in Validators |-> public[i].decryption] /\ c = [i \in Validators |-> public[i].context]
    BY DEF PartOf
<1> HIDE DEF B, d, c
<1>6. ValidatePublicShares(n, key, public)
          <=> InterpolatedFrom(B, Validators, key, d) /\ InterpolatedFrom(B, Validators, Identity, c)
    BY <1>3, <1>5, Zenon DEF ValidatePublicShares, InterpolatedFrom, B
<1>7. InterpolatedFrom(B, Validators, key, d) <=> \E f : SharedBy(f, n, Validators, key, d)
    BY <1>1, <1>2, <1>4, ValidatorPoints, InterpolationDecides
<1>8. InterpolatedFrom(B, Validators, Identity, c) <=> \E f : SharedBy(f, n, Validators, Identity, c)
    BY <1>1, <1>2, <1>4, ValidatorPoints, InterpolationDecides
<1>9. QED
    BY <1>6, <1>7, <1>8, Zenon DEF d, c

(* PublicKeySet::new returns Ok exactly for sharings of the key and zero. *)
LEMMA NewDecides ==
    ASSUME NEW n, NEW key, NEW public, PublicArguments(n, public)
    PROVE  NewPublicKeySet(n, key, public).kind = "Ok"
               <=> /\ n \in 1..Cardinality(Validators)
                   /\ key # Identity
                   /\ \E f : SharedBy(f, n, Validators, key, PartOf(public, "decryption"))
                   /\ \E f : SharedBy(f, n, Validators, Identity, PartOf(public, "context"))
<1>1. DOMAIN public = Validators /\ n \in Nat /\ Cardinality(Validators) \in Nat
    BY ValidatorPoints, FS_CardinalityType DEF PublicArguments
<1>2. (n = 0 \/ Cardinality(DOMAIN public) < n) <=> n \notin 1..Cardinality(Validators)
    BY <1>1
<1>3. NewPublicKeySet(n, key, public).kind = "Ok"
          <=> /\ n \in 1..Cardinality(Validators) /\ key # Identity
              /\ ValidatePublicShares(n, key, public)
    <2>1. CASE n \notin 1..Cardinality(Validators)
        BY <1>2, <2>1 DEF NewPublicKeySet, Fail
    <2>2. CASE n \in 1..Cardinality(Validators) /\ key = Identity
        BY <1>2, <2>2 DEF NewPublicKeySet, Fail
    <2>3. CASE /\ n \in 1..Cardinality(Validators) /\ key # Identity
               /\ ~ValidatePublicShares(n, key, public)
        BY <1>2, <2>3 DEF NewPublicKeySet, Fail
    <2>4. CASE /\ n \in 1..Cardinality(Validators) /\ key # Identity
               /\ ValidatePublicShares(n, key, public)
        BY <1>2, <2>4 DEF NewPublicKeySet, Fail
    <2>5. QED
        BY <2>1, <2>2, <2>3, <2>4
<1>4. QED
    BY <1>3, ValidationDecides

(* The inductive invariant: PublicKeySet::new was called with a threshold  *)
(* and public shares, and what is kept is its result.                      *)
KeySetsInv ==
    /\ Dealer
    /\ keySet # NoCall =>
        /\ PublicArguments(keySet.threshold, keySet.shares)
        /\ keySet.result = NewPublicKeySet(keySet.threshold, keySet.key, keySet.shares).kind

(* Public shares are group elements, wrong ones too. *)
LEMMA PublicSharesTyped ==
    ASSUME NEW t \in Nat, NEW f \in [1..t -> Scalars], NEW g \in [1..t -> Scalars], NEW wrong
    PROVE  PublicShares(f, g, wrong) \in [Validators -> [decryption : Scalars, context : Scalars]]
<1> DEFINE element(h, p, part) ==
        GAdd(MulGenerator(Evaluate(h, p)), IF <<p, part>> \in wrong THEN Gen ELSE Identity)
<1>1. ASSUME NEW h \in [1..t -> Scalars], NEW p \in Validators, NEW part
      PROVE  element(h, p, part) \in Scalars
    <2>1. Evaluate(h, p) \in Scalars
        BY ValidatorPoints, PublicKeyShareEvaluates
    <2>2. MulGenerator(Evaluate(h, p)) \in Scalars
        BY <2>1, GeneratorHomomorphism, ScalarsAreInts
    <2>3. (IF <<p, part>> \in wrong THEN Gen ELSE Identity) \in Int
        BY ScalarsAreInts
    <2>4. QED
        BY <2>2, <2>3, Closed, ScalarsAreInts
<1>2. PublicShares(f, g, wrong) = [p \in Validators |-> [decryption |-> element(f, p, "decryption"),
                                                         context |-> element(g, p, "context")]]
    BY DEF PublicShares
<1> HIDE DEF element
<1>3. QED
    BY <1>1, <1>2

(* Every step keeps the invariant. *)
LEMMA KeySetsStep == KeySetsInv /\ [KeySetsNext]_<<vars, keySet>> => KeySetsInv'
<1> SUFFICES ASSUME KeySetsInv, [KeySetsNext]_<<vars, keySet>> PROVE KeySetsInv'
    OBVIOUS
<1>1. CASE UNCHANGED <<vars, keySet>> \/ (keySet = NoCall /\ Next /\ UNCHANGED keySet)
    BY <1>1 DEF KeySetsInv, Dealer, Next, Deal, Collect, Reconstruct, vars, PublicArguments
<1>2. CASE CallNew
    <2>1. PICK t \in Nat \ {0} : polynomial \in [1..t -> Scalars]
        BY DEF KeySetsInv, Dealer
    <2>2. Threshold = t
        BY <2>1 DEF Threshold
    <2>3. polynomial' = polynomial
        BY <1>2 DEF CallNew, vars
    <2>4. PICK threshold \in {0, Threshold, Cardinality(Validators) + 1},
               rest \in [1..(Threshold - 1) -> ContextCoefficients],
               wrong \in UNION {kSubset(k, Validators \X {"decryption", "context"}) : k \in 0..MaxWrong} :
            keySet' = [kind |-> "Called", threshold |-> threshold, key |-> MulGenerator(polynomial[1]),
                       shares |-> PublicShares(polynomial, <<0>> \o rest, wrong),
                       result |-> NewPublicKeySet(threshold, MulGenerator(polynomial[1]),
                                      PublicShares(polynomial, <<0>> \o rest, wrong)).kind]
        BY <1>2, Zenon DEF CallNew
    <2>5. PICK g, public : g = <<0>> \o rest /\ public = PublicShares(polynomial, g, wrong)
        OBVIOUS
    <2>6. g \in [1..t -> Scalars]
        <3>1. rest \in [1..(t - 1) -> Scalars] /\ 0 \in Scalars
            BY <2>2, <2>4, KeySetsAssumption, ScalarsAreInts
        <3>2. PICK r \in Seq(Scalars) : r = rest /\ Len(r) = t - 1
            BY <2>1, <3>1
        <3>3. g \in Seq(Scalars) /\ Len(g) = t
            BY <2>1, <2>5, <3>1, <3>2
        <3>4. QED
            BY <2>1, <3>3
    <2>7. public \in [Validators -> [decryption : Scalars, context : Scalars]]
        BY <2>1, <2>5, <2>6, PublicSharesTyped
    <2>8. threshold \in Nat
        BY <2>2, <2>4, ValidatorPoints, FS_CardinalityType
    <2>9. /\ keySet'.threshold = threshold /\ keySet'.key = MulGenerator(polynomial[1])
          /\ keySet'.shares = public
          /\ keySet'.result = NewPublicKeySet(threshold, MulGenerator(polynomial[1]), public).kind
        BY <2>4, <2>5
    <2>10. PublicArguments(keySet'.threshold, keySet'.shares)
        BY <2>7, <2>8, <2>9 DEF PublicArguments
    <2>11. keySet'.result = NewPublicKeySet(keySet'.threshold, keySet'.key, keySet'.shares).kind
        BY <2>9
    <2>12. QED
        BY <2>1, <2>3, <2>10, <2>11, Zenon DEF KeySetsInv, Dealer, PublicArguments
<1>3. QED
    BY <1>1, <1>2 DEF KeySetsNext

(* PublicKeySet::new (context.rs in golden-ehtdh1) accepts exactly the     *)
(* sharings of its key and of zero, for every prime, set of validators and *)
(* threshold: whichever quorum decrypts uses the same key, although only   *)
(* the first threshold shares are interpolated.                            *)
THEOREM ExactlySharingsAccepted == KeySetsSpec => []SharingsExactlyAccepted
<1>1. KeySetsInit => KeySetsInv
    BY SharingAssumption DEF KeySetsInit, Init, KeySetsInv, Dealer
<1>2. KeySetsInv => SharingsExactlyAccepted
    <2> SUFFICES ASSUME KeySetsInv, keySet # NoCall
                 PROVE  keySet.result = "Ok" <=> WellFormed
        BY DEF SharingsExactlyAccepted
    <2>1. PICK n, key, public : n = keySet.threshold /\ key = keySet.key /\ public = keySet.shares
        OBVIOUS
    <2>2. PublicArguments(n, public) /\ keySet.result = NewPublicKeySet(n, key, public).kind
        BY <2>1 DEF KeySetsInv
    <2> DEFINE sharing(constant, part) ==
            \E f \in [1..n -> Scalars] :
                /\ MulGenerator(f[1]) = constant
                /\ \A p \in Validators : public[p][part] = MulGenerator(Evaluate(f, p))
    <2>3. ASSUME NEW constant, NEW part
          PROVE  sharing(constant, part)
                     <=> \E f : SharedBy(f, n, Validators, constant, PartOf(public, part))
        <3>1. \A p \in Validators : PartOf(public, part)[p] = public[p][part]
            BY DEF PartOf
        <3>2. QED
            BY <3>1 DEF SharedBy
    <2>4. WellFormed <=> /\ n \in 1..Cardinality(Validators) /\ key # Identity
                         /\ sharing(key, "decryption") /\ sharing(Identity, "context")
        BY <2>1, Zenon DEF WellFormed, Polynomials
    <2> HIDE DEF sharing
    <2>5. QED
        BY <2>2, <2>3, <2>4, NewDecides
<1>3. QED
    BY <1>1, <1>2, KeySetsStep, PTL DEF KeySetsSpec
=============================================================================
