---------------------------- MODULE ShamirProofs ----------------------------
(***************************************************************************)
(* What the algorithms of Shamir compute, for every prime P, every         *)
(* threshold and every participant index.                                  *)
(***************************************************************************)
EXTENDS Shamir, Functions, WellFoundedInduction, FiniteSetTheorems, TLAPS

(***************************************************************************)
(* Induction over data for the folds of the community modules.  The        *)
(* library's induction theorems take an operator as parameter; here every  *)
(* parameter is a set or a function, so that the provers can instantiate   *)
(* it: induction over Nat as a statement about a set of naturals, and      *)
(* recursion over subsets and sequences as the existence of a table.       *)
(***************************************************************************)
(* Every nonempty set of naturals has a least element. *)
LEMMA LeastElement ==
    ASSUME NEW S, S \subseteq Nat, S # {}
    PROVE  \E x \in S : \A y \in S : x =< y
<1> DEFINE R == OpToRel(<, Nat)
<1>1. R = {ss \in Nat \X Nat : ss[1] < ss[2]}
    BY DEF OpToRel
<1>2. IsWellFoundedOn(R, Nat)
    BY NatLessThanWellFounded
<1> HIDE DEF R
<1>3. PICK x \in S : \A y \in S : ~(<<y, x>> \in R)
    BY <1>2, WFMin
<1>4. ASSUME NEW y \in S PROVE x =< y
    <2>1. x \in Nat /\ y \in Nat
        OBVIOUS
    <2>2. y < x => <<y, x>> \in R
        BY <1>1, <2>1
    <2>3. QED
        BY <1>3, <2>1, <2>2
<1>5. QED
    BY <1>4

(* Induction over the naturals, for the set T of those that have a property. *)
LEMMA Induction ==
    ASSUME NEW T, 0 \in T, \A n \in Nat : n \in T => n + 1 \in T
    PROVE  Nat \subseteq T
<1> DEFINE S == Nat \ T
<1> SUFFICES ASSUME S # {} PROVE FALSE
    OBVIOUS
<1>1. PICK x \in S : \A y \in S : x =< y
    BY LeastElement
<1>2. x - 1 \in Nat /\ x - 1 \notin S
    BY <1>1
<1>3. QED
    BY <1>2

(* A nonempty set of naturals contains its Min, and Min is least. *)
LEMMA MinInSet ==
    ASSUME NEW S, S \subseteq Nat, S # {}
    PROVE  Min(S) \in S /\ \A y \in S : Min(S) =< y
BY LeastElement DEF Min

(* The Min and the Max of an interval. *)
LEMMA IntervalEnds ==
    ASSUME NEW a \in Int, NEW b \in Int, a =< b
    PROVE  Min(a..b) = a /\ Max(a..b) = b
<1>1. \E x \in a..b : \A y \in a..b : x =< y
    OBVIOUS
<1>2. \E x \in a..b : \A y \in a..b : x >= y
    OBVIOUS
<1>3. Min(a..b) \in a..b /\ \A y \in a..b : Min(a..b) =< y
    BY <1>1 DEF Min
<1>4. Max(a..b) \in a..b /\ \A y \in a..b : Max(a..b) >= y
    BY <1>2 DEF Max
<1>5. QED
    BY <1>3, <1>4

(* Functions that pick a member of every nonempty subset of S. *)
Picks(S) == {f \in [(SUBSET S) \ {{}} -> S] : \A s \in (SUBSET S) \ {{}} : f[s] \in s}

(* Induction over the subsets of a finite set: a subset has the property T *)
(* when it has it without the element that is picked from it.              *)
LEMMA SubsetInduction ==
    ASSUME NEW S, IsFiniteSet(S), NEW T, {} \in T,
           NEW pick \in Picks(S),
           \A s \in SUBSET S : s # {} /\ s \ {pick[s]} \in T => s \in T
    PROVE  SUBSET S \subseteq T
<1> DEFINE N == {n \in Nat : \A s \in SUBSET S : Cardinality(s) = n => s \in T}
<1>1. \A s \in SUBSET S : IsFiniteSet(s) /\ Cardinality(s) \in Nat
    BY FS_Subset, FS_CardinalityType
<1>2. 0 \in N
    BY <1>1, FS_EmptySet, SMTT(30)
<1>3. ASSUME NEW n \in Nat, n \in N PROVE n + 1 \in N
    <2> SUFFICES ASSUME NEW s \in SUBSET S, Cardinality(s) = n + 1 PROVE s \in T
        OBVIOUS
    <2>1. s # {}
        BY FS_EmptySet
    <2>2. PICK x \in s : x = pick[s]
        BY <2>1 DEF Picks
    <2>3. Cardinality(s \ {x}) = n
        <3>1. IsFiniteSet(s)
            BY <1>1
        <3>2. Cardinality(s \ {x}) = Cardinality(s) - 1
            BY <3>1, FS_RemoveElement
        <3>3. QED
            BY <3>2
    <2>4. s \ {pick[s]} \in T
        BY <2>2, <2>3, <1>3
    <2>5. QED
        BY <2>1, <2>4
<1>4. Nat \subseteq N
    BY <1>2, <1>3, Induction
<1>5. QED
    BY <1>1, <1>4

(* What a step of a recursion over S does with a member and a value in V. *)
Steps(S, V) == [S \X V -> V]

(* g solves the recursion over the subsets of S. *)
Solves(g, S, V, base, pick, step) ==
    /\ g \in [SUBSET S -> V]
    /\ \A s \in SUBSET S :
         g[s] = IF s = {} THEN base ELSE step[<<pick[s], g[s \ {pick[s]}]>>]

(* A recursion over the subsets of a finite set has a solution. *)
LEMMA SubsetRecursion ==
    ASSUME NEW S, IsFiniteSet(S), NEW V, NEW base \in V,
           NEW pick \in Picks(S),
           NEW step \in Steps(S, V)
    PROVE  \E g : Solves(g, S, V, base, pick, step)
<1> DEFINE SolvesAt(g, s) ==
                g[s] = IF s = {} THEN base ELSE step[<<pick[s], g[s \ {pick[s]}]>>]
           N == {n \in Nat : \E g \in [SUBSET S -> V] : \A s \in SUBSET S :
                                Cardinality(s) =< n => SolvesAt(g, s)}
<1>1. \A s \in SUBSET S : IsFiniteSet(s) /\ Cardinality(s) \in Nat
    BY FS_Subset, FS_CardinalityType
<1>2. 0 \in N
    <2> DEFINE g == [s \in SUBSET S |-> base]
    <2>1. g \in [SUBSET S -> V]
        OBVIOUS
    <2>2. \A s \in SUBSET S : Cardinality(s) =< 0 => s = {}
        BY <1>1, FS_EmptySet
    <2>3. \A s \in SUBSET S : Cardinality(s) =< 0 => SolvesAt(g, s)
        BY <2>2
    <2>4. QED
        BY <2>1, <2>3
<1>3. ASSUME NEW n \in Nat, n \in N PROVE n + 1 \in N
    <2>1. PICK g \in [SUBSET S -> V] :
            \A s \in SUBSET S : Cardinality(s) =< n => SolvesAt(g, s)
        BY <1>3
    <2> DEFINE Value(s) == IF s = {} THEN base ELSE step[<<pick[s], g[s \ {pick[s]}]>>]
               h == [s \in SUBSET S |-> IF Cardinality(s) =< n THEN g[s] ELSE Value(s)]
    <2>2. ASSUME NEW s \in SUBSET S PROVE Value(s) \in V
        <3>1. CASE s = {}
            BY <3>1
        <3>2. CASE s # {}
            <4>1. pick[s] \in S /\ s \ {pick[s]} \in SUBSET S
                BY <3>2 DEF Picks
            <4>2. <<pick[s], g[s \ {pick[s]}]>> \in S \X V
                BY <4>1
            <4>3. QED
                BY <3>2, <4>2 DEF Steps
        <3>3. QED
            BY <3>1, <3>2
    <2>3. h \in [SUBSET S -> V]
        BY <2>2
    <2>4. ASSUME NEW s \in SUBSET S, s # {}, Cardinality(s) =< n + 1
          PROVE  h[s \ {pick[s]}] = g[s \ {pick[s]}]
        <3>1. pick[s] \in s
            BY <2>4 DEF Picks
        <3>2. Cardinality(s \ {pick[s]}) = Cardinality(s) - 1
            BY <3>1, <1>1, FS_RemoveElement
        <3>3. Cardinality(s \ {pick[s]}) =< n
            BY <3>2, <2>4, <1>1
        <3>4. QED
            BY <3>3
    <2>5. ASSUME NEW s \in SUBSET S, Cardinality(s) =< n + 1
          PROVE  SolvesAt(h, s)
        <3>1. h[s] = Value(s)
            BY <2>1
        <3>2. CASE s = {}
            BY <3>1, <3>2
        <3>3. CASE s # {}
            BY <3>1, <3>3, <2>4, <2>5
        <3>4. QED
            BY <3>2, <3>3
    <2> HIDE DEF h, SolvesAt
    <2>6. QED
        BY <2>3, <2>5
<1>4. Cardinality(S) \in N
    BY <1>1, <1>2, <1>3, Induction
<1>5. PICK g \in [SUBSET S -> V] :
        \A s \in SUBSET S : Cardinality(s) =< Cardinality(S) => SolvesAt(g, s)
    BY <1>4
<1>6. \A s \in SUBSET S : Cardinality(s) =< Cardinality(S)
    BY FS_Subset
<1>7. QED
    BY <1>5, <1>6 DEF Solves

(* The recursion of FoldRight, which picks the least index: its values on  *)
(* the ends i..n of the index set.                                         *)
LEMMA FromTheRight ==
    ASSUME NEW n \in Nat, NEW i \in 1..n
    PROVE  /\ i..n # {} /\ i..n \in SUBSET (1..n)
           /\ Min(i..n) = i /\ (i..n) \ {Min(i..n)} = (i + 1)..n
<1>1. Min(i..n) = i
    BY IntervalEnds
<1>2. QED
    BY <1>1

(* The recursion of FoldLeft, which picks the greatest index: its values   *)
(* on the beginnings 1..i of the index set.                                *)
LEMMA FromTheLeft ==
    ASSUME NEW n \in Nat, NEW i \in 1..n
    PROVE  /\ 1..i # {} /\ 1..i \in SUBSET (1..n)
           /\ Max(1..i) = i /\ (1..i) \ {Max(1..i)} = 1..(i - 1)
<1>1. Max(1..i) = i
    BY IntervalEnds
<1>2. QED
    BY <1>1

(* FoldRight and FoldLeft pick members of the sets they go through. *)
LEMMA EndsArePicked ==
    ASSUME NEW n \in Nat, NEW s \in SUBSET (1..n), s # {}
    PROVE  Min(s) \in s /\ Max(s) \in s
<1>1. \A y \in s : y \in Nat /\ n - y \in Nat
    OBVIOUS
<1>2. Min(s) \in s
    <2>1. s \subseteq Nat
        BY <1>1
    <2>2. QED
        BY <2>1, MinInSet
<1>3. \E x \in s : \A y \in s : x >= y
    <2> DEFINE flipped == {n - y : y \in s}
    <2>1. flipped \subseteq Nat /\ flipped # {}
        BY <1>1
    <2>2. PICK z \in flipped : \A y \in flipped : z =< y
        BY <2>1, LeastElement
    <2>3. PICK x \in s : z = n - x
        OBVIOUS
    <2>4. ASSUME NEW y \in s PROVE x >= y
        <3>1. z =< n - y
            BY <2>2
        <3>2. QED
            BY <3>1, <2>3, <1>1
    <2>5. QED
        BY <2>4
<1>4. Max(s) \in s
    BY <1>3 DEF Max
<1>5. QED
    BY <1>2, <1>4

(* Induction over sets of indexes from the right, the way FoldRight goes. *)
LEMMA InductionFromTheRight ==
    ASSUME NEW n \in Nat, NEW T, {} \in T,
           \A s \in SUBSET (1..n) : s # {} /\ s \ {Min(s)} \in T => s \in T
    PROVE  1..n \in T
<1> DEFINE D == 1..n
           pick == [s \in (SUBSET D) \ {{}} |-> Min(s)]
<1>1. \A s \in SUBSET D : s # {} => Min(s) \in s
    BY EndsArePicked
<1>2. IsFiniteSet(D)
    BY FS_Interval
<1> HIDE DEF D
<1>3. pick \in Picks(D)
    BY <1>1 DEF Picks
<1>4. \A s \in SUBSET D : s # {} /\ s \ {pick[s]} \in T => s \in T
    BY DEF D
<1> HIDE DEF pick
<1>5. SUBSET D \subseteq T
    BY <1>2, <1>3, <1>4, SubsetInduction
<1>6. QED
    BY <1>5 DEF D

(***************************************************************************)
(* Arithmetic modulo P.                                                    *)
(***************************************************************************)
(* A remainder is a scalar, and what it leaves out is a multiple of P. *)
LEMMA Remainder ==
    ASSUME NEW a \in Int
    PROVE  /\ a % P \in Scalars /\ a % P \in Int
           /\ a \div P \in Int
           /\ a = (P * (a \div P)) + (a % P)
BY PAssumption DEF Scalars

(* A scalar is its own remainder. *)
LEMMA ScalarRemainder ==
    ASSUME NEW a \in Scalars
    PROVE  a % P = a /\ a \in Int
BY PAssumption DEF Scalars

(* The remainder is the only scalar that differs by a multiple of P. *)
LEMMA RemainderUnique ==
    ASSUME NEW a \in Int, NEW q \in Int, NEW r \in Scalars, a = (P * q) + r
    PROVE  a % P = r
BY PAssumption DEF Scalars

(* Multiples of P do not change the remainder. *)
LEMMA AddMultiple ==
    ASSUME NEW a \in Int, NEW q \in Int
    PROVE  (a + (P * q)) % P = a % P
<1> DEFINE d == a \div P
           r == a % P
<1>1. d \in Int /\ r \in Scalars /\ r \in Int /\ a = (P * d) + r
    BY Remainder
<1> HIDE DEF d, r
<1>2. a + (P * q) = (P * (d + q)) + r
    BY <1>1, PAssumption
<1>3. (a + (P * q)) \in Int /\ d + q \in Int
    BY <1>1, PAssumption
<1>4. (a + (P * q)) % P = r
    BY <1>1, <1>2, <1>3, RemainderUnique
<1>5. QED
    BY <1>4 DEF r

(* The remainder may be taken before adding or subtracting. *)
LEMMA RemainderOfSum ==
    ASSUME NEW a \in Int, NEW b \in Int
    PROVE  /\ ((a % P) + b) % P = (a + b) % P
           /\ (b + (a % P)) % P = (b + a) % P
           /\ (b - (a % P)) % P = (b - a) % P
<1> DEFINE d == a \div P
           r == a % P
<1>1. d \in Int /\ r \in Int /\ a = (P * d) + r
    BY Remainder
<1> HIDE DEF d, r
<1>2. a + b = (r + b) + (P * d) /\ b - a = (b - r) + (P * (0 - d)) /\ b + a = a + b /\ b + r = r + b
    BY <1>1, PAssumption
<1>3. r + b \in Int /\ b - r \in Int /\ 0 - d \in Int
    BY <1>1
<1>4. ((r + b) + (P * d)) % P = (r + b) % P
    BY <1>1, <1>3, AddMultiple
<1>5. ((b - r) + (P * (0 - d))) % P = (b - r) % P
    BY <1>1, <1>3, AddMultiple
<1>6. QED
    BY <1>2, <1>4, <1>5 DEF r

(* The remainder may be taken of both summands. *)
LEMMA RemainderOfBoth ==
    ASSUME NEW x \in Int, NEW y \in Int
    PROVE  /\ ((x % P) + (y % P)) % P = (x + y) % P
           /\ ((x % P) - (y % P)) % P = (x - y) % P
<1>1. x % P \in Int /\ y % P \in Int
    BY Remainder
<1>2. ((x % P) + (y % P)) % P = (x + (y % P)) % P
    BY <1>1, RemainderOfSum
<1>3. (x + (y % P)) % P = (x + y) % P
    BY RemainderOfSum
<1>4. ((x % P) - (y % P)) % P = ((x % P) - y) % P
    BY <1>1, RemainderOfSum
<1>5. 0 - y \in Int /\ (x % P) - y = (x % P) + (0 - y) /\ x - y = x + (0 - y)
    BY <1>1
<1>6. ((x % P) + (0 - y)) % P = (x + (0 - y)) % P
    BY <1>5, RemainderOfSum
<1>7. QED
    BY <1>2, <1>3, <1>4, <1>5, <1>6

(* The remainder may be taken before multiplying. *)
LEMMA RemainderOfProduct ==
    ASSUME NEW a \in Int, NEW b \in Int
    PROVE  /\ ((a % P) * b) % P = (a * b) % P
           /\ (b * (a % P)) % P = (b * a) % P
<1> DEFINE d == a \div P
           r == a % P
<1>1. d \in Int /\ r \in Int /\ a = (P * d) + r
    BY Remainder
<1> HIDE DEF d, r
<1>2. a * b = (r * b) + (P * (d * b)) /\ b * a = a * b /\ b * r = r * b
    BY <1>1, PAssumption
<1>3. r * b \in Int /\ d * b \in Int
    BY <1>1
<1>4. ((r * b) + (P * (d * b))) % P = (r * b) % P
    BY <1>3, AddMultiple
<1>5. QED
    BY <1>2, <1>4 DEF r

(* The operations return scalars. *)
LEMMA Closed ==
    ASSUME NEW a \in Int, NEW b \in Int
    PROVE  /\ Add(a, b) \in Scalars /\ Sub(a, b) \in Scalars /\ Mul(a, b) \in Scalars
           /\ GAdd(a, b) \in Scalars /\ GSub(a, b) \in Scalars /\ GMul(a, b) \in Scalars
<1>1. a + b \in Int /\ a - b \in Int /\ a * b \in Int
    OBVIOUS
<1>2. QED
    BY <1>1, Remainder DEF Add, Sub, Mul, GAdd, GSub, GMul

(* Scalars are integers, zero is one, and the generator is an integer. *)
LEMMA ScalarsAreInts == Scalars \subseteq Int /\ 0 \in Scalars /\ Identity \in Scalars /\ Gen \in Int
BY PAssumption, GenAssumption DEF Scalars, Identity

(* MulGenerator turns sums of scalars into sums of group elements. *)
LEMMA GeneratorHomomorphism ==
    ASSUME NEW a \in Int, NEW b \in Int
    PROVE  /\ MulGenerator(Add(a, b)) = GAdd(MulGenerator(a), MulGenerator(b))
           /\ MulGenerator(Sub(a, b)) = GSub(MulGenerator(a), MulGenerator(b))
           /\ MulGenerator(a) \in Scalars
<1> DEFINE x == Gen * a
           y == Gen * b
<1>1. Gen \in Int
    BY ScalarsAreInts
<1>2. x \in Int /\ y \in Int /\ a + b \in Int /\ a - b \in Int
    BY <1>1
<1>3. Gen * (a + b) = x + y /\ Gen * (a - b) = x - y
    BY <1>1
<1>4. MulGenerator(Add(a, b)) = (Gen * (a + b)) % P /\ MulGenerator(Sub(a, b)) = (Gen * (a - b)) % P
    BY <1>1, <1>2, RemainderOfProduct DEF MulGenerator, GMul, Add, Sub
<1> HIDE DEF x, y
<1>5. ((x % P) + (y % P)) % P = (x + y) % P /\ ((x % P) - (y % P)) % P = (x - y) % P
    BY <1>2, RemainderOfBoth
<1>6. MulGenerator(a) = x % P /\ MulGenerator(b) = y % P
    BY DEF MulGenerator, GMul, x, y
<1>7. MulGenerator(a) \in Scalars
    BY <1>6, <1>2, Remainder
<1>8. QED
    BY <1>3, <1>4, <1>5, <1>6, <1>7 DEF GAdd, GSub

(* Addition is commutative and associative, and 0 is neutral. *)
LEMMA AddLaws ==
    ASSUME NEW a \in Int, NEW b \in Int, NEW c \in Int
    PROVE  /\ Add(a, b) = Add(b, a)
           /\ Add(Add(a, b), c) = (a + b + c) % P
           /\ Add(a, Add(b, c)) = (a + b + c) % P
           /\ a \in Scalars => Add(a, 0) = a /\ Add(0, a) = a
<1>1. a + b \in Int /\ b + c \in Int /\ a + b = b + a /\ a + (b + c) = a + b + c
    OBVIOUS
<1>2. a \in Scalars => a % P = a
    BY ScalarRemainder
<1>3. a + 0 = a /\ 0 + a = a
    OBVIOUS
<1>4. Add(a, b) = Add(b, a) /\ (a \in Scalars => Add(a, 0) = a /\ Add(0, a) = a)
    BY <1>1, <1>2, <1>3 DEF Add
<1>5. (((a + b) % P) + c) % P = (a + b + c) % P
    BY <1>1, RemainderOfSum
<1>6. (a + ((b + c) % P)) % P = (a + b + c) % P
    BY <1>1, RemainderOfSum
<1>7. QED
    BY <1>4, <1>5, <1>6 DEF Add

(* Subtracting what was added. *)
LEMMA AddThenSub ==
    ASSUME NEW a \in Scalars, NEW b \in Int
    PROVE  Sub(Add(a, b), b) = a
<1>1. a \in Int /\ a % P = a
    BY ScalarRemainder
<1>2. PICK s \in Int : s = a + b
    BY <1>1
<1>3. s - b = a
    BY <1>1, <1>2
<1>4. ((s % P) - b) % P = (s - b) % P
    <2>1. -b \in Int
        OBVIOUS
    <2>2. ((s % P) + (-b)) % P = (s + (-b)) % P
        BY <2>1, RemainderOfSum
    <2>3. s % P \in Int
        BY Remainder
    <2>4. (s % P) + (-b) = (s % P) - b /\ s + (-b) = s - b
        BY <2>3
    <2>5. QED
        BY <2>2, <2>4
<1>5. QED
    BY <1>1, <1>2, <1>3, <1>4 DEF Add, Sub

(* Terms of a sum of sums may be regrouped. *)
LEMMA AddRegroup ==
    ASSUME NEW a \in Int, NEW b \in Int, NEW c \in Int, NEW d \in Int
    PROVE  Add(Add(a, b), Add(c, d)) = Add(Add(a, c), Add(b, d))
<1>1. a + b \in Int /\ c + d \in Int /\ a + c \in Int /\ b + d \in Int
    OBVIOUS
<1>2. Add(Add(a, b), Add(c, d)) = ((a + b) + (c + d)) % P
    BY <1>1, RemainderOfBoth DEF Add
<1>3. Add(Add(a, c), Add(b, d)) = ((a + c) + (b + d)) % P
    BY <1>1, RemainderOfBoth DEF Add
<1>4. (a + b) + (c + d) = (a + c) + (b + d)
    OBVIOUS
<1>5. QED
    BY <1>2, <1>3, <1>4

(* Multiplication distributes over addition. *)
LEMMA MulDistributes ==
    ASSUME NEW a \in Int, NEW b \in Int, NEW k \in Int
    PROVE  Mul(Add(a, b), k) = Add(Mul(a, k), Mul(b, k))
<1> DEFINE x == a * k
           y == b * k
<1>1. x \in Int /\ y \in Int /\ a + b \in Int /\ (a + b) * k = x + y
    OBVIOUS
<1>2. Mul(Add(a, b), k) = (x + y) % P
    BY <1>1, RemainderOfProduct DEF Mul, Add
<1>3. Mul(a, k) = x % P /\ Mul(b, k) = y % P
    BY DEF Mul
<1> HIDE DEF x, y
<1>4. ((x % P) + (y % P)) % P = (x + y) % P
    BY <1>1, RemainderOfBoth
<1>5. QED
    BY <1>2, <1>3, <1>4 DEF Add

(***************************************************************************)
(* Sums over the values of a function (FoldFunction).                      *)
(***************************************************************************)
(* The element FoldFunction takes next. *)
Picked(s) == CHOOSE x \in s : TRUE

(* g holds the partial sums of F. *)
PartialSums(g, F) ==
    /\ g \in [SUBSET DOMAIN F -> Scalars]
    /\ g[{}] = 0
    /\ \A s \in SUBSET DOMAIN F : s # {} => g[s] = Add(F[Picked(s)], g[s \ {Picked(s)}])

(* FoldFunction(Add, 0, F) is the last of the partial sums. *)
LEMMA SumIsFold ==
    ASSUME NEW D, IsFiniteSet(D), NEW F \in [D -> Scalars]
    PROVE  \E g : PartialSums(g, F) /\ FoldFunction(Add, 0, F) = g[D]
<1> DEFINE pick == [s \in (SUBSET D) \ {{}} |-> Picked(s)]
           step == [x \in D \X Scalars |-> Add(F[x[1]], x[2])]
           Body(h) == [s \in SUBSET D |-> IF s = {} THEN 0
                                           ELSE Add(F[Picked(s)], h[s \ {Picked(s)}])]
           iter == CHOOSE h : h = Body(h)
<1>1. 0 \in Scalars
    BY ScalarsAreInts
<1>2. \A s \in SUBSET D : s # {} => Picked(s) \in s
    BY DEF Picked
<1>3. pick \in Picks(D)
    BY <1>2 DEF Picks
<1>4. step \in Steps(D, Scalars)
    BY Closed, ScalarsAreInts DEF Steps
<1>5. PICK g : Solves(g, D, Scalars, 0, pick, step)
    <2> HIDE DEF pick, step
    <2>1. QED
        BY <1>1, <1>3, <1>4, SubsetRecursion
<1>6. /\ g \in [SUBSET D -> Scalars] /\ g[{}] = 0
      /\ \A s \in SUBSET D : s # {} => g[s] = Add(F[Picked(s)], g[s \ {Picked(s)}])
    <2>1. g \in [SUBSET D -> Scalars] /\ g[{}] = 0
        BY <1>5 DEF Solves
    <2>2. ASSUME NEW s \in SUBSET D, s # {}
          PROVE  g[s] = Add(F[Picked(s)], g[s \ {Picked(s)}])
        <3>1. Picked(s) \in D /\ s \ {Picked(s)} \in SUBSET D
            BY <1>2, <2>2
        <3>2. <<Picked(s), g[s \ {Picked(s)}]>> \in D \X Scalars
            BY <2>1, <3>1
        <3>3. QED
            BY <1>5, <2>2, <3>2 DEF Solves
    <2>3. QED
        BY <2>1, <2>2
<1>7. g = Body(g)
    BY <1>6
<1>8. iter = Body(iter)
    <2> HIDE DEF Body
    <2>1. QED
        BY <1>7, Zenon
<1>9. FoldFunction(Add, 0, F) = iter[D]
    <2>1. DOMAIN F = D
        OBVIOUS
    <2>2. QED
        BY <2>1, Zenon DEF FoldFunction, FoldFunctionOnSet, MapThenFoldSet, Picked
<1> HIDE DEF iter
<1>10. \A s \in SUBSET D : iter[s] = g[s]
    <2> DEFINE T == {s \in SUBSET D : iter[s] = g[s]}
    <2>1. {} \in T
        BY <1>6, <1>8
    <2>2. \A s \in SUBSET D : s # {} /\ s \ {pick[s]} \in T => s \in T
        BY <1>6, <1>8
    <2> HIDE DEF pick, T
    <2>3. SUBSET D \subseteq T
        BY <1>3, <2>1, <2>2, SubsetInduction
    <2> USE DEF T
    <2>4. QED
        BY <2>3
<1>11. PartialSums(g, F) /\ FoldFunction(Add, 0, F) = g[D]
    BY <1>6, <1>9, <1>10 DEF PartialSums
<1>12. QED
    BY <1>11

(* Picking the next element is a choice that SubsetInduction can follow. *)
LEMMA PickedInduction ==
    ASSUME NEW D, IsFiniteSet(D), NEW T, {} \in T,
           \A s \in SUBSET D : s # {} /\ s \ {Picked(s)} \in T => s \in T
    PROVE  D \in T
<1> DEFINE pick == [s \in (SUBSET D) \ {{}} |-> Picked(s)]
<1>1. pick \in Picks(D)
    BY DEF Picks, Picked
<1>2. \A s \in SUBSET D : s # {} /\ s \ {pick[s]} \in T => s \in T
    OBVIOUS
<1> HIDE DEF pick
<1>3. SUBSET D \subseteq T
    BY <1>1, <1>2, SubsetInduction
<1>4. QED
    BY <1>3

(* A sum of scalars is a scalar. *)
LEMMA SumClosed ==
    ASSUME NEW D, IsFiniteSet(D), NEW F \in [D -> Scalars]
    PROVE  FoldFunction(Add, 0, F) \in Scalars
<1>1. PICK g : PartialSums(g, F) /\ FoldFunction(Add, 0, F) = g[D]
    BY SumIsFold
<1>2. DOMAIN F = D /\ D \in SUBSET D
    OBVIOUS
<1>3. g[D] \in Scalars
    BY <1>1, <1>2 DEF PartialSums
<1>4. QED
    BY <1>1, <1>3

(* The sum of two functions is the sum of their sums. *)
LEMMA SumOfSums ==
    ASSUME NEW D, IsFiniteSet(D), NEW F \in [D -> Scalars], NEW G \in [D -> Scalars]
    PROVE  FoldFunction(Add, 0, [d \in D |-> Add(F[d], G[d])])
               = Add(FoldFunction(Add, 0, F), FoldFunction(Add, 0, G))
<1> DEFINE H == [d \in D |-> Add(F[d], G[d])]
<1>1. H \in [D -> Scalars]
    BY Closed, ScalarsAreInts
<1>2. PICK f : PartialSums(f, F) /\ FoldFunction(Add, 0, F) = f[D]
    BY SumIsFold
<1>3. PICK g : PartialSums(g, G) /\ FoldFunction(Add, 0, G) = g[D]
    BY SumIsFold
<1>4. PICK h : PartialSums(h, H) /\ FoldFunction(Add, 0, H) = h[D]
    <2> HIDE DEF H
    <2>1. QED
        BY <1>1, SumIsFold
<1> DEFINE T == {s \in SUBSET D : h[s] = Add(f[s], g[s])}
<1>5. {} \in T
    BY <1>2, <1>3, <1>4, AddLaws, ScalarsAreInts DEF PartialSums
<1>6. ASSUME NEW s \in SUBSET D, s # {}, s \ {Picked(s)} \in T PROVE s \in T
    <2> DEFINE x == Picked(s)
               r == s \ {x}
    <2>1. x \in D /\ r \in SUBSET D
        BY <1>6 DEF Picked
    <2>2. /\ f[s] = Add(F[x], f[r]) /\ g[s] = Add(G[x], g[r]) /\ h[s] = Add(H[x], h[r])
          /\ h[r] = Add(f[r], g[r]) /\ H[x] = Add(F[x], G[x])
        BY <1>2, <1>3, <1>4, <1>6, <2>1 DEF PartialSums
    <2>3. f[r] \in Int /\ g[r] \in Int /\ F[x] \in Int /\ G[x] \in Int
        BY <1>2, <1>3, <2>1, ScalarsAreInts DEF PartialSums
    <2> HIDE DEF x, r, H
    <2>4. Add(Add(F[x], G[x]), Add(f[r], g[r])) = Add(Add(F[x], f[r]), Add(G[x], g[r]))
        BY <2>3, AddRegroup
    <2>5. h[s] = Add(f[s], g[s])
        BY <2>2, <2>4
    <2>6. QED
        BY <2>5
<1> HIDE DEF T
<1>7. D \in T
    BY <1>5, <1>6, PickedInduction
<1> USE DEF T
<1>8. QED
    BY <1>2, <1>3, <1>4, <1>7

(* A common factor may be taken out of a sum. *)
LEMMA SumScaled ==
    ASSUME NEW D, IsFiniteSet(D), NEW F \in [D -> Scalars], NEW k \in Int
    PROVE  FoldFunction(Add, 0, [d \in D |-> Mul(F[d], k)]) = Mul(FoldFunction(Add, 0, F), k)
<1> DEFINE H == [d \in D |-> Mul(F[d], k)]
<1>1. H \in [D -> Scalars]
    BY Closed, ScalarsAreInts
<1>2. PICK f : PartialSums(f, F) /\ FoldFunction(Add, 0, F) = f[D]
    BY SumIsFold
<1>3. PICK h : PartialSums(h, H) /\ FoldFunction(Add, 0, H) = h[D]
    <2> HIDE DEF H
    <2>1. QED
        BY <1>1, SumIsFold
<1> DEFINE T == {s \in SUBSET D : h[s] = Mul(f[s], k)}
<1>4. {} \in T
    <2>1. Mul(0, k) = 0
        <3>1. 0 * k = 0 /\ 0 % P = 0
            BY ScalarRemainder, ScalarsAreInts
        <3>2. QED
            BY <3>1 DEF Mul
    <2>2. QED
        BY <1>2, <1>3, <2>1 DEF PartialSums
<1>5. ASSUME NEW s \in SUBSET D, s # {}, s \ {Picked(s)} \in T PROVE s \in T
    <2> DEFINE x == Picked(s)
               r == s \ {x}
    <2>1. x \in D /\ r \in SUBSET D
        BY <1>5 DEF Picked
    <2>2. /\ f[s] = Add(F[x], f[r]) /\ h[s] = Add(H[x], h[r])
          /\ h[r] = Mul(f[r], k) /\ H[x] = Mul(F[x], k)
        BY <1>2, <1>3, <1>5, <2>1 DEF PartialSums
    <2>3. f[r] \in Int /\ F[x] \in Int
        BY <1>2, <2>1, ScalarsAreInts DEF PartialSums
    <2> HIDE DEF x, r, H
    <2>4. Mul(Add(F[x], f[r]), k) = Add(Mul(F[x], k), Mul(f[r], k))
        BY <2>3, MulDistributes
    <2>5. h[s] = Mul(f[s], k)
        BY <2>2, <2>4
    <2>6. QED
        BY <2>5
<1> HIDE DEF T
<1>6. D \in T
    BY <1>4, <1>5, PickedInduction
<1> USE DEF T
<1>7. QED
    BY <1>2, <1>3, <1>6

(* The sum in the exponent. *)
LEMMA SumGenerator ==
    ASSUME NEW D, IsFiniteSet(D), NEW F \in [D -> Scalars]
    PROVE  FoldFunction(Add, 0, [d \in D |-> MulGenerator(F[d])])
               = MulGenerator(FoldFunction(Add, 0, F))
<1>1. ASSUME NEW x \in Scalars PROVE MulGenerator(x) = Mul(x, Gen)
    <2>1. Gen * x = x * Gen
        BY ScalarsAreInts
    <2>2. QED
        BY <2>1 DEF MulGenerator, GMul, Mul
<1>2. [d \in D |-> MulGenerator(F[d])] = [d \in D |-> Mul(F[d], Gen)]
    BY <1>1
<1>3. FoldFunction(Add, 0, [d \in D |-> Mul(F[d], Gen)]) = Mul(FoldFunction(Add, 0, F), Gen)
    BY ScalarsAreInts, SumScaled
<1>4. QED
    BY <1>1, <1>2, <1>3, SumClosed

(* GAdd is Add on the group's elements. *)
LEMMA GroupSum ==
    ASSUME NEW F
    PROVE  FoldFunction(GAdd, Identity, F) = FoldFunction(Add, 0, F)
BY Zenon DEF FoldFunction, FoldFunctionOnSet, MapThenFoldSet, Add, GAdd, Identity

(***************************************************************************)
(* Double-and-add (mul_by_small_scalar).                                   *)
(***************************************************************************)
(* One bit of double-and-add. *)
Doubling(point, acc, bit) ==
    IF bit = 1 THEN GAdd(GAdd(acc, acc), point) ELSE GAdd(acc, acc)

(* Double-and-add over a list of bits. *)
DoubleAndAdd(point, bits) ==
    FoldLeft(LAMBDA acc, bit :
                 LET doubled == GAdd(acc, acc)
                 IN  IF bit = 1 THEN GAdd(doubled, point) ELSE doubled,
             Identity, bits)

(* t holds what double-and-add has after each bit. *)
Doublings(t, point, bits, n) ==
    /\ t \in [0..n -> Scalars] /\ t[0] = 0
    /\ \A i \in 1..n : t[i] = Doubling(point, t[i - 1], bits[i])

(* The fold over the bits is the last of them. *)
LEMMA DoubleAndAddIsFold ==
    ASSUME NEW point \in Int, NEW n \in Nat, NEW bits \in [1..n -> {0, 1}]
    PROVE  \E t : Doublings(t, point, bits, n) /\ DoubleAndAdd(point, bits) = t[n]
<1> DEFINE D == 1..n
           pick == [s \in (SUBSET D) \ {{}} |-> Max(s)]
           step == [x \in D \X Scalars |-> Doubling(point, x[2], bits[x[1]])]
           Body(h) == [s \in SUBSET D |-> IF s = {} THEN 0
                                           ELSE Doubling(point, h[s \ {Max(s)}], bits[Max(s)])]
           iter == CHOOSE h : h = Body(h)
<1>1. 0 \in Scalars /\ IsFiniteSet(D) /\ DOMAIN bits = D
    BY ScalarsAreInts, FS_Interval
<1>2. \A s \in SUBSET D : s # {} => Max(s) \in s
    BY EndsArePicked
<1>3. pick \in Picks(D)
    BY <1>2 DEF Picks
<1>4. step \in Steps(D, Scalars)
    <2>1. ASSUME NEW a \in Scalars, NEW b PROVE Doubling(point, a, b) \in Scalars
        BY Closed, ScalarsAreInts DEF Doubling
    <2>2. QED
        BY <2>1 DEF Steps
<1>5. PICK g : Solves(g, D, Scalars, 0, pick, step)
    <2> HIDE DEF pick, step, D
    <2>1. QED
        BY <1>1, <1>3, <1>4, SubsetRecursion
<1>6. /\ g \in [SUBSET D -> Scalars] /\ g[{}] = 0
      /\ \A s \in SUBSET D : s # {} => g[s] = Doubling(point, g[s \ {Max(s)}], bits[Max(s)])
    <2> HIDE DEF D
    <2>1. g \in [SUBSET D -> Scalars] /\ g[{}] = 0
        BY <1>5 DEF Solves
    <2>2. ASSUME NEW s \in SUBSET D, s # {}
          PROVE  g[s] = Doubling(point, g[s \ {Max(s)}], bits[Max(s)])
        <3>1. Max(s) \in D /\ s \ {Max(s)} \in SUBSET D
            BY <1>2, <2>2
        <3>2. <<Max(s), g[s \ {Max(s)}]>> \in D \X Scalars
            BY <2>1, <3>1
        <3>3. QED
            BY <1>5, <2>2, <3>2 DEF Solves
    <2>3. QED
        BY <2>1, <2>2
<1>7. g = Body(g)
    BY <1>6
<1>8. iter = Body(iter)
    <2> HIDE DEF Body
    <2>1. QED
        BY <1>7, Zenon
<1>9. DoubleAndAdd(point, bits) = iter[D]
    BY <1>1, Zenon DEF DoubleAndAdd, FoldLeft, MapThenFoldSet, Doubling, Identity
<1> HIDE DEF iter
<1>10. iter[D] = g[D]
    <2> DEFINE T == {s \in SUBSET D : iter[s] = g[s]}
    <2> HIDE DEF D
    <2>1. {} \in T
        BY <1>6, <1>8
    <2>2. \A s \in SUBSET D : s # {} /\ s \ {pick[s]} \in T => s \in T
        BY <1>6, <1>8
    <2> HIDE DEF pick, T
    <2>3. SUBSET D \subseteq T
        BY <1>1, <1>3, <2>1, <2>2, SubsetInduction
    <2> USE DEF T
    <2>4. QED
        BY <2>3
<1> DEFINE t == [i \in 0..n |-> g[1..i]]
<1>11. Doublings(t, point, bits, n)
    <2>1. t \in [0..n -> Scalars]
        <3>1. \A i \in 0..n : 1..i \in SUBSET D
            OBVIOUS
        <3>2. QED
            BY <1>6, <3>1
    <2>2. t[0] = 0
        BY <1>6
    <2>3. ASSUME NEW i \in 1..n PROVE t[i] = Doubling(point, t[i - 1], bits[i])
        <3>1. /\ 1..i # {} /\ 1..i \in SUBSET D
              /\ Max(1..i) = i /\ (1..i) \ {Max(1..i)} = 1..(i - 1)
            BY FromTheLeft
        <3>2. g[1..i] = Doubling(point, g[1..(i - 1)], bits[i])
            BY <1>6, <3>1
        <3>3. i \in 0..n /\ i - 1 \in 0..n
            OBVIOUS
        <3>4. QED
            BY <3>2, <3>3
    <2>4. QED
        BY <2>1, <2>2, <2>3 DEF Doublings
<1>12. t[n] = g[D]
    OBVIOUS
<1>13. QED
    BY <1>9, <1>10, <1>11, <1>12

(* One more bit is one more doubling. *)
LEMMA DoubleAndAddAppend ==
    ASSUME NEW point \in Int, NEW bits \in Seq({0, 1}), NEW bit \in {0, 1}
    PROVE  /\ DoubleAndAdd(point, << >>) = 0
           /\ DoubleAndAdd(point, bits) \in Scalars
           /\ DoubleAndAdd(point, Append(bits, bit)) = Doubling(point, DoubleAndAdd(point, bits), bit)
<1> DEFINE n == Len(bits)
           more == Append(bits, bit)
<1>1. n \in Nat /\ bits \in [1..n -> {0, 1}]
    OBVIOUS
<1>2. more \in [1..(n + 1) -> {0, 1}] /\ more[n + 1] = bit /\ \A i \in 1..n : more[i] = bits[i]
    <2>1. more \in Seq({0, 1}) /\ Len(more) = n + 1
        OBVIOUS
    <2>2. more \in [1..(n + 1) -> {0, 1}]
        <3> HIDE DEF more
        <3>1. QED
            BY <2>1
    <2>3. more[n + 1] = bit /\ \A i \in 1..n : more[i] = bits[i]
        OBVIOUS
    <2>4. QED
        BY <2>2, <2>3
<1> HIDE DEF n, more
<1>3. PICK t : Doublings(t, point, bits, n) /\ DoubleAndAdd(point, bits) = t[n]
    BY <1>1, DoubleAndAddIsFold
<1>4. PICK u : Doublings(u, point, more, n + 1) /\ DoubleAndAdd(point, more) = u[n + 1]
    <2>1. n + 1 \in Nat
        BY <1>1
    <2>2. QED
        BY <1>2, <2>1, DoubleAndAddIsFold
<1> DEFINE T == {i \in Nat : i =< n => u[i] = t[i]}
<1>5. 0 \in T
    BY <1>3, <1>4 DEF Doublings
<1>6. ASSUME NEW i \in Nat, i \in T PROVE i + 1 \in T
    <2> SUFFICES ASSUME i + 1 =< n PROVE u[i + 1] = t[i + 1]
        OBVIOUS
    <2>1. i + 1 \in 1..n /\ i + 1 \in 1..(n + 1) /\ (i + 1) - 1 = i
        BY <1>1
    <2>2. u[i + 1] = Doubling(point, u[i], more[i + 1])
        BY <1>4, <2>1 DEF Doublings
    <2>3. t[i + 1] = Doubling(point, t[i], bits[i + 1])
        BY <1>3, <2>1 DEF Doublings
    <2>4. u[i] = t[i]
        BY <1>1, <1>6
    <2>5. QED
        BY <1>2, <2>1, <2>2, <2>3, <2>4
<1>7. u[n] = t[n]
    <2> HIDE DEF T
    <2>1. n \in T
        BY <1>1, <1>5, <1>6, Induction
    <2> USE DEF T
    <2>2. QED
        BY <1>1, <2>1
<1>8. u[n + 1] = Doubling(point, u[n], bit)
    <2>1. n + 1 \in 1..(n + 1) /\ (n + 1) - 1 = n
        BY <1>1
    <2>2. QED
        BY <1>2, <1>4, <2>1 DEF Doublings
<1>9. t[n] \in Scalars
    BY <1>1, <1>3 DEF Doublings
<1>10. DoubleAndAdd(point, << >>) = 0
    <2>1. << >> \in [1..0 -> {0, 1}] /\ 0 \in Nat
        OBVIOUS
    <2>2. PICK v : Doublings(v, point, << >>, 0) /\ DoubleAndAdd(point, << >>) = v[0]
        BY <2>1, DoubleAndAddIsFold
    <2>3. QED
        BY <2>2 DEF Doublings
<1>11. QED
    BY <1>3, <1>4, <1>7, <1>8, <1>9, <1>10 DEF more

(* b holds the bits of 0..n. *)
BitTable(b, n) ==
    /\ b \in [0..n -> Seq({0, 1})] /\ b[0] = << >>
    /\ \A k \in 1..n : b[k] = Append(b[k \div 2], k % 2)

(* Halving a number: what BitsFromMsb recurs on. *)
LEMMA Halves ==
    ASSUME NEW k \in Nat, k > 0
    PROVE  /\ k \div 2 \in Nat /\ k \div 2 < k /\ k % 2 \in {0, 1}
           /\ k = (k \div 2) + (k \div 2) + (k % 2)
OBVIOUS

(* BitsFromMsb is the last entry of a table of bits. *)
LEMMA BitsAreTable ==
    ASSUME NEW n \in Nat
    PROVE  \E b : BitTable(b, n) /\ BitsFromMsb(n) = b[n]
<1> DEFINE BitsAt(b, k) == b[k] = Append(b[k \div 2], k % 2)
           UpTo(b, m) == /\ b \in [0..n -> Seq({0, 1})] /\ b[0] = << >>
                         /\ \A k \in 1..n : k =< m => BitsAt(b, k)
           M == {m \in Nat : \E b : UpTo(b, m)}
           Body(h) == [k \in 0..n |-> IF k = 0 THEN << >> ELSE Append(h[k \div 2], k % 2)]
           iter == CHOOSE h : h = Body(h)
<1>1. 0 \in M
    <2> DEFINE b == [k \in 0..n |-> << >>]
    <2> HIDE DEF BitsAt
    <2>1. UpTo(b, 0)
        OBVIOUS
    <2> HIDE DEF UpTo, b
    <2>2. QED
        BY <2>1
<1>2. ASSUME NEW m \in Nat, m \in M PROVE m + 1 \in M
    <2>1. PICK b : UpTo(b, m)
        <3> HIDE DEF UpTo
        <3>1. QED
            BY <1>2
    <2> DEFINE new == Append(b[(m + 1) \div 2], (m + 1) % 2)
               c == [b EXCEPT ![m + 1] = new]
    <2>2. CASE m + 1 \notin 1..n
        <3> HIDE DEF BitsAt
        <3>1. \A k \in 1..n : k =< m + 1 => k =< m
            BY <2>2
        <3>2. UpTo(b, m + 1)
            BY <2>1, <3>1
        <3> HIDE DEF UpTo
        <3>3. QED
            BY <3>2
    <2>3. CASE m + 1 \in 1..n
        <3>1. /\ (m + 1) \div 2 \in 0..n /\ (m + 1) \div 2 < m + 1 /\ (m + 1) % 2 \in {0, 1}
            BY <2>3, Halves
        <3>2. new \in Seq({0, 1})
            BY <2>1, <3>1
        <3> HIDE DEF new
        <3>3. c \in [0..n -> Seq({0, 1})] /\ c[0] = << >>
            <4>1. m + 1 \in 0..n /\ m + 1 # 0 /\ 0 \in 0..n
                BY <2>3
            <4>2. QED
                BY <2>1, <3>2, <4>1
        <3>4. ASSUME NEW k \in 1..n, k =< m + 1
              PROVE  BitsAt(c, k)
            <4>1. k \div 2 \in 0..n /\ k \div 2 < k
                BY Halves
            <4>2. c[k \div 2] = b[k \div 2]
                BY <2>1, <4>1, <3>4
            <4>3. CASE k = m + 1
                BY <2>1, <4>2, <4>3 DEF new
            <4>4. CASE k # m + 1
                <5>1. k =< m /\ k \in 0..n
                    BY <3>4, <4>4
                <5>2. b[k] = Append(b[k \div 2], k % 2)
                    BY <2>1, <5>1
                <5>3. c[k] = b[k]
                    BY <2>1, <4>4, <5>1
                <5>4. QED
                    BY <4>2, <5>2, <5>3
            <4>5. QED
                BY <4>3, <4>4
        <3> HIDE DEF c, BitsAt
        <3>5. UpTo(c, m + 1)
            BY <3>3, <3>4
        <3> HIDE DEF UpTo
        <3>6. QED
            BY <3>5
    <2>4. QED
        BY <2>2, <2>3
<1>3. n \in M
    <2> HIDE DEF M
    <2>1. QED
        BY <1>1, <1>2, Induction
<1>4. PICK b : BitTable(b, n)
    <2>1. PICK b : UpTo(b, n)
        <3> HIDE DEF UpTo
        <3>1. QED
            BY <1>3
    <2> HIDE DEF BitsAt
    <2>2. \A k \in 1..n : BitsAt(b, k)
        BY <2>1
    <2> USE DEF BitsAt
    <2>3. QED
        BY <2>1, <2>2 DEF BitTable
<1>5. b = Body(b)
    BY <1>4 DEF BitTable
<1>6. iter = Body(iter)
    <2> HIDE DEF Body
    <2>1. QED
        BY <1>5, Zenon
<1>7. BitsFromMsb(n) = iter[n]
    BY Zenon DEF BitsFromMsb
<1> HIDE DEF iter, M
<1> DEFINE T == {m \in Nat : \A k \in 0..n : k =< m => iter[k] = b[k]}
<1>8. 0 \in T
    BY <1>5, <1>6
<1>9. ASSUME NEW m \in Nat, m \in T PROVE m + 1 \in T
    <2> SUFFICES ASSUME NEW k \in 0..n, k =< m + 1, k > 0 PROVE iter[k] = b[k]
        BY <1>5, <1>6
    <2>1. k \div 2 \in 0..n /\ k \div 2 =< m
        BY Halves
    <2>2. iter[k \div 2] = b[k \div 2]
        BY <1>9, <2>1
    <2>3. QED
        BY <1>5, <1>6, <2>2
<1>10. n \in T
    BY <1>8, <1>9, Induction
<1>11. QED
    BY <1>4, <1>7, <1>10

(* Double-and-add multiplies: for every scalar and every index, whatever   *)
(* its bits (mul_by_small_scalar in feldman.rs).                           *)
THEOREM SmallMultiple ==
    ASSUME NEW point \in Int, NEW n \in Nat
    PROVE  MulBySmallScalar(point, n) = Mul(point, n)
<1>1. PICK b : BitTable(b, n) /\ BitsFromMsb(n) = b[n]
    BY BitsAreTable
<1> DEFINE T == {m \in Nat : \A k \in 0..n : k =< m => DoubleAndAdd(point, b[k]) = Mul(point, k)}
<1>2. 0 \in T
    <2>1. point * 0 = 0 /\ 0 % P = 0
        BY ScalarRemainder, ScalarsAreInts
    <2>2. Mul(point, 0) = 0
        BY <2>1 DEF Mul
    <2>3. DoubleAndAdd(point, b[0]) = 0
        BY <1>1, DoubleAndAddAppend DEF BitTable
    <2>4. QED
        BY <2>2, <2>3
<1>3. ASSUME NEW m \in Nat, m \in T PROVE m + 1 \in T
    <2> SUFFICES ASSUME NEW k \in 0..n, k =< m + 1 PROVE DoubleAndAdd(point, b[k]) = Mul(point, k)
        OBVIOUS
    <2>1. CASE k =< m
        BY <1>3, <2>1
    <2>2. CASE k = m + 1
        <3> DEFINE half == k \div 2
                   bit == k % 2
        <3>1. half \in 0..n /\ half =< m /\ bit \in {0, 1} /\ k = half + half + bit
            BY <2>2, Halves
        <3> HIDE DEF half, bit
        <3>2. k \in 1..n /\ b[k] = Append(b[half], bit) /\ b[half] \in Seq({0, 1})
            <4>1. k \in 1..n
                BY <2>2
            <4>2. QED
                BY <1>1, <3>1, <4>1 DEF BitTable, half, bit
        <3>3. DoubleAndAdd(point, b[half]) = Mul(point, half)
            BY <1>3, <3>1
        <3>4. DoubleAndAdd(point, b[k]) = Doubling(point, Mul(point, half), bit)
            BY <3>1, <3>2, <3>3, DoubleAndAddAppend
        <3> DEFINE x == point * half
        <3>5. x \in Int
            BY <3>1
        <3>6. GAdd(Mul(point, half), Mul(point, half)) = (x + x) % P
            BY <3>5, RemainderOfBoth DEF GAdd, Mul
        <3>7. CASE bit = 1
            <4>1. point * k = (x + x) + point
                BY <3>1, <3>7
            <4>2. (((x + x) % P) + point) % P = ((x + x) + point) % P
                BY <3>5, RemainderOfSum
            <4>3. QED
                BY <3>4, <3>6, <3>7, <4>1, <4>2 DEF Doubling, GAdd, Mul
        <3>8. CASE bit = 0
            <4>1. point * k = x + x
                BY <3>1, <3>8
            <4>2. QED
                BY <3>4, <3>6, <3>8, <4>1 DEF Doubling, Mul
        <3>9. QED
            BY <3>1, <3>7, <3>8
    <2>3. QED
        BY <2>1, <2>2
<1>4. n \in T
    BY <1>2, <1>3, Induction
<1>5. MulBySmallScalar(point, n) = DoubleAndAdd(point, BitsFromMsb(n))
    BY DEF MulBySmallScalar, DoubleAndAdd
<1>6. QED
    BY <1>1, <1>4, <1>5

(***************************************************************************)
(* Horner's rule: evaluate and public_key_share run it from the highest    *)
(* coefficient down.                                                       *)
(***************************************************************************)
(* t[i] is the value at p of the coefficients from the i-th on. *)
Horner(t, C, p, n) ==
    /\ t \in [1..(n + 1) -> Scalars] /\ t[n + 1] = 0
    /\ \A i \in 1..n : t[i] = Add(Mul(t[i + 1], p), C[i])

(* The same over sets of coefficients, the way FoldRight recurs. *)
HornerSolution(g, C, p, n) ==
    /\ g \in [SUBSET (1..n) -> Scalars] /\ g[{}] = 0
    /\ \A s \in SUBSET (1..n) : s # {} => g[s] = Add(Mul(g[s \ {Min(s)}], p), C[Min(s)])

(* Horner's rule has a solution. *)
LEMMA HornerExists ==
    ASSUME NEW n \in Nat, NEW C \in [1..n -> Scalars], NEW p \in Nat
    PROVE  \E g : HornerSolution(g, C, p, n)
<1> DEFINE D == 1..n
           pick == [s \in (SUBSET D) \ {{}} |-> Min(s)]
           step == [x \in D \X Scalars |-> Add(Mul(x[2], p), C[x[1]])]
<1>1. \A s \in SUBSET D : s # {} => Min(s) \in s
    BY EndsArePicked
<1>2. pick \in Picks(D)
    BY <1>1 DEF Picks
<1>3. step \in Steps(D, Scalars)
    <2>1. ASSUME NEW a \in Scalars, NEW b \in Scalars PROVE Add(Mul(a, p), b) \in Scalars
        <3>1. a \in Int /\ p \in Int /\ b \in Int
            BY ScalarsAreInts
        <3>2. Mul(a, p) \in Int
            BY <3>1, Closed, ScalarsAreInts
        <3>3. QED
            BY <3>1, <3>2, Closed
    <2>2. QED
        BY <2>1 DEF Steps
<1>4. 0 \in Scalars /\ IsFiniteSet(D)
    BY ScalarsAreInts, FS_Interval
<1>5. PICK g : Solves(g, D, Scalars, 0, pick, step)
    <2> HIDE DEF pick, step, D
    <2>1. QED
        BY <1>2, <1>3, <1>4, SubsetRecursion
<1>6. g \in [SUBSET D -> Scalars] /\ g[{}] = 0
    <2> HIDE DEF D
    <2>1. QED
        BY <1>5 DEF Solves
<1>7. ASSUME NEW s \in SUBSET D, s # {}
      PROVE  g[s] = Add(Mul(g[s \ {Min(s)}], p), C[Min(s)])
    <2> HIDE DEF D
    <2>1. Min(s) \in D /\ s \ {Min(s)} \in SUBSET D
        BY <1>1, <1>7
    <2>2. <<Min(s), g[s \ {Min(s)}]>> \in D \X Scalars
        BY <1>6, <2>1
    <2>3. QED
        BY <1>5, <1>7, <2>2 DEF Solves
<1>8. QED
    BY <1>6, <1>7 DEF HornerSolution

(* The values on i..n are the rows of Horner's rule. *)
LEMMA HornerRows ==
    ASSUME NEW n \in Nat, NEW C \in [1..n -> Scalars], NEW p \in Nat,
           NEW g, HornerSolution(g, C, p, n)
    PROVE  \E t : Horner(t, C, p, n) /\ g[1..n] = t[1]
<1> DEFINE t == [i \in 1..(n + 1) |-> g[i..n]]
<1>1. t \in [1..(n + 1) -> Scalars]
    <2>1. \A i \in 1..(n + 1) : i..n \in SUBSET (1..n)
        OBVIOUS
    <2>2. QED
        BY <2>1 DEF HornerSolution
<1>2. t[n + 1] = 0
    <2>1. (n + 1)..n = {} /\ n + 1 \in 1..(n + 1)
        OBVIOUS
    <2>2. QED
        BY <2>1 DEF HornerSolution
<1>3. ASSUME NEW i \in 1..n PROVE t[i] = Add(Mul(t[i + 1], p), C[i])
    <2>1. /\ i..n # {} /\ i..n \in SUBSET (1..n)
          /\ Min(i..n) = i /\ (i..n) \ {Min(i..n)} = (i + 1)..n
        BY FromTheRight
    <2>2. g[i..n] = Add(Mul(g[(i + 1)..n], p), C[i])
        BY <2>1 DEF HornerSolution
    <2>3. i \in 1..(n + 1) /\ i + 1 \in 1..(n + 1)
        OBVIOUS
    <2>4. QED
        BY <2>2, <2>3
<1>4. t[1] = g[1..n]
    OBVIOUS
<1> HIDE DEF t
<1>5. Horner(t, C, p, n)
    BY <1>1, <1>2, <1>3 DEF Horner
<1>6. QED
    BY <1>4, <1>5

(* public_key_share is Horner's rule, in the group. *)
LEMMA PublicKeyShareIsHorner ==
    ASSUME NEW n \in Nat, NEW C \in [1..n -> Scalars], NEW p \in Nat
    PROVE  \E t : Horner(t, C, p, n) /\ PublicKeyShare(C, p) = t[1]
<1> DEFINE D == 1..n
           Body(h) == [s \in SUBSET D |-> IF s = {} THEN 0 ELSE GAdd(MulBySmallScalar(h[s \ {Min(s)}], p), C[Min(s)])]
           iter == CHOOSE h : h = Body(h)
<1>1. PICK g : HornerSolution(g, C, p, n)
    BY HornerExists
<1>2. g = Body(g)
    <2>1. ASSUME NEW s \in SUBSET D, s # {}
          PROVE  g[s] = GAdd(MulBySmallScalar(g[s \ {Min(s)}], p), C[Min(s)])
        <3>1. s \ {Min(s)} \in SUBSET D /\ Min(s) \in D
            BY <2>1, EndsArePicked
        <3>2. g[s \ {Min(s)}] \in Int /\ C[Min(s)] \in Int
            BY <1>1, <3>1, ScalarsAreInts DEF HornerSolution
        <3>3. QED
            BY <1>1, <2>1, <3>2, SmallMultiple DEF HornerSolution, GAdd, Add
    <2>2. QED
        BY <1>1, <2>1 DEF HornerSolution
<1>3. iter = Body(iter)
    <2> HIDE DEF Body
    <2>1. QED
        BY <1>2, Zenon
<1>4. PublicKeyShare(C, p) = iter[D]
    <2>1. DOMAIN C = D
        OBVIOUS
    <2>2. QED
        BY <2>1, Zenon DEF PublicKeyShare, FoldRight, MapThenFoldSet, Identity
<1> HIDE DEF iter
<1>5. iter[D] = g[D]
    <2> DEFINE T == {s \in SUBSET D : iter[s] = g[s]}
    <2>1. {} \in T
        BY <1>2, <1>3
    <2>2. \A s \in SUBSET D : s # {} /\ s \ {Min(s)} \in T => s \in T
        <3> HIDE DEF D
        <3>1. QED
            BY <1>2, <1>3
    <2> HIDE DEF T
    <2>3. D \in T
        BY <2>1, <2>2, InductionFromTheRight
    <2> USE DEF T
    <2>4. QED
        BY <2>3
<1>6. QED
    BY <1>1, <1>4, <1>5, HornerRows

(* evaluate is Horner's rule: reducing the index first changes nothing. *)
LEMMA EvaluateIsHorner ==
    ASSUME NEW n \in Nat, NEW C \in [1..n -> Scalars], NEW p \in Nat
    PROVE  \E t : Horner(t, C, p, n) /\ Evaluate(C, p) = t[1]
<1> DEFINE D == 1..n
           Body(h) == [s \in SUBSET D |-> IF s = {} THEN 0 ELSE Add(Mul(h[s \ {Min(s)}], ToScalar(p)), C[Min(s)])]
           iter == CHOOSE h : h = Body(h)
<1>1. PICK g : HornerSolution(g, C, p, n)
    BY HornerExists
<1>2. g = Body(g)
    <2>1. ASSUME NEW s \in SUBSET D, s # {}
          PROVE  g[s] = Add(Mul(g[s \ {Min(s)}], ToScalar(p)), C[Min(s)])
        <3>1. s \ {Min(s)} \in SUBSET D /\ Min(s) \in D
            BY <2>1, EndsArePicked
        <3>2. g[s \ {Min(s)}] \in Int /\ C[Min(s)] \in Int
            BY <1>1, <3>1, ScalarsAreInts DEF HornerSolution
        <3>3. \A x \in Int : Mul(x, ToScalar(p)) = Mul(x, p)
            BY RemainderOfProduct DEF Mul, ToScalar
        <3>4. QED
            BY <1>1, <2>1, <3>2, <3>3 DEF HornerSolution
    <2>2. QED
        BY <1>1, <2>1 DEF HornerSolution
<1>3. iter = Body(iter)
    <2> HIDE DEF Body
    <2>1. QED
        BY <1>2, Zenon
<1>4. Evaluate(C, p) = iter[D]
    <2>1. DOMAIN C = D
        OBVIOUS
    <2>2. QED
        BY <2>1, Zenon DEF Evaluate, EvaluateAtScalar, FoldRight, MapThenFoldSet
<1> HIDE DEF iter
<1>5. iter[D] = g[D]
    <2> DEFINE T == {s \in SUBSET D : iter[s] = g[s]}
    <2>1. {} \in T
        BY <1>2, <1>3
    <2>2. \A s \in SUBSET D : s # {} /\ s \ {Min(s)} \in T => s \in T
        <3> HIDE DEF D
        <3>1. QED
            BY <1>2, <1>3
    <2> HIDE DEF T
    <2>3. D \in T
        BY <2>1, <2>2, InductionFromTheRight
    <2> USE DEF T
    <2>4. QED
        BY <2>3
<1>6. QED
    BY <1>1, <1>4, <1>5, HornerRows

(* Two runs of Horner's rule over the same coefficients agree, and a       *)
(* relation between the rows is inherited from below: induction over the   *)
(* rows, from the last one up.                                             *)
LEMMA RowInduction ==
    ASSUME NEW n \in Nat, NEW T, n + 1 \in T, \A i \in 1..n : i + 1 \in T => i \in T
    PROVE  1 \in T
<1> DEFINE N == {j \in Nat : j =< n => (n + 1) - j \in T}
<1>1. 0 \in N
    OBVIOUS
<1>2. ASSUME NEW j \in Nat, j \in N PROVE j + 1 \in N
    <2> SUFFICES ASSUME j + 1 =< n PROVE (n + 1) - (j + 1) \in T
        OBVIOUS
    <2>1. (n + 1) - (j + 1) \in 1..n /\ ((n + 1) - (j + 1)) + 1 = (n + 1) - j
        OBVIOUS
    <2>2. (n + 1) - j \in T
        BY <1>2
    <2>3. QED
        BY <2>1, <2>2
<1> HIDE DEF N
<1>3. n \in N
    BY <1>1, <1>2, Induction
<1>4. (n + 1) - n = 1
    OBVIOUS
<1>5. QED
    BY <1>3, <1>4 DEF N

(* A public key share is the polynomial with the commitment's entries as   *)
(* coefficients, evaluated at the index (public_key_share in feldman.rs    *)
(* and evaluate in shamir.rs compute the same function).                   *)
LEMMA PublicKeyShareEvaluates ==
    ASSUME NEW n \in Nat, NEW C \in [1..n -> Scalars], NEW p \in Nat
    PROVE  PublicKeyShare(C, p) = Evaluate(C, p) /\ Evaluate(C, p) \in Scalars
<1>1. PICK t : Horner(t, C, p, n) /\ PublicKeyShare(C, p) = t[1]
    BY PublicKeyShareIsHorner
<1>2. PICK u : Horner(u, C, p, n) /\ Evaluate(C, p) = u[1]
    BY EvaluateIsHorner
<1> DEFINE T == {i \in 1..(n + 1) : t[i] = u[i]}
<1>3. n + 1 \in T
    BY <1>1, <1>2 DEF Horner
<1>4. ASSUME NEW i \in 1..n, i + 1 \in T PROVE i \in T
    BY <1>1, <1>2, <1>4 DEF Horner
<1> HIDE DEF T
<1>5. 1 \in T
    BY <1>3, <1>4, RowInduction
<1>6. u[1] \in Scalars
    BY <1>2 DEF Horner
<1>7. QED
    BY <1>1, <1>2, <1>5, <1>6 DEF T

(* Feldman's check accepts every share of the committed polynomial: the    *)
(* public key share of a commitment is the share in the exponent, for      *)
(* every polynomial, index and group (commit, evaluate and public_key_share). *)
THEOREM FeldmanCommitment ==
    ASSUME NEW n \in Nat, NEW C \in [1..n -> Scalars], NEW p \in Nat
    PROVE  PublicKeyShare(Commit(C), p) = MulGenerator(Evaluate(C, p))
<1> DEFINE K == Commit(C)
<1>1. K \in [1..n -> Scalars] /\ \A i \in 1..n : K[i] = MulGenerator(C[i])
    BY GeneratorHomomorphism, ScalarsAreInts DEF Commit
<1> HIDE DEF K
<1>2. PICK t : Horner(t, K, p, n) /\ PublicKeyShare(K, p) = t[1]
    BY <1>1, PublicKeyShareIsHorner
<1>3. PICK u : Horner(u, C, p, n) /\ Evaluate(C, p) = u[1]
    BY EvaluateIsHorner
<1> DEFINE T == {i \in 1..(n + 1) : t[i] = MulGenerator(u[i])}
<1>4. n + 1 \in T
    <2>1. Gen * 0 = 0 /\ 0 % P = 0
        BY ScalarRemainder, ScalarsAreInts
    <2>2. MulGenerator(0) = 0
        BY <2>1 DEF MulGenerator, GMul
    <2>3. QED
        BY <1>2, <1>3, <2>2 DEF Horner
<1>5. ASSUME NEW i \in 1..n, i + 1 \in T PROVE i \in T
    <2> DEFINE x == u[i + 1]
    <2>1. x \in Int /\ C[i] \in Int /\ Mul(x, p) \in Int /\ x * p \in Int /\ Gen * x \in Int
        <3>1. i + 1 \in 1..(n + 1)
            OBVIOUS
        <3>2. x \in Int /\ C[i] \in Int
            BY <1>3, <3>1, ScalarsAreInts DEF Horner
        <3> HIDE DEF x
        <3>3. p \in Int /\ Gen \in Int
            BY ScalarsAreInts
        <3>4. x * p \in Int /\ Gen * x \in Int
            BY <3>2, <3>3
        <3>5. Mul(x, p) \in Scalars
            BY <3>2, <3>3, Closed
        <3>6. Mul(x, p) \in Int
            BY <3>5, ScalarsAreInts
        <3>7. QED
            BY <3>2, <3>4, <3>6
    <2>2. u[i] = Add(Mul(x, p), C[i])
        BY <1>3 DEF Horner
    <2>3. t[i] = Add(Mul(MulGenerator(x), p), MulGenerator(C[i]))
        BY <1>1, <1>2, <1>5 DEF Horner
    <2> HIDE DEF x
    <2>4. Mul(MulGenerator(x), p) = MulGenerator(Mul(x, p))
        <3>1. (Gen * x) * p = Gen * (x * p)
            BY <2>1, ScalarsAreInts
        <3>2. (((Gen * x) % P) * p) % P = ((Gen * x) * p) % P
            BY <2>1, RemainderOfProduct
        <3>3. (Gen * ((x * p) % P)) % P = (Gen * (x * p)) % P
            BY <2>1, ScalarsAreInts, RemainderOfProduct
        <3>4. QED
            BY <3>1, <3>2, <3>3 DEF Mul, MulGenerator, GMul
    <2>5. MulGenerator(Add(Mul(x, p), C[i])) = Add(MulGenerator(Mul(x, p)), MulGenerator(C[i]))
        BY <2>1, GeneratorHomomorphism DEF GAdd, Add
    <2>6. t[i] = MulGenerator(u[i])
        BY <2>2, <2>3, <2>4, <2>5
    <2>7. QED
        BY <2>6
<1> HIDE DEF T
<1>6. 1 \in T
    BY <1>4, <1>5, RowInduction
<1>7. QED
    BY <1>2, <1>3, <1>6 DEF T, K

(* The sums of the entries of several commitments, entry by entry. *)
EntrySums(commitments, n) ==
    [j \in 1..n |-> FoldFunction(Add, 0, [d \in DOMAIN commitments |-> commitments[d][j]])]

(* The public key share of a sum of commitments is the sum of their public *)
(* key shares, for any number of commitments and any threshold.            *)
THEOREM PublicKeyShareOfSum ==
    ASSUME NEW n \in Nat, NEW D, IsFiniteSet(D), NEW C \in [D -> [1..n -> Scalars]],
           NEW p \in Nat
    PROVE  PublicKeyShare(EntrySums(C, n), p)
               = FoldFunction(Add, 0, [d \in D |-> PublicKeyShare(C[d], p)])
<1> DEFINE E == EntrySums(C, n)
           t == [d \in D |-> CHOOSE t : Horner(t, C[d], p, n) /\ PublicKeyShare(C[d], p) = t[1]]
           Row(i) == [d \in D |-> t[d][i]]
           Entry(i) == [d \in D |-> C[d][i]]
<1>1. \A d \in D : Horner(t[d], C[d], p, n) /\ PublicKeyShare(C[d], p) = t[d][1]
    BY PublicKeyShareIsHorner
<1> HIDE DEF t
<1>2. \A i \in 1..(n + 1) : Row(i) \in [D -> Scalars]
    BY <1>1 DEF Horner
<1>3. \A i \in 1..n : Entry(i) \in [D -> Scalars] /\ E[i] = FoldFunction(Add, 0, Entry(i))
    BY DEF EntrySums
<1>4. E \in [1..n -> Scalars]
    <2>1. \A i \in 1..n : E[i] \in Scalars
        <3> HIDE DEF Entry, E
        <3>1. QED
            BY <1>3, SumClosed
    <2>2. E = [i \in 1..n |-> E[i]]
        BY DEF EntrySums
    <2> HIDE DEF E
    <2>3. QED
        BY <2>1, <2>2
<1> HIDE DEF E
<1>5. PICK h : Horner(h, E, p, n) /\ PublicKeyShare(E, p) = h[1]
    BY <1>4, PublicKeyShareIsHorner
<1> DEFINE T == {i \in 1..(n + 1) : h[i] = FoldFunction(Add, 0, Row(i))}
<1>6. n + 1 \in T
    <2>1. n + 1 \in 1..(n + 1)
        OBVIOUS
    <2>2. Row(n + 1) = [d \in D |-> Mul(Row(n + 1)[d], 0)]
        <3>1. \A d \in D : Row(n + 1)[d] = 0
            BY <1>1 DEF Horner
        <3>2. Mul(0, 0) = 0
            BY ScalarRemainder, ScalarsAreInts DEF Mul
        <3>3. QED
            BY <3>1, <3>2
    <2> HIDE DEF Row
    <2>3. Row(n + 1) \in [D -> Scalars]
        BY <1>2, <2>1
    <2>4. FoldFunction(Add, 0, [d \in D |-> Mul(Row(n + 1)[d], 0)])
            = Mul(FoldFunction(Add, 0, Row(n + 1)), 0)
        BY <2>3, SumScaled
    <2>5. \A x \in Scalars : Mul(x, 0) = 0
        <3>1. \A x \in Scalars : x * 0 = 0 /\ 0 % P = 0
            BY ScalarRemainder, ScalarsAreInts
        <3>2. QED
            BY <3>1 DEF Mul
    <2>6. FoldFunction(Add, 0, Row(n + 1)) \in Scalars
        BY <2>3, SumClosed
    <2>7. FoldFunction(Add, 0, Row(n + 1)) = 0
        BY <2>2, <2>4, <2>5, <2>6
    <2>8. QED
        BY <1>5, <2>1, <2>7 DEF Horner
<1>7. ASSUME NEW i \in 1..n, i + 1 \in T PROVE i \in T
    <2> DEFINE scaled == [d \in D |-> Mul(Row(i + 1)[d], p)]
    <2>1. i \in 1..(n + 1) /\ i + 1 \in 1..(n + 1)
        OBVIOUS
    <2>2. scaled \in [D -> Scalars]
        <3>1. p \in Int
            OBVIOUS
        <3>2. \A x \in Scalars : Mul(x, p) \in Scalars
            BY <3>1, Closed, ScalarsAreInts
        <3>3. Row(i + 1) \in [D -> Scalars]
            BY <1>2, <2>1
        <3> HIDE DEF Row
        <3>4. QED
            BY <3>2, <3>3
    <2>3. Row(i) = [d \in D |-> Add(scaled[d], Entry(i)[d])]
        BY <1>1 DEF Horner
    <2>4. FoldFunction(Add, 0, scaled) = Mul(FoldFunction(Add, 0, Row(i + 1)), p)
        <3> HIDE DEF Row
        <3>1. Row(i + 1) \in [D -> Scalars] /\ p \in Int
            BY <1>2, <2>1
        <3>2. QED
            BY <3>1, SumScaled
    <2>5. Entry(i) \in [D -> Scalars] /\ E[i] = FoldFunction(Add, 0, Entry(i))
        BY <1>3
    <2> HIDE DEF scaled, Entry, Row
    <2>6. FoldFunction(Add, 0, Row(i)) = Add(FoldFunction(Add, 0, scaled), E[i])
        <3>1. PICK e : e = Entry(i)
            OBVIOUS
        <3>2. e \in [D -> Scalars]
            BY <2>5, <3>1
        <3>3. FoldFunction(Add, 0, [d \in D |-> Add(scaled[d], e[d])])
                = Add(FoldFunction(Add, 0, scaled), FoldFunction(Add, 0, e))
            BY <2>2, <3>2, SumOfSums
        <3>4. Row(i) = [d \in D |-> Add(scaled[d], e[d])]
            BY <2>3, <3>1
        <3>5. FoldFunction(Add, 0, e) = E[i]
            BY <2>5, <3>1
        <3>6. QED
            BY <3>3, <3>4, <3>5
    <2>7. h[i] = Add(Mul(h[i + 1], p), E[i])
        BY <1>5 DEF Horner
    <2>8. QED
        BY <1>7, <2>1, <2>4, <2>6, <2>7
<1> HIDE DEF T
<1>8. 1 \in T
    BY <1>6, <1>7, RowInduction
<1>9. Row(1) = [d \in D |-> PublicKeyShare(C[d], p)]
    BY <1>1
<1>10. QED
    BY <1>5, <1>8, <1>9 DEF T, E

(***************************************************************************)
(* Inverses and discrete logarithms.                                       *)
(***************************************************************************)
(* P is prime, so that a scalar other than 0 has an inverse: the least     *)
(* positive combination of the scalar and P divides both, and so is 1.     *)
LEMMA ScalarInverse ==
    ASSUME NEW g \in 1..(P - 1)
    PROVE  \E x \in Int : (g * x) % P = 1
<1> DEFINE Reached(n) == \E x \in Int : (g * x) % P = n % P
           S == {n \in 1..P : Reached(n)}
<1>1. P \in Nat /\ P > 1 /\ g \in 1..(P - 1) /\ g \in Int
    BY PAssumption
<1>2. g \in S
    <2>1. g * 1 = g /\ 1 \in Int /\ g \in 1..P
        BY <1>1
    <2>2. QED
        BY <2>1
<1>3. P \in S
    <2>1. g * 0 = 0 /\ 0 % P = 0 /\ P % P = 0 /\ 0 \in Int /\ P \in 1..P
        BY <1>1
    <2>2. QED
        BY <2>1
<1>4. PICK d \in S : \A y \in S : d =< y
    <2>1. S \subseteq Nat
        OBVIOUS
    <2> HIDE DEF S
    <2>2. QED
        BY <1>2, <2>1, LeastElement
<1>5. d \in 1..P /\ d \in Int
    BY <1>4
<1>6. ASSUME NEW n \in S PROVE n % d = 0
    <2>1. PICK q \in Int, e \in 0..(d - 1) : n = (d * q) + e /\ e = n % d
        <3>1. n \in Int /\ d > 0
            BY <1>5
        <3>2. n = (d * (n \div d)) + (n % d) /\ n \div d \in Int /\ n % d \in 0..(d - 1)
            BY <1>5, <3>1
        <3>3. QED
            BY <3>2
    <2>2. PICK x \in Int : (g * x) % P = n % P
        OBVIOUS
    <2>3. PICK y \in Int : (g * y) % P = d % P
        BY <1>4
    <2>4. PICK u \in Int : u = g * x
        BY <1>1
    <2>5. PICK v \in Int : v = g * y
        BY <1>1
    <2>6. PICK z \in Int : z = x - (y * q)
        OBVIOUS
    <2>7. g * z = u - (v * q)
        BY <1>1, <2>4, <2>5, <2>6
    <2>8. (v * q) % P = (d * q) % P
        <3>1. ((v % P) * q) % P = (v * q) % P /\ ((d % P) * q) % P = (d * q) % P
            BY <1>5, RemainderOfProduct
        <3>2. QED
            BY <3>1, <2>3, <2>5
    <2>9. (u - (v * q)) % P = (n - (d * q)) % P
        <3>1. PICK a \in Int : a = v * q
            OBVIOUS
        <3>2. PICK b \in Int : b = d * q
            BY <1>5
        <3>3. n \in Int
            OBVIOUS
        <3> HIDE DEF S
        <3>4. ((u % P) - (a % P)) % P = (u - a) % P /\ ((n % P) - (b % P)) % P = (n - b) % P
            BY <3>3, RemainderOfBoth
        <3>5. QED
            BY <2>2, <2>4, <2>8, <3>1, <3>2, <3>4
    <2>10. n - (d * q) = e
        <3>1. PICK b \in Int : b = d * q
            BY <1>5
        <3>2. n = b + e /\ n \in Int /\ e \in Int
            BY <1>5, <2>1, <3>1
        <3>3. n - b = e
            BY <3>2
        <3>4. QED
            BY <3>1, <3>3
    <2>11. Reached(e)
        BY <2>6, <2>7, <2>9, <2>10
    <2>12. e = 0
        <3>1. e \in 1..P => e \in S
            BY <2>11
        <3> HIDE DEF S
        <3>2. e \in Int /\ 0 =< e /\ e < d /\ d =< P /\ P \in Int
            BY <1>1, <1>5, <2>1
        <3>3. e \in S => d =< e
            BY <1>4
        <3>4. QED
            BY <1>5, <3>1, <3>2, <3>3
    <2>13. QED
        BY <2>1, <2>12
<1>7. P % d = 0 /\ g % d = 0
    <2> HIDE DEF S
    <2>1. QED
        BY <1>2, <1>3, <1>6
<1>8. d = 1
    <2>1. d # P
        BY <1>1, <1>7
    <2>2. d \notin 2..(P - 1)
        BY <1>7, PAssumption
    <2>3. QED
        BY <1>1, <1>5, <2>1, <2>2
<1>9. 1 % P = 1
    BY <1>1
<1>10. QED
    BY <1>4, <1>8, <1>9

(* Every group element has exactly one discrete logarithm. *)
LEMMA DiscreteLogarithm ==
    /\ \A y \in Scalars : \E x \in Scalars : MulGenerator(x) = y
    /\ \A a, b \in Scalars : MulGenerator(a) = MulGenerator(b) => a = b
<1>1. PICK h \in Int : (Gen * h) % P = 1
    BY GenAssumption, ScalarInverse
<1>2. Gen \in Int
    BY ScalarsAreInts
<1>3. PICK g \in Int : g = Gen * h
    BY <1>2
<1>4. ASSUME NEW y \in Scalars PROVE (g * y) % P = y
    <2>1. y \in Int /\ y % P = y
        BY ScalarRemainder
    <2>2. ((g % P) * y) % P = (g * y) % P
        BY <2>1, RemainderOfProduct
    <2>3. 1 * y = y
        BY <2>1
    <2>4. QED
        BY <1>1, <1>3, <2>1, <2>2, <2>3
<1>5. ASSUME NEW y \in Scalars PROVE \E x \in Scalars : MulGenerator(x) = y
    <2>1. y \in Int
        BY ScalarsAreInts
    <2>2. PICK k \in Int : k = h * y
        BY <2>1
    <2>3. k % P \in Scalars /\ (Gen * (k % P)) % P = (Gen * k) % P
        BY <1>2, Remainder, RemainderOfProduct
    <2>4. Gen * k = g * y
        BY <1>2, <1>3, <2>1, <2>2
    <2>5. QED
        BY <1>4, <2>3, <2>4 DEF MulGenerator, GMul
<1>6. ASSUME NEW a \in Scalars
      PROVE  a = (h * MulGenerator(a)) % P
    <2>1. a \in Int
        BY ScalarsAreInts
    <2>2. PICK k \in Int : k = Gen * a
        BY <1>2, <2>1
    <2>3. (h * (k % P)) % P = (h * k) % P
        BY RemainderOfProduct
    <2>4. h * k = g * a
        BY <1>2, <1>3, <2>1, <2>2
    <2>5. QED
        BY <1>4, <2>2, <2>3, <2>4 DEF MulGenerator, GMul
<1>7. ASSUME NEW a \in Scalars, NEW b \in Scalars, MulGenerator(a) = MulGenerator(b)
      PROVE  a = b
    BY <1>6, <1>7
<1>8. QED
    BY <1>5, <1>7

(***************************************************************************)
(* Reconstruction from a threshold of shares: Lagrange interpolation at    *)
(* zero, the batched inversion it uses, and reconstruct_secret             *)
(* (shamir.rs), for every prime, threshold and number of shares.           *)
(***************************************************************************)

(***************************************************************************)
(* The field.                                                              *)
(***************************************************************************)
(* Products and differences, as remainders of integer expressions. *)
LEMMA ProductForms ==
    ASSUME NEW a \in Int, NEW b \in Int, NEW c \in Int
    PROVE  /\ Mul(Mul(a, b), c) = (a * b * c) % P
           /\ Mul(a, Mul(b, c)) = (a * b * c) % P
           /\ Mul(a, Sub(b, c)) = ((a * b) - (a * c)) % P
           /\ Mul(Sub(b, c), a) = ((a * b) - (a * c)) % P
<1>1. PICK u \in Int : u = a * b
    OBVIOUS
<1>2. PICK v \in Int : v = b * c
    OBVIOUS
<1>3. PICK w \in Int : w = b - c
    OBVIOUS
<1>4. /\ ((u % P) * c) % P = (u * c) % P
      /\ (a * (v % P)) % P = (a * v) % P
      /\ (a * (w % P)) % P = (a * w) % P
      /\ ((w % P) * a) % P = (w * a) % P
    BY RemainderOfProduct
<1>5. /\ u * c = a * b * c /\ a * v = a * b * c
      /\ a * w = (a * b) - (a * c) /\ w * a = (a * b) - (a * c)
    BY <1>1, <1>2, <1>3
<1>6. QED
    BY <1>1, <1>2, <1>3, <1>4, <1>5 DEF Mul, Sub

(* Multiplication is commutative and associative, and 1 and 0 are what     *)
(* they should be.                                                         *)
LEMMA MulLaws ==
    ASSUME NEW a \in Scalars, NEW b \in Scalars, NEW c \in Scalars
    PROVE  /\ Mul(a, b) \in Scalars /\ Mul(a, b) = Mul(b, a)
           /\ Mul(Mul(a, b), c) = Mul(a, Mul(b, c))
           /\ Mul(a, Mul(b, c)) = Mul(b, Mul(a, c))
           /\ Mul(a, 1) = a /\ Mul(1, a) = a /\ Mul(a, 0) = 0 /\ Mul(0, a) = 0
<1>1. a \in Int /\ b \in Int /\ c \in Int /\ a % P = a /\ 0 % P = 0
    BY ScalarRemainder, ScalarsAreInts
<1>2. /\ a * b = b * a /\ a * b * c = b * a * c
      /\ a * 1 = a /\ 1 * a = a /\ a * 0 = 0 /\ 0 * a = 0
    BY <1>1
<1>3. Mul(a, b) \in Scalars
    BY <1>1, Closed
<1>4. /\ Mul(Mul(a, b), c) = (a * b * c) % P
      /\ Mul(a, Mul(b, c)) = (a * b * c) % P
      /\ Mul(b, Mul(a, c)) = (b * a * c) % P
    BY <1>1, ProductForms
<1>5. /\ Mul(a, 1) = a /\ Mul(1, a) = a /\ Mul(a, 0) = 0 /\ Mul(0, a) = 0
      /\ Mul(a, b) = Mul(b, a)
    BY <1>1, <1>2 DEF Mul
<1>6. QED
    BY <1>2, <1>3, <1>4, <1>5

(* A scalar other than 0 has an inverse. *)
LEMMA InvertLaw ==
    ASSUME NEW a \in Scalars, a # 0
    PROVE  Invert(a) \in Scalars /\ Mul(a, Invert(a)) = 1
<1>1. a \in 1..(P - 1)
    BY PAssumption DEF Scalars
<1>2. PICK x \in Int : (a * x) % P = 1
    BY <1>1, ScalarInverse
<1>3. x % P \in Scalars /\ (a * (x % P)) % P = (a * x) % P
    BY ScalarRemainder, Remainder, RemainderOfProduct
<1>4. \E b \in Scalars : Mul(a, b) = 1
    BY <1>2, <1>3 DEF Mul
<1>5. QED
    BY <1>4 DEF Invert

(* A nonzero factor can be cancelled. *)
LEMMA Cancel ==
    ASSUME NEW a \in Scalars, NEW b \in Scalars, NEW c \in Scalars, c # 0,
           Mul(a, c) = Mul(b, c)
    PROVE  a = b
<1>1. PICK d \in Scalars : Mul(c, d) = 1
    BY InvertLaw
<1>2. Mul(Mul(a, c), d) = Mul(a, Mul(c, d)) /\ Mul(Mul(b, c), d) = Mul(b, Mul(c, d))
    BY MulLaws
<1>3. Mul(a, 1) = a /\ Mul(b, 1) = b
    BY MulLaws
<1>4. QED
    BY <1>1, <1>2, <1>3

(* A product of nonzero scalars is not zero, and 1 is not 0. *)
LEMMA NonZeroProduct ==
    ASSUME NEW a \in Scalars, NEW b \in Scalars
    PROVE  /\ Mul(a, b) = 0 <=> a = 0 \/ b = 0
           /\ 1 \in Scalars /\ 0 \in Scalars /\ 1 # 0
<1>1. 1 \in Scalars /\ 0 \in Scalars
    BY PAssumption DEF Scalars
<1>2. ASSUME Mul(a, b) = 0, b # 0 PROVE a = 0
    <2>1. Mul(0, b) = 0
        BY <1>1, MulLaws
    <2>2. QED
        BY <1>1, <1>2, <2>1, Cancel
<1>3. Mul(a, 0) = 0 /\ Mul(0, b) = 0
    BY <1>1, MulLaws
<1>4. QED
    BY <1>1, <1>2, <1>3

(* Differences: a difference is 0 exactly between equals. *)
LEMMA SubLaws ==
    ASSUME NEW a \in Scalars, NEW b \in Scalars
    PROVE  /\ Sub(a, b) \in Scalars /\ (Sub(a, b) = 0 <=> a = b)
           /\ Add(Sub(a, b), b) = a
<1>1. a \in Int /\ b \in Int /\ a % P = a /\ 0 % P = 0 /\ 0 \in Scalars
    BY ScalarRemainder, ScalarsAreInts
<1>2. Sub(a, b) \in Scalars
    BY <1>1, Closed
<1>3. PICK w \in Int : w = a - b
    BY <1>1
<1>4. ((w % P) + b) % P = (w + b) % P
    BY <1>1, RemainderOfSum
<1>5. w + b = a
    BY <1>1, <1>3
<1>6. Add(Sub(a, b), b) = a
    BY <1>1, <1>3, <1>4, <1>5 DEF Add, Sub
<1>7. Add(0, b) = b
    BY <1>1, AddLaws
<1>8. a - a = 0
    BY <1>1
<1>9. QED
    BY <1>1, <1>2, <1>6, <1>7, <1>8 DEF Sub

(***************************************************************************)
(* Sums and products over finite sets, in any order.                       *)
(***************************************************************************)
(* The order of two operands of op does not matter. *)
Commuting(op) ==
    /\ op \in [Scalars \X Scalars -> Scalars]
    /\ \A a, b, c \in Scalars : op[<<a, op[<<b, c>>]>>] = op[<<b, op[<<a, c>>]>>]

(* g holds the results of combining the entries of F over each subset. *)
Table(g, F, op, base) ==
    /\ g \in [SUBSET DOMAIN F -> Scalars] /\ g[{}] = base
    /\ \A s \in SUBSET DOMAIN F : \A y \in s : g[s] = op[<<F[y], g[s \ {y}]>>]

(* Addition of scalars, as a function. *)
Plus == [x \in Scalars \X Scalars |-> Add(x[1], x[2])]

(* Multiplication of scalars, as a function. *)
Times == [x \in Scalars \X Scalars |-> Mul(x[1], x[2])]

(* Sums and products do not depend on the order. *)
LEMMA SumsCommute ==
    /\ Commuting(Plus) /\ Commuting(Times)
    /\ \A a, b \in Scalars : Plus[<<a, b>>] = Add(a, b) /\ Times[<<a, b>>] = Mul(a, b)
<1>1. \A a, b \in Scalars : Add(a, b) \in Scalars /\ Mul(a, b) \in Scalars
    BY Closed, ScalarsAreInts
<1>2. /\ Plus \in [Scalars \X Scalars -> Scalars] /\ Times \in [Scalars \X Scalars -> Scalars]
      /\ \A a, b \in Scalars : Plus[<<a, b>>] = Add(a, b) /\ Times[<<a, b>>] = Mul(a, b)
    BY <1>1 DEF Plus, Times
<1>3. ASSUME NEW a \in Scalars, NEW b \in Scalars, NEW c \in Scalars
      PROVE  Add(a, Add(b, c)) = Add(b, Add(a, c)) /\ Mul(a, Mul(b, c)) = Mul(b, Mul(a, c))
    <2>1. a \in Int /\ b \in Int /\ c \in Int
        BY ScalarsAreInts
    <2>2. Add(a, Add(b, c)) = (a + b + c) % P /\ Add(b, Add(a, c)) = (b + a + c) % P
        BY <2>1, AddLaws
    <2>3. a + b + c = b + a + c
        BY <2>1
    <2>4. QED
        BY <2>2, <2>3, MulLaws
<1>4. QED
    BY <1>1, <1>2, <1>3 DEF Commuting

(* Every function has such a table. *)
LEMMA TableExists ==
    ASSUME NEW D, IsFiniteSet(D), NEW F \in [D -> Scalars], NEW op, Commuting(op),
           NEW base \in Scalars
    PROVE  \E g : Table(g, F, op, base)
<1> DEFINE pick == [s \in (SUBSET D) \ {{}} |-> Picked(s)]
           step == [x \in D \X Scalars |-> op[<<F[x[1]], x[2]>>]]
<1>1. \A s \in SUBSET D : s # {} => Picked(s) \in s
    BY DEF Picked
<1>2. pick \in Picks(D)
    BY <1>1 DEF Picks
<1>3. step \in Steps(D, Scalars)
    BY DEF Steps, Commuting
<1>4. PICK g : Solves(g, D, Scalars, base, pick, step)
    <2> HIDE DEF pick, step
    <2>1. QED
        BY <1>2, <1>3, SubsetRecursion
<1>5. g \in [SUBSET D -> Scalars] /\ g[{}] = base
    BY <1>4 DEF Solves
<1>6. ASSUME NEW s \in SUBSET D, s # {}
      PROVE  g[s] = op[<<F[Picked(s)], g[s \ {Picked(s)}]>>]
    <2>1. Picked(s) \in D /\ s \ {Picked(s)} \in SUBSET D
        BY <1>1, <1>6
    <2>2. <<Picked(s), g[s \ {Picked(s)}]>> \in D \X Scalars
        BY <1>5, <2>1
    <2>3. QED
        BY <1>4, <1>6, <2>2 DEF Solves
<1> HIDE DEF pick, step
<1> DEFINE Removes(s) == \A y \in s : g[s] = op[<<F[y], g[s \ {y}]>>]
           N == {n \in Nat : \A s \in SUBSET D : Cardinality(s) = n => Removes(s)}
<1>7. \A s \in SUBSET D : IsFiniteSet(s) /\ Cardinality(s) \in Nat
    BY FS_Subset, FS_CardinalityType
<1>8. 0 \in N
    BY <1>7, FS_EmptySet
<1>9. ASSUME NEW n \in Nat, n \in N PROVE n + 1 \in N
    <2> SUFFICES ASSUME NEW s \in SUBSET D, Cardinality(s) = n + 1, NEW y \in s
                 PROVE  g[s] = op[<<F[y], g[s \ {y}]>>]
        OBVIOUS
    <2>1. PICK p \in s : p = Picked(s)
        BY <1>1
    <2>2. g[s] = op[<<F[p], g[s \ {p}]>>]
        BY <1>6, <2>1
    <2>3. CASE y = p
        BY <2>2, <2>3
    <2>4. CASE y # p
        <3>1. Cardinality(s \ {p}) = n /\ Cardinality(s \ {y}) = n
            <4>1. IsFiniteSet(s)
                BY <1>7
            <4>2. ASSUME NEW z \in s PROVE Cardinality(s \ {z}) = n
                <5>1. Cardinality(s \ {z}) = Cardinality(s) - 1
                    BY <4>1, FS_RemoveElement
                <5>2. QED
                    BY <5>1
            <4>3. QED
                BY <4>2
        <3>2. Removes(s \ {p}) /\ Removes(s \ {y})
            BY <1>9, <3>1
        <3> DEFINE rest == g[(s \ {p}) \ {y}]
        <3>3. g[s \ {p}] = op[<<F[y], rest>>]
            BY <2>4, <3>2
        <3>4. g[s \ {y}] = op[<<F[p], rest>>]
            <4>1. (s \ {y}) \ {p} = (s \ {p}) \ {y}
                OBVIOUS
            <4>2. p \in s \ {y}
                BY <2>4
            <4>3. g[s \ {y}] = op[<<F[p], g[(s \ {y}) \ {p}]>>]
                BY <3>2, <4>2
            <4>4. QED
                BY <4>1, <4>3, Zenon
        <3>5. F[y] \in Scalars /\ F[p] \in Scalars /\ rest \in Scalars
            BY <1>5
        <3> HIDE DEF rest
        <3>6. op[<<F[p], op[<<F[y], rest>>]>>] = op[<<F[y], op[<<F[p], rest>>]>>]
            BY <3>5 DEF Commuting
        <3>7. QED
            BY <2>2, <3>3, <3>4, <3>6
    <2>5. QED
        BY <2>3, <2>4
<1>10. Nat \subseteq N
    BY <1>8, <1>9, Induction
<1>11. \A s \in SUBSET D : Removes(s)
    BY <1>7, <1>10
<1>12. Table(g, F, op, base)
    BY <1>5, <1>11 DEF Table
<1>13. QED
    BY <1>12

(* sigma maps the indexes E of G to the indexes R among those of F, D, one *)
(* to one.                                                                 *)
Reindexing(sigma, E, D, R, G, F) ==
    /\ sigma \in [E -> D] /\ R = {sigma[k] : k \in E}
    /\ \A k, l \in E : sigma[k] = sigma[l] => k = l
    /\ \A k \in E : G[k] = F[sigma[k]]

(* Tables of the same entries, under other indexes, agree. *)
LEMMA TableReindex ==
    ASSUME NEW D, NEW F \in [D -> Scalars], NEW E, IsFiniteSet(E), NEW G \in [E -> Scalars],
           NEW op, NEW base, NEW f, Table(f, F, op, base), NEW g, Table(g, G, op, base),
           NEW sigma, NEW R, Reindexing(sigma, E, D, R, G, F)
    PROVE  g[E] = f[R]
<1> DEFINE Image(s) == {sigma[k] : k \in s}
           T == {s \in SUBSET E : g[s] = f[Image(s)]}
<1> USE DEF Reindexing
<1>1. {} \in T
    <2>1. Image({}) = {}
        OBVIOUS
    <2>2. QED
        BY <2>1 DEF Table
<1>2. ASSUME NEW s \in SUBSET E, s # {}, s \ {Picked(s)} \in T PROVE s \in T
    <2>1. PICK p \in s : p = Picked(s)
        BY <1>2 DEF Picked
    <2>2. g[s] = op[<<G[p], g[s \ {p}]>>]
        BY DEF Table
    <2>3. Image(s) \in SUBSET D /\ sigma[p] \in Image(s) /\ Image(s \ {p}) = Image(s) \ {sigma[p]}
        <3>1. Image(s) \in SUBSET D
            OBVIOUS
        <3>2. sigma[p] \in Image(s)
            OBVIOUS
        <3>3. Image(s \ {p}) \subseteq Image(s) \ {sigma[p]}
            OBVIOUS
        <3>4. Image(s) \ {sigma[p]} \subseteq Image(s \ {p})
            OBVIOUS
        <3>5. QED
            BY <3>1, <3>2, <3>3, <3>4
    <2> HIDE DEF Image
    <2>4. f[Image(s)] = op[<<F[sigma[p]], f[Image(s) \ {sigma[p]}]>>]
        <3>1. \A t \in SUBSET D : \A y \in t : f[t] = op[<<F[y], f[t \ {y}]>>]
            BY DEF Table
        <3>2. QED
            BY <2>3, <3>1, Zenon
    <2>5. g[s \ {p}] = f[Image(s \ {p})] /\ G[p] = F[sigma[p]]
        BY <1>2, <2>1
    <2>6. QED
        BY <2>2, <2>3, <2>4, <2>5
<1> HIDE DEF T
<1>3. E \in T
    BY <1>1, <1>2, PickedInduction
<1>4. QED
    BY <1>3 DEF T

(* The sum of the entries of F. *)
Total(F) == FoldFunction(Add, 0, F)

(* The sum of F has a table. *)
LEMMA SumTable ==
    ASSUME NEW D, IsFiniteSet(D), NEW F \in [D -> Scalars]
    PROVE  \E g : Table(g, F, Plus, 0) /\ Total(F) = g[D]
<1>1. PICK h : PartialSums(h, F) /\ Total(F) = h[D]
    BY SumIsFold DEF Total
<1>2. PICK g : Table(g, F, Plus, 0)
    BY SumsCommute, TableExists, ScalarsAreInts
<1> DEFINE T == {s \in SUBSET D : h[s] = g[s]}
<1>3. {} \in T
    BY <1>1, <1>2 DEF PartialSums, Table
<1>4. ASSUME NEW s \in SUBSET D, s # {}, s \ {Picked(s)} \in T PROVE s \in T
    <2>1. PICK p \in s : p = Picked(s)
        BY <1>4 DEF Picked
    <2>2. h[s] = Add(F[p], h[s \ {p}])
        BY <1>1, <1>4, <2>1 DEF PartialSums
    <2>3. g[s] = Plus[<<F[p], g[s \ {p}]>>] /\ g[s \ {p}] \in Scalars /\ F[p] \in Scalars
        BY <1>2 DEF Table
    <2>4. h[s \ {p}] = g[s \ {p}]
        BY <1>4, <2>1
    <2>5. QED
        BY <2>2, <2>3, <2>4, SumsCommute
<1> HIDE DEF T
<1>5. D \in T
    BY <1>3, <1>4, PickedInduction
<1>6. QED
    BY <1>1, <1>2, <1>5 DEF T

(* G is F without the entry j. *)
Without(G, F, j, D) ==
    G \in [D \ {j} -> Scalars] /\ \A i \in D \ {j} : G[i] = F[i]

(* A sum is any one entry and the sum of the others. *)
LEMMA SumRemove ==
    ASSUME NEW D, IsFiniteSet(D), NEW F \in [D -> Scalars], NEW j \in D,
           NEW G, Without(G, F, j, D)
    PROVE  Total(F) = Add(F[j], Total(G))
<1> DEFINE E == D \ {j}
           sigma == [i \in E |-> i]
<1> USE DEF Without
<1>1. PICK f : Table(f, F, Plus, 0) /\ Total(F) = f[D]
    BY SumTable
<1>2. IsFiniteSet(E) /\ G \in [E -> Scalars]
    <2>1. IsFiniteSet(E)
        BY FS_RemoveElement
    <2>2. QED
        BY <2>1
<1>3. /\ sigma \in [E -> D] /\ \A k, l \in E : sigma[k] = sigma[l] => k = l
      /\ \A k \in E : G[k] = F[sigma[k]]
      /\ {sigma[k] : k \in E} = E
    OBVIOUS
<1> HIDE DEF E, sigma
<1>4. PICK g : Table(g, G, Plus, 0) /\ Total(G) = g[E]
    BY <1>2, SumTable
<1>5. g[E] = f[E]
    <2>1. Table(f, F, Plus, 0) /\ Table(g, G, Plus, 0)
        BY <1>1, <1>4
    <2>2. Reindexing(sigma, E, D, E, G, F)
        BY <1>3 DEF Reindexing
    <2>3. QED
        BY <1>2, <2>1, <2>2, TableReindex
<1>6. f[D] = Plus[<<F[j], f[E]>>] /\ f[E] \in Scalars /\ F[j] \in Scalars
    BY <1>1 DEF Table, E
<1>7. f[D] = Add(F[j], f[E])
    BY <1>6, SumsCommute
<1>8. QED
    BY <1>1, <1>4, <1>5, <1>7

(* Sums are linear. *)
LEMMA TotalLaws ==
    ASSUME NEW D, IsFiniteSet(D), NEW F \in [D -> Scalars], NEW G \in [D -> Scalars],
           NEW H \in [D -> Scalars], NEW k \in Scalars
    PROVE  /\ Total(F) \in Scalars
           /\ (\A d \in D : H[d] = Add(F[d], G[d])) => Total(H) = Add(Total(F), Total(G))
           /\ (\A d \in D : H[d] = Mul(F[d], k)) => Total(H) = Mul(Total(F), k)
<1>1. Total(F) \in Scalars
    BY SumClosed DEF Total
<1>2. ASSUME \A d \in D : H[d] = Add(F[d], G[d]) PROVE Total(H) = Add(Total(F), Total(G))
    <2>1. H = [d \in D |-> Add(F[d], G[d])]
        BY <1>2
    <2>2. QED
        BY <2>1, SumOfSums DEF Total
<1>3. ASSUME \A d \in D : H[d] = Mul(F[d], k) PROVE Total(H) = Mul(Total(F), k)
    <2>1. H = [d \in D |-> Mul(F[d], k)] /\ k \in Int
        BY <1>3, ScalarsAreInts
    <2>2. QED
        BY <2>1, SumScaled DEF Total
<1>4. QED
    BY <1>1, <1>2, <1>3

(* A sum of zeros, a sum of one entry, and a sum without one entry. *)
LEMMA TotalCases ==
    ASSUME NEW D, IsFiniteSet(D), NEW F \in [D -> Scalars]
    PROVE  /\ (\A d \in D : F[d] = 0) => Total(F) = 0
           /\ \A j \in D : \A G \in [D \ {j} -> Scalars] :
                  (\A d \in D \ {j} : G[d] = F[d]) => Total(F) = Add(F[j], Total(G))
           /\ \A j \in D : D = {j} => Total(F) = F[j]
<1>1. 0 \in Scalars /\ Total(F) \in Scalars
    BY ScalarsAreInts, TotalLaws
<1>2. ASSUME NEW E, IsFiniteSet(E), NEW G \in [E -> Scalars], \A d \in E : G[d] = 0
      PROVE  Total(G) = 0
    <2>1. \A d \in E : G[d] = Mul(G[d], 0)
        BY <1>1, <1>2, MulLaws
    <2>2. Total(G) = Mul(Total(G), 0) /\ Total(G) \in Scalars
        BY <1>1, <1>2, <2>1, TotalLaws
    <2>3. QED
        BY <1>1, <2>2, MulLaws
<1>3. ASSUME NEW j \in D, NEW G \in [D \ {j} -> Scalars], \A d \in D \ {j} : G[d] = F[d]
      PROVE  Total(F) = Add(F[j], Total(G))
    <2>1. Without(G, F, j, D)
        BY <1>3 DEF Without
    <2>2. QED
        BY <2>1, SumRemove
<1>4. ASSUME NEW j \in D, D = {j} PROVE Total(F) = F[j]
    <2> DEFINE G == [d \in D \ {j} |-> F[d]]
    <2>1. G \in [D \ {j} -> Scalars] /\ (\A d \in D \ {j} : G[d] = F[d]) /\ D \ {j} = {}
        BY <1>4
    <2> HIDE DEF G
    <2>2. Total(G) = 0
        BY <1>2, <2>1, FS_EmptySet
    <2>3. Total(F) = Add(F[j], 0)
        BY <1>3, <2>1, <2>2
    <2>4. QED
        BY <2>3, AddLaws, ScalarsAreInts
<1>5. QED
    BY <1>2, <1>3, <1>4

(***************************************************************************)
(* Interpolation at a point.  W[s][i] is the Lagrange coefficient of point *)
(* i among the points s, in the form the proofs need: how it changes when  *)
(* one of the other points is left out.                                    *)
(***************************************************************************)
WeightsAt(W, X, D, at) ==
    /\ W \in [SUBSET D -> [D -> Scalars]]
    /\ \A i \in D : W[{i}][i] = 1
    /\ \A s \in SUBSET D : \A i, j \in s :
          i # j => Mul(W[s][i], Sub(X[i], X[j])) = Mul(W[s \ {j}][i], Sub(at, X[j]))

(* The coefficients for the value at zero, which the code computes for     *)
(* reconstruction.                                                         *)
Weights(W, X, D) == WeightsAt(W, X, D, 0)

(* Points that are pairwise different. *)
Points(X, D) ==
    /\ X \in [D -> Scalars]
    /\ \A i, j \in D : X[i] = X[j] => i = j

(* The value that the weights of s give to the values phi. *)
Weighted(W, s, phi) == Total([i \in s |-> Mul(W[s][i], phi[i])])

(* An entry of a linear step, split at the point xj. *)
LEMMA WeightSplit ==
    ASSUME NEW w \in Scalars, NEW psi \in Scalars, NEW x \in Scalars, NEW xj \in Scalars,
           NEW c \in Scalars
    PROVE  Mul(w, Add(Mul(psi, x), c))
               = Add(Add(Mul(w, Mul(Sub(x, xj), psi)), Mul(Mul(w, psi), xj)), Mul(w, c))
<1>1. PICK d \in Scalars : d = Sub(x, xj) /\ Add(d, xj) = x
    <2>1. Sub(x, xj) \in Scalars /\ Add(Sub(x, xj), xj) = x
        BY SubLaws
    <2>2. QED
        BY <2>1
<1>2. /\ d \in Int /\ xj \in Int /\ psi \in Int /\ w \in Int /\ c \in Int
      /\ Mul(psi, x) \in Scalars /\ Mul(d, psi) \in Scalars /\ Mul(xj, psi) \in Scalars
    BY ScalarsAreInts, MulLaws
<1>3. Mul(psi, x) = Mul(x, psi)
    BY MulLaws
<1>4. Mul(Add(d, xj), psi) = Add(Mul(d, psi), Mul(xj, psi))
    BY <1>2, MulDistributes
<1>5. PICK a \in Scalars, b \in Scalars : a = Mul(d, psi) /\ b = Mul(xj, psi)
    BY <1>2
<1>6. Mul(psi, x) = Add(a, b)
    BY <1>1, <1>3, <1>4, <1>5
<1>7. Add(a, b) \in Scalars /\ Add(Add(a, b), c) \in Scalars /\ a \in Int /\ b \in Int
    BY Closed, ScalarsAreInts
<1>8. Mul(w, Add(Add(a, b), c)) = Mul(Add(Add(a, b), c), w)
    BY <1>7, MulLaws
<1>9. Mul(Add(Add(a, b), c), w) = Add(Mul(Add(a, b), w), Mul(c, w))
    <2>1. Add(a, b) \in Int
        BY <1>7, ScalarsAreInts
    <2>2. QED
        BY <1>2, <2>1, MulDistributes
<1>10. Mul(Add(a, b), w) = Add(Mul(a, w), Mul(b, w))
    BY <1>2, <1>7, MulDistributes
<1>11. Mul(a, w) = Mul(w, a) /\ Mul(c, w) = Mul(w, c) /\ Mul(b, w) = Mul(w, b)
    BY MulLaws
<1>12. b = Mul(psi, xj)
    BY <1>5, MulLaws
<1>13. Mul(w, Mul(psi, xj)) = Mul(Mul(w, psi), xj)
    BY MulLaws
<1>14. QED
    BY <1>1, <1>5, <1>6, <1>8, <1>9, <1>10, <1>11, <1>12, <1>13

(* The sum over s of the entries in which the point j vanishes is a sum    *)
(* over the other points.                                                  *)
LEMMA PointVanishes ==
    ASSUME NEW D, IsFiniteSet(D), NEW X, Points(X, D), NEW at \in Scalars, NEW W,
           WeightsAt(W, X, D, at),
           NEW psi \in [D -> Scalars], NEW s \in SUBSET D, NEW j \in s,
           NEW A \in [s -> Scalars],
           \A i \in s : A[i] = Mul(W[s][i], Mul(Sub(X[i], X[j]), psi[i]))
    PROVE  Total(A) = Mul(Weighted(W, s \ {j}, psi), Sub(at, X[j]))
<1>1. PICK r : r = s \ {j}
    OBVIOUS
<1>2. r \in SUBSET D /\ IsFiniteSet(s) /\ IsFiniteSet(r)
    BY <1>1, FS_Subset
<1>3. W[s] \in [D -> Scalars] /\ W[r] \in [D -> Scalars] /\ X \in [D -> Scalars]
    BY <1>2 DEF WeightsAt, Points
<1>4. PICK e \in Scalars : e = Sub(at, X[j])
    <2>1. X[j] \in Scalars /\ 0 \in Scalars
        BY <1>3, ScalarsAreInts
    <2>2. Sub(at, X[j]) \in Scalars
        BY <2>1, SubLaws
    <2>3. QED
        BY <2>2
<1> DEFINE B == [i \in r |-> A[i]]
           C == [i \in r |-> Mul(W[r][i], psi[i])]
<1>5. /\ B \in [r -> Scalars] /\ \A i \in r : B[i] = A[i]
    BY <1>1
<1>6. \A i \in r : Mul(W[r][i], psi[i]) \in Scalars
    BY <1>2, <1>3, MulLaws
<1>7. C \in [r -> Scalars] /\ (\A i \in r : C[i] = Mul(W[r][i], psi[i]))
      /\ Weighted(W, r, psi) = Total(C)
    BY <1>6 DEF Weighted
<1>8. A[j] = 0
    <2>1. Sub(X[j], X[j]) = 0
        BY <1>3, SubLaws
    <2>2. Mul(0, psi[j]) = 0 /\ Mul(W[s][j], 0) = 0
        BY <1>3, MulLaws, ScalarsAreInts
    <2>3. QED
        BY <2>1, <2>2
<1>9. ASSUME NEW i \in r PROVE B[i] = Mul(C[i], e)
    <2>1. PICK w \in Scalars, v \in Scalars, f \in Scalars, d \in Scalars :
              w = W[s][i] /\ v = W[r][i] /\ f = psi[i] /\ d = Sub(X[i], X[j])
        <3>1. X[i] \in Scalars /\ X[j] \in Scalars
            BY <1>2, <1>3
        <3>2. Sub(X[i], X[j]) \in Scalars
            BY <3>1, SubLaws
        <3>3. W[s][i] \in Scalars /\ W[r][i] \in Scalars /\ psi[i] \in Scalars
            BY <1>2, <1>3
        <3>4. QED
            BY <3>2, <3>3, Zenon
    <2>2. Mul(w, d) = Mul(v, e)
        BY <1>1, <1>4, <2>1 DEF WeightsAt
    <2>3. B[i] = Mul(w, Mul(d, f)) /\ C[i] = Mul(v, f)
        BY <1>1, <1>5, <1>7, <2>1
    <2>4. Mul(w, Mul(d, f)) = Mul(Mul(w, d), f)
        BY MulLaws
    <2>5. Mul(Mul(v, e), f) = Mul(v, Mul(e, f)) /\ Mul(Mul(v, f), e) = Mul(v, Mul(f, e))
        BY MulLaws
    <2>6. Mul(e, f) = Mul(f, e)
        BY MulLaws
    <2>7. QED
        BY <2>2, <2>3, <2>4, <2>5, <2>6
<1> HIDE DEF B, C
<1>10. Total(B) = Mul(Total(C), e) /\ Total(B) \in Scalars
    BY <1>2, <1>5, <1>7, <1>9, TotalLaws
<1>11. Total(A) = Add(A[j], Total(B))
    BY <1>1, <1>2, <1>5, TotalCases
<1>12. Add(0, Total(B)) = Total(B)
    BY <1>10, AddLaws, ScalarsAreInts
<1>13. QED
    BY <1>1, <1>4, <1>7, <1>8, <1>10, <1>11, <1>12

(* phi is psi times the points, plus c. *)
LinearIn(phi, psi, X, c, s) == \A i \in s : phi[i] = Add(Mul(psi[i], X[i]), c)

(* The value of X[i] * psi[i] + c at a point, from those of psi with and   *)
(* without the point j.                                                    *)
StepsAt(at, W, X, s, j, phi, psi, ones, c) ==
    Weighted(W, s, phi) = Add(Add(Mul(Weighted(W, s \ {j}, psi), Sub(at, X[j])),
                                  Mul(Weighted(W, s, psi), X[j])),
                              Mul(Weighted(W, s, ones), c))

(* A linear step. *)
LEMMA WeightStep ==
    ASSUME NEW D, IsFiniteSet(D), NEW X, Points(X, D), NEW at \in Scalars, NEW W,
           WeightsAt(W, X, D, at),
           NEW psi \in [D -> Scalars], NEW ones \in [D -> {1}], NEW phi \in [D -> Scalars],
           NEW c \in Scalars, NEW s \in SUBSET D, NEW j \in s, LinearIn(phi, psi, X, c, s)
    PROVE  StepsAt(at, W, X, s, j, phi, psi, ones, c)
<1>1. IsFiniteSet(s) /\ W[s] \in [D -> Scalars] /\ X \in [D -> Scalars] /\ X[j] \in Scalars
    BY FS_Subset DEF WeightsAt, Points
<1>2. ASSUME NEW i \in s
      PROVE  /\ W[s][i] \in Scalars /\ psi[i] \in Scalars /\ phi[i] \in Scalars
             /\ X[i] \in Scalars /\ 1 \in Scalars /\ ones[i] = 1
    BY <1>1, NonZeroProduct, ScalarsAreInts
<1> DEFINE A == [i \in s |-> Mul(W[s][i], Mul(Sub(X[i], X[j]), psi[i]))]
           F == [i \in s |-> Mul(W[s][i], psi[i])]
           B == [i \in s |-> Mul(Mul(W[s][i], psi[i]), X[j])]
           O == [i \in s |-> Mul(W[s][i], ones[i])]
           C == [i \in s |-> Mul(W[s][i], c)]
           AB == [i \in s |-> Add(A[i], B[i])]
           H == [i \in s |-> Mul(W[s][i], phi[i])]
<1>3. ASSUME NEW i \in s
      PROVE  /\ A[i] \in Scalars /\ F[i] \in Scalars /\ B[i] = Mul(F[i], X[j]) /\ B[i] \in Scalars
             /\ O[i] \in Scalars /\ C[i] = Mul(O[i], c) /\ C[i] \in Scalars /\ H[i] \in Scalars
             /\ H[i] = Add(Add(A[i], B[i]), C[i])
    <2>1. PICK w \in Scalars, f \in Scalars, x \in Scalars, y \in Scalars :
              w = W[s][i] /\ f = psi[i] /\ x = X[i] /\ y = X[j]
        BY <1>1, <1>2, Zenon
    <2>2. phi[i] = Add(Mul(f, x), c) /\ ones[i] = 1 /\ phi[i] \in Scalars
        BY <1>2, <2>1 DEF LinearIn
    <2>3. Sub(x, y) \in Scalars
        BY SubLaws
    <2>4. Mul(Sub(x, y), f) \in Scalars
        BY <2>3, MulLaws
    <2>5. Mul(w, Mul(Sub(x, y), f)) \in Scalars
        BY <2>4, MulLaws
    <2>6. Mul(w, f) \in Scalars /\ Mul(w, c) \in Scalars /\ Mul(w, 1) = w
        BY MulLaws
    <2>7. Mul(Mul(w, f), y) \in Scalars
        BY <2>6, MulLaws
    <2>8. Mul(w, phi[i]) \in Scalars
        BY <2>2, MulLaws
    <2>9. Mul(w, Add(Mul(f, x), c))
            = Add(Add(Mul(w, Mul(Sub(x, y), f)), Mul(Mul(w, f), y)), Mul(w, c))
        BY WeightSplit
    <2>10. /\ A[i] = Mul(w, Mul(Sub(x, y), f)) /\ F[i] = Mul(w, f) /\ B[i] = Mul(Mul(w, f), y)
           /\ O[i] = Mul(w, 1) /\ C[i] = Mul(w, c) /\ H[i] = Mul(w, phi[i])
        BY <2>1, <2>2
    <2> HIDE DEF A, F, B, O, C, AB, H
    <2>11. QED
        BY <2>1, <2>2, <2>5, <2>6, <2>7, <2>8, <2>9, <2>10
<1>4. /\ A \in [s -> Scalars] /\ F \in [s -> Scalars] /\ B \in [s -> Scalars]
      /\ O \in [s -> Scalars] /\ C \in [s -> Scalars] /\ H \in [s -> Scalars]
    BY <1>3
<1>5. AB \in [s -> Scalars] /\ \A i \in s : AB[i] = Add(A[i], B[i])
    BY <1>3, Closed, ScalarsAreInts
<1>6. /\ Weighted(W, s, phi) = Total(H) /\ Weighted(W, s, psi) = Total(F)
      /\ Weighted(W, s, ones) = Total(O)
      /\ \A i \in s : A[i] = Mul(W[s][i], Mul(Sub(X[i], X[j]), psi[i]))
    BY DEF Weighted
<1> HIDE DEF A, F, B, O, C, AB, H
<1>7. Total(A) = Mul(Weighted(W, s \ {j}, psi), Sub(at, X[j]))
    BY <1>4, <1>6, PointVanishes
<1>8. Total(B) = Mul(Total(F), X[j])
    BY <1>1, <1>3, <1>4, TotalLaws
<1>9. Total(C) = Mul(Total(O), c)
    BY <1>1, <1>3, <1>4, TotalLaws
<1>10. Total(AB) = Add(Total(A), Total(B))
    <2>1. A \in [s -> Scalars] /\ B \in [s -> Scalars] /\ AB \in [s -> Scalars]
        BY <1>4, <1>5
    <2>2. \A d \in s : AB[d] = Add(A[d], B[d])
        BY <1>5
    <2>3. IsFiniteSet(s)
        BY <1>1
    <2>4. QED
        BY <2>1, <2>2, <2>3, TotalLaws
<1>11. Total(H) = Add(Total(AB), Total(C))
    <2>1. \A i \in s : H[i] = Add(AB[i], C[i])
        BY <1>3, <1>5
    <2>2. QED
        BY <1>1, <1>4, <1>5, <2>1, TotalLaws, SMTT(30)
<1>12. QED
    BY <1>6, <1>7, <1>8, <1>9, <1>10, <1>11 DEF StepsAt

(* A weighted value is a scalar, zero for zeros, and c for a constant c    *)
(* when the weights add up to 1.                                           *)
LEMMA WeightedTyped ==
    ASSUME NEW D, IsFiniteSet(D), NEW X, Points(X, D), NEW at \in Scalars, NEW W,
           WeightsAt(W, X, D, at),
           NEW psi \in [D -> Scalars], NEW s \in SUBSET D
    PROVE  /\ Weighted(W, s, psi) \in Scalars
           /\ (\A i \in s : psi[i] = 0) => Weighted(W, s, psi) = 0
           /\ \A i \in D : s = {i} => Weighted(W, s, psi) = psi[i]
<1> DEFINE F == [i \in s |-> Mul(W[s][i], psi[i])]
<1>1. IsFiniteSet(s) /\ W[s] \in [D -> Scalars] /\ 0 \in Scalars /\ 1 \in Scalars
    BY FS_Subset, NonZeroProduct, ScalarsAreInts DEF WeightsAt
<1>2. ASSUME NEW i \in s PROVE F[i] \in Scalars /\ (psi[i] = 0 => F[i] = 0)
    <2>1. PICK w \in Scalars, f \in Scalars : w = W[s][i] /\ f = psi[i]
        BY <1>1
    <2>2. Mul(w, f) \in Scalars /\ Mul(w, 0) = 0
        BY MulLaws
    <2>3. QED
        BY <2>1, <2>2
<1>3. F \in [s -> Scalars] /\ Weighted(W, s, psi) = Total(F)
    BY <1>2 DEF Weighted
<1>4. ASSUME NEW i \in D, s = {i} PROVE F[i] = psi[i]
    <2>1. W[s][i] = 1
        BY <1>4 DEF WeightsAt
    <2>2. Mul(1, psi[i]) = psi[i]
        BY MulLaws
    <2>3. QED
        BY <1>4, <2>1, <2>2
<1> HIDE DEF F
<1>5. Total(F) \in Scalars
    BY <1>1, <1>3, TotalLaws
<1>6. (\A i \in s : F[i] = 0) => Total(F) = 0
    BY <1>1, <1>3, TotalCases
<1>7. \A i \in s : s = {i} => Total(F) = F[i]
    BY <1>1, <1>3, TotalCases
<1>8. QED
    BY <1>2, <1>3, <1>4, <1>5, <1>6, <1>7

(* Values that are e times the points up to one constant: e is 1. *)
LEMMA OnlyOne ==
    ASSUME NEW at \in Scalars, NEW e \in Scalars, NEW a \in Scalars, NEW b \in Scalars, a # b,
           Add(Sub(at, a), Mul(e, a)) = Add(Sub(at, b), Mul(e, b))
    PROVE  e = 1
<1>1. at \in Int /\ e \in Int /\ a \in Int /\ b \in Int /\ 1 \in Scalars
    BY ScalarsAreInts, NonZeroProduct
<1>2. PICK u \in Int, v \in Int : u = e * a /\ v = e * b
    BY <1>1
<1>3. PICK na \in Int, nb \in Int, d \in Int : na = at - a /\ nb = at - b /\ d = a - b
    BY <1>1
<1>4. ((na % P) + (u % P)) % P = (na + u) % P /\ ((nb % P) + (v % P)) % P = (nb + v) % P
    BY RemainderOfBoth
<1>5. (na + u) % P = (nb + v) % P
    <2>1. /\ Add(Sub(at, a), Mul(e, a)) = (((at - a) % P) + ((e * a) % P)) % P
          /\ Add(Sub(at, b), Mul(e, b)) = (((at - b) % P) + ((e * b) % P)) % P
        BY DEF Add, Sub, Mul
    <2>2. QED
        BY <1>2, <1>3, <1>4, <2>1
<1>6. PICK x \in Int, y \in Int : x = na + u /\ y = nb + v
    OBVIOUS
<1>7. (x - y) % P = ((x % P) - (y % P)) % P
    BY RemainderOfBoth
<1>8. (x - y) % P = 0
    <2>1. x % P \in Int /\ x % P = y % P
        BY <1>5, <1>6, Remainder
    <2>2. (x % P) - (y % P) = 0
        BY <2>1
    <2>3. QED
        BY <1>7, <2>2, ScalarRemainder, ScalarsAreInts
<1>9. PICK w \in Int : w = x - y
    OBVIOUS
<1>10. ((w % P) + d) % P = (w + d) % P
    BY RemainderOfSum
<1>11. 0 + d = d /\ w + d = u - v
    BY <1>1, <1>3, <1>6, <1>9
<1>12. (u - v) % P = d % P
    BY <1>8, <1>9, <1>10, <1>11
<1>13. Mul(e, Sub(a, b)) = (u - v) % P
    BY <1>1, <1>2, ProductForms
<1>14. Sub(a, b) = d % P /\ Sub(a, b) \in Scalars /\ Sub(a, b) # 0
    <2>1. Sub(a, b) \in Scalars /\ (Sub(a, b) = 0 <=> a = b)
        BY SubLaws
    <2>2. QED
        BY <1>3, <2>1 DEF Sub
<1>15. Mul(1, Sub(a, b)) = Sub(a, b)
    BY <1>14, MulLaws
<1>16. Mul(e, Sub(a, b)) = Mul(1, Sub(a, b))
    BY <1>12, <1>13, <1>14, <1>15
<1>17. QED
    BY <1>1, <1>14, <1>16, Cancel

(* The weights of any points add up to 1. *)
LEMMA WeightsAddUp ==
    ASSUME NEW D, IsFiniteSet(D), NEW X, Points(X, D), NEW at \in Scalars, NEW W,
           WeightsAt(W, X, D, at),
           NEW ones \in [D -> {1}], NEW s \in SUBSET D, s # {}
    PROVE  Weighted(W, s, ones) = 1
<1> DEFINE AddsUp(r) == Weighted(W, r, ones) = 1
           N == {n \in Nat : \A r \in SUBSET D : Cardinality(r) = n + 1 => AddsUp(r)}
<1>1. \A r \in SUBSET D : IsFiniteSet(r) /\ Cardinality(r) \in Nat
    BY FS_Subset, FS_CardinalityType
<1>2. ones \in [D -> Scalars] /\ X \in [D -> Scalars] /\ 0 \in Scalars /\ 1 \in Scalars
    BY NonZeroProduct, ScalarsAreInts DEF Points
<1>3. 0 \in N
    <2> SUFFICES ASSUME NEW r \in SUBSET D, Cardinality(r) = 1 PROVE AddsUp(r)
        OBVIOUS
    <2>1. PICK y : r = {y}
        BY <1>1, FS_Singleton
    <2>2. y \in D /\ ones[y] = 1
        BY <2>1
    <2>3. QED
        BY <1>2, <2>1, <2>2, WeightedTyped
<1>4. ASSUME NEW n \in Nat, n \in N PROVE n + 1 \in N
    <2> SUFFICES ASSUME NEW r \in SUBSET D, Cardinality(r) = (n + 1) + 1 PROVE AddsUp(r)
        OBVIOUS
    <2>1. ASSUME NEW y \in r
          PROVE  Cardinality(r \ {y}) = n + 1 /\ AddsUp(r \ {y}) /\ r \ {y} \in SUBSET D
        <3>1. IsFiniteSet(r)
            BY <1>1
        <3>2. Cardinality(r \ {y}) = Cardinality(r) - 1
            BY <3>1, FS_RemoveElement
        <3>3. Cardinality(r \ {y}) = n + 1
            BY <3>2
        <3>4. QED
            BY <1>4, <3>3
    <2>2. \E y \in r, z \in r : y # z
        <3>1. r # {}
            BY FS_EmptySet
        <3>2. PICK y \in r : TRUE
            BY <3>1
        <3>3. Cardinality(r \ {y}) = n + 1
            BY <2>1
        <3>4. r \ {y} # {}
            BY <3>3, FS_EmptySet
        <3>5. QED
            BY <3>4
    <2>3. PICK y \in r, z \in r : y # z
        BY <2>2
    <2>4. PICK e \in Scalars : e = Weighted(W, r, ones)
        BY <1>2, WeightedTyped
    <2>5. ASSUME NEW j \in r
          PROVE  Weighted(W, r, X) = Add(Sub(at, X[j]), Mul(e, X[j]))
        <3>1. PICK x \in Scalars : x = X[j]
            BY <1>2
        <3>2. LinearIn(X, ones, X, 0, r)
            <4> SUFFICES ASSUME NEW i \in r PROVE X[i] = Add(Mul(ones[i], X[i]), 0)
                BY DEF LinearIn
            <4>1. X[i] \in Scalars /\ X[i] \in Int /\ ones[i] = 1
                BY <1>2, ScalarsAreInts
            <4>2. Mul(1, X[i]) = X[i]
                BY <4>1, MulLaws
            <4>3. Add(X[i], 0) = X[i]
                BY <4>1, AddLaws, ScalarsAreInts
            <4>4. QED
                BY <4>1, <4>2, <4>3
        <3>3. Weighted(W, r, X)
                = Add(Add(Mul(Weighted(W, r \ {j}, ones), Sub(at, x)), Mul(e, x)), Mul(e, 0))
            <4>1. StepsAt(at, W, X, r, j, X, ones, ones, 0)
                BY <1>2, <3>2, WeightStep
            <4>2. QED
                BY <2>4, <3>1, <4>1 DEF StepsAt
        <3>4. Sub(at, x) \in Scalars
            BY <1>2, SubLaws
        <3>5. Mul(1, Sub(at, x)) = Sub(at, x) /\ Mul(e, 0) = 0 /\ Mul(e, x) \in Scalars
            BY <3>4, MulLaws
        <3>6. Add(Sub(at, x), Mul(e, x)) \in Scalars
            BY <3>4, <3>5, Closed, ScalarsAreInts
        <3>7. Add(Add(Sub(at, x), Mul(e, x)), 0) = Add(Sub(at, x), Mul(e, x))
            BY <3>6, AddLaws, ScalarsAreInts
        <3>8. QED
            BY <2>1, <3>1, <3>3, <3>5, <3>7
    <2>6. PICK a \in Scalars, b \in Scalars : a = X[y] /\ b = X[z]
        BY <1>2
    <2>7. a # b
        BY <2>3, <2>6 DEF Points
    <2>8. Add(Sub(at, a), Mul(e, a)) = Add(Sub(at, b), Mul(e, b))
        BY <2>5, <2>6
    <2>9. QED
        BY <2>4, <2>7, <2>8, OnlyOne
<1> HIDE DEF AddsUp
<1>5. Nat \subseteq N
    BY <1>3, <1>4, Induction
<1>6. Cardinality(s) - 1 \in Nat
    BY <1>1, FS_EmptySet
<1>7. AddsUp(s)
    BY <1>1, <1>5, <1>6
<1>8. QED
    BY <1>7 DEF AddsUp

(* Terms in which the point x cancels. *)
LEMMA PointCancels ==
    ASSUME NEW at \in Scalars, NEW v \in Scalars, NEW x \in Scalars, NEW c \in Scalars
    PROVE  Add(Add(Mul(v, Sub(at, x)), Mul(v, x)), Mul(1, c)) = Add(Mul(v, at), c)
<1>1. Sub(at, x) \in Scalars /\ Add(Sub(at, x), x) = at
    BY SubLaws, ScalarsAreInts
<1>2. PICK d \in Scalars : d = Sub(at, x)
    BY <1>1
<1>3. d \in Int /\ x \in Int /\ v \in Int
    BY ScalarsAreInts
<1>4. Mul(Add(d, x), v) = Add(Mul(d, v), Mul(x, v))
    BY <1>3, MulDistributes
<1>5. Mul(d, v) = Mul(v, d) /\ Mul(x, v) = Mul(v, x) /\ Mul(at, v) = Mul(v, at) /\ Mul(1, c) = c
    BY MulLaws
<1>6. Add(Mul(v, d), Mul(v, x)) = Mul(v, at)
    BY <1>1, <1>2, <1>4, <1>5
<1>7. QED
    BY <1>2, <1>5, <1>6

(* Lagrange interpolation: as many points as coefficients, or more, give   *)
(* the polynomial's value at a point.                                      *)
LEMMA InterpolationAt ==
    ASSUME NEW D, IsFiniteSet(D), NEW X, Points(X, D), NEW at \in Scalars, NEW W,
           WeightsAt(W, X, D, at),
           NEW n \in Nat \ {0}, NEW C \in [1..n -> Scalars], Cardinality(D) >= n,
           NEW t, \A i \in D : Horner(t[i], C, X[i], n), NEW h, Horner(h, C, at, n),
           NEW phi \in [D -> Scalars], \A i \in D : phi[i] = t[i][1]
    PROVE  Weighted(W, D, phi) = h[1]
<1> DEFINE Row(k) == [i \in D |-> t[i][k]]
           Value(k) == h[k]
           Gives(k) == \A s \in SUBSET D :
                          Cardinality(s) >= n + 1 - k => Weighted(W, s, Row(k)) = Value(k)
           T == {k \in 1..(n + 1) : Gives(k)}
           ones == [i \in D |-> 1]
<1>1. \A s \in SUBSET D : IsFiniteSet(s) /\ Cardinality(s) \in Nat
    BY FS_Subset, FS_CardinalityType
<1>2. ASSUME NEW k \in 1..(n + 1)
      PROVE  /\ Row(k) \in [D -> Scalars] /\ (\A i \in D : Row(k)[i] = t[i][k])
             /\ Value(k) \in Scalars
    BY ScalarsAreInts DEF Horner
<1>3. ones \in [D -> {1}] /\ ones \in [D -> Scalars]
    BY NonZeroProduct, ScalarsAreInts
<1>4. n + 1 \in T
    <2>1. n + 1 \in 1..(n + 1) /\ \A i \in D : t[i][n + 1] = 0
        BY DEF Horner
    <2>2. ASSUME NEW s \in SUBSET D PROVE Weighted(W, s, Row(n + 1)) = 0
        <3>1. PICK R \in [D -> Scalars] : R = Row(n + 1) /\ \A i \in D : R[i] = t[i][n + 1]
            BY <1>2, <2>1
        <3>2. \A i \in s : R[i] = 0
            BY <2>1, <3>1
        <3>3. Weighted(W, s, R) = 0
            BY <3>2, WeightedTyped
        <3>4. QED
            BY <3>1, <3>3
    <2>3. Value(n + 1) = 0
        BY DEF Horner
    <2>4. QED
        BY <2>1, <2>2, <2>3
<1>5. ASSUME NEW k \in 1..n, k + 1 \in T PROVE k \in T
    <2>1. k \in 1..(n + 1) /\ k + 1 \in 1..(n + 1) /\ k # n + 1
        OBVIOUS
    <2> SUFFICES ASSUME NEW s \in SUBSET D, Cardinality(s) >= n + 1 - k
                 PROVE  Weighted(W, s, Row(k)) = h[k]
        BY <2>1
    <2>2. PICK j \in s : TRUE
        <3>1. Cardinality(s) # 0
            BY <1>1
        <3>2. QED
            BY <3>1, FS_EmptySet
    <2>3. s \ {j} \in SUBSET D /\ Cardinality(s \ {j}) >= n + 1 - (k + 1)
        <3>1. IsFiniteSet(s) /\ Cardinality(s) \in Nat
            BY <1>1
        <3>2. Cardinality(s \ {j}) = Cardinality(s) - 1
            BY <2>2, <3>1, FS_RemoveElement
        <3>3. QED
            BY <3>1, <3>2
    <2>4. Cardinality(s) >= n + 1 - (k + 1)
        BY <1>1
    <2>5. PICK psi \in [D -> Scalars] : psi = Row(k + 1) /\ \A i \in D : psi[i] = t[i][k + 1]
        BY <1>2, <2>1
    <2>6. PICK f \in [D -> Scalars] : f = Row(k) /\ \A i \in D : f[i] = t[i][k]
        BY <1>2, <2>1
    <2>7. PICK v \in Scalars : v = Value(k + 1)
        BY <1>2, <2>1
    <2>8. Weighted(W, s, psi) = v /\ Weighted(W, s \ {j}, psi) = v
        BY <1>5, <2>3, <2>4, <2>5, <2>7
    <2>9. PICK c \in Scalars : c = C[k]
        OBVIOUS
    <2>10. LinearIn(f, psi, X, c, s)
        BY <2>5, <2>6, <2>9 DEF Horner, LinearIn
    <2>11. PICK x \in Scalars : x = X[j]
        BY DEF Points
    <2> HIDE DEF ones
    <2>12. Weighted(W, s, ones) = 1
        BY <1>3, <2>2, WeightsAddUp
    <2>13. Weighted(W, s, f) = Add(Add(Mul(v, Sub(at, x)), Mul(v, x)), Mul(1, c))
        <3>1. PICK o \in [D -> {1}] : o = ones
            BY <1>3
        <3>2. Weighted(W, s, f) = Add(Add(Mul(Weighted(W, s \ {j}, psi), Sub(at, X[j])),
                                          Mul(Weighted(W, s, psi), X[j])),
                                      Mul(Weighted(W, s, o), c))
            <4>1. StepsAt(at, W, X, s, j, f, psi, o, c)
                BY <2>2, <2>10, WeightStep
            <4>2. QED
                BY <4>1 DEF StepsAt
        <3>3. QED
            BY <2>8, <2>11, <2>12, <3>1, <3>2
    <2>14. h[k] = Add(Mul(v, at), c)
        BY <2>7, <2>9 DEF Horner
    <2>15. QED
        BY <2>6, <2>13, <2>14, PointCancels
<1> HIDE DEF T
<1>6. 1 \in T
    BY <1>4, <1>5, RowInduction
<1>7. Weighted(W, D, Row(1)) = h[1]
    <2>1. D \in SUBSET D /\ Cardinality(D) >= n + 1 - 1 /\ 1 # n + 1
        OBVIOUS
    <2>2. QED
        BY <1>6, <2>1 DEF T
<1>8. phi = Row(1)
    OBVIOUS
<1>9. QED
    BY <1>7, <1>8

(* At zero this is the first coefficient. *)
LEMMA Interpolation ==
    ASSUME NEW D, IsFiniteSet(D), NEW X, Points(X, D), NEW W, Weights(W, X, D),
           NEW n \in Nat \ {0}, NEW C \in [1..n -> Scalars], Cardinality(D) >= n,
           NEW t, \A i \in D : Horner(t[i], C, X[i], n),
           NEW phi \in [D -> Scalars], \A i \in D : phi[i] = t[i][1]
    PROVE  Weighted(W, D, phi) = C[1]
<1>1. 0 \in Scalars /\ 0 \in Nat /\ WeightsAt(W, X, D, 0)
    BY ScalarsAreInts DEF Weights
<1>2. PICK h : Horner(h, C, 0, n)
    BY <1>1, EvaluateIsHorner
<1>3. Weighted(W, D, phi) = h[1]
    BY <1>1, <1>2, InterpolationAt
<1>4. h[2] \in Scalars /\ C[1] \in Scalars /\ h[1] = Add(Mul(h[2], 0), C[1])
    BY <1>2 DEF Horner
<1>5. Mul(h[2], 0) = 0 /\ Add(0, C[1]) = C[1]
    BY <1>4, MulLaws, AddLaws, ScalarsAreInts
<1>6. QED
    BY <1>3, <1>4, <1>5

(***************************************************************************)
(* The weights are the quotients of products the code computes.            *)
(***************************************************************************)
(* The differences of a and the points. *)
Differences(a, X, D) == [j \in D |-> Sub(a, X[j])]

(* N[s] is the product of 0 - X[j] over the points of s. *)
Numerators(N, X, D) == Table(N, Differences(0, X, D), Times, 1)

(* M[s] is the product of X[i] - X[j] over the points of s. *)
Denominators(M, X, D, i) == Table(M, Differences(X[i], X, D), Times, 1)

(* A point's weight in s is the quotient of the two over the other points. *)
Quotients(W, N, M, D) ==
    W = [s \in SUBSET D |-> [i \in D |->
            IF i \in s THEN Mul(N[s \ {i}], Invert(M[i][s \ {i}])) ELSE 0]]

(* The two products when a point is left out, and that a denominator is    *)
(* not zero.                                                               *)
LEMMA ProductTables ==
    ASSUME NEW D, IsFiniteSet(D), NEW X, Points(X, D), NEW N, Numerators(N, X, D),
           NEW i \in D, NEW M, Denominators(M, X, D, i), NEW s \in SUBSET D
    PROVE  /\ N[s] \in Scalars /\ N[{}] = 1 /\ M[s] \in Scalars /\ M[{}] = 1
           /\ \A j \in s : N[s] = Mul(Sub(0, X[j]), N[s \ {j}])
           /\ \A j \in s : M[s] = Mul(Sub(X[i], X[j]), M[s \ {j}])
           /\ i \notin s => M[s] # 0
<1> DEFINE F == [j \in D |-> Sub(0, X[j])]
           G == [j \in D |-> Sub(X[i], X[j])]
<1>1. X \in [D -> Scalars] /\ 0 \in Scalars
    BY ScalarsAreInts DEF Points
<1>2. ASSUME NEW j \in D
      PROVE  /\ Sub(0, X[j]) \in Scalars /\ Sub(X[i], X[j]) \in Scalars
             /\ Sub(X[i], X[j]) = 0 <=> i = j
    <2>1. X[i] \in Scalars /\ X[j] \in Scalars /\ (X[i] = X[j] <=> i = j)
        BY <1>1 DEF Points
    <2>2. Sub(0, X[j]) \in Scalars
        BY <1>1, <2>1, SubLaws
    <2>3. Sub(X[i], X[j]) \in Scalars /\ (Sub(X[i], X[j]) = 0 <=> X[i] = X[j])
        BY <2>1, SubLaws
    <2>4. QED
        BY <2>1, <2>2, <2>3
<1>3. F \in [D -> Scalars] /\ G \in [D -> Scalars] /\ DOMAIN F = D /\ DOMAIN G = D
    BY <1>2
<1>4. /\ N \in [SUBSET D -> Scalars] /\ N[{}] = 1
      /\ \A r \in SUBSET D : \A j \in r : N[r] = Times[<<F[j], N[r \ {j}]>>]
    BY <1>3 DEF Numerators, Table, Differences
<1>5. /\ M \in [SUBSET D -> Scalars] /\ M[{}] = 1
      /\ \A r \in SUBSET D : \A j \in r : M[r] = Times[<<G[j], M[r \ {j}]>>]
    BY <1>3 DEF Denominators, Table, Differences
<1>6. ASSUME NEW r \in SUBSET D, NEW j \in r
      PROVE  N[r] = Mul(Sub(0, X[j]), N[r \ {j}]) /\ M[r] = Mul(Sub(X[i], X[j]), M[r \ {j}])
    <2>1. r \ {j} \in SUBSET D /\ j \in D
        OBVIOUS
    <2>2. PICK a \in Scalars, b \in Scalars, u \in Scalars, v \in Scalars :
              a = F[j] /\ b = N[r \ {j}] /\ u = G[j] /\ v = M[r \ {j}]
        BY <1>3, <1>4, <1>5, <2>1
    <2>3. N[r] = Times[<<a, b>>] /\ M[r] = Times[<<u, v>>]
        BY <1>4, <1>5, <2>2
    <2>4. N[r] = Mul(a, b) /\ M[r] = Mul(u, v)
        BY <2>3, SumsCommute
    <2>5. QED
        BY <2>1, <2>2, <2>4
<1> DEFINE T == {r \in SUBSET D : i \notin r => M[r] # 0}
<1>7. {} \in T
    BY <1>5, NonZeroProduct, ScalarsAreInts
<1>8. ASSUME NEW r \in SUBSET D, r # {}, r \ {Picked(r)} \in T PROVE r \in T
    <2> SUFFICES ASSUME i \notin r PROVE M[r] # 0
        OBVIOUS
    <2>1. PICK j \in r : j = Picked(r)
        BY <1>8 DEF Picked
    <2>2. M[r \ {j}] # 0 /\ M[r \ {j}] \in Scalars
        BY <1>5, <1>8, <2>1
    <2>3. Sub(X[i], X[j]) # 0 /\ Sub(X[i], X[j]) \in Scalars
        BY <1>2, <2>1
    <2>4. QED
        BY <1>6, <2>2, <2>3, NonZeroProduct
<1>9. \A r \in SUBSET D : r \in T
    <2> HIDE DEF T
    <2> DEFINE pick == [r \in (SUBSET D) \ {{}} |-> Picked(r)]
    <2>1. \A r \in SUBSET D : r # {} => Picked(r) \in r
        BY DEF Picked
    <2>2. pick \in Picks(D)
        BY <2>1 DEF Picks
    <2>3. \A r \in SUBSET D : r # {} /\ r \ {pick[r]} \in T => r \in T
        BY <1>8
    <2> HIDE DEF pick
    <2>4. SUBSET D \subseteq T
        BY <1>7, <2>2, <2>3, SubsetInduction
    <2>5. QED
        BY <2>4
<1>10. QED
    BY <1>4, <1>5, <1>6, <1>9

(* A quotient of products, when a factor of each is left out. *)
LEMMA QuotientStep ==
    ASSUME NEW e \in Scalars, NEW n \in Scalars, NEW d \in Scalars, NEW m \in Scalars,
           d # 0, m # 0
    PROVE  Mul(Mul(Mul(e, n), Invert(Mul(d, m))), d) = Mul(Mul(n, Invert(m)), e)
<1>1. PICK dm \in Scalars : dm = Mul(d, m) /\ dm # 0
    <2>1. Mul(d, m) \in Scalars
        BY MulLaws
    <2>2. QED
        BY <2>1, NonZeroProduct
<1>2. PICK q \in Scalars : q = Invert(dm) /\ Mul(dm, q) = 1
    BY <1>1, InvertLaw
<1>3. PICK p \in Scalars : p = Invert(m) /\ Mul(m, p) = 1
    BY InvertLaw
<1>4. PICK qd \in Scalars : qd = Mul(q, d)
    BY MulLaws
<1>5. Mul(qd, m) = Mul(q, dm) /\ Mul(q, dm) = Mul(dm, q) /\ Mul(p, m) = Mul(m, p)
    BY <1>1, <1>4, MulLaws
<1>6. p = qd
    BY <1>2, <1>3, <1>5, Cancel
<1>7. PICK en \in Scalars, np \in Scalars : en = Mul(e, n) /\ np = Mul(n, p)
    BY MulLaws
<1>8. Mul(Mul(en, q), d) = Mul(en, qd)
    BY <1>4, MulLaws
<1>9. Mul(en, p) = Mul(e, np) /\ Mul(e, np) = Mul(np, e)
    BY <1>7, MulLaws
<1>10. QED
    BY <1>1, <1>2, <1>3, <1>6, <1>7, <1>8, <1>9

(* The quotients of the products are weights. *)
LEMMA QuotientsAreWeights ==
    ASSUME NEW D, IsFiniteSet(D), NEW X, Points(X, D), NEW N, Numerators(N, X, D),
           NEW M, \A i \in D : Denominators(M[i], X, D, i), NEW W, Quotients(W, N, M, D)
    PROVE  Weights(W, X, D)
<1>1. ASSUME NEW s \in SUBSET D, NEW i \in s
      PROVE  /\ W[s][i] = Mul(N[s \ {i}], Invert(M[i][s \ {i}])) /\ i \in D
             /\ N[s \ {i}] \in Scalars /\ M[i][s \ {i}] \in Scalars /\ M[i][s \ {i}] # 0
             /\ s \ {i} \in SUBSET D /\ i \notin s \ {i}
    <2>1. PICK r \in SUBSET D : r = s \ {i} /\ i \notin r
        <3>1. s \ {i} \in SUBSET D /\ i \notin s \ {i}
            OBVIOUS
        <3>2. QED
            BY <3>1, Zenon
    <2>2. PICK m : m = M[i] /\ Denominators(m, X, D, i)
        OBVIOUS
    <2>3. N[r] \in Scalars /\ m[r] \in Scalars /\ m[r] # 0
        BY <2>1, <2>2, ProductTables
    <2>4. W[s][i] = Mul(N[s \ {i}], Invert(M[i][s \ {i}]))
        BY DEF Quotients
    <2>5. QED
        BY <2>1, <2>2, <2>3, <2>4
<1>2. W \in [SUBSET D -> [D -> Scalars]]
    <2>1. ASSUME NEW s \in SUBSET D, NEW i \in D PROVE W[s][i] \in Scalars
        <3>1. CASE i \in s
            <4>1. PICK n \in Scalars, m \in Scalars : n = N[s \ {i}] /\ m = M[i][s \ {i}] /\ m # 0
                <5>1. N[s \ {i}] \in Scalars /\ M[i][s \ {i}] \in Scalars /\ M[i][s \ {i}] # 0
                    BY <1>1, <3>1
                <5>2. QED
                    BY <5>1, Zenon
            <4>2. Invert(m) \in Scalars
                BY <4>1, InvertLaw
            <4>3. Mul(n, Invert(m)) \in Scalars
                BY <4>2, MulLaws
            <4>4. QED
                BY <1>1, <3>1, <4>1, <4>3
        <3>2. CASE i \notin s
            BY <3>2, ScalarsAreInts DEF Quotients
        <3>3. QED
            BY <3>1, <3>2
    <2>2. W = [s \in SUBSET D |-> [i \in D |-> W[s][i]]]
        BY DEF Quotients
    <2>3. QED
        BY <2>1, <2>2
<1>3. ASSUME NEW i \in D PROVE W[{i}][i] = 1
    <2>1. PICK m : m = M[i] /\ Denominators(m, X, D, i)
        OBVIOUS
    <2>2. {} \in SUBSET D
        OBVIOUS
    <2>3. N[{}] = 1 /\ m[{}] = 1
        BY <2>1, <2>2, ProductTables
    <2>4. {i} \ {i} = {} /\ {i} \in SUBSET D
        OBVIOUS
    <2>5. W[{i}][i] = Mul(1, Invert(1))
        BY <1>1, <2>1, <2>3, <2>4
    <2>6. 1 \in Scalars /\ 1 # 0
        BY NonZeroProduct, ScalarsAreInts
    <2>7. Mul(1, Invert(1)) = 1
        BY <2>6, InvertLaw
    <2>8. QED
        BY <2>5, <2>7
<1>4. ASSUME NEW s \in SUBSET D, NEW i \in s, NEW j \in s, i # j
      PROVE  Mul(W[s][i], Sub(X[i], X[j])) = Mul(W[s \ {j}][i], Sub(0, X[j]))
    <2>1. PICK r \in SUBSET D : r = s \ {i} /\ j \in r
        BY <1>4
    <2>2. PICK q \in SUBSET D : q = r \ {j} /\ i \notin q
        BY <2>1
    <2>3. PICK m : m = M[i] /\ Denominators(m, X, D, i)
        OBVIOUS
    <2>4. N[r] = Mul(Sub(0, X[j]), N[q]) /\ m[r] = Mul(Sub(X[i], X[j]), m[q])
        <3>1. i \in D /\ j \in r
            BY <2>1
        <3>2. /\ N[r] = Mul(Sub(0, X[j]), N[r \ {j}])
              /\ m[r] = Mul(Sub(X[i], X[j]), m[r \ {j}])
            BY <2>3, <3>1, ProductTables, SMTT(30)
        <3>3. QED
            BY <2>2, <3>1, <3>2
    <2>5. N[q] \in Scalars /\ m[q] \in Scalars /\ m[q] # 0
        BY <2>2, <2>3, ProductTables
    <2>6. X[i] \in Scalars /\ X[j] \in Scalars /\ X[i] # X[j] /\ 0 \in Scalars
        BY <1>4, ScalarsAreInts DEF Points
    <2>7. PICK d \in Scalars : d = Sub(X[i], X[j]) /\ d # 0
        <3>1. Sub(X[i], X[j]) \in Scalars /\ (Sub(X[i], X[j]) = 0 <=> X[i] = X[j])
            BY <2>6, SubLaws
        <3>2. QED
            BY <2>6, <3>1
    <2>8. PICK e \in Scalars : e = Sub(0, X[j])
        <3>1. Sub(0, X[j]) \in Scalars
            BY <2>6, SubLaws
        <3>2. QED
            BY <3>1
    <2>9. W[s][i] = Mul(Mul(e, N[q]), Invert(Mul(d, m[q])))
        BY <1>1, <2>1, <2>3, <2>4, <2>7, <2>8
    <2>10. W[s \ {j}][i] = Mul(N[q], Invert(m[q]))
        <3>1. s \ {j} \in SUBSET D /\ i \in s \ {j}
            BY <1>4
        <3>2. (s \ {j}) \ {i} = q
            BY <2>1, <2>2
        <3>3. W[s \ {j}][i] = Mul(N[(s \ {j}) \ {i}], Invert(M[i][(s \ {j}) \ {i}]))
            BY <1>1, <3>1
        <3>4. QED
            BY <2>3, <3>2, <3>3, Zenon
    <2>11. PICK n \in Scalars, k \in Scalars : n = N[q] /\ k = m[q] /\ k # 0
        BY <2>5
    <2>12. Mul(Mul(Mul(e, n), Invert(Mul(d, k))), d) = Mul(Mul(n, Invert(k)), e)
        BY <2>7, <2>11, QuotientStep
    <2>13. QED
        BY <2>7, <2>8, <2>9, <2>10, <2>11, <2>12
<1>5. QED
    BY <1>2, <1>3, <1>4 DEF Weights, WeightsAt

(***************************************************************************)
(* The folds of the code.                                                  *)
(***************************************************************************)
(* h takes the steps of FoldLeft, where it was right before them. *)
StepsLike(h, g, F, op, base, n) ==
    /\ h[{}] = base
    /\ \A s \in SUBSET (1..n) :
          s # {} /\ h[s \ {Max(s)}] = g[s \ {Max(s)}]
              => h[s] = op[<<F[Max(s)], g[s \ {Max(s)}]>>]

(* A function that the recursion of FoldLeft defines is the table. *)
LEMMA FoldLeftTable ==
    ASSUME NEW n \in Nat, NEW F \in [1..n -> Scalars], NEW op, NEW base,
           NEW g, Table(g, F, op, base), NEW h, StepsLike(h, g, F, op, base, n)
    PROVE  h[1..n] = g[1..n]
<1> DEFINE D == 1..n
           pick == [s \in (SUBSET D) \ {{}} |-> Max(s)]
           T == {s \in SUBSET D : h[s] = g[s]}
<1>1. \A s \in SUBSET D : s # {} => Max(s) \in s
    BY EndsArePicked
<1>2. IsFiniteSet(D) /\ pick \in Picks(D)
    <2>1. pick \in Picks(D)
        BY <1>1 DEF Picks
    <2>2. QED
        BY <2>1, FS_Interval
<1> HIDE DEF D
<1>3. {} \in T
    BY DEF Table, StepsLike
<1>4. ASSUME NEW s \in SUBSET D, s # {}, s \ {pick[s]} \in T PROVE s \in T
    <2>1. PICK p \in s : p = Max(s)
        BY <1>1, <1>4
    <2>2. h[s \ {p}] = g[s \ {p}]
        BY <1>4, <2>1
    <2>3. h[s] = op[<<F[p], g[s \ {p}]>>]
        BY <1>4, <2>1, <2>2 DEF D, StepsLike
    <2>4. DOMAIN F = D
        BY DEF D
    <2>5. g[s] = op[<<F[p], g[s \ {p}]>>]
        BY <2>4 DEF Table
    <2>6. QED
        BY <2>3, <2>5
<1> HIDE DEF pick, T
<1>5. SUBSET D \subseteq T
    BY <1>2, <1>3, <1>4, SubsetInduction
<1>6. QED
    BY <1>5 DEF T, D

(* Product is the table of products. *)
LEMMA ProductIsTable ==
    ASSUME NEW n \in Nat, NEW F \in [1..n -> Scalars], NEW g, Table(g, F, Times, 1)
    PROVE  Product(F) = g[1..n]
<1> DEFINE D == 1..n
           Body(h) == [s \in SUBSET D |-> IF s = {} THEN 1 ELSE Mul(h[s \ {Max(s)}], F[Max(s)])]
           iter == CHOOSE h : h = Body(h)
<1>1. DOMAIN F = D /\ g \in [SUBSET D -> Scalars] /\ g[{}] = 1
    BY DEF Table
<1>2. ASSUME NEW s \in SUBSET D, s # {}
      PROVE  /\ g[s] = Mul(g[s \ {Max(s)}], F[Max(s)])
             /\ g[s] = Times[<<F[Max(s)], g[s \ {Max(s)}]>>]
    <2>1. PICK p \in s : p = Max(s)
        BY <1>2, EndsArePicked
    <2> HIDE DEF D
    <2>2. s \ {p} \in SUBSET D /\ p \in D
        OBVIOUS
    <2>3. PICK a \in Scalars, b \in Scalars : a = F[p] /\ b = g[s \ {p}]
        BY <1>1, <2>2 DEF D
    <2>4. g[s] = Times[<<a, b>>]
        BY <1>1, <2>3 DEF Table
    <2>5. Times[<<a, b>>] = Mul(a, b) /\ Mul(a, b) = Mul(b, a)
        BY SumsCommute, MulLaws, SMTT(30)
    <2>6. QED
        BY <2>1, <2>3, <2>4, <2>5
<1>3. g = Body(g)
    <2> HIDE DEF D
    <2>1. QED
        BY <1>1, <1>2
<1>4. iter = Body(iter)
    <2> HIDE DEF Body
    <2>1. QED
        BY <1>3, Zenon
<1>5. Product(F) = iter[D]
    BY <1>1, Zenon DEF Product, FoldLeft, MapThenFoldSet
<1> HIDE DEF iter
<1>6. iter[{}] = 1
    BY <1>4
<1>7. ASSUME NEW s \in SUBSET (1..n), s # {}, iter[s \ {Max(s)}] = g[s \ {Max(s)}]
      PROVE  iter[s] = Times[<<F[Max(s)], g[s \ {Max(s)}]>>]
    <2>1. iter[s] = Mul(iter[s \ {Max(s)}], F[Max(s)])
        BY <1>4, <1>7
    <2>2. QED
        BY <1>2, <1>7, <2>1
<1>8. iter[1..n] = g[1..n]
    <2>1. StepsLike(iter, g, F, Times, 1, n)
        BY <1>6, <1>7 DEF StepsLike
    <2>2. QED
        BY <2>1, FoldLeftTable
<1>9. QED
    BY <1>5, <1>8

(* A sum in the order of the indexes is the sum of the entries. *)
LEMMA SumInOrder ==
    ASSUME NEW n \in Nat, NEW F \in [1..n -> Scalars]
    PROVE  FoldLeft(Add, 0, F) = Total(F)
<1> DEFINE D == 1..n
           Body(h) == [s \in SUBSET D |-> IF s = {} THEN 0 ELSE Add(h[s \ {Max(s)}], F[Max(s)])]
           iter == CHOOSE h : h = Body(h)
<1>1. PICK g : Table(g, F, Plus, 0) /\ Total(F) = g[D]
    <2>1. IsFiniteSet(D) /\ F \in [D -> Scalars]
        BY FS_Interval
    <2> HIDE DEF D
    <2>2. QED
        BY <2>1, SumTable
<1>2. DOMAIN F = D /\ g \in [SUBSET D -> Scalars] /\ g[{}] = 0
    BY <1>1 DEF Table
<1>3. ASSUME NEW s \in SUBSET D, s # {}
      PROVE  /\ g[s] = Add(g[s \ {Max(s)}], F[Max(s)])
             /\ g[s] = Plus[<<F[Max(s)], g[s \ {Max(s)}]>>]
    <2>1. PICK p \in s : p = Max(s)
        BY <1>3, EndsArePicked
    <2> HIDE DEF D
    <2>2. s \ {p} \in SUBSET D /\ p \in D
        OBVIOUS
    <2>3. PICK a \in Scalars, b \in Scalars : a = F[p] /\ b = g[s \ {p}]
        BY <1>2, <2>2 DEF D
    <2>4. g[s] = Plus[<<a, b>>]
        BY <1>1, <1>2, <2>3 DEF Table
    <2>5. Plus[<<a, b>>] = Add(a, b) /\ Add(a, b) = Add(b, a)
        BY SumsCommute, AddLaws, ScalarsAreInts
    <2>6. QED
        BY <2>1, <2>3, <2>4, <2>5
<1>4. g = Body(g)
    <2> HIDE DEF D
    <2>1. QED
        BY <1>2, <1>3
<1>5. iter = Body(iter)
    <2> HIDE DEF Body
    <2>1. QED
        BY <1>4, Zenon
<1>6. FoldLeft(Add, 0, F) = iter[D]
    BY <1>2, Zenon DEF FoldLeft, MapThenFoldSet
<1> HIDE DEF iter
<1>7. iter[{}] = 0
    BY <1>5
<1>8. ASSUME NEW s \in SUBSET (1..n), s # {}, iter[s \ {Max(s)}] = g[s \ {Max(s)}]
      PROVE  iter[s] = Plus[<<F[Max(s)], g[s \ {Max(s)}]>>]
    <2>1. iter[s] = Add(iter[s \ {Max(s)}], F[Max(s)])
        BY <1>5, <1>8
    <2>2. QED
        BY <1>3, <1>8, <2>1
<1>9. iter[1..n] = g[1..n]
    <2>1. Table(g, F, Plus, 0)
        BY <1>1
    <2>2. StepsLike(iter, g, F, Plus, 0, n)
        BY <1>7, <1>8 DEF StepsLike
    <2>3. QED
        BY <2>1, <2>2, FoldLeftTable
<1>10. QED
    BY <1>1, <1>6, <1>9

(* A product is zero exactly when one of its factors is. *)
LEMMA ZeroProduct ==
    ASSUME NEW D, IsFiniteSet(D), NEW F \in [D -> Scalars], NEW g, Table(g, F, Times, 1)
    PROVE  \A s \in SUBSET D : g[s] \in Scalars /\ (g[s] = 0 <=> \E i \in s : F[i] = 0)
<1> DEFINE T == {s \in SUBSET D : g[s] = 0 <=> \E i \in s : F[i] = 0}
<1>1. g \in [SUBSET D -> Scalars] /\ g[{}] = 1
    BY DEF Table
<1>2. {} \in T
    BY <1>1
<1>3. ASSUME NEW s \in SUBSET D, s # {}, s \ {Picked(s)} \in T PROVE s \in T
    <2>1. PICK p \in s : p = Picked(s)
        BY <1>3 DEF Picked
    <2>2. PICK a \in Scalars, b \in Scalars : a = F[p] /\ b = g[s \ {p}]
        BY <1>1
    <2>3. g[s] = Mul(a, b)
        BY <2>2, SumsCommute DEF Table
    <2>4. g[s] = 0 <=> a = 0 \/ b = 0
        BY <2>3, NonZeroProduct
    <2>5. b = 0 <=> \E i \in s \ {p} : F[i] = 0
        BY <1>3, <2>1, <2>2
    <2>6. QED
        BY <2>2, <2>4, <2>5
<1>4. SUBSET D \subseteq T
    <2> HIDE DEF T
    <2> DEFINE pick == [r \in (SUBSET D) \ {{}} |-> Picked(r)]
    <2>1. \A r \in SUBSET D : r # {} => Picked(r) \in r
        BY DEF Picked
    <2>2. pick \in Picks(D)
        BY <2>1 DEF Picks
    <2>3. \A r \in SUBSET D : r # {} /\ r \ {pick[r]} \in T => r \in T
        BY <1>3
    <2> HIDE DEF pick
    <2>4. QED
        BY <1>2, <2>2, <2>3, SubsetInduction
<1>5. QED
    BY <1>1, <1>4

(* The products of the beginnings and of the ends of a list. *)
Ends(g, values, n) ==
    /\ \A i \in 0..n : g[1..i] \in Scalars /\ g[(i + 1)..n] \in Scalars
    /\ g[1..0] = 1 /\ g[(n + 1)..n] = 1
    /\ \A i \in 1..n : /\ g[1..i] = Mul(g[1..(i - 1)], values[i])
                       /\ g[i..n] = Mul(values[i], g[(i + 1)..n])

(* A table of products holds them. *)
LEMMA ProductEnds ==
    ASSUME NEW n \in Nat, NEW values \in [1..n -> Scalars], NEW g, Table(g, values, Times, 1)
    PROVE  Ends(g, values, n)
<1>1. /\ DOMAIN values = 1..n /\ g \in [SUBSET (1..n) -> Scalars] /\ g[{}] = 1
      /\ \A s \in SUBSET (1..n) : \A y \in s : g[s] = Times[<<values[y], g[s \ {y}]>>]
    BY DEF Table
<1>2. \A i \in 0..n : 1..i \in SUBSET (1..n) /\ (i + 1)..n \in SUBSET (1..n)
    OBVIOUS
<1>3. 1..0 = {} /\ (n + 1)..n = {}
    OBVIOUS
<1>4. ASSUME NEW i \in 1..n
      PROVE  /\ g[1..i] = Mul(g[1..(i - 1)], values[i])
             /\ g[i..n] = Mul(values[i], g[(i + 1)..n])
    <2>1. /\ 1..i \in SUBSET (1..n) /\ i \in 1..i /\ (1..i) \ {i} = 1..(i - 1)
          /\ i..n \in SUBSET (1..n) /\ i \in i..n /\ (i..n) \ {i} = (i + 1)..n
          /\ 1..(i - 1) \in SUBSET (1..n) /\ (i + 1)..n \in SUBSET (1..n)
        OBVIOUS
    <2>2. PICK v \in Scalars, a \in Scalars, b \in Scalars :
              v = values[i] /\ a = g[1..(i - 1)] /\ b = g[(i + 1)..n]
        BY <1>1, <2>1
    <2>3. g[1..i] = Times[<<values[i], g[(1..i) \ {i}]>>]
        BY <1>1, <2>1, Zenon
    <2>4. g[i..n] = Times[<<values[i], g[(i..n) \ {i}]>>]
        BY <1>1, <2>1, Zenon
    <2>5. g[1..i] = Times[<<v, a>>] /\ g[i..n] = Times[<<v, b>>]
        BY <2>1, <2>2, <2>3, <2>4, Zenon
    <2>6. Times[<<v, a>>] = Mul(v, a) /\ Times[<<v, b>>] = Mul(v, b)
        BY SumsCommute
    <2>7. Mul(v, a) = Mul(a, v)
        BY MulLaws
    <2>8. QED
        BY <2>2, <2>5, <2>6, <2>7
<1>5. QED
    BY <1>1, <1>2, <1>3, <1>4 DEF Ends

(* batch_invert returns nothing when one of the values is zero, and the    *)
(* inverse of each value otherwise: one inversion and the products of the  *)
(* values before and after are enough.                                     *)
THEOREM BatchInversion ==
    ASSUME NEW n \in Nat, NEW values \in [1..n -> Scalars]
    PROVE  BatchInvert(values) = IF \E i \in 1..n : values[i] = 0 THEN << >>
                                 ELSE [i \in 1..n |-> Invert(values[i])]
<1> DEFINE m == Len(values)
           PBody(h) == [i \in 1..(m + 1) |-> IF i = 1 THEN 1 ELSE Mul(h[i - 1], values[i - 1])]
           prefix == CHOOSE h : h = PBody(h)
           ABody(h) == [i \in 0..m |-> IF i = m THEN Invert(prefix[m + 1])
                                       ELSE Mul(h[i + 1], values[i + 1])]
           accInv == CHOOSE h : h = ABody(h)
<1>1. 1 \in Scalars /\ IsFiniteSet(1..n) /\ m = n /\ 0 \in Scalars /\ 1 # 0
    BY NonZeroProduct, ScalarsAreInts, FS_Interval
<1>2. PICK g : Table(g, values, Times, 1)
    <2>1. PICK D : D = 1..n
        OBVIOUS
    <2>2. IsFiniteSet(D) /\ values \in [D -> Scalars]
        BY <1>1, <2>1
    <2>3. QED
        BY <1>1, <2>2, SumsCommute, TableExists
<1>3. Product(values) = g[1..n]
    BY <1>2, ProductIsTable
<1>4. /\ \A i \in 0..n : g[1..i] \in Scalars /\ g[(i + 1)..n] \in Scalars
      /\ g[1..0] = 1 /\ g[(n + 1)..n] = 1
      /\ \A i \in 1..n : /\ g[1..i] = Mul(g[1..(i - 1)], values[i])
                         /\ g[i..n] = Mul(values[i], g[(i + 1)..n])
    <2>1. Ends(g, values, n)
        BY <1>2, ProductEnds
    <2>2. QED
        BY <2>1, Zenon DEF Ends
<1>5. g[1..n] \in Scalars /\ (g[1..n] = 0 <=> \E i \in 1..n : values[i] = 0)
    <2>1. PICK D : D = 1..n
        OBVIOUS
    <2>2. IsFiniteSet(D) /\ values \in [D -> Scalars] /\ D \in SUBSET D
        BY <1>1, <2>1
    <2>3. g[D] \in Scalars /\ (g[D] = 0 <=> \E i \in D : values[i] = 0)
        BY <1>2, <2>2, ZeroProduct
    <2>4. QED
        BY <2>1, <2>3
<1>6. BatchInvert(values) = IF Product(values) = 0 THEN << >>
                            ELSE [i \in 1..m |-> Mul(accInv[i], prefix[i])]
    BY Zenon DEF BatchInvert
<1> HIDE DEF m
<1> SUFFICES ASSUME g[1..n] # 0, NEW j \in 1..n, values[j] # 0
             PROVE  Mul(accInv[j], prefix[j]) = Invert(values[j])
    BY <1>1, <1>3, <1>5, <1>6
<1>7. prefix = [i \in 1..(n + 1) |-> IF i = 1 THEN 1 ELSE Mul(prefix[i - 1], values[i - 1])]
    <2> DEFINE w == [i \in 1..(n + 1) |-> g[1..(i - 1)]]
    <2>1. w = PBody(w)
        <3>1. ASSUME NEW i \in 1..(n + 1)
              PROVE  w[i] = IF i = 1 THEN 1 ELSE Mul(w[i - 1], values[i - 1])
            BY <1>4
        <3>2. QED
            BY <1>1, <3>1
    <2>2. prefix = PBody(prefix)
        <3> HIDE DEF PBody, w
        <3>1. QED
            BY <2>1, Zenon
    <2> HIDE DEF prefix
    <2>3. QED
        BY <1>1, <2>2
<1> HIDE DEF prefix
<1>8. \A k \in Nat : k =< n => prefix[k + 1] = g[1..k]
    <2> DEFINE T == {k \in Nat : k =< n => prefix[k + 1] = g[1..k]}
    <2>1. 0 \in T
        BY <1>4, <1>7
    <2>2. ASSUME NEW k \in Nat, k \in T PROVE k + 1 \in T
        <3> SUFFICES ASSUME k + 1 =< n PROVE prefix[(k + 1) + 1] = g[1..(k + 1)]
            OBVIOUS
        <3>1. prefix[(k + 1) + 1] = Mul(prefix[k + 1], values[k + 1])
            BY <1>7
        <3>2. prefix[k + 1] = g[1..k]
            BY <2>2
        <3>3. QED
            BY <1>4, <3>1, <3>2
    <2> HIDE DEF T
    <2>3. Nat \subseteq T
        BY <2>1, <2>2, Induction
    <2>4. QED
        BY <2>3 DEF T
<1>9. PICK total \in Scalars, inv \in Scalars :
          total = prefix[n + 1] /\ total # 0 /\ inv = Invert(total) /\ Mul(total, inv) = 1
    BY <1>5, <1>8, InvertLaw
<1>10. accInv = [i \in 0..n |-> IF i = n THEN Invert(prefix[n + 1])
                                ELSE Mul(accInv[i + 1], values[i + 1])]
    <2> DEFINE w == [i \in 0..n |-> Mul(inv, g[(i + 1)..n])]
    <2>1. ASSUME NEW i \in 0..n
          PROVE  w[i] = IF i = n THEN Invert(prefix[n + 1]) ELSE Mul(w[i + 1], values[i + 1])
        <3>1. CASE i = n
            BY <1>4, <1>9, <3>1, MulLaws
        <3>2. CASE i # n
            <4>1. i + 1 \in 1..n /\ i + 1 \in 0..n
                BY <3>2
            <4>2. PICK v \in Scalars, b \in Scalars :
                      v = values[i + 1] /\ b = g[((i + 1) + 1)..n]
                BY <1>4, <4>1
            <4>3. w[i] = Mul(inv, Mul(v, b)) /\ w[i + 1] = Mul(inv, b)
                BY <1>4, <4>1, <4>2
            <4>4. Mul(Mul(inv, b), v) = Mul(inv, Mul(b, v)) /\ Mul(b, v) = Mul(v, b)
                BY MulLaws
            <4>5. QED
                BY <3>2, <4>2, <4>3, <4>4
        <3>3. QED
            BY <3>1, <3>2
    <2>2. w = ABody(w)
        BY <1>1, <2>1
    <2>3. accInv = ABody(accInv)
        <3> HIDE DEF ABody, w
        <3>1. QED
            BY <2>2, Zenon
    <2> HIDE DEF accInv
    <2>4. QED
        BY <1>1, <2>3
<1> HIDE DEF accInv
<1> DEFINE Right(i) == accInv[i] \in Scalars /\ Mul(accInv[i], prefix[i + 1]) = 1
<1>11. \A d \in Nat : d =< n => Right(n - d)
    <2> DEFINE T == {d \in Nat : d =< n => Right(n - d)}
    <2>1. 0 \in T
        <3>1. accInv[n] = inv
            BY <1>9, <1>10
        <3>2. Mul(inv, total) = 1
            BY <1>9, MulLaws
        <3>3. n - 0 = n
            OBVIOUS
        <3>4. QED
            BY <1>9, <3>1, <3>2, <3>3
    <2>2. ASSUME NEW d \in Nat, d \in T PROVE d + 1 \in T
        <3> SUFFICES ASSUME d + 1 =< n PROVE Right(n - (d + 1))
            OBVIOUS
        <3>1. PICK i \in 0..(n - 1) : i = n - (d + 1) /\ i + 1 = n - d
            OBVIOUS
        <3>2. PICK a \in Scalars : a = accInv[i + 1] /\ Mul(a, prefix[(i + 1) + 1]) = 1
            BY <2>2, <3>1
        <3>3. PICK v \in Scalars : v = values[i + 1]
            OBVIOUS
        <3>4. accInv[i] = Mul(a, v)
            BY <1>10, <3>2, <3>3
        <3>5. PICK p \in Scalars : p = prefix[i + 1]
            <4>1. i \in Nat /\ i =< n /\ i \in 0..n
                OBVIOUS
            <4>2. prefix[i + 1] \in Scalars
                BY <1>4, <1>8, <4>1
            <4>3. QED
                BY <4>2
        <3>6. prefix[(i + 1) + 1] = Mul(p, v)
            BY <1>7, <3>3, <3>5
        <3>7. Mul(Mul(a, v), p) = Mul(a, Mul(v, p)) /\ Mul(v, p) = Mul(p, v) /\ Mul(a, v) \in Scalars
            BY MulLaws
        <3>8. QED
            BY <3>1, <3>2, <3>4, <3>5, <3>6, <3>7
    <2> HIDE DEF T
    <2>3. Nat \subseteq T
        BY <2>1, <2>2, Induction
    <2>4. QED
        BY <2>3 DEF T
<1>12. Right(j)
    <2>1. n - j \in Nat /\ n - j =< n /\ n - (n - j) = j
        OBVIOUS
    <2> HIDE DEF Right
    <2>2. QED
        BY <1>11, <2>1
<1>13. PICK a \in Scalars, p \in Scalars, v \in Scalars :
           a = accInv[j] /\ p = prefix[j] /\ v = values[j] /\ prefix[j + 1] = Mul(p, v)
    <2>1. j - 1 \in Nat /\ j - 1 =< n /\ (j - 1) + 1 = j /\ j - 1 \in 0..n
        OBVIOUS
    <2>2. prefix[j] \in Scalars
        BY <1>4, <1>8, <2>1
    <2>3. prefix[j + 1] = Mul(prefix[j], values[j])
        <3>1. j + 1 \in 1..(n + 1) /\ j + 1 # 1 /\ (j + 1) - 1 = j
            OBVIOUS
        <3>2. prefix[j + 1] = Mul(prefix[(j + 1) - 1], values[(j + 1) - 1])
            BY <1>7, <3>1
        <3>3. QED
            BY <3>1, <3>2
    <2>4. accInv[j] \in Scalars /\ values[j] \in Scalars
        BY <1>12
    <2>5. QED
        BY <2>2, <2>3, <2>4, Zenon
<1>14. Mul(a, Mul(p, v)) = 1
    BY <1>12, <1>13
<1>15. PICK ap \in Scalars : ap = Mul(a, p)
    BY MulLaws
<1>16. Mul(ap, v) = 1
    BY <1>14, <1>15, MulLaws
<1>17. PICK iv \in Scalars : iv = Invert(v) /\ Mul(v, iv) = 1
    BY <1>13, InvertLaw
<1>18. Mul(iv, v) = 1
    BY <1>17, MulLaws
<1>19. ap = iv
    BY <1>13, <1>16, <1>18, Cancel
<1>20. QED
    BY <1>13, <1>15, <1>17, <1>19

(***************************************************************************)
(* lagrange_coefficients_at_zero.                                          *)
(***************************************************************************)
(* The other points, in the order of the loop. *)
LEMMA RemoveAtEntries ==
    ASSUME NEW m \in Nat, NEW xs \in [1..m -> Scalars], NEW i \in 1..m
    PROVE  /\ RemoveAt(xs, i) \in [1..(m - 1) -> Scalars]
           /\ \A j \in 1..(m - 1) : RemoveAt(xs, i)[j] = xs[IF j < i THEN j ELSE j + 1]
<1> DEFINE a == SubSeq(xs, 1, i - 1)
           b == SubSeq(xs, i + 1, m)
<1>1. xs \in Seq(Scalars) /\ Len(xs) = m
    OBVIOUS
<1>2. /\ a \in Seq(Scalars) /\ Len(a) = i - 1 /\ \A j \in 1..(i - 1) : a[j] = xs[j]
    BY <1>1
<1>3. /\ b \in Seq(Scalars) /\ Len(b) = m - i /\ \A j \in 1..(m - i) : b[j] = xs[i + j]
    BY <1>1
<1>4. RemoveAt(xs, i) = a \o b
    BY <1>1 DEF RemoveAt
<1> HIDE DEF a, b
<1>5. a \o b \in Seq(Scalars) /\ Len(a \o b) = m - 1
    <2>1. a \o b \in Seq(Scalars) /\ Len(a \o b) = Len(a) + Len(b)
        <3>1. a \in Seq(Scalars) /\ b \in Seq(Scalars)
            BY <1>2, <1>3
        <3>2. QED
            BY <3>1
    <2>2. (i - 1) + (m - i) = m - 1
        OBVIOUS
    <2>3. QED
        BY <1>2, <1>3, <2>1, <2>2
<1>6. ASSUME NEW j \in 1..(m - 1) PROVE (a \o b)[j] = xs[IF j < i THEN j ELSE j + 1]
    <2>1. CASE j < i
        BY <1>2, <1>3, <2>1
    <2>2. CASE ~(j < i)
        <3>1. (a \o b)[j] = b[j - (i - 1)]
            BY <1>2, <1>3, <2>2
        <3>2. j - (i - 1) \in 1..(m - i) /\ i + (j - (i - 1)) = j + 1
            BY <2>2
        <3>3. QED
            BY <1>3, <2>2, <3>1, <3>2
    <2>3. QED
        BY <2>1, <2>2
<1>7. PICK r \in Seq(Scalars) : r = RemoveAt(xs, i) /\ Len(r) = m - 1
    BY <1>4, <1>5
<1>8. r \in [1..(m - 1) -> Scalars]
    BY <1>7
<1>9. QED
    BY <1>4, <1>6, <1>7, <1>8

(* The product of the differences of a and the entries of a list. *)
DifferenceProduct(a, ys) == Product([j \in DOMAIN ys |-> Sub(a, ys[j])])

(* xs is a list of scalars, with indexes D. *)
IsList(xs, D, m) == D = 1..m /\ xs \in [D -> Scalars]

(* The product of the differences to the other points. *)
LEMMA OthersProduct ==
    ASSUME NEW m \in Nat, NEW D, NEW xs, IsList(xs, D, m), NEW i \in D,
           NEW a \in Scalars, NEW M, Table(M, Differences(a, xs, D), Times, 1)
    PROVE  DifferenceProduct(a, RemoveAt(xs, i)) = M[D \ {i}]
<1> USE DEF IsList
<1>1. PICK F \in [1..m -> Scalars] :
          Differences(a, xs, 1..m) = F /\ \A j \in 1..m : F[j] = Sub(a, xs[j])
    <2>1. \A j \in 1..m : Sub(a, xs[j]) \in Scalars
        BY Closed, ScalarsAreInts
    <2>2. QED
        BY <2>1 DEF Differences
<1> DEFINE E == 1..(m - 1)
           sigma == [j \in E |-> IF j < i THEN j ELSE j + 1]
           G == [j \in DOMAIN RemoveAt(xs, i) |-> Sub(a, RemoveAt(xs, i)[j])]
           R == (1..m) \ {i}
<1>2. m - 1 \in Nat /\ IsFiniteSet(E) /\ 1 \in Scalars
    BY FS_Interval, NonZeroProduct, ScalarsAreInts
<1>3. sigma \in [E -> 1..m]
    OBVIOUS
<1>4. DOMAIN RemoveAt(xs, i) = E /\ \A j \in E : RemoveAt(xs, i)[j] = xs[sigma[j]]
    BY RemoveAtEntries
<1>5. \A j \in E : G[j] = F[sigma[j]]
    BY <1>1, <1>3, <1>4
<1>6. G \in [E -> Scalars]
    <2>1. \A j \in E : F[sigma[j]] \in Scalars
        BY <1>3
    <2>2. QED
        BY <1>4, <1>5, <2>1
<1>7. R = {sigma[j] : j \in E}
    <2>1. ASSUME NEW k \in R PROVE k \in {sigma[j] : j \in E}
        <3>1. CASE k < i
            <4>1. k \in E /\ sigma[k] = k
                BY <3>1
            <4>2. QED
                BY <4>1
        <3>2. CASE ~(k < i)
            <4>1. k - 1 \in E /\ sigma[k - 1] = k
                BY <3>2
            <4>2. QED
                BY <4>1
        <3>3. QED
            BY <3>1, <3>2
    <2>2. ASSUME NEW j \in E PROVE sigma[j] \in R
        OBVIOUS
    <2>3. QED
        BY <2>1, <2>2
<1>8. \A k, l \in E : sigma[k] = sigma[l] => k = l
    OBVIOUS
<1>9. Reindexing(sigma, E, 1..m, R, G, F)
    BY <1>3, <1>5, <1>7, <1>8 DEF Reindexing
<1>10. G \in [1..(m - 1) -> Scalars]
    BY <1>6
<1> HIDE DEF E, sigma, G, R
<1>11. PICK g : Table(g, G, Times, 1)
    BY <1>2, <1>6, SumsCommute, TableExists
<1>12. Product(G) = g[1..(m - 1)]
    BY <1>2, <1>10, <1>11, ProductIsTable
<1>13. F \in [D -> Scalars] /\ Reindexing(sigma, E, D, R, G, F)
    BY <1>9
<1>14. g[E] = M[R]
    BY <1>1, <1>2, <1>6, <1>11, <1>13, TableReindex
<1>15. QED
    BY <1>12, <1>14 DEF E, G, R, DifferenceProduct

(* N and M hold the products the code computes for the points xs. *)
CodeTables(N, M, xs, D) ==
    /\ Numerators(N, xs, D)
    /\ \A i \in D : Denominators(M[i], xs, D, i)
    /\ \A i \in D : /\ DifferenceProduct(0, RemoveAt(xs, i)) = N[D \ {i}]
                    /\ DifferenceProduct(xs[i], RemoveAt(xs, i)) = M[i][D \ {i}]

(* The tables of products hold them. *)
LEMMA TablesHold ==
    ASSUME NEW m \in Nat, NEW D, NEW xs, IsList(xs, D, m), NEW N, Numerators(N, xs, D),
           NEW M, \A i \in D : Denominators(M[i], xs, D, i)
    PROVE  CodeTables(N, M, xs, D)
<1>1. ASSUME NEW i \in D
      PROVE  /\ DifferenceProduct(0, RemoveAt(xs, i)) = N[D \ {i}]
             /\ DifferenceProduct(xs[i], RemoveAt(xs, i)) = M[i][D \ {i}]
    <2>1. PICK a \in Scalars, z \in Scalars : a = xs[i] /\ z = 0
        BY ScalarsAreInts DEF IsList
    <2>2. Table(N, Differences(z, xs, D), Times, 1)
        BY <2>1 DEF Numerators
    <2>3. PICK h : h = M[i] /\ Table(h, Differences(a, xs, D), Times, 1)
        BY <2>1 DEF Denominators
    <2>4. DifferenceProduct(z, RemoveAt(xs, i)) = N[D \ {i}]
        BY <2>2, OthersProduct
    <2>5. DifferenceProduct(a, RemoveAt(xs, i)) = h[D \ {i}]
        BY <2>3, OthersProduct
    <2>6. QED
        BY <2>1, <2>3, <2>4, <2>5
<1>2. QED
    BY <1>1 DEF CodeTables

(* There are such tables. *)
LEMMA CodeProducts ==
    ASSUME NEW m \in Nat, NEW xs \in [1..m -> Scalars]
    PROVE  \E N, M : CodeTables(N, M, xs, 1..m)
<1> DEFINE D == 1..m
<1>1. IsFiniteSet(D) /\ 1 \in Scalars /\ 0 \in Scalars
    BY FS_Interval, NonZeroProduct, ScalarsAreInts
<1>2. ASSUME NEW a \in Scalars PROVE \E g : Table(g, Differences(a, xs, D), Times, 1)
    <2>1. PICK f \in [D -> Scalars] : f = Differences(a, xs, D)
        <3>1. \A j \in 1..m : Sub(a, xs[j]) \in Scalars
            BY Closed, ScalarsAreInts
        <3>2. QED
            BY <3>1 DEF Differences
    <2>2. \E g : Table(g, f, Times, 1)
        <3> HIDE DEF D
        <3>1. QED
            BY <1>1, SumsCommute, TableExists
    <2>3. QED
        BY <2>1, <2>2
<1>3. PICK N : Table(N, Differences(0, xs, D), Times, 1)
    BY <1>1, <1>2
<1> DEFINE M == [i \in D |-> CHOOSE g : Table(g, Differences(xs[i], xs, D), Times, 1)]
<1>4. ASSUME NEW i \in D PROVE Table(M[i], Differences(xs[i], xs, D), Times, 1)
    <2>1. xs[i] \in Scalars
        OBVIOUS
    <2>2. \E g : Table(g, Differences(xs[i], xs, D), Times, 1)
        BY <1>2, <2>1
    <2>3. Table(CHOOSE g : Table(g, Differences(xs[i], xs, D), Times, 1),
                Differences(xs[i], xs, D), Times, 1)
        BY <2>2, Zenon
    <2>4. M[i] = CHOOSE g : Table(g, Differences(xs[i], xs, D), Times, 1)
        OBVIOUS
    <2>5. QED
        BY <2>3, <2>4, Zenon
<1> HIDE DEF M
<1>5. Numerators(N, xs, D)
    BY <1>3 DEF Numerators
<1>6. \A i \in D : Denominators(M[i], xs, D, i)
    BY <1>4 DEF Denominators
<1>7. IsList(xs, D, m)
    BY DEF IsList
<1> HIDE DEF D
<1>8. CodeTables(N, M, xs, D)
    BY <1>5, <1>6, <1>7, TablesHold
<1>9. QED
    BY <1>8 DEF D

(* The coefficients are the Lagrange weights of the points when no two     *)
(* points agree, and there are none otherwise.                             *)
LEMMA CoefficientsAreWeights ==
    ASSUME NEW m \in Nat \ {0}, NEW xs \in [1..m -> Scalars]
    PROVE  /\ (\E i, j \in 1..m : i # j /\ xs[i] = xs[j])
                  => LagrangeCoefficientsAtZero(xs) = << >>
           /\ Points(xs, 1..m)
                  => \E W : /\ Weights(W, xs, 1..m)
                            /\ LagrangeCoefficientsAtZero(xs) = [i \in 1..m |-> W[1..m][i]]
<1> DEFINE D == 1..m
           denominators == [i \in 1..Len(xs) |-> DifferenceProduct(xs[i], RemoveAt(xs, i))]
           inverses == BatchInvert(denominators)
<1>1. LagrangeCoefficientsAtZero(xs)
          = [i \in 1..Len(inverses) |-> Mul(DifferenceProduct(0, RemoveAt(xs, i)), inverses[i])]
    BY DEF LagrangeCoefficientsAtZero, DifferenceProduct
<1>2. PICK N, M : CodeTables(N, M, xs, D)
    <2>1. m \in Nat
        OBVIOUS
    <2>2. QED
        BY <2>1, CodeProducts
<1> USE <1>2 DEF CodeTables
<1>3. Len(xs) = m /\ IsFiniteSet(D)
    <2>1. m \in Nat
        OBVIOUS
    <2>2. IsFiniteSet(1..m)
        BY <2>1, FS_Interval
    <2>3. Len(xs) = m
        BY <2>1
    <2>4. QED
        BY <2>2, <2>3
<1>4. \A i \in D : M[i] \in [SUBSET D -> Scalars]
    BY <1>2 DEF Denominators, Table, Differences
<1>5. /\ denominators \in [D -> Scalars] /\ \A i \in D : denominators[i] = M[i][D \ {i}]
    <2>1. \A i \in D : D \ {i} \in SUBSET D
        OBVIOUS
    <2>2. \A i \in D : M[i][D \ {i}] \in Scalars
        BY <1>4, <2>1
    <2>3. QED
        BY <1>2, <1>3, <2>2
<1>6. inverses = IF \E i \in D : denominators[i] = 0 THEN << >>
                 ELSE [i \in D |-> Invert(denominators[i])]
    <2> HIDE DEF denominators
    <2>1. QED
        BY <1>5, BatchInversion
<1> HIDE DEF denominators, inverses
<1>7. ASSUME NEW i \in D, NEW j \in D, i # j, xs[i] = xs[j]
      PROVE  LagrangeCoefficientsAtZero(xs) = << >>
    <2>1. PICK F \in [D -> Scalars] :
              F = Differences(xs[i], xs, D) /\ \A l \in D : F[l] = Sub(xs[i], xs[l])
        <3>1. \A l \in D : Sub(xs[i], xs[l]) \in Scalars
            BY Closed, ScalarsAreInts
        <3>2. Differences(xs[i], xs, D) \in [D -> Scalars]
            BY <3>1 DEF Differences
        <3>3. \A l \in D : Differences(xs[i], xs, D)[l] = Sub(xs[i], xs[l])
            BY DEF Differences
        <3>4. QED
            BY <3>2, <3>3, Zenon
    <2>2. Table(M[i], F, Times, 1)
        BY <1>2, <2>1 DEF Denominators
    <2>3. F[j] = 0 /\ j \in D \ {i} /\ D \ {i} \in SUBSET D
        <3>1. Sub(xs[i], xs[i]) = 0
            BY SubLaws
        <3>2. QED
            BY <1>7, <2>1, <3>1
    <2>4. PICK h : h = M[i]
        OBVIOUS
    <2> HIDE DEF D
    <2>5. h[D \ {i}] = 0
        BY <1>3, <2>2, <2>3, <2>4, ZeroProduct
    <2>6. denominators[i] = 0
        BY <1>5, <2>4, <2>5
    <2>7. inverses = << >>
        BY <1>6, <2>6
    <2>8. 1..Len(inverses) = {}
        BY <2>7
    <2>9. QED
        BY <1>1, <2>8
<1>8. ASSUME Points(xs, D)
      PROVE  \E W : /\ Weights(W, xs, D)
                    /\ LagrangeCoefficientsAtZero(xs) = [i \in D |-> W[D][i]]
    <2> DEFINE W == [s \in SUBSET D |-> [i \in D |->
                        IF i \in s THEN Mul(N[s \ {i}], Invert(M[i][s \ {i}])) ELSE 0]]
    <2>1. Quotients(W, N, M, D)
        BY DEF Quotients
    <2>2. \A i \in D : W[D][i] = Mul(N[D \ {i}], Invert(M[i][D \ {i}]))
        <3> HIDE DEF D
        <3>1. QED
            OBVIOUS
    <2> HIDE DEF W
    <2>3. Weights(W, xs, D)
        <3> HIDE DEF D
        <3>1. QED
            BY <1>2, <1>3, <1>8, <2>1, QuotientsAreWeights
    <2>4. ASSUME NEW i \in D PROVE denominators[i] # 0
        <3>1. PICK h : h = M[i] /\ Denominators(h, xs, D, i)
            BY <1>2
        <3>2. PICK r \in SUBSET D : r = D \ {i} /\ i \notin r
            <4> HIDE DEF D
            <4>1. D \ {i} \in SUBSET D /\ i \notin D \ {i}
                OBVIOUS
            <4>2. QED
                BY <4>1, Zenon
        <3>3. h[r] # 0
            <4> HIDE DEF D
            <4>1. QED
                BY <1>2, <1>3, <1>8, <3>1, <3>2, ProductTables
        <3>4. QED
            BY <1>5, <3>1, <3>2, <3>3
    <2>5. inverses = [i \in D |-> Invert(denominators[i])]
        BY <1>6, <2>4
    <2>6. 1..Len(inverses) = D
        BY <2>5
    <2>7. ASSUME NEW i \in D PROVE Mul(DifferenceProduct(0, RemoveAt(xs, i)), inverses[i]) = W[D][i]
        BY <1>2, <1>5, <2>2, <2>5
    <2>8. LagrangeCoefficientsAtZero(xs) = [i \in D |-> W[D][i]]
        BY <1>1, <2>6, <2>7
    <2>9. QED
        BY <2>3, <2>8
<1>9. QED
    BY <1>7, <1>8

(***************************************************************************)
(* reconstruct_secret.                                                     *)
(***************************************************************************)
(* m shares of the polynomial C, each at its participant's index. *)
SharesOfPolynomial(shares, C, m) ==
    /\ shares \in [1..m -> [participant : Nat, value : Scalars]]
    /\ \A i \in 1..m : shares[i].value = Evaluate(C, shares[i].participant)

(* The points of shares. *)
PointsOf(shares, m) == [i \in 1..m |-> ToScalar(shares[i].participant)]

(* The values of shares. *)
ValuesOf(shares, m) == [i \in 1..m |-> shares[i].value]

(* A participant's share is the value of the polynomial at its point. *)
LEMMA HornerAtPoint ==
    ASSUME NEW n \in Nat, NEW C \in [1..n -> Scalars], NEW p \in Nat
    PROVE  /\ ToScalar(p) \in Scalars
           /\ \E t : Horner(t, C, ToScalar(p), n) /\ Evaluate(C, p) = t[1]
<1>1. PICK t : Horner(t, C, p, n) /\ Evaluate(C, p) = t[1]
    BY EvaluateIsHorner
<1>2. p \in Int /\ ToScalar(p) \in Scalars
    BY Remainder DEF ToScalar
<1>3. ASSUME NEW i \in 1..n PROVE Mul(t[i + 1], ToScalar(p)) = Mul(t[i + 1], p)
    <2>1. t[i + 1] \in Int
        <3>1. t \in [1..(n + 1) -> Scalars] /\ i + 1 \in 1..(n + 1)
            BY <1>1 DEF Horner
        <3>2. t[i + 1] \in Scalars
            BY <3>1
        <3>3. QED
            BY <3>2, ScalarsAreInts
    <2>2. PICK u \in Int : u = t[i + 1]
        BY <2>1
    <2>3. (u * (p % P)) % P = (u * p) % P
        BY <1>2, RemainderOfProduct
    <2>4. QED
        BY <2>2, <2>3 DEF Mul, ToScalar
<1>4. Horner(t, C, ToScalar(p), n)
    BY <1>1, <1>3 DEF Horner
<1>5. QED
    BY <1>1, <1>2, <1>4

(* Weighting the values of at least n shares of a polynomial of n          *)
(* coefficients gives its first coefficient.                               *)
LEMMA SharesInterpolate ==
    ASSUME NEW n \in Nat \ {0}, NEW C \in [1..n -> Scalars], NEW m \in Nat, m >= n,
           NEW shares, SharesOfPolynomial(shares, C, m),
           NEW W, Weights(W, PointsOf(shares, m), 1..m), Points(PointsOf(shares, m), 1..m)
    PROVE  Weighted(W, 1..m, ValuesOf(shares, m)) = C[1]
<1> DEFINE D == 1..m
           X == PointsOf(shares, m)
           phi == ValuesOf(shares, m)
           t == [i \in D |-> CHOOSE h : Horner(h, C, X[i], n) /\ phi[i] = h[1]]
<1>1. IsFiniteSet(D) /\ Cardinality(D) = m
    BY FS_Interval
<1>2. /\ phi \in [D -> Scalars]
      /\ \A i \in D : /\ X[i] = ToScalar(shares[i].participant)
                      /\ phi[i] = Evaluate(C, shares[i].participant)
                      /\ shares[i].participant \in Nat
    BY DEF SharesOfPolynomial, PointsOf, ValuesOf
<1>3. ASSUME NEW i \in D PROVE Horner(t[i], C, X[i], n) /\ phi[i] = t[i][1]
    <2>1. PICK p \in Nat : p = shares[i].participant
        BY <1>2
    <2>2. n \in Nat
        OBVIOUS
    <2>3. \E h : Horner(h, C, ToScalar(p), n) /\ Evaluate(C, p) = h[1]
        BY <2>2, HornerAtPoint
    <2>4. \E h : Horner(h, C, X[i], n) /\ phi[i] = h[1]
        BY <1>2, <2>1, <2>3
    <2> HIDE DEF X, phi
    <2>5. PICK h : /\ h = CHOOSE g : Horner(g, C, X[i], n) /\ phi[i] = g[1]
                   /\ Horner(h, C, X[i], n) /\ phi[i] = h[1]
        BY <2>4, Zenon
    <2>6. t[i] = h
        BY <2>5
    <2>7. QED
        BY <2>5, <2>6
<1>4. Weights(W, X, D) /\ Points(X, D) /\ Cardinality(D) >= n
    BY <1>1
<1> HIDE DEF D, X, phi, t
<1>5. \A i \in D : Horner(t[i], C, X[i], n)
    BY <1>3
<1>6. phi \in [D -> Scalars] /\ \A i \in D : phi[i] = t[i][1]
    BY <1>2, <1>3
<1>7. Weighted(W, D, phi) = C[1]
    BY <1>1, <1>4, <1>5, <1>6, Interpolation
<1>8. QED
    BY <1>7 DEF D, phi

(* What lagrange_interpolate_at_zero returns for at least n shares of a    *)
(* polynomial of n coefficients.                                           *)
LEMMA InterpolationResult ==
    ASSUME NEW n \in Nat \ {0}, NEW C \in [1..n -> Scalars], NEW m \in Nat, m >= n,
           NEW shares, SharesOfPolynomial(shares, C, m)
    PROVE  /\ LagrangeInterpolateAtZero(shares).kind = "Ok"
                  => LagrangeInterpolateAtZero(shares).value = C[1]
           /\ Points(PointsOf(shares, m), 1..m)
                  => LagrangeInterpolateAtZero(shares).kind = "Ok"
<1> DEFINE D == 1..m
           X == PointsOf(shares, m)
           participants == [i \in DOMAIN shares |-> shares[i].participant]
           coefficients == LagrangeCoefficientsAtZero(
                               [i \in DOMAIN shares |-> ToScalar(participants[i])])
           terms == [i \in DOMAIN shares |-> Mul(shares[i].value, coefficients[i])]
           sum == FoldLeft(Add, 0, terms)
<1>1. LagrangeInterpolateAtZero(shares)
          = IF shares = << >> THEN [kind |-> "InvalidThreshold", value |-> 0]
            ELSE IF HasDuplicates(participants)
                 THEN [kind |-> "DuplicateParticipantIndex", value |-> 0]
            ELSE IF coefficients = << >>
                 THEN [kind |-> "NonInvertibleDenominator", value |-> 0]
            ELSE [kind |-> "Ok", value |-> sum]
    BY DEF LagrangeInterpolateAtZero
<1>2. DOMAIN shares = D /\ m \in Nat \ {0} /\ shares # << >>
    BY DEF SharesOfPolynomial
<1>3. /\ X \in [D -> Scalars]
      /\ \A i \in D : X[i] = ToScalar(shares[i].participant) /\ shares[i].value \in Scalars
    <2>1. \A i \in D : shares[i].participant \in Nat /\ shares[i].value \in Scalars
        BY DEF SharesOfPolynomial
    <2>2. \A p \in Nat : ToScalar(p) \in Scalars
        BY Remainder DEF ToScalar
    <2>3. QED
        BY <2>1, <2>2 DEF PointsOf
<1>4. coefficients = LagrangeCoefficientsAtZero(X)
    <2>1. [i \in DOMAIN shares |-> ToScalar(participants[i])] = X
        BY <1>2 DEF PointsOf
    <2>2. QED
        BY <2>1, Zenon
<1>5. Points(X, D) <=> ~\E i, j \in D : i # j /\ X[i] = X[j]
    BY <1>3 DEF Points
<1>6. ~Points(X, D) => coefficients = << >>
    <2> HIDE DEF X, coefficients
    <2>1. QED
        BY <1>2, <1>3, <1>4, <1>5, CoefficientsAreWeights
<1>7. ASSUME Points(X, D)
      PROVE  sum = C[1] /\ coefficients # << >> /\ ~HasDuplicates(participants)
    <2>1. PICK W : Weights(W, X, D) /\ coefficients = [i \in D |-> W[D][i]]
        <3> HIDE DEF X, coefficients
        <3>1. QED
            BY <1>2, <1>3, <1>4, <1>7, CoefficientsAreWeights
    <2>2. coefficients # << >>
        <3>1. 1 \in D /\ DOMAIN coefficients = D
            BY <1>2, <2>1
        <3> HIDE DEF coefficients, D
        <3>2. QED
            BY <3>1
    <2>3. ~HasDuplicates(participants)
        BY <1>2, <1>3, <1>7 DEF HasDuplicates, Points
    <2>4. W[D] \in [D -> Scalars]
        BY <2>1 DEF Weights, WeightsAt
    <2> DEFINE phi == ValuesOf(shares, m)
    <2>5. \A i \in D : phi[i] = shares[i].value
        BY DEF ValuesOf
    <2>6. ASSUME NEW i \in D
          PROVE  terms[i] = Mul(W[D][i], phi[i]) /\ terms[i] \in Scalars
        <3>1. PICK v \in Scalars, w \in Scalars : v = shares[i].value /\ w = W[D][i]
            BY <1>3, <2>4
        <3>2. coefficients[i] = w
            BY <2>1, <3>1
        <3>3. terms[i] = Mul(v, w)
            <4> HIDE DEF coefficients
            <4>1. QED
                BY <1>2, <3>1, <3>2
        <3>4. Mul(v, w) = Mul(w, v) /\ Mul(v, w) \in Scalars
            BY MulLaws
        <3>5. QED
            BY <2>5, <3>1, <3>3, <3>4
    <2>7. DOMAIN terms = D /\ terms = [i \in DOMAIN shares |-> terms[i]]
        BY <1>2
    <2> HIDE DEF terms, phi, coefficients
    <2>8. terms = [i \in D |-> Mul(W[D][i], phi[i])] /\ terms \in [1..m -> Scalars]
        BY <1>2, <2>6, <2>7
    <2>9. sum = Total(terms)
        BY <2>8, SumInOrder
    <2>10. Total(terms) = Weighted(W, D, phi)
        BY <2>8, Zenon DEF Weighted
    <2>11. Weighted(W, D, phi) = C[1]
        <3>1. Weights(W, PointsOf(shares, m), 1..m) /\ Points(PointsOf(shares, m), 1..m)
            BY <1>7, <2>1
        <3>2. Weighted(W, 1..m, ValuesOf(shares, m)) = C[1]
            BY <3>1, SharesInterpolate
        <3>3. QED
            BY <3>2 DEF phi
    <2>12. QED
        BY <2>2, <2>3, <2>9, <2>10, <2>11
<1> HIDE DEF sum, coefficients, participants, X, D
<1>8. Points(X, D) => LagrangeInterpolateAtZero(shares) = [kind |-> "Ok", value |-> C[1]]
    BY <1>1, <1>2, <1>7
<1>9. ~Points(X, D) => LagrangeInterpolateAtZero(shares).kind # "Ok"
    BY <1>1, <1>6
<1>10. QED
    BY <1>8, <1>9 DEF X, D

(* reconstruct_secret returns the shared secret or an error, whatever      *)
(* shares of the polynomial it is given, and returns the secret whenever   *)
(* it is given at least a threshold of shares at different points.         *)
THEOREM ReconstructsSecret ==
    ASSUME NEW n \in Nat \ {0}, NEW C \in [1..n -> Scalars], NEW m \in Nat,
           NEW shares, SharesOfPolynomial(shares, C, m)
    PROVE  /\ ReconstructSecret(shares, n).kind = "Ok"
                  => ReconstructSecret(shares, n).value = C[1]
           /\ m >= n /\ Points(PointsOf(shares, m), 1..m)
                  => ReconstructSecret(shares, n).kind = "Ok"
<1>1. Len(shares) = m
    BY DEF SharesOfPolynomial
<1>2. CASE m >= n
    <2>1. ReconstructSecret(shares, n) = LagrangeInterpolateAtZero(shares)
        BY <1>1, <1>2 DEF ReconstructSecret
    <2>2. QED
        BY <1>2, <2>1, InterpolationResult
<1>3. CASE ~(m >= n)
    BY <1>1, <1>3 DEF ReconstructSecret
<1>4. QED
    BY <1>2, <1>3

(***************************************************************************)
(* Index order.                                                            *)
(***************************************************************************)
(* The number of members below a member is smaller than the set, and tells *)
(* the members apart.                                                      *)
LEMMA Ranks ==
    ASSUME NEW S, S \subseteq Nat, IsFiniteSet(S)
    PROVE  /\ \A x \in S : Cardinality({y \in S : y < x}) \in 0..(Cardinality(S) - 1)
           /\ \A x, z \in S : Cardinality({y \in S : y < x}) = Cardinality({y \in S : y < z}) => x = z
<1> DEFINE below(x) == {y \in S : y < x}
<1>1. ASSUME NEW x \in S, NEW T, IsFiniteSet(T), below(x) \subseteq T, x \in T
      PROVE  Cardinality(below(x)) \in Nat /\ Cardinality(T) \in Nat
             /\ Cardinality(below(x)) < Cardinality(T)
    <2>1. below(x) \in SUBSET T /\ below(x) # T
        BY <1>1
    <2> HIDE DEF below
    <2>2. /\ IsFiniteSet(below(x)) /\ Cardinality(below(x)) <= Cardinality(T)
          /\ Cardinality(T) = Cardinality(below(x)) => T = below(x)
        BY <1>1, <2>1, FS_Subset
    <2>3. Cardinality(below(x)) \in Nat /\ Cardinality(T) \in Nat
        BY <1>1, <2>2, FS_CardinalityType
    <2>4. QED
        BY <2>1, <2>2, <2>3
<1>2. ASSUME NEW x \in S PROVE Cardinality(below(x)) \in 0..(Cardinality(S) - 1)
    <2>1. below(x) \subseteq S
        OBVIOUS
    <2> HIDE DEF below
    <2>2. Cardinality(below(x)) \in Nat /\ Cardinality(S) \in Nat
          /\ Cardinality(below(x)) < Cardinality(S)
        BY <1>1, <2>1
    <2>3. QED
        BY <2>2
<1>3. ASSUME NEW x \in S, NEW z \in S, x < z
      PROVE  Cardinality(below(x)) # Cardinality(below(z))
    <2>1. below(z) \in SUBSET S
        OBVIOUS
    <2>2. IsFiniteSet(below(z))
        BY <2>1, FS_Subset
    <2>3. below(x) \subseteq below(z) /\ x \in below(z)
        <3>1. \A y \in S : y < x => y < z
            BY <1>3
        <3>2. QED
            BY <1>3, <3>1, Zenon
    <2> HIDE DEF below
    <2>4. Cardinality(below(x)) \in Nat /\ Cardinality(below(z)) \in Nat
          /\ Cardinality(below(x)) < Cardinality(below(z))
        BY <1>1, <2>2, <2>3
    <2>5. QED
        BY <2>4
<1> HIDE DEF below
<1>4. \A x, z \in S : Cardinality(below(x)) = Cardinality(below(z)) => x = z
    BY <1>3
<1>5. QED
    BY <1>2, <1>4 DEF below

(* Index order lists every member of a set of indexes once. *)
LEMMA InOrderLists ==
    ASSUME NEW S, S \subseteq Nat, IsFiniteSet(S)
    PROVE  /\ Cardinality(S) \in Nat
           /\ InOrder(S) \in [1..Cardinality(S) -> S]
           /\ \A i, j \in 1..Cardinality(S) : InOrder(S)[i] = InOrder(S)[j] => i = j
           /\ \A k \in 0..(Cardinality(S) - 1) : \E x \in S : Cardinality({y \in S : y < x}) = k
<1> DEFINE rank == [x \in S |-> Cardinality({y \in S : y < x})]
           n == Cardinality(S)
<1>1. n \in Nat
    BY FS_CardinalityType
<1>2. rank \in [S -> 0..(n - 1)] /\ \A x, z \in S : rank[x] = rank[z] => x = z
    <2>1. /\ \A x \in S : Cardinality({y \in S : y < x}) \in 0..(n - 1)
          /\ \A x, z \in S : Cardinality({y \in S : y < x}) = Cardinality({y \in S : y < z}) => x = z
        BY Ranks, Zenon
    <2>2. \A x \in S : rank[x] = Cardinality({y \in S : y < x})
        BY Zenon
    <2>3. \A x \in S : rank[x] \in 0..(n - 1)
        BY <2>1, <2>2, Zenon
    <2>4. rank = [x \in S |-> rank[x]]
        BY Zenon
    <2> HIDE DEF rank
    <2>5. rank \in [S -> 0..(n - 1)]
        BY <2>3, <2>4
    <2>6. QED
        BY <2>1, <2>2, <2>5, Zenon
<1>3. IsFiniteSet(0..(n - 1)) /\ Cardinality(0..(n - 1)) = n
    <2>1. 0 \in Int /\ n - 1 \in Int
        BY <1>1
    <2> HIDE DEF n
    <2>2. QED
        BY <1>1, <2>1, FS_Interval
<1>4. \A k \in 0..(n - 1) : \E x \in S : rank[x] = k
    <2> HIDE DEF rank
    <2>1. rank \in Injection(S, 0..(n - 1))
        BY <1>2 DEF Injection, IsInjective
    <2>2. rank \in Surjection(S, 0..(n - 1))
        BY <1>3, <2>1, FS_Injection
    <2>3. QED
        BY <2>2 DEF Surjection
<1>5. ASSUME NEW i \in 1..n
      PROVE  InOrder(S)[i] \in S /\ Cardinality({y \in S : y < InOrder(S)[i]}) = i - 1
    <2>1. i - 1 \in 0..(n - 1)
        BY <1>1
    <2>2. \E x \in S : rank[x] = i - 1
        BY <1>4, <2>1
    <2>3. \E x \in S : Cardinality({y \in S : y < x}) = i - 1
        BY <2>2
    <2>4. InOrder(S)[i] = CHOOSE x \in S : Cardinality({y \in S : y < x}) = i - 1
        BY DEF InOrder
    <2>5. QED
        BY <2>3, <2>4, Zenon
<1>6. DOMAIN InOrder(S) = 1..n /\ InOrder(S) = [i \in 1..n |-> InOrder(S)[i]]
    <2>1. InOrder(S) = [i \in 1..n |-> CHOOSE x \in S : Cardinality({y \in S : y < x}) = i - 1]
        BY DEF InOrder
    <2> HIDE DEF n
    <2>2. QED
        BY <2>1, Zenon
<1>7. ASSUME NEW i \in 1..n, NEW j \in 1..n, InOrder(S)[i] = InOrder(S)[j] PROVE i = j
    <2>1. i - 1 = j - 1
        BY <1>5, <1>7, Zenon
    <2>2. QED
        BY <1>1, <2>1
<1>8. QED
    BY <1>1, <1>4, <1>5, <1>6, <1>7
=============================================================================
