-------------------------- MODULE TensorShapeProofs --------------------------
(***************************************************************************)
(* What the shape algebra of tensors computes, for shapes of any rank and  *)
(* any dimensions.  Sums and products over sequences are folds; proofs by  *)
(* induction look for the least counterexample, and speak of the partial   *)
(* results of a fold as the values of a function.                          *)
(***************************************************************************)
EXTENDS TensorShape, FiniteSetTheorems, WellFoundedInduction, TLAPS

\* A set of natural numbers has a least element.
LEMMA LeastNumber ==
  ASSUME NEW T \in SUBSET Nat, T # {}
  PROVE  \E n \in T : \A m \in T : n <= m
<1> DEFINE R == {ss \in Nat \X Nat : ss[1] < ss[2]}
<1>1. IsWellFoundedOn(R, Nat)
  BY NatLessThanWellFounded DEF OpToRel
<1>2. \A m, n \in Nat : m < n => <<m, n>> \in R
  OBVIOUS
<1> HIDE DEF R
<1>3. PICK n \in T : \A m \in T : <<m, n>> \notin R
  BY <1>1, WFMin
<1>4. \A m \in T : ~(m < n)
  BY <1>2, <1>3
<1> QED
  BY <1>4

\* Induction up to a number.
LEMMA InductionUpTo ==
  ASSUME NEW N \in Nat, NEW S, 0 \in S, \A n \in 0..(N - 1) : n \in S => n + 1 \in S
  PROVE  \A n \in 0..N : n \in S
<1> SUFFICES ASSUME ~ \A n \in 0..N : n \in S
             PROVE  FALSE
  OBVIOUS
<1> DEFINE T == {n \in 0..N : n \notin S}
<1>1. T \in SUBSET Nat /\ T # {}
  OBVIOUS
<1> HIDE DEF T
<1>2. PICK n \in T : \A m \in T : n <= m
  BY <1>1, LeastNumber
<1>3. n \in 0..N /\ n \notin S /\ n # 0
  BY <1>2 DEF T
<1>4. n - 1 \in 0..(N - 1) /\ n - 1 \notin T
  BY <1>2, <1>3, <1>1
<1>5. n - 1 \in S
  BY <1>4 DEF T
<1> QED
  BY <1>3, <1>4, <1>5

\* h[s] is the fold of op from base over the elements of s, the largest last.
IsFold(h, N, f, base, op) ==
  /\ h[{}] = base
  /\ \A s \in SUBSET (1..N) : s # {} =>
       Max(s) \in 1..N /\ h[s] = op[<<h[s \ {Max(s)}], f[Max(s)]>>]

\* There is a function that folds by removing the largest index, as FoldLeft does.
LEMMA FoldExists ==
  ASSUME NEW N \in Nat, NEW f, \A i \in 1..N : f[i] \in Int,
         NEW base \in Int, NEW op \in [Int \X Int -> Int]
  PROVE  \E h \in [SUBSET (1..N) -> Int] : IsFold(h, N, f, base, op)
<1> DEFINE Good(n) == \E h \in [SUBSET (1..n) -> Int] : IsFold(h, n, f, base, op)
           S == {n \in 0..N : Good(n)}
<1>1. 0 \in S
  <2> DEFINE h == [s \in SUBSET (1..0) |-> base]
  <2>1. \A s \in SUBSET (1..0) : s = {}
    OBVIOUS
  <2>2. h \in [SUBSET (1..0) -> Int] /\ h[{}] = base
    OBVIOUS
  <2> HIDE DEF h
  <2>3. IsFold(h, 0, f, base, op)
    BY <2>1, <2>2 DEF IsFold
  <2>4. Good(0)
    BY <2>2, <2>3
  <2> HIDE DEF Good
  <2>5. 0 \in 0..N
    OBVIOUS
  <2> QED
    BY <2>4, <2>5
<1>2. ASSUME NEW n \in 0..(N - 1), n \in S PROVE n + 1 \in S
  <2>1. PICK h \in [SUBSET (1..n) -> Int] : IsFold(h, n, f, base, op)
    BY <1>2
  <2> DEFINE k == [s \in SUBSET (1..(n + 1)) |->
                     IF n + 1 \in s THEN op[<<h[s \ {n + 1}], f[n + 1]>>] ELSE h[s]]
  <2>2. ASSUME NEW s \in SUBSET (1..(n + 1)), n + 1 \notin s
        PROVE  s \in SUBSET (1..n)
    <3>1. \A x \in s : x \in 1..n
      BY <2>2
    <3> QED
      BY <3>1
  <2>3. k \in [SUBSET (1..(n + 1)) -> Int]
    <3>1. ASSUME NEW s \in SUBSET (1..(n + 1)), n + 1 \in s
          PROVE  op[<<h[s \ {n + 1}], f[n + 1]>>] \in Int
      <4>1. s \ {n + 1} \in SUBSET (1..n)
        BY <2>2
      <4>2. h[s \ {n + 1}] \in Int /\ f[n + 1] \in Int
        BY <4>1
      <4> QED
        BY <4>2
    <3>2. ASSUME NEW s \in SUBSET (1..(n + 1)), n + 1 \notin s
          PROVE  h[s] \in Int
      BY <2>2, <3>2
    <3> QED
      BY <3>1, <3>2
  <2>4. ASSUME NEW s \in SUBSET (1..(n + 1)), s # {}
        PROVE  Max(s) \in 1..(n + 1) /\ k[s] = op[<<k[s \ {Max(s)}], f[Max(s)]>>]
    <3>1. CASE n + 1 \in s
      <4>1. Max(s) = n + 1
        <5>1. \A y \in s : n + 1 >= y
          OBVIOUS
        <5>2. \A x \in s : (\A y \in s : x >= y) => x = n + 1
          BY <3>1, <5>1
        <5> QED
          BY <3>1, <5>1, <5>2 DEF Max
      <4>2. s \ {n + 1} \in SUBSET (1..(n + 1)) /\ n + 1 \notin s \ {n + 1}
        OBVIOUS
      <4>3. k[s \ {n + 1}] = h[s \ {n + 1}]
        BY <4>2
      <4> QED
        BY <3>1, <4>1, <4>3
    <3>2. CASE n + 1 \notin s
      <4>1. s \in SUBSET (1..n)
        BY <2>2, <3>2
      <4>2. Max(s) \in 1..n /\ h[s] = op[<<h[s \ {Max(s)}], f[Max(s)]>>]
        BY <2>1, <2>4, <4>1 DEF IsFold
      <4>3. k[s] = h[s] /\ k[s \ {Max(s)}] = h[s \ {Max(s)}]
        BY <3>2
      <4> QED
        BY <4>2, <4>3
    <3> QED
      BY <3>1, <3>2
  <2>5. k[{}] = base
    <3>1. {} \in SUBSET (1..(n + 1)) /\ n + 1 \notin {}
      OBVIOUS
    <3> QED
      BY <2>1, <3>1 DEF IsFold
  <2> HIDE DEF k
  <2>6. Good(n + 1)
    <3>1. IsFold(k, n + 1, f, base, op)
      BY <2>4, <2>5 DEF IsFold
    <3> QED
      BY <2>3, <3>1
  <2> HIDE DEF Good
  <2>7. n + 1 \in 0..N
    OBVIOUS
  <2> QED
    BY <2>6, <2>7
<1>3. N \in S
  <2> HIDE DEF S
  <2>1. \A n \in 0..N : n \in S
    BY <1>1, <1>2, InductionUpTo
  <2> QED
    BY <2>1
<1> QED
  BY <1>3

\* The sets whose elements a fold of the first i elements goes through.
LEMMA LargestOfInitial ==
  ASSUME NEW i \in Nat \ {0}
  PROVE  Max(1..i) = i /\ (1..i) \ {i} = 1..(i - 1) /\ 1..i # {}
<1>1. Max(1..i) = i
  <2>1. i \in 1..i /\ \A y \in 1..i : i >= y
    OBVIOUS
  <2>2. \A x \in 1..i : (\A y \in 1..i : x >= y) => x = i
    BY <2>1
  <2> QED
    BY <2>1, <2>2 DEF Max
<1>2. (1..i) \ {i} = 1..(i - 1)
  OBVIOUS
<1>3. i \in 1..i
  OBVIOUS
<1> QED
  BY <1>1, <1>2, <1>3

Summed(f) == FoldLeft(+, 0, f)

\* A sum: its partial sums.
LEMMA SumSteps ==
  ASSUME NEW N \in Nat, NEW f, DOMAIN f = 1..N, \A i \in 1..N : f[i] \in Int
  PROVE  \E g \in [0..N -> Int] :
           g[0] = 0 /\ (\A i \in 1..N : g[i] = g[i - 1] + f[i]) /\ Summed(f) = g[N]
<1> DEFINE Step(h, s) == IF s = {} THEN 0 ELSE h[s \ {Max(s)}] + f[Max(s)]
<1>1. \E h : h = [s \in SUBSET (1..N) |-> Step(h, s)]
  <2>1. PICK op \in [Int \X Int -> Int] : \A x, y \in Int : op[<<x, y>>] = x + y
    <3> DEFINE operation == [p \in Int \X Int |-> p[1] + p[2]]
    <3>1. operation \in [Int \X Int -> Int] /\ \A x, y \in Int : operation[<<x, y>>] = x + y
      OBVIOUS
    <3> HIDE DEF operation
    <3> QED
      BY <3>1
  <2>0. PICK base \in Int : base = 0
    OBVIOUS
  <2>2a. \A i \in 1..N : f[i] \in Int
    OBVIOUS
  <2>2. PICK h \in [SUBSET (1..N) -> Int] : IsFold(h, N, f, base, op)
    BY <2>2a, FoldExists
  <2>3. ASSUME NEW s \in SUBSET (1..N) PROVE h[s] = Step(h, s)
    <3>1. s \ {Max(s)} \in SUBSET (1..N)
      OBVIOUS
    <3>2. h[s \ {Max(s)}] \in Int
      BY <3>1
    <3> QED
      BY <2>0, <2>1, <2>2, <3>2 DEF IsFold
  <2>4. h = [s \in SUBSET (1..N) |-> Step(h, s)]
    BY <2>3
  <2> QED
    BY <2>4
<1> DEFINE iter == CHOOSE h : h = [s \in SUBSET (1..N) |-> Step(h, s)]
<1>2. iter = [s \in SUBSET (1..N) |-> Step(iter, s)]
  BY <1>1
<1>3. Summed(f) = iter[1..N]
  BY DEF Summed, FoldLeft, MapThenFoldSet
<1> HIDE DEF iter
<1>4. \A s \in SUBSET (1..N) : iter[s] = Step(iter, s)
  BY <1>2, Zenon
<1>5. iter[1..0] = 0
  <2>1. 1..0 = {} /\ {} \in SUBSET (1..N)
    OBVIOUS
  <2>2. iter[{}] = Step(iter, {})
    BY <1>4, <2>1
  <2>3. Step(iter, {}) = 0
    BY Zenon
  <2> QED
    BY <2>1, <2>2, <2>3
<1>6. ASSUME NEW i \in 1..N PROVE iter[1..i] = iter[1..(i - 1)] + f[i]
  <2>0. i \in Nat \ {0} /\ 1..i \in SUBSET (1..N)
    OBVIOUS
  <2>1. Max(1..i) = i /\ (1..i) \ {i} = 1..(i - 1) /\ 1..i # {}
    BY <2>0, LargestOfInitial
  <2>2. iter[1..i] = Step(iter, 1..i)
    BY <1>4, <2>0, Zenon
  <2>3. Step(iter, 1..i) = iter[(1..i) \ {i}] + f[i]
    BY <2>1, Zenon
  <2> QED
    BY <2>1, <2>2, <2>3
<1> DEFINE T == {j \in 0..N : iter[1..j] \in Int}
<1>7. 0 \in T
  BY <1>5
<1>8. ASSUME NEW j \in 0..(N - 1), j \in T PROVE j + 1 \in T
  <2>1. j + 1 \in 1..N /\ j + 1 - 1 = j /\ j + 1 \in 0..N
    OBVIOUS
  <2>2. iter[1..(j + 1)] = iter[1..j] + f[j + 1]
    BY <1>6, <2>1
  <2> QED
    BY <1>8, <2>1, <2>2
<1> HIDE DEF T
<1>9. \A j \in 0..N : j \in T
  BY <1>7, <1>8, InductionUpTo
<1>10. \A j \in 0..N : iter[1..j] \in Int
  BY <1>9 DEF T
<1> DEFINE g == [i \in 0..N |-> iter[1..i]]
<1>11. g \in [0..N -> Int]
  BY <1>10
<1>12. g[0] = 0 /\ g[N] = iter[1..N]
  BY <1>5
<1>13. ASSUME NEW i \in 1..N PROVE g[i] = g[i - 1] + f[i]
  <2>1. i \in 0..N /\ i - 1 \in 0..N
    OBVIOUS
  <2>2. g[i] = iter[1..i] /\ g[i - 1] = iter[1..(i - 1)]
    BY <2>1
  <2> QED
    BY <1>6, <2>2
<1> HIDE DEF g
<1> QED
  BY <1>3, <1>11, <1>12, <1>13

\* A product: its partial products.
LEMMA ProductSteps ==
  ASSUME NEW N \in Nat, NEW f, DOMAIN f = 1..N, \A i \in 1..N : f[i] \in Int
  PROVE  \E g \in [0..N -> Int] :
           g[0] = 1 /\ (\A i \in 1..N : g[i] = g[i - 1] * f[i]) /\ Product(f) = g[N]
<1> DEFINE Step(h, s) == IF s = {} THEN 1 ELSE h[s \ {Max(s)}] * f[Max(s)]
<1>1. \E h : h = [s \in SUBSET (1..N) |-> Step(h, s)]
  <2>1. PICK op \in [Int \X Int -> Int] : \A x, y \in Int : op[<<x, y>>] = x * y
    <3> DEFINE operation == [p \in Int \X Int |-> p[1] * p[2]]
    <3>1. operation \in [Int \X Int -> Int] /\ \A x, y \in Int : operation[<<x, y>>] = x * y
      OBVIOUS
    <3> HIDE DEF operation
    <3> QED
      BY <3>1
  <2>0. PICK base \in Int : base = 1
    OBVIOUS
  <2>2a. \A i \in 1..N : f[i] \in Int
    OBVIOUS
  <2>2. PICK h \in [SUBSET (1..N) -> Int] : IsFold(h, N, f, base, op)
    BY <2>2a, FoldExists
  <2>3. ASSUME NEW s \in SUBSET (1..N) PROVE h[s] = Step(h, s)
    <3>1. s \ {Max(s)} \in SUBSET (1..N)
      OBVIOUS
    <3>2. h[s \ {Max(s)}] \in Int
      BY <3>1
    <3> QED
      BY <2>0, <2>1, <2>2, <3>2 DEF IsFold
  <2>4. h = [s \in SUBSET (1..N) |-> Step(h, s)]
    BY <2>3
  <2> QED
    BY <2>4
<1> DEFINE iter == CHOOSE h : h = [s \in SUBSET (1..N) |-> Step(h, s)]
<1>2. iter = [s \in SUBSET (1..N) |-> Step(iter, s)]
  BY <1>1
<1>3. Product(f) = iter[1..N]
  BY DEF Product, FoldLeft, MapThenFoldSet
<1> HIDE DEF iter
<1>4. \A s \in SUBSET (1..N) : iter[s] = Step(iter, s)
  BY <1>2, Zenon
<1>5. iter[1..0] = 1
  <2>1. 1..0 = {} /\ {} \in SUBSET (1..N)
    OBVIOUS
  <2>2. iter[{}] = Step(iter, {})
    BY <1>4, <2>1
  <2>3. Step(iter, {}) = 1
    BY Zenon
  <2> QED
    BY <2>1, <2>2, <2>3
<1>6. ASSUME NEW i \in 1..N PROVE iter[1..i] = iter[1..(i - 1)] * f[i]
  <2>0. i \in Nat \ {0} /\ 1..i \in SUBSET (1..N)
    OBVIOUS
  <2>1. Max(1..i) = i /\ (1..i) \ {i} = 1..(i - 1) /\ 1..i # {}
    BY <2>0, LargestOfInitial
  <2>2. iter[1..i] = Step(iter, 1..i)
    BY <1>4, <2>0, Zenon
  <2>3. Step(iter, 1..i) = iter[(1..i) \ {i}] * f[i]
    BY <2>1, Zenon
  <2> QED
    BY <2>1, <2>2, <2>3
<1> DEFINE T == {j \in 0..N : iter[1..j] \in Int}
<1>7. 0 \in T
  BY <1>5
<1>8. ASSUME NEW j \in 0..(N - 1), j \in T PROVE j + 1 \in T
  <2>1. j + 1 \in 1..N /\ j + 1 - 1 = j /\ j + 1 \in 0..N
    OBVIOUS
  <2>2. iter[1..(j + 1)] = iter[1..j] * f[j + 1]
    BY <1>6, <2>1
  <2> QED
    BY <1>8, <2>1, <2>2
<1> HIDE DEF T
<1>9. \A j \in 0..N : j \in T
  BY <1>7, <1>8, InductionUpTo
<1>10. \A j \in 0..N : iter[1..j] \in Int
  BY <1>9 DEF T
<1> DEFINE g == [i \in 0..N |-> iter[1..i]]
<1>11. g \in [0..N -> Int]
  BY <1>10
<1>12. g[0] = 1 /\ g[N] = iter[1..N]
  BY <1>5
<1>13. ASSUME NEW i \in 1..N PROVE g[i] = g[i - 1] * f[i]
  <2>1. i \in 0..N /\ i - 1 \in 0..N
    OBVIOUS
  <2>2. g[i] = iter[1..i] /\ g[i - 1] = iter[1..(i - 1)]
    BY <2>1
  <2> QED
    BY <1>6, <2>2
<1> HIDE DEF g
<1> QED
  BY <1>3, <1>11, <1>12, <1>13
LEMMA TimesMonotone ==
  ASSUME NEW x \in Int, NEW y \in Int, x <= y, NEW b \in Nat
  PROVE  x * b <= y * b /\ x * b \in Int /\ y * b \in Int
<1>1. y * b - x * b = (y - x) * b
  OBVIOUS
<1>2. (y - x) * b >= 0
  <2>1. y - x \in Nat
    OBVIOUS
  <2>2. \A z \in Nat : z * b >= 0
    OBVIOUS
  <2> QED
    BY <2>1, <2>2
<1> QED
  BY <1>1, <1>2

LEMMA DivUnique ==
  ASSUME NEW a \in Nat, NEW b \in Nat \ {0}, NEW q \in Nat, NEW r \in 0..(b - 1), a = q * b + r
  PROVE  a \div b = q /\ a % b = r
<1> DEFINE p == a \div b
           t == a % b
<1>1. p \in Int /\ t \in 0..(b - 1) /\ a = b * p + t
  OBVIOUS
<1> HIDE DEF p, t
<1>2. b * p = p * b
  BY <1>1
<1>3. ~(p < q)
  <2> SUFFICES ASSUME p + 1 <= q PROVE FALSE
    BY <1>1
  <2>1. (p + 1) * b <= q * b
    BY <1>1, TimesMonotone
  <2>2. (p + 1) * b = p * b + b
    BY <1>1
  <2> QED
    BY <1>1, <1>2, <2>1, <2>2
<1>4. ~(q < p)
  <2> SUFFICES ASSUME q + 1 <= p PROVE FALSE
    BY <1>1
  <2>1. (q + 1) * b <= p * b
    BY <1>1, TimesMonotone
  <2>2. (q + 1) * b = q * b + b
    OBVIOUS
  <2> QED
    BY <1>1, <1>2, <2>1, <2>2
<1>5. p = q
  BY <1>1, <1>3, <1>4
<1>6. t = r
  BY <1>1, <1>2, <1>5
<1> QED
  BY <1>5, <1>6 DEF p, t

LEMMA DivDiv ==
  ASSUME NEW a \in Nat, NEW b \in Nat \ {0}, NEW c \in Nat \ {0}
  PROVE  (a \div b) \div c = a \div (c * b) /\ a \div b \in Nat /\ c * b \in Nat \ {0}
<1> DEFINE q == a \div b
           r == a % b
           p == q \div c
           t == q % c
<1>1. q \in Nat /\ r \in 0..(b - 1) /\ a = b * q + r
  OBVIOUS
<1> HIDE DEF q, r
<1>2. p \in Nat /\ t \in 0..(c - 1) /\ q = c * p + t
  BY <1>1
<1> HIDE DEF p, t
<1>3. c * b \in Nat \ {0}
  OBVIOUS
<1>4. a = p * (c * b) + (t * b + r)
  <2>1. b * q = b * (c * p) + b * t
    BY <1>2
  <2>2. b * (c * p) = p * (c * b) /\ b * t = t * b
    BY <1>2
  <2> QED
    BY <1>1, <1>2, <1>3, <2>1, <2>2
<1>5. t * b + r \in 0..((c * b) - 1)
  <2>1. t * b <= (c - 1) * b
    BY <1>2, TimesMonotone
  <2>2. (c - 1) * b = c * b - b
    OBVIOUS
  <2>3. t * b \in Nat
    BY <1>2
  <2> QED
    BY <1>1, <1>3, <2>1, <2>2, <2>3
<1>6. a \div (c * b) = p
  BY <1>2, <1>3, <1>4, <1>5, DivUnique
<1> QED
  BY <1>1, <1>3, <1>6 DEF p, q
\* Induction from a number down to 0.
LEMMA InductionDownFrom ==
  ASSUME NEW N \in Nat, NEW S, N \in S, \A n \in 0..(N - 1) : n + 1 \in S => n \in S
  PROVE  \A n \in 0..N : n \in S
<1> DEFINE T == {n \in 0..N : N - n \in S}
<1>1. 0 \in T
  OBVIOUS
<1>2. ASSUME NEW n \in 0..(N - 1), n \in T PROVE n + 1 \in T
  <2>1. N - (n + 1) \in 0..(N - 1) /\ N - (n + 1) + 1 = N - n /\ n + 1 \in 0..N
    OBVIOUS
  <2>2. N - n \in S
    BY <1>2
  <2> QED
    BY <2>1, <2>2
<1> HIDE DEF T
<1>3. \A n \in 0..N : n \in T
  BY <1>1, <1>2, InductionUpTo
<1>4. ASSUME NEW n \in 0..N PROVE n \in S
  <2>1. N - n \in 0..N /\ N - (N - n) = n
    OBVIOUS
  <2>2. N - n \in T
    BY <1>3, <2>1
  <2> QED
    BY <2>1, <2>2 DEF T
<1> QED
  BY <1>4

\* The first factor of a product can be taken out.
LEMMA ProductFromTheLeft ==
  ASSUME NEW N \in Nat, NEW f, DOMAIN f = 1..(N + 1), \A i \in 1..(N + 1) : f[i] \in Int,
         NEW k, DOMAIN k = 1..N, \A i \in 1..N : k[i] = f[i + 1]
  PROVE  Product(f) = f[1] * Product(k) /\ Product(k) \in Int
<1>1. PICK g \in [0..(N + 1) -> Int] :
        /\ g[0] = 1
        /\ \A i \in 1..(N + 1) : g[i] = g[i - 1] * f[i]
        /\ Product(f) = g[N + 1]
  <2>1. N + 1 \in Nat
    OBVIOUS
  <2> QED
    BY <2>1, ProductSteps, SMTT(30)
<1>2. PICK h \in [0..N -> Int] :
        /\ h[0] = 1
        /\ \A i \in 1..N : h[i] = h[i - 1] * k[i]
        /\ Product(k) = h[N]
  <2>1. \A i \in 1..N : k[i] \in Int
    <3>1. \A i \in 1..N : i + 1 \in 1..(N + 1)
      OBVIOUS
    <3> QED
      BY <3>1
  <2> QED
    BY <2>1, ProductSteps
<1>3. f[1] \in Int
  OBVIOUS
<1> DEFINE S == {i \in 0..N : g[i + 1] = f[1] * h[i]}
<1>4. 0 \in S
  <2>1. 1 \in 1..(N + 1) /\ 1 - 1 = 0
    OBVIOUS
  <2>2. g[1] = g[0] * f[1]
    BY <1>1, <2>1
  <2>3. g[1] = f[1] * h[0]
    BY <1>1, <1>2, <1>3, <2>2
  <2> QED
    BY <2>3
<1>5. ASSUME NEW i \in 0..(N - 1), i \in S PROVE i + 1 \in S
  <2>1. i + 1 \in 1..N /\ i + 2 \in 1..(N + 1) /\ i + 2 - 1 = i + 1 /\ i + 1 - 1 = i
    OBVIOUS
  <2>2. g[i + 2] = g[i + 1] * f[i + 2] /\ h[i + 1] = h[i] * k[i + 1]
    <3>1. g[i + 2] = g[i + 2 - 1] * f[i + 2]
      BY <1>1, <2>1
    <3>2. h[i + 1] = h[i + 1 - 1] * k[i + 1]
      BY <1>2, <2>1
    <3> QED
      BY <2>1, <3>1, <3>2
  <2>3. k[i + 1] = f[i + 2] /\ g[i + 1] = f[1] * h[i]
    BY <1>5, <2>1
  <2>4. h[i] \in Int /\ f[i + 2] \in Int
    BY <1>2, <2>1, SMTT(30)
  <2>5. \A x, y, z \in Int : (x * y) * z = x * (y * z)
    OBVIOUS
  <2>6. g[i + 2] = f[1] * h[i + 1]
    <3>1. (f[1] * h[i]) * f[i + 2] = f[1] * (h[i] * f[i + 2])
      BY <1>3, <2>4, <2>5
    <3> QED
      BY <2>2, <2>3, <3>1, Zenon
  <2> QED
    BY <2>1, <2>6
<1> HIDE DEF S
<1>6. N \in S
  <2>1. \A i \in 0..N : i \in S
    BY <1>4, <1>5, InductionUpTo
  <2> QED
    BY <2>1
<1>7. g[N + 1] = f[1] * h[N]
  BY <1>6 DEF S
<1> QED
  BY <1>1, <1>2, <1>7

\* The number of elements is the product of the dimensions: the two cases
\* written out agree with it.
LEMMA DataSizeIsProduct ==
  ASSUME NEW s \in Seq(Int)
  PROVE  DataSize(s) = Product(s)
<1>1. Len(s) \in Nat /\ DOMAIN s = 1..Len(s) /\ \A i \in 1..Len(s) : s[i] \in Int
  OBVIOUS
<1>2. PICK g \in [0..Len(s) -> Int] :
        g[0] = 1 /\ (\A i \in 1..Len(s) : g[i] = g[i - 1] * s[i]) /\ Product(s) = g[Len(s)]
  BY <1>1, ProductSteps
<1>3. CASE Len(s) = 1
  <2>1. g[1] = g[0] * s[1]
    BY <1>2, <1>3
  <2> QED
    BY <1>1, <1>2, <1>3, <2>1 DEF DataSize
<1>4. CASE Len(s) = 2
  <2>1. g[1] = g[0] * s[1]
    BY <1>2, <1>4
  <2>2. g[2] = g[1] * s[2]
    BY <1>2, <1>4
  <2> QED
    BY <1>1, <1>2, <1>4, <2>1, <2>2 DEF DataSize
<1>5. CASE Len(s) # 1 /\ Len(s) # 2
  BY <1>5 DEF DataSize
<1> QED
  BY <1>3, <1>4, <1>5

\* The number of elements behind the first i dimensions, which is the stride of
\* the i-th of them.
TailSize(s, i) == DataSize(SubSeq(s, i + 1, Len(s)))

LEMMA TailSizes ==
  ASSUME NEW s \in Seq(Nat)
  PROVE  /\ TailSize(s, Len(s)) = 1
         /\ TailSize(s, 0) = DataSize(s)
         /\ \A i \in 0..Len(s) : TailSize(s, i) \in Nat
         /\ \A i \in 1..Len(s) : Strides(s)[i] = TailSize(s, i)
                                 /\ TailSize(s, i - 1) = s[i] * TailSize(s, i)
<1> DEFINE n == Len(s)
           tail(i) == SubSeq(s, i + 1, n)
<1>1. n \in Nat /\ \A i \in 1..n : s[i] \in Nat
  OBVIOUS
<1>2. ASSUME NEW i \in 0..n
      PROVE  /\ tail(i) \in Seq(Int) /\ DOMAIN tail(i) = 1..(n - i)
             /\ \A j \in 1..(n - i) : tail(i)[j] = s[j + i]
  <2>1. tail(i) = [j \in 1..(n - i) |-> s[j + i]]
    OBVIOUS
  <2>2. \A j \in 1..(n - i) : s[j + i] \in Int
    BY <1>1
  <2>3. n - i \in Nat
    OBVIOUS
  <2> HIDE DEF tail
  <2> QED
    BY <2>1, <2>2, <2>3
<1>3. ASSUME NEW i \in 0..n PROVE TailSize(s, i) = Product(tail(i))
  BY <1>2, DataSizeIsProduct DEF TailSize
<1>4. TailSize(s, n) = 1
  <2>1. DOMAIN tail(n) = 1..0
    BY <1>1, <1>2
  <2>2. Product(tail(n)) = 1
    <3>1. \A i \in 1..0 : tail(n)[i] \in Int
      OBVIOUS
    <3>2. PICK g \in [0..0 -> Int] : g[0] = 1 /\ Product(tail(n)) = g[0]
      BY <2>1, <3>1, ProductSteps
    <3> QED
      BY <3>2
  <2> QED
    BY <1>1, <1>3, <2>2
<1>5. TailSize(s, 0) = DataSize(s)
  <2>1. SubSeq(s, 0 + 1, Len(s)) = s
    OBVIOUS
  <2> QED
    BY <2>1 DEF TailSize
<1>6. ASSUME NEW i \in 1..n
      PROVE  /\ Strides(s)[i] = TailSize(s, i)
             /\ TailSize(s, i - 1) = s[i] * TailSize(s, i)
  <2>1. Strides(s)[i] = TailSize(s, i)
    BY <1>1 DEF Strides, TailSize
  <2>2. i \in 0..n /\ i - 1 \in 0..n /\ n - i \in Nat /\ n - (i - 1) = n - i + 1
    BY <1>1
  <2>3. \A j \in 1..(n - i) : tail(i)[j] = tail(i - 1)[j + 1]
    <3>1. ASSUME NEW j \in 1..(n - i) PROVE tail(i)[j] = tail(i - 1)[j + 1]
      <4>1. tail(i)[j] = s[j + i]
        BY <1>2, <2>2
      <4>2. j + 1 \in 1..(n - (i - 1)) /\ j + 1 + (i - 1) = j + i
        BY <1>1
      <4>3. tail(i - 1)[j + 1] = s[j + 1 + (i - 1)]
        BY <1>2, <2>2, <4>2
      <4> QED
        BY <4>1, <4>2, <4>3
    <3> QED
      BY <3>1
  <2>4. DOMAIN tail(i) = 1..(n - i) /\ DOMAIN tail(i - 1) = 1..(n - i + 1)
    BY <1>2, <2>2
  <2>5. \A j \in 1..(n - i + 1) : tail(i - 1)[j] \in Int
    BY <1>2, <2>2
  <2>6. tail(i - 1)[1] = s[i]
    <3>1. 1 \in 1..(n - (i - 1)) /\ 1 + (i - 1) = i
      BY <1>1
    <3> QED
      BY <1>2, <2>2, <3>1
  <2> HIDE DEF tail
  <2>7. Product(tail(i - 1)) = tail(i - 1)[1] * Product(tail(i))
    BY <2>2, <2>3, <2>4, <2>5, ProductFromTheLeft, ZenonT(30)
  <2> QED
    BY <1>3, <2>1, <2>2, <2>6, <2>7
<1> DEFINE S == {i \in 0..n : TailSize(s, i) \in Nat}
<1>7. n \in S
  BY <1>1, <1>4
<1>8. ASSUME NEW i \in 0..(n - 1), i + 1 \in S PROVE i \in S
  <2>1. i + 1 \in 1..n /\ i + 1 - 1 = i
    BY <1>1
  <2>2. TailSize(s, i) = s[i + 1] * TailSize(s, i + 1)
    BY <1>6, <2>1
  <2>3. s[i + 1] \in Nat /\ TailSize(s, i + 1) \in Nat
    BY <1>1, <1>8, <2>1
  <2>4. TailSize(s, i) \in Nat
    BY <2>2, <2>3
  <2> QED
    BY <1>1, <2>4
<1> HIDE DEF S
<1>9. \A i \in 0..n : i \in S
  BY <1>1, <1>7, <1>8, InductionDownFrom
<1>10. \A i \in 0..n : TailSize(s, i) \in Nat
  BY <1>9 DEF S
<1> QED
  BY <1>4, <1>5, <1>6, <1>10

\* Arithmetic of offsets.
LEMMA NatTimes == \A x, y \in Nat : x * y \in Nat
OBVIOUS

LEMMA Regroup == \A x, y, z, w \in Nat : (x * y + w) * z = x * (y * z) + w * z
OBVIOUS

LEMMA NextBlock ==
  ASSUME NEW q \in Nat, NEW d \in Nat, NEW x \in Nat, NEW t \in Nat, NEW size \in Nat,
         x + 1 <= d, q * (d * t) + d * t <= size
  PROVE  (q * d + x) * t + t <= size
<1>1. (x + 1) * t <= d * t
  BY TimesMonotone
<1>2. (q * d + x) * t = q * (d * t) + x * t
  BY Regroup
<1>3. (x + 1) * t = x * t + t
  OBVIOUS
<1>4. d * t \in Nat /\ x * t \in Nat
  BY NatTimes
<1>5. q * (d * t) \in Nat
  BY <1>4, NatTimes
<1> QED
  BY <1>1, <1>2, <1>3, <1>4, <1>5

\* No dimension is 0: no stride is, and the strides do not grow inwards.
LEMMA TailSizesPositive ==
  ASSUME NEW s \in Seq(Nat \ {0})
  PROVE  /\ s \in Seq(Nat)
         /\ \A i \in 0..Len(s) : TailSize(s, i) \in Nat \ {0}
         /\ \A i \in 1..Len(s) : TailSize(s, i) <= TailSize(s, i - 1)
<1>1. s \in Seq(Nat) /\ Len(s) \in Nat /\ \A i \in 1..Len(s) : s[i] \in Nat \ {0}
  OBVIOUS
<1>2. /\ TailSize(s, Len(s)) = 1
      /\ \A i \in 1..Len(s) : TailSize(s, i - 1) = s[i] * TailSize(s, i)
  BY <1>1, TailSizes
<1> DEFINE S == {i \in 0..Len(s) : TailSize(s, i) \in Nat \ {0}}
<1>3. Len(s) \in S
  BY <1>1, <1>2
<1>4. ASSUME NEW i \in 0..(Len(s) - 1), i + 1 \in S PROVE i \in S
  <2>1. i + 1 \in 1..Len(s) /\ i + 1 - 1 = i /\ i \in 0..Len(s)
    BY <1>1
  <2>2. TailSize(s, i) = s[i + 1] * TailSize(s, i + 1)
    BY <1>2, <2>1
  <2>3. s[i + 1] \in Nat \ {0} /\ TailSize(s, i + 1) \in Nat \ {0}
    BY <1>1, <1>4, <2>1
  <2>4. \A x, y \in Nat \ {0} : x * y \in Nat \ {0}
    OBVIOUS
  <2>5. TailSize(s, i) \in Nat \ {0}
    BY <2>2, <2>3, <2>4
  <2> QED
    BY <2>1, <2>5
<1> HIDE DEF S
<1>5. \A i \in 0..Len(s) : i \in S
  BY <1>1, <1>3, <1>4, InductionDownFrom
<1>6. \A i \in 0..Len(s) : TailSize(s, i) \in Nat \ {0}
  BY <1>5 DEF S
<1>7. ASSUME NEW i \in 1..Len(s) PROVE TailSize(s, i) <= TailSize(s, i - 1)
  <2>1. TailSize(s, i) \in Nat /\ s[i] \in Nat /\ 1 <= s[i]
    BY <1>1, <1>6
  <2>2. 1 * TailSize(s, i) <= s[i] * TailSize(s, i)
    <3> DEFINE t == TailSize(s, i)
               d == s[i]
    <3>1. t \in Nat /\ 1 \in Int /\ d \in Int /\ 1 <= d
      BY <2>1
    <3> HIDE DEF t, d
    <3>2. 1 * t <= d * t
      BY <3>1, TimesMonotone
    <3> QED
      BY <3>2 DEF t, d
  <2> QED
    BY <1>2, <2>1, <2>2
<1> QED
  BY <1>1, <1>6, <1>7

\* Dividing a flat index by a stride gives the index of the block of data behind
\* the dimensions so far, which is what the last coordinate extends.
LEMMA PartialOffsets ==
  ASSUME NEW s \in Seq(Nat), NEW idx, \A i \in 1..Len(s) : idx[i] \in 0..(s[i] - 1)
  PROVE  \E h \in [0..Len(s) -> Nat] :
           /\ h[0] = 0
           /\ \A i \in 1..Len(s) : h[i] = h[i - 1] * s[i] + idx[i]
           /\ h[Len(s)] = FlatIndex(s, idx)
           /\ \A i \in 0..Len(s) : h[i] * TailSize(s, i) + TailSize(s, i) <= DataSize(s)
<1> DEFINE n == Len(s)
           f == [i \in 1..n |-> idx[i] * Strides(s)[i]]
<1>1. /\ n \in Nat
      /\ \A i \in 1..n : s[i] \in Nat \ {0} /\ idx[i] \in Nat /\ idx[i] + 1 <= s[i]
  OBVIOUS
<1>2. s \in Seq(Nat \ {0})
  BY <1>1
<1>3. /\ TailSize(s, n) = 1
      /\ TailSize(s, 0) = DataSize(s)
      /\ \A i \in 0..n : TailSize(s, i) \in Nat \ {0}
      /\ \A i \in 1..n : Strides(s)[i] = TailSize(s, i)
                         /\ TailSize(s, i - 1) = s[i] * TailSize(s, i)
  BY <1>2, TailSizes, TailSizesPositive
<1>4. DOMAIN f = 1..n /\ \A i \in 1..n : f[i] = idx[i] * TailSize(s, i) /\ f[i] \in Int
  <2>1. \A i \in 1..n : idx[i] \in Nat /\ TailSize(s, i) \in Nat
    BY <1>1, <1>3
  <2> QED
    BY <1>3, <2>1
<1>5. FlatIndex(s, idx) = Summed(f)
  BY DEF FlatIndex, Summed
<1> HIDE DEF f
<1>6. PICK g \in [0..n -> Int] :
        g[0] = 0 /\ (\A i \in 1..n : g[i] = g[i - 1] + f[i]) /\ Summed(f) = g[n]
  BY <1>1, <1>4, SumSteps
<1> DEFINE h == [i \in 0..n |-> g[i] \div TailSize(s, i)]
           Good(i) == \E q \in Nat : g[i] = q * TailSize(s, i)
           S == {i \in 0..n : Good(i)}
<1>7. ASSUME NEW i \in 0..n, NEW q \in Nat, g[i] = q * TailSize(s, i)
      PROVE  h[i] = q
  <2>1. TailSize(s, i) \in Nat \ {0}
    BY <1>3
  <2>2. g[i] \in Nat /\ g[i] = q * TailSize(s, i) + 0 /\ 0 \in 0..(TailSize(s, i) - 1)
    BY <1>7, <2>1
  <2>3. g[i] \div TailSize(s, i) = q
    BY <2>1, <2>2, DivUnique
  <2> QED
    BY <2>3
<1>8. ASSUME NEW i \in 1..n, NEW q \in Nat, g[i - 1] = q * TailSize(s, i - 1)
      PROVE  q * s[i] + idx[i] \in Nat /\ g[i] = (q * s[i] + idx[i]) * TailSize(s, i)
  <2>1. TailSize(s, i) \in Nat /\ s[i] \in Nat /\ idx[i] \in Nat
    BY <1>1, <1>3
  <2>2. g[i] = q * (s[i] * TailSize(s, i)) + idx[i] * TailSize(s, i)
    BY <1>3, <1>4, <1>6, <1>8
  <2>3. (q * s[i] + idx[i]) * TailSize(s, i)
          = q * (s[i] * TailSize(s, i)) + idx[i] * TailSize(s, i)
    BY <2>1, Regroup, SMTT(30)
  <2>4. q * s[i] \in Nat
    BY <2>1, NatTimes
  <2>5. q * s[i] + idx[i] \in Nat
    BY <2>1, <2>4, SMTT(30)
  <2>6. g[i] = (q * s[i] + idx[i]) * TailSize(s, i)
    BY <2>2, <2>3, Zenon
  <2> QED
    BY <2>5, <2>6
<1>9. 0 \in S
  <2>1. 0 * TailSize(s, 0) = 0
    BY <1>1, <1>3
  <2>2. Good(0)
    BY <1>6, <2>1
  <2> QED
    BY <1>1, <2>2
<1>10. ASSUME NEW i \in 0..(n - 1), i \in S PROVE i + 1 \in S
  <2>1. i + 1 \in 1..n /\ i + 1 - 1 = i /\ i + 1 \in 0..n
    BY <1>1
  <2>2. PICK q \in Nat : g[i] = q * TailSize(s, i)
    BY <1>10
  <2>3. Good(i + 1)
    BY <1>8, <2>1, <2>2
  <2> HIDE DEF Good
  <2> QED
    BY <2>1, <2>3
<1>11. \A i \in 0..n : Good(i)
  <2> HIDE DEF S
  <2>1. \A i \in 0..n : i \in S
    BY <1>1, <1>9, <1>10, InductionUpTo
  <2> QED
    BY <2>1 DEF S
<1> HIDE DEF h
<1>12. ASSUME NEW i \in 0..n PROVE h[i] \in Nat /\ g[i] = h[i] * TailSize(s, i)
  BY <1>7, <1>11
<1>13. ASSUME NEW i \in 1..n PROVE h[i] = h[i - 1] * s[i] + idx[i]
  <2>1. i - 1 \in 0..n /\ i \in 0..n
    BY <1>1
  <2>2. h[i - 1] \in Nat /\ g[i - 1] = h[i - 1] * TailSize(s, i - 1)
    BY <1>12, <2>1
  <2>3. /\ h[i - 1] * s[i] + idx[i] \in Nat
        /\ g[i] = (h[i - 1] * s[i] + idx[i]) * TailSize(s, i)
    BY <1>8, <2>2
  <2> QED
    BY <1>7, <2>1, <2>3
<1>14. h[0] = 0
  <2>1. 0 \in 0..n
    BY <1>1
  <2>2. TailSize(s, 0) \in Nat
    BY <1>3, <2>1
  <2>3. g[0] = 0 * TailSize(s, 0)
    BY <1>6, <2>2
  <2> QED
    BY <1>7, <2>1, <2>3
<1>15. h[n] = FlatIndex(s, idx)
  <2>1. n \in 0..n
    BY <1>1
  <2>2. g[n] = h[n] * 1 /\ h[n] \in Nat
    BY <1>3, <1>12, <2>1
  <2>3. g[n] = h[n]
    BY <2>2
  <2> QED
    BY <1>5, <1>6, <2>3, Zenon
<1>16. h \in [0..n -> Nat]
  <2>1. h = [i \in 0..n |-> h[i]]
    BY DEF h
  <2> QED
    BY <1>12, <2>1
<1> DEFINE B == {i \in 0..n : h[i] * TailSize(s, i) + TailSize(s, i) <= DataSize(s)}
<1>17. 0 \in B
  <2>1. 0 * TailSize(s, 0) = 0 /\ TailSize(s, 0) \in Nat
    BY <1>1, <1>3
  <2> QED
    BY <1>1, <1>3, <1>14, <2>1
<1>18. ASSUME NEW i \in 0..(n - 1), i \in B PROVE i + 1 \in B
  <2>1. i + 1 \in 1..n /\ i + 1 - 1 = i /\ i + 1 \in 0..n /\ i \in 0..n
    BY <1>1
  <2> DEFINE t == TailSize(s, i + 1)
             d == s[i + 1]
             x == idx[i + 1]
             q == h[i]
  <2>2. t \in Nat /\ d \in Nat /\ x \in Nat /\ x + 1 <= d /\ q \in Nat
    BY <1>1, <1>3, <1>12, <2>1
  <2>3. h[i + 1] = q * d + x
    BY <1>13, <2>1
  <2>4. TailSize(s, i) = d * t
    BY <1>3, <2>1
  <2>5. q * (d * t) + d * t <= DataSize(s)
    BY <1>18, <2>4
  <2>6. DataSize(s) \in Nat
    BY <1>1, <1>3
  <2> HIDE DEF t, d, x, q
  <2>9. (q * d + x) * t + t <= DataSize(s)
    BY <2>2, <2>5, <2>6, NextBlock
  <2> QED
    BY <2>1, <2>3, <2>9 DEF t
<1>19. \A i \in 0..n : h[i] * TailSize(s, i) + TailSize(s, i) <= DataSize(s)
  <2> HIDE DEF B
  <2>1. \A i \in 0..n : i \in B
    BY <1>1, <1>17, <1>18, InductionUpTo
  <2> QED
    BY <2>1 DEF B
<1> QED
  BY <1>13, <1>14, <1>15, <1>16, <1>19

\* An index within the shape has a place in the data.
THEOREM FlatIndexInRange ==
  ASSUME NEW s \in Seq(Nat), NEW idx, \A i \in 1..Len(s) : idx[i] \in 0..(s[i] - 1)
  PROVE  FlatIndex(s, idx) \in 0..(DataSize(s) - 1)
<1>1. PICK h \in [0..Len(s) -> Nat] :
        /\ h[Len(s)] = FlatIndex(s, idx)
        /\ \A i \in 0..Len(s) : h[i] * TailSize(s, i) + TailSize(s, i) <= DataSize(s)
  BY PartialOffsets
<1>2. Len(s) \in 0..Len(s) /\ TailSize(s, Len(s)) = 1
  <2>1. Len(s) \in Nat
    OBVIOUS
  <2> QED
    BY <2>1, TailSizes
<1>3. h[Len(s)] * 1 + 1 <= DataSize(s) /\ h[Len(s)] \in Nat
  BY <1>1, <1>2
<1>4. DataSize(s) \in Nat
  <2>1. 0 \in 0..Len(s)
    BY <1>2
  <2> QED
    BY <2>1, TailSizes
<1> QED
  BY <1>1, <1>3, <1>4

\* Whatever follows, the next block of rows lies behind this one.
LEMMA LaterBlock ==
  ASSUME NEW g \in Nat, NEW h \in Nat, NEW d \in Nat, NEW x \in Nat, NEW y \in Nat,
         y + 1 <= d, g + 1 <= h
  PROVE  (g * d + y) + 1 <= h * d + x
<1>1. (g + 1) * d <= h * d
  BY TimesMonotone
<1>2. (g + 1) * d = g * d + d
  OBVIOUS
<1>3. g * d \in Nat /\ h * d \in Nat
  BY NatTimes
<1> QED
  BY <1>1, <1>2, <1>3

\* The layout is row-major: of two indices the one that is smaller in the first
\* coordinate they differ in comes first.
THEOREM RowMajor ==
  ASSUME NEW s \in Seq(Nat),
         NEW idx, \A i \in 1..Len(s) : idx[i] \in 0..(s[i] - 1),
         NEW jdx, \A i \in 1..Len(s) : jdx[i] \in 0..(s[i] - 1),
         NEW p \in 1..Len(s), jdx[p] < idx[p], \A k \in 1..(p - 1) : jdx[k] = idx[k]
  PROVE  FlatIndex(s, jdx) < FlatIndex(s, idx)
<1> DEFINE n == Len(s)
<1>1. n \in Nat /\ \A i \in 1..n : s[i] \in Nat \ {0} /\ idx[i] \in Nat /\ jdx[i] \in Nat
                                   /\ jdx[i] + 1 <= s[i]
  BY SMTT(30)
<1>2. PICK h \in [0..n -> Nat] :
        /\ h[0] = 0
        /\ \A i \in 1..n : h[i] = h[i - 1] * s[i] + idx[i]
        /\ h[n] = FlatIndex(s, idx)
  BY PartialOffsets
<1>3. PICK g \in [0..n -> Nat] :
        /\ g[0] = 0
        /\ \A i \in 1..n : g[i] = g[i - 1] * s[i] + jdx[i]
        /\ g[n] = FlatIndex(s, jdx)
  BY PartialOffsets
<1> DEFINE S == {i \in 0..n : IF i < p THEN g[i] = h[i] ELSE g[i] + 1 <= h[i]}
<1>4. 0 \in S
  BY <1>1, <1>2, <1>3
<1>5. ASSUME NEW i \in 0..(n - 1), i \in S PROVE i + 1 \in S
  <2>1. i + 1 \in 1..n /\ i + 1 - 1 = i /\ i + 1 \in 0..n /\ i \in 0..n
    BY <1>1
  <2> DEFINE d == s[i + 1]
             x == idx[i + 1]
             y == jdx[i + 1]
  <2>2. d \in Nat /\ x \in Nat /\ y \in Nat /\ y + 1 <= d /\ g[i] \in Nat /\ h[i] \in Nat
    BY <1>1, <1>2, <1>3, <2>1
  <2>3. h[i + 1] = h[i] * d + x /\ g[i + 1] = g[i] * d + y
    BY <1>2, <1>3, <2>1
  <2>4. i + 1 < p => x = y
    BY <1>1, <2>1
  <2>5. i + 1 = p => y < x
    BY <2>1
  <2> HIDE DEF d, x, y
  <2>6. g[i] * d \in Nat /\ h[i] * d \in Nat
    BY <2>2, NatTimes
  <2>7. CASE i + 1 < p
    <3>1. g[i] = h[i]
      BY <1>5, <2>1, <2>7
    <3> QED
      BY <2>1, <2>3, <2>4, <2>7, <3>1
  <2>8. CASE i + 1 = p
    <3>1. g[i] = h[i]
      BY <1>5, <2>1, <2>8
    <3>2. h[i + 1] = g[i] * d + x
      BY <2>3, <3>1
    <3>3. \A z \in Nat : (z + y) + 1 <= z + x
      BY <2>2, <2>5, <2>8
    <3>4. (g[i] * d + y) + 1 <= g[i] * d + x
      BY <2>6, <3>3
    <3>5. g[i + 1] + 1 <= h[i + 1]
      BY <2>3, <3>2, <3>4, Zenon
    <3> QED
      BY <2>1, <2>8, <3>5
  <2>9. CASE i + 1 > p
    <3>1. g[i] + 1 <= h[i]
      BY <1>5, <2>1, <2>9
    <3>2. (g[i] * d + y) + 1 <= h[i] * d + x
      BY <2>2, <3>1, LaterBlock
    <3>3. g[i + 1] + 1 <= h[i + 1]
      BY <2>3, <3>2, Zenon
    <3> QED
      BY <2>1, <2>9, <3>3
  <2> QED
    BY <2>1, <2>7, <2>8, <2>9
<1>6. n \in S
  <2> HIDE DEF S
  <2>1. \A i \in 0..n : i \in S
    BY <1>1, <1>4, <1>5, InductionUpTo
  <2> QED
    BY <1>1, <2>1
<1>7. g[n] + 1 <= h[n] /\ g[n] \in Nat /\ h[n] \in Nat
  BY <1>1, <1>2, <1>3, <1>6, SMTT(30)
<1> QED
  BY <1>2, <1>3, <1>7

\* Two sequences of numbers that differ do so first somewhere.
DiffersFirst(idx, jdx, p) == idx[p] # jdx[p] /\ \A k \in 1..(p - 1) : idx[k] = jdx[k]

LEMMA FirstDifference ==
  ASSUME NEW n \in Nat, NEW idx, NEW jdx, NEW q \in 1..n, idx[q] # jdx[q]
  PROVE  \E p \in 1..n : DiffersFirst(idx, jdx, p)
<1> DEFINE T == {i \in 1..n : idx[i] # jdx[i]}
<1>1. T \in SUBSET Nat /\ T # {}
  OBVIOUS
<1> HIDE DEF T
<1>2. PICK p \in T : \A m \in T : p <= m
  BY <1>1, LeastNumber
<1>3. p \in 1..n /\ idx[p] # jdx[p]
  BY DEF T
<1>4. ASSUME NEW k \in 1..(p - 1) PROVE idx[k] = jdx[k]
  <2>1. k \in 1..n /\ k \notin T
    BY <1>2, <1>3
  <2> QED
    BY <2>1 DEF T
<1> QED
  BY <1>3, <1>4 DEF DiffersFirst

\* Different indices have different places.
THEOREM FlatIndexOneToOne ==
  ASSUME NEW s \in Seq(Nat),
         NEW idx, \A i \in 1..Len(s) : idx[i] \in 0..(s[i] - 1),
         NEW jdx, \A i \in 1..Len(s) : jdx[i] \in 0..(s[i] - 1),
         FlatIndex(s, idx) = FlatIndex(s, jdx)
  PROVE  \A i \in 1..Len(s) : idx[i] = jdx[i]
<1> SUFFICES ASSUME NEW q \in 1..Len(s), idx[q] # jdx[q] PROVE FALSE
  OBVIOUS
<1>1. Len(s) \in Nat
  OBVIOUS
<1>2a. PICK p \in 1..Len(s) : DiffersFirst(idx, jdx, p)
  BY <1>1, FirstDifference
<1>2. idx[p] # jdx[p] /\ \A k \in 1..(p - 1) : idx[k] = jdx[k]
  BY <1>2a DEF DiffersFirst
<1>3. FlatIndex(s, idx) \in Int /\ FlatIndex(s, jdx) \in Int
  BY FlatIndexInRange
<1>4. idx[p] \in Int /\ jdx[p] \in Int
  OBVIOUS
<1>5. CASE idx[p] < jdx[p]
  <2>1. FlatIndex(s, idx) < FlatIndex(s, jdx)
    BY <1>2, <1>5, RowMajor
  <2> QED
    BY <1>3, <2>1
<1>6. CASE jdx[p] < idx[p]
  <2>1. \A k \in 1..(p - 1) : jdx[k] = idx[k]
    BY <1>2
  <2>2. FlatIndex(s, jdx) < FlatIndex(s, idx)
    BY <2>1, <1>6, RowMajor
  <2> QED
    BY <1>3, <2>2
<1> QED
  BY <1>2, <1>4, <1>5, <1>6

\* A tensor with elements has no dimension of size 0.
LEMMA NonEmptyShape ==
  ASSUME NEW s \in Seq(Nat), DataSize(s) # 0
  PROVE  s \in Seq(Nat \ {0})
<1> DEFINE n == Len(s)
<1>1. n \in Nat /\ \A i \in 1..n : s[i] \in Nat
  OBVIOUS
<1>2. /\ TailSize(s, 0) # 0
      /\ \A i \in 0..n : TailSize(s, i) \in Nat
      /\ \A i \in 1..n : TailSize(s, i - 1) = s[i] * TailSize(s, i)
  BY TailSizes
<1> DEFINE S == {i \in 0..n : TailSize(s, i) # 0}
<1>3. 0 \in S
  BY <1>1, <1>2
<1>4. ASSUME NEW i \in 1..n, TailSize(s, i - 1) # 0
      PROVE  s[i] # 0 /\ TailSize(s, i) # 0
  <2>1. s[i] \in Nat /\ TailSize(s, i) \in Nat /\ s[i] * TailSize(s, i) # 0
    BY <1>1, <1>2, <1>4
  <2> QED
    BY <2>1
<1>5. ASSUME NEW i \in 0..(n - 1), i \in S PROVE i + 1 \in S
  <2>1. i + 1 \in 1..n /\ i + 1 - 1 = i /\ i + 1 \in 0..n
    BY <1>1
  <2> QED
    BY <1>4, <1>5, <2>1
<1> HIDE DEF S
<1>6. \A i \in 0..n : i \in S
  BY <1>1, <1>3, <1>5, InductionUpTo
<1>7. ASSUME NEW i \in 1..n PROVE s[i] \in Nat \ {0}
  <2>1. i - 1 \in 0..n
    BY <1>1
  <2>2. TailSize(s, i - 1) # 0
    BY <1>6, <2>1 DEF S
  <2> QED
    BY <1>1, <1>4, <2>2
<1> QED
  BY <1>7

\* Every place in the data is that of an index within the shape.
THEOREM Unflatten ==
  ASSUME NEW s \in Seq(Nat), NEW k \in 0..(DataSize(s) - 1)
  PROVE  LET idx == [i \in 1..Len(s) |-> (k \div TailSize(s, i)) % s[i]]
         IN  FlatIndex(s, idx) = k /\ \A i \in 1..Len(s) : idx[i] \in 0..(s[i] - 1)
<1> DEFINE n == Len(s)
           idx == [i \in 1..n |-> (k \div TailSize(s, i)) % s[i]]
<1>1. n \in Nat /\ DataSize(s) \in Nat /\ k \in Nat /\ k < DataSize(s)
  <2>1. n \in Nat /\ 0 \in 0..n
    OBVIOUS
  <2>2. DataSize(s) \in Nat
    BY <2>1, TailSizes
  <2> QED
    BY <2>1, <2>2
<1>2. s \in Seq(Nat \ {0})
  BY <1>1, NonEmptyShape
<1>3. /\ \A i \in 0..n : TailSize(s, i) \in Nat \ {0}
      /\ TailSize(s, 0) = DataSize(s)
      /\ TailSize(s, n) = 1
      /\ \A i \in 1..n : s[i] \in Nat \ {0} /\ TailSize(s, i - 1) = s[i] * TailSize(s, i)
  BY <1>2, TailSizes, TailSizesPositive
<1>4. ASSUME NEW i \in 1..n
      PROVE  /\ k \div TailSize(s, i) \in Nat
             /\ idx[i] = (k \div TailSize(s, i)) % s[i]
             /\ idx[i] \in 0..(s[i] - 1)
             /\ (k \div TailSize(s, i - 1)) * s[i] + idx[i] = k \div TailSize(s, i)
  <2>1. TailSize(s, i) \in Nat \ {0} /\ s[i] \in Nat \ {0}
    BY <1>1, <1>3
  <2>2. /\ (k \div TailSize(s, i)) \div s[i] = k \div (s[i] * TailSize(s, i))
        /\ k \div TailSize(s, i) \in Nat
    BY <1>1, <2>1, DivDiv, ZenonT(30)
  <2> DEFINE q == k \div TailSize(s, i)
             d == s[i]
  <2>3. k \div TailSize(s, i - 1) = q \div d
    BY <1>3, <2>2
  <2>4. idx[i] = q % d
    OBVIOUS
  <2>5. q \in Nat /\ d \in Nat \ {0}
    BY <2>1, <2>2
  <2> HIDE DEF q, d, idx
  <2>6. q % d \in 0..(d - 1) /\ (q \div d) * d + (q % d) = q
    <3>1. \A x \in Nat, y \in Nat \ {0} : x % y \in 0..(y - 1) /\ (x \div y) * y + (x % y) = x
      OBVIOUS
    <3> QED
      BY <2>5, <3>1
  <2> QED
    BY <2>3, <2>4, <2>5, <2>6 DEF q, d
<1> HIDE DEF idx
<1>5. PICK h \in [0..n -> Nat] :
        /\ h[0] = 0
        /\ \A i \in 1..n : h[i] = h[i - 1] * s[i] + idx[i]
        /\ h[n] = FlatIndex(s, idx)
  <2>1. \A i \in 1..Len(s) : idx[i] \in 0..(s[i] - 1)
    BY <1>4
  <2> QED
    BY <2>1, PartialOffsets
<1> DEFINE S == {i \in 0..n : h[i] = k \div TailSize(s, i)}
<1>6. 0 \in S
  <2>1. TailSize(s, 0) \in Nat \ {0} /\ k = 0 * TailSize(s, 0) + k /\ k \in 0..(TailSize(s, 0) - 1)
    BY <1>1, <1>3
  <2>2. k \div TailSize(s, 0) = 0
    BY <1>1, <2>1, DivUnique
  <2> QED
    BY <1>1, <1>5, <2>2
<1>7. ASSUME NEW i \in 0..(n - 1), i \in S PROVE i + 1 \in S
  <2>1. i + 1 \in 1..n /\ i + 1 - 1 = i /\ i + 1 \in 0..n
    BY <1>1
  <2>2. h[i + 1] = h[i] * s[i + 1] + idx[i + 1] /\ h[i] = k \div TailSize(s, i)
    BY <1>5, <1>7, <2>1
  <2>3. (k \div TailSize(s, i)) * s[i + 1] + idx[i + 1] = k \div TailSize(s, i + 1)
    BY <1>4, <2>1
  <2>4. h[i + 1] = k \div TailSize(s, i + 1)
    BY <2>2, <2>3, Zenon
  <2> QED
    BY <2>1, <2>4
<1> HIDE DEF S
<1>8. \A i \in 0..n : i \in S
  BY <1>1, <1>6, <1>7, InductionUpTo
<1>9. h[n] = k
  <2>1. n \in 0..n
    BY <1>1
  <2>2. h[n] = k \div TailSize(s, n)
    BY <1>8, <2>1 DEF S
  <2>3. k \div 1 = k
    BY <1>1
  <2> QED
    BY <1>3, <2>2, <2>3, Zenon
<1> QED
  BY <1>4, <1>5, <1>9 DEF idx

\* Zeros at the end add nothing.
LEMMA TrailingZeros ==
  ASSUME NEW m \in Nat, NEW n \in Nat, m <= n,
         NEW f, DOMAIN f = 1..m, \A i \in 1..m : f[i] \in Int,
         NEW h, DOMAIN h = 1..n,
         \A i \in 1..n : h[i] = IF i <= m THEN f[i] ELSE 0
  PROVE  Summed(h) = Summed(f)
<1>1. \A i \in 1..n : h[i] \in Int
  <2>1. ASSUME NEW i \in 1..n PROVE h[i] \in Int
    <3>1. i <= m => i \in 1..m
      OBVIOUS
    <3> QED
      BY <3>1
  <2> QED
    BY <2>1
<1>2. PICK g \in [0..m -> Int] :
        g[0] = 0 /\ (\A i \in 1..m : g[i] = g[i - 1] + f[i]) /\ Summed(f) = g[m]
  BY SumSteps
<1>3. PICK e \in [0..n -> Int] :
        e[0] = 0 /\ (\A i \in 1..n : e[i] = e[i - 1] + h[i]) /\ Summed(h) = e[n]
  BY <1>1, SumSteps
<1> DEFINE S == {i \in 0..n : e[i] = IF i <= m THEN g[i] ELSE g[m]}
<1>4. 0 \in S
  BY <1>2, <1>3
<1>5. ASSUME NEW i \in 0..(n - 1), i \in S PROVE i + 1 \in S
  <2>1. i + 1 \in 1..n /\ i + 1 - 1 = i /\ i + 1 \in 0..n
    OBVIOUS
  <2>2. e[i + 1] = e[i] + h[i + 1]
    BY <1>3, <2>1
  <2>3. CASE i + 1 <= m
    <3>1. i + 1 \in 1..m /\ i <= m
      BY <2>3
    <3>2. g[i + 1] = g[i] + f[i + 1] /\ h[i + 1] = f[i + 1] /\ e[i] = g[i]
      BY <1>2, <1>5, <2>1, <2>3, <3>1
    <3> QED
      BY <2>1, <2>2, <2>3, <3>2
  <2>4. CASE ~(i + 1 <= m)
    <3>1. h[i + 1] = 0
      BY <2>1, <2>4
    <3>2. e[i] = g[m]
      <4>1. i <= m => i = m
        BY <2>4
      <4> QED
        BY <1>5, <4>1
    <3>3. e[i + 1] = g[m]
      <4>1. g[m] \in Int
        OBVIOUS
      <4> QED
        BY <2>2, <3>1, <3>2, <4>1
    <3> QED
      BY <2>1, <2>4, <3>3
  <2> QED
    BY <2>3, <2>4
<1> HIDE DEF S
<1>6. n \in S
  <2>1. \A i \in 0..n : i \in S
    BY <1>4, <1>5, InductionUpTo
  <2> QED
    BY <2>1
<1>7. e[n] = g[m]
  BY <1>6 DEF S
<1> QED
  BY <1>2, <1>3, <1>7

=============================================================================
