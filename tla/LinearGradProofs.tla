-------------------------- MODULE LinearGradProofs --------------------------
(***************************************************************************)
(* For every number type, given by how it rounds, and every size: the      *)
(* loops of MSE stay in the tensors and skip nothing but what rounds to    *)
(* the size itself, also when they compute for a network.                  *)
(*                                                                         *)
(* For every network, batch and true outputs: the gradients backward       *)
(* stores are the derivatives of the loss.  One number is moved up and     *)
(* down; the two predictions stay around the one the program made, the     *)
(* loss is quadratic in their difference, and the sum of products of that  *)
(* difference with the gradient is the same at every layer, because        *)
(* backward applies the transpose of what forward applies.                 *)
(***************************************************************************)
EXTENDS LinearGrad, TensorShapeProofs, SequenceTheorems

(* Sums: Total by its partial sums, and what is linear in its summands.      *)

\* A sum by its partial sums.
LEMMA TotalSteps ==
  ASSUME NEW N \in Nat, NEW f \in [1..N -> Int]
  PROVE  \E g \in [0..N -> Int] :
           g[0] = 0 /\ (\A i \in 1..N : g[i] = g[i - 1] + f[i]) /\ Total(f) = g[N]
<1>1. DOMAIN f = 1..N /\ \A i \in 1..N : f[i] \in Int
  OBVIOUS
<1>2. Total(f) = Summed(f)
  BY DEF Total, Summed
<1>3. PICK g \in [0..N -> Int] :
        g[0] = 0 /\ (\A i \in 1..N : g[i] = g[i - 1] + f[i]) /\ Summed(f) = g[N]
  BY <1>1, SumSteps
<1> QED
  BY <1>2, <1>3

LEMMA TotalInt ==
  ASSUME NEW N \in Nat, NEW f \in [1..N -> Int]
  PROVE  Total(f) \in Int
BY TotalSteps

LEMMA TotalEmpty ==
  ASSUME NEW f \in [1..0 -> Int]
  PROVE  Total(f) = 0
BY TotalSteps

\* A sum and its last summand.
LEMMA TotalExtends ==
  ASSUME NEW N \in Nat, NEW f \in [1..(N + 1) -> Int]
  PROVE  LET front == [i \in 1..N |-> f[i]]
         IN  front \in [1..N -> Int] /\ Total(f) = Total(front) + f[N + 1]
<1> DEFINE front == [i \in 1..N |-> f[i]]
<1>1. front \in [1..N -> Int] /\ \A i \in 1..N : front[i] = f[i]
  OBVIOUS
<1>2. PICK g \in [0..(N + 1) -> Int] :
        g[0] = 0 /\ (\A i \in 1..(N + 1) : g[i] = g[i - 1] + f[i]) /\ Total(f) = g[N + 1]
  <2>1. N + 1 \in Nat
    OBVIOUS
  <2> QED
    BY <2>1, TotalSteps
<1> HIDE DEF front
<1>3. PICK h \in [0..N -> Int] :
        h[0] = 0 /\ (\A i \in 1..N : h[i] = h[i - 1] + front[i]) /\ Total(front) = h[N]
  BY <1>1, TotalSteps
<1> DEFINE S == {n \in 0..N : g[n] = h[n]}
<1>4. 0 \in S
  BY <1>2, <1>3
<1>5. ASSUME NEW n \in 0..(N - 1), n \in S PROVE n + 1 \in S
  <2>1. n + 1 \in 1..N /\ n + 1 \in 1..(N + 1) /\ n + 1 - 1 = n /\ n + 1 \in 0..N
    OBVIOUS
  <2>2. g[n + 1] = g[n] + f[n + 1]
    BY <1>2, <2>1
  <2>3. h[n + 1] = h[n] + front[n + 1]
    BY <1>1, <1>3, <2>1
  <2> QED
    BY <1>1, <1>5, <2>1, <2>2, <2>3
<1> HIDE DEF S
<1>6. N \in S
  <2>1. \A n \in 0..N : n \in S
    BY <1>4, <1>5, InductionUpTo
  <2> QED
    BY <2>1
<1>7. g[N + 1] = g[N] + f[N + 1]
  <2>1. N + 1 \in 1..(N + 1) /\ N + 1 - 1 = N
    OBVIOUS
  <2> QED
    BY <1>2, <2>1
<1>8. g[N] = h[N]
  BY <1>6 DEF S
<1>9. Total(f) = Total(front) + f[N + 1]
  BY <1>2, <1>3, <1>7, <1>8
<1> QED
  BY <1>1, <1>9 DEF front

\* Equal summands have equal sums.
LEMMA TotalEqual ==
  ASSUME NEW N \in Nat, NEW f \in [1..N -> Int], NEW h \in [1..N -> Int], \A i \in 1..N : f[i] = h[i]
  PROVE  Total(f) = Total(h)
<1>1. f = h
  OBVIOUS
<1> QED
  BY <1>1

\* A sum is linear in its summands.
LEMMA TotalPlus ==
  ASSUME NEW N \in Nat, NEW f \in [1..N -> Int], NEW h \in [1..N -> Int], NEW k \in [1..N -> Int],
         \A i \in 1..N : k[i] = f[i] + h[i]
  PROVE  Total(k) = Total(f) + Total(h)
<1>1. PICK g1 \in [0..N -> Int] :
        g1[0] = 0 /\ (\A i \in 1..N : g1[i] = g1[i - 1] + f[i]) /\ Total(f) = g1[N]
  BY TotalSteps
<1>2. PICK g2 \in [0..N -> Int] :
        g2[0] = 0 /\ (\A i \in 1..N : g2[i] = g2[i - 1] + h[i]) /\ Total(h) = g2[N]
  BY TotalSteps
<1>3. PICK g3 \in [0..N -> Int] :
        g3[0] = 0 /\ (\A i \in 1..N : g3[i] = g3[i - 1] + k[i]) /\ Total(k) = g3[N]
  BY TotalSteps
<1> DEFINE S == {n \in 0..N : g3[n] = g1[n] + g2[n]}
<1>4. 0 \in S
  BY <1>1, <1>2, <1>3
<1>5. ASSUME NEW n \in 0..(N - 1), n \in S PROVE n + 1 \in S
  <2>1. n + 1 \in 1..N /\ n + 1 - 1 = n /\ n + 1 \in 0..N /\ n \in 0..N
    OBVIOUS
  <2>2. /\ g1[n + 1] = g1[n] + f[n + 1] /\ g2[n + 1] = g2[n] + h[n + 1]
        /\ g3[n + 1] = g3[n] + k[n + 1] /\ k[n + 1] = f[n + 1] + h[n + 1]
    <3>1. g1[n + 1] = g1[n] + f[n + 1]
      BY <1>1, <2>1
    <3>2. g2[n + 1] = g2[n] + h[n + 1]
      BY <1>2, <2>1
    <3>3. g3[n + 1] = g3[n] + k[n + 1]
      BY <1>3, <2>1
    <3> QED
      BY <2>1, <3>1, <3>2, <3>3
  <2>3. g1[n] \in Int /\ g2[n] \in Int /\ f[n + 1] \in Int /\ h[n + 1] \in Int
    BY <2>1
  <2> QED
    BY <1>5, <2>1, <2>2, <2>3
<1> HIDE DEF S
<1>6. \A n \in 0..N : n \in S
  BY <1>4, <1>5, InductionUpTo
<1>7. g3[N] = g1[N] + g2[N]
  BY <1>6 DEF S
<1> QED
  BY <1>1, <1>2, <1>3, <1>7

\* The summands of k are those of f and h added up.
AddUp(N, f, h, k) ==
  /\ N \in Nat /\ f \in [1..N -> Int] /\ h \in [1..N -> Int] /\ k \in [1..N -> Int]
  /\ \A i \in 1..N : k[i] = f[i] + h[i]

LEMMA TotalAddsUp ==
  ASSUME NEW N, NEW f, NEW h, NEW k, AddUp(N, f, h, k)
  PROVE  Total(k) = Total(f) + Total(h) /\ Total(k) \in Int /\ Total(f) \in Int /\ Total(h) \in Int
BY TotalPlus, TotalInt DEF AddUp

LEMMA Distribute == \A a, b, c \in Int : a * (b + c) = a * b + a * c /\ a * b \in Int
OBVIOUS

\* A factor comes out of a sum.
LEMMA TotalTimes ==
  ASSUME NEW N \in Nat, NEW f \in [1..N -> Int], NEW a \in Int, NEW k \in [1..N -> Int],
         \A i \in 1..N : k[i] = a * f[i]
  PROVE  Total(k) = a * Total(f)
<1>1. PICK g1 \in [0..N -> Int] :
        g1[0] = 0 /\ (\A i \in 1..N : g1[i] = g1[i - 1] + f[i]) /\ Total(f) = g1[N]
  BY TotalSteps
<1>3. PICK g3 \in [0..N -> Int] :
        g3[0] = 0 /\ (\A i \in 1..N : g3[i] = g3[i - 1] + k[i]) /\ Total(k) = g3[N]
  BY TotalSteps
<1> DEFINE S == {n \in 0..N : g3[n] = a * g1[n]}
<1>4. 0 \in S
  BY <1>1, <1>3
<1>5. ASSUME NEW n \in 0..(N - 1), n \in S PROVE n + 1 \in S
  <2>1. n + 1 \in 1..N /\ n + 1 - 1 = n /\ n + 1 \in 0..N /\ n \in 0..N
    OBVIOUS
  <2>1a. g1[n + 1] = g1[n] + f[n + 1]
    BY <1>1, <2>1
  <2>1b. g3[n + 1] = g3[n] + k[n + 1]
    BY <1>3, <2>1
  <2>1c. k[n + 1] = a * f[n + 1]
    BY <2>1
  <2>2. /\ g1[n + 1] = g1[n] + f[n + 1]
        /\ g3[n + 1] = g3[n] + k[n + 1] /\ k[n + 1] = a * f[n + 1]
    BY <2>1a, <2>1b, <2>1c
  <2>3. g1[n] \in Int /\ f[n + 1] \in Int
    BY <2>1
  <2>4. a * g1[n + 1] = a * g1[n] + a * f[n + 1]
    BY <2>2, <2>3, Distribute
  <2>5. g3[n] = a * g1[n]
    BY <1>5
  <2> QED
    BY <2>1, <2>2, <2>4, <2>5
<1> HIDE DEF S
<1>6. \A n \in 0..N : n \in S
  BY <1>4, <1>5, InductionUpTo
<1>7. g3[N] = a * g1[N]
  BY <1>6 DEF S
<1> QED
  BY <1>1, <1>3, <1>7

\* A sum of which one summand is not 0.
LEMMA TotalOfOne ==
  ASSUME NEW N \in Nat, NEW f \in [1..N -> Int], NEW c \in 1..N, \A i \in 1..N : i # c => f[i] = 0
  PROVE  Total(f) = f[c]
<1>1. PICK g \in [0..N -> Int] :
        g[0] = 0 /\ (\A i \in 1..N : g[i] = g[i - 1] + f[i]) /\ Total(f) = g[N]
  BY TotalSteps
<1> DEFINE S == {n \in 0..N : g[n] = IF n < c THEN 0 ELSE f[c]}
<1>4. 0 \in S
  BY <1>1
<1>5. ASSUME NEW n \in 0..(N - 1), n \in S PROVE n + 1 \in S
  <2>1. n + 1 \in 1..N /\ n + 1 - 1 = n /\ n + 1 \in 0..N /\ n \in 0..N
    OBVIOUS
  <2>2. g[n + 1] = g[n] + f[n + 1]
    BY <1>1, <2>1
  <2>3. f[n + 1] \in Int /\ f[c] \in Int
    BY <2>1
  <2>4. g[n] = IF n < c THEN 0 ELSE f[c]
    BY <1>5
  <2>5. n + 1 # c => f[n + 1] = 0
    BY <2>1
  <2>6. g[n + 1] = IF n + 1 < c THEN 0 ELSE f[c]
    <3>1. CASE n + 1 < c
      BY <2>1, <2>2, <2>4, <2>5, <3>1
    <3>2. CASE n + 1 = c
      BY <2>1, <2>2, <2>3, <2>4, <3>2
    <3>3. CASE n + 1 > c
      BY <2>1, <2>2, <2>3, <2>4, <2>5, <3>3
    <3> QED
      BY <2>1, <3>1, <3>2, <3>3
  <2> QED
    BY <2>1, <2>6
<1> HIDE DEF S
<1>6. \A n \in 0..N : n \in S
  BY <1>4, <1>5, InductionUpTo
<1>7. g[N] = f[c]
  BY <1>6 DEF S
<1> QED
  BY <1>1, <1>7

LEMMA TotalOfZeros ==
  ASSUME NEW N \in Nat, NEW f \in [1..N -> Int], \A i \in 1..N : f[i] = 0
  PROVE  Total(f) = 0
<1>1. \A i \in 1..N : f[i] = f[i] + f[i]
  OBVIOUS
<1>2. Total(f) = Total(f) + Total(f)
  BY <1>1, TotalPlus
<1> QED
  BY <1>2, TotalInt

\* A sum taken row by row is the sum taken column by column.
LEMMA TotalExchange ==
  ASSUME NEW N \in Nat, NEW M \in Nat, NEW f \in [1..N -> [1..M -> Int]]
  PROVE  Total([i \in 1..N |-> Total(f[i])])
           = Total([j \in 1..M |-> Total([i \in 1..N |-> f[i][j]])])
<1> DEFINE rows(n) == [i \in 1..n |-> Total(f[i])]
           column(n, j) == [i \in 1..n |-> f[i][j]]
           columns(n) == [j \in 1..M |-> Total(column(n, j))]
           S == {n \in 0..N : Total(rows(n)) = Total(columns(n))}
<1>1. \A i \in 1..N : f[i] \in [1..M -> Int] /\ Total(f[i]) \in Int
  BY TotalInt
<1>2. ASSUME NEW n \in 0..N
      PROVE  rows(n) \in [1..n -> Int] /\ \A j \in 1..M : column(n, j) \in [1..n -> Int]
  <2>1. \A i \in 1..n : i \in 1..N
    OBVIOUS
  <2> QED
    BY <1>1, <2>1
<1>3. ASSUME NEW n \in 0..N PROVE columns(n) \in [1..M -> Int]
  <2>1. ASSUME NEW j \in 1..M PROVE Total(column(n, j)) \in Int
    BY <1>2, TotalInt
  <2> QED
    BY <2>1
<1>4. 0 \in S
  <2>1. 0 \in 0..N /\ 0 \in Nat
    OBVIOUS
  <2>2. Total(rows(0)) = 0
    <3>1. rows(0) \in [1..0 -> Int]
      BY <1>2, <2>1
    <3> HIDE DEF rows
    <3> QED
      BY <3>1, TotalEmpty
  <2>3. ASSUME NEW j \in 1..M PROVE columns(0)[j] = 0
    <3>1. column(0, j) \in [1..0 -> Int]
      BY <1>2, <2>1
    <3> HIDE DEF column
    <3>2. Total(column(0, j)) = 0
      BY <3>1, TotalEmpty
    <3> QED
      BY <3>2
  <2>4. columns(0) \in [1..M -> Int]
    BY <1>3, <2>1
  <2>5. Total(columns(0)) = 0
    <3> HIDE DEF columns
    <3> QED
      BY <2>3, <2>4, TotalOfZeros
  <2> HIDE DEF rows, columns
  <2> QED
    BY <2>1, <2>2, <2>5
<1>5. ASSUME NEW n \in 0..(N - 1), n \in S PROVE n + 1 \in S
  <2>1. n \in Nat /\ n \in 0..N /\ n + 1 \in 0..N /\ n + 1 \in 1..N
    OBVIOUS
  <2>2. Total(rows(n + 1)) = Total(rows(n)) + Total(f[n + 1])
    <3>1. rows(n + 1) \in [1..(n + 1) -> Int]
      BY <1>2, <2>1
    <3>2. [i \in 1..n |-> rows(n + 1)[i]] = rows(n)
      OBVIOUS
    <3>3. rows(n + 1)[n + 1] = Total(f[n + 1])
      OBVIOUS
    <3> HIDE DEF rows
    <3>4. Total(rows(n + 1)) = Total([i \in 1..n |-> rows(n + 1)[i]]) + rows(n + 1)[n + 1]
      BY <2>1, <3>1, TotalExtends
    <3> QED
      BY <3>2, <3>3, <3>4
  <2>3. ASSUME NEW j \in 1..M PROVE Total(column(n + 1, j)) = Total(column(n, j)) + f[n + 1][j]
    <3>1. column(n + 1, j) \in [1..(n + 1) -> Int]
      BY <1>2, <2>1
    <3>2. [i \in 1..n |-> column(n + 1, j)[i]] = column(n, j)
      OBVIOUS
    <3>3. column(n + 1, j)[n + 1] = f[n + 1][j]
      OBVIOUS
    <3> HIDE DEF column
    <3>4. Total(column(n + 1, j)) = Total([i \in 1..n |-> column(n + 1, j)[i]]) + column(n + 1, j)[n + 1]
      BY <2>1, <3>1, TotalExtends
    <3> QED
      BY <3>2, <3>3, <3>4
  <2>4. Total(columns(n + 1)) = Total(columns(n)) + Total(f[n + 1])
    <3>1. columns(n + 1) \in [1..M -> Int] /\ columns(n) \in [1..M -> Int] /\ f[n + 1] \in [1..M -> Int]
      BY <1>1, <1>3, <2>1
    <3>2. \A j \in 1..M : columns(n + 1)[j] = columns(n)[j] + f[n + 1][j]
      BY <2>3
    <3> HIDE DEF columns
    <3> QED
      BY <3>1, <3>2, TotalPlus
  <2>5. Total(rows(n)) = Total(columns(n))
    BY <1>5
  <2> QED
    BY <2>1, <2>2, <2>4, <2>5
<1> HIDE DEF S
<1>6. \A n \in 0..N : n \in S
  BY <1>4, <1>5, InductionUpTo
<1>7. Total(rows(N)) = Total(columns(N))
  <2>1. N \in 0..N
    OBVIOUS
  <2>2. N \in S
    BY <1>6, <2>1
  <2> HIDE DEF rows, columns
  <2> QED
    BY <2>2 DEF S
<1> QED
  BY <1>7

-----------------------------------------------------------------------------
(* What the operators of LinearGrad on matrices compute, element by element. *)

\* What a matrix is made of.
LEMMA MatrixParts ==
  ASSUME NEW R \in Nat, NEW C \in Nat, NEW m \in MatrixOf(R, C)
  PROVE  /\ DOMAIN m = 1..R
         /\ \A r \in 1..R : m[r] \in [1..C -> Int] /\ DOMAIN m[r] = 1..C
         /\ \A r \in 1..R, c \in 1..C : m[r][c] \in Int
BY DEF MatrixOf

\* The dimensions of a matrix, as the code asks for them.
LEMMA MatrixLengths ==
  ASSUME NEW R \in Nat \ {0}, NEW C \in Nat \ {0}, NEW m \in MatrixOf(R, C)
  PROVE  Len(m) = R /\ Len(m[1]) = C /\ DOMAIN m[1] = 1..C
<1>1. m \in Seq([1..C -> Int]) /\ Len(m) = R
  BY DEF MatrixOf
<1>2. m[1] \in [1..C -> Int]
  BY DEF MatrixOf
<1>3. m[1] \in Seq(Int) /\ Len(m[1]) = C
  BY <1>2
<1> QED
  BY <1>1, <1>2, <1>3

\* A matrix given by its elements.
LEMMA MatrixByElements ==
  ASSUME NEW R, NEW C, NEW m,
         m = [r \in 1..R |-> [c \in 1..C |-> m[r][c]]],
         \A r \in 1..R, c \in 1..C : m[r][c] \in Int
  PROVE  m \in MatrixOf(R, C)
<1>1. \A r \in 1..R : m[r] \in [1..C -> Int]
  <2> TAKE r \in 1..R
  <2>1. m[r] = [c \in 1..C |-> m[r][c]]
    BY Zenon
  <2>2. \A c \in 1..C : m[r][c] \in Int
    OBVIOUS
  <2> DEFINE v == m[r]
  <2>3. v = [c \in 1..C |-> v[c]] /\ \A c \in 1..C : v[c] \in Int
    BY <2>1, <2>2
  <2> HIDE DEF v
  <2>4. v \in [1..C -> Int]
    BY <2>3
  <2> QED
    BY <2>4 DEF v
<1>2. m = [r \in 1..R |-> m[r]]
  <2> DEFINE k == [r \in 1..R |-> [c \in 1..C |-> m[r][c]]]
  <2>1. DOMAIN k = 1..R /\ k = [r \in 1..R |-> k[r]]
    BY Zenon
  <2>2. k = m
    OBVIOUS
  <2> HIDE DEF k
  <2> QED
    BY <2>1, <2>2, Zenon
<1> QED
  BY <1>1, <1>2 DEF MatrixOf

\* The product of matrices that fit.
LEMMA MatmulIs ==
  ASSUME NEW R \in Nat, NEW K \in Nat \ {0}, NEW C \in Nat, NEW a \in MatrixOf(R, K), NEW b \in MatrixOf(K, C)
  PROVE  /\ Matmul(a, b) \in MatrixOf(R, C)
         /\ \A r \in 1..R, c \in 1..C :
              /\ [k \in 1..K |-> a[r][k] * b[k][c]] \in [1..K -> Int]
              /\ Matmul(a, b)[r][c] = Total([k \in 1..K |-> a[r][k] * b[k][c]])
<1>1. DOMAIN a = 1..R /\ DOMAIN b = 1..K /\ DOMAIN b[1] = 1..C
  <2>1. 1 \in 1..K
    OBVIOUS
  <2> QED
    BY <2>1, MatrixParts
<1> DEFINE P == [r \in 1..R |-> [c \in 1..C |-> Total([k \in 1..K |-> a[r][k] * b[k][c]])]]
<1>2. Matmul(a, b) = P
  BY <1>1 DEF Matmul
<1>3. \A r \in 1..R, c \in 1..C : [k \in 1..K |-> a[r][k] * b[k][c]] \in [1..K -> Int]
  <2> TAKE r \in 1..R, c \in 1..C
  <2>1. \A k \in 1..K : a[r][k] \in Int /\ b[k][c] \in Int
    BY MatrixParts
  <2> QED
    BY <2>1
<1>4. \A r \in 1..R, c \in 1..C : P[r][c] = Total([k \in 1..K |-> a[r][k] * b[k][c]])
  BY Zenon
<1>5. \A r \in 1..R, c \in 1..C : Total([k \in 1..K |-> a[r][k] * b[k][c]]) \in Int
  <2> TAKE r \in 1..R, c \in 1..C
  <2>1. [k \in 1..K |-> a[r][k] * b[k][c]] \in [1..K -> Int] /\ K \in Nat
    BY <1>3
  <2> QED
    BY <2>1, TotalInt
<1>6. P \in MatrixOf(R, C)
  <2>1. P = [r \in 1..R |-> [c \in 1..C |-> P[r][c]]]
    BY Zenon
  <2>2. \A r \in 1..R, c \in 1..C : P[r][c] \in Int
    BY <1>4, <1>5
  <2> HIDE DEF P
  <2> QED
    BY <2>1, <2>2, MatrixByElements
<1> QED
  BY <1>2, <1>3, <1>4, <1>6

\* transpose swaps the dimensions.
LEMMA TransposeIs ==
  ASSUME NEW R \in Nat \ {0}, NEW C \in Nat, NEW m \in MatrixOf(R, C)
  PROVE  /\ TransposeOf(m) \in MatrixOf(C, R)
         /\ \A r \in 1..R, c \in 1..C : TransposeOf(m)[c][r] = m[r][c]
<1>1. DOMAIN m = 1..R /\ DOMAIN m[1] = 1..C
  <2>1. 1 \in 1..R
    OBVIOUS
  <2> QED
    BY <2>1, MatrixParts
<1> DEFINE P == [c \in 1..C |-> [r \in 1..R |-> m[r][c]]]
<1>2. TransposeOf(m) = P
  BY <1>1 DEF TransposeOf
<1>3. \A r \in 1..R, c \in 1..C : P[c][r] = m[r][c]
  OBVIOUS
<1>4. \A r \in 1..R, c \in 1..C : m[r][c] \in Int
  BY MatrixParts
<1>5. P = [c \in 1..C |-> [r \in 1..R |-> P[c][r]]]
  BY Zenon
<1> HIDE DEF P
<1>6. P \in MatrixOf(C, R)
  BY <1>3, <1>4, <1>5, MatrixByElements
<1> QED
  BY <1>2, <1>3, <1>6

\* What a row becomes in one column of a product, and of a product with the
\* transposed matrix.
Through(K, v, W, c) == Total([k \in 1..K |-> v[k] * W[k][c]])
Back(O, v, W, k) == Total([c \in 1..O |-> v[c] * W[k][c]])

LEMMA ProductIs ==
  ASSUME NEW R \in Nat, NEW K \in Nat \ {0}, NEW C \in Nat, NEW a \in MatrixOf(R, K), NEW b \in MatrixOf(K, C)
  PROVE  \A r \in 1..R, c \in 1..C : Through(K, a[r], b, c) \in Int /\ Matmul(a, b)[r][c] = Through(K, a[r], b, c)
<1>0. \A r \in 1..R, c \in 1..C :
        /\ [k \in 1..K |-> a[r][k] * b[k][c]] \in [1..K -> Int]
        /\ Matmul(a, b)[r][c] = Total([k \in 1..K |-> a[r][k] * b[k][c]])
  BY MatmulIs
<1> TAKE r \in 1..R, c \in 1..C
<1> DEFINE products == [k \in 1..K |-> a[r][k] * b[k][c]]
<1>1. products \in [1..K -> Int] /\ Matmul(a, b)[r][c] = Total(products)
  BY <1>0
<1>2. Total(products) = Through(K, a[r], b, c)
  BY DEF Through
<1> HIDE DEF products
<1>3. Total(products) \in Int
  BY <1>1, TotalInt
<1> QED
  BY <1>1, <1>2, <1>3

\* Linear::forward and the three products of Linear::backward, element by element.
LEMMA ForwardIs ==
  ASSUME NEW B \in Nat, NEW I \in Nat \ {0}, NEW O \in Nat, NEW l \in LayerOf(I, O), NEW m \in MatrixOf(B, I)
  PROVE  /\ Forward(l, m) \in MatrixOf(B, O)
         /\ \A r \in 1..B, c \in 1..O :
              /\ l.bias[c] \in Int /\ Through(I, m[r], l.weights, c) \in Int
              /\ Forward(l, m)[r][c] = Through(I, m[r], l.weights, c) + l.bias[c]
<1>1. l.weights \in MatrixOf(I, O) /\ l.bias \in [1..O -> Int]
  BY DEF LayerOf
<1> DEFINE y == Matmul(m, l.weights)
           P == [r \in 1..B |-> [c \in 1..O |-> y[r][c] + l.bias[c]]]
<1>2. y \in MatrixOf(B, O)
  BY <1>1, MatmulIs
<1>3. \A r \in 1..B, c \in 1..O :
        Through(I, m[r], l.weights, c) \in Int /\ y[r][c] = Through(I, m[r], l.weights, c)
  <2> DEFINE W == l.weights
  <2>1. W \in MatrixOf(I, O) /\ y = Matmul(m, W)
    BY <1>1
  <2> HIDE DEF W, y
  <2>2. \A r \in 1..B, c \in 1..O : Through(I, m[r], W, c) \in Int /\ y[r][c] = Through(I, m[r], W, c)
    BY <2>1, ProductIs
  <2> QED
    BY <2>2 DEF W
<1> HIDE DEF y
<1>4. DOMAIN y = 1..B /\ \A r \in 1..B : DOMAIN y[r] = 1..O
  BY <1>2, MatrixParts
<1>5. \A r \in 1..B, c \in 1..O : y[r][c] \in Int /\ l.bias[c] \in Int
  BY <1>1, <1>2, MatrixParts
<1>6. Forward(l, m) = P
  <2> DEFINE Q == [r \in DOMAIN y |-> [c \in DOMAIN y[r] |-> y[r][c] + l.bias[c]]]
  <2>1. Forward(l, m) = Q
    BY DEF Forward, y
  <2>2. \A r \in 1..B : [c \in DOMAIN y[r] |-> y[r][c] + l.bias[c]] = [c \in 1..O |-> y[r][c] + l.bias[c]]
    BY <1>4
  <2>3. Q = P
    BY <1>4, <2>2, Zenon
  <2> QED
    BY <2>1, <2>3
<1>7. /\ P = [r \in 1..B |-> [c \in 1..O |-> P[r][c]]]
      /\ \A r \in 1..B, c \in 1..O : P[r][c] = y[r][c] + l.bias[c]
  <2>1. P = [r \in 1..B |-> [c \in 1..O |-> P[r][c]]]
    BY Zenon
  <2>2. \A r \in 1..B, c \in 1..O : P[r][c] = y[r][c] + l.bias[c]
    OBVIOUS
  <2> QED
    BY <2>1, <2>2
<1> HIDE DEF P
<1>7a. P = [r \in 1..B |-> [c \in 1..O |-> P[r][c]]]
  BY <1>7
<1>8. P \in MatrixOf(B, O)
  <2>1. \A r \in 1..B, c \in 1..O : P[r][c] \in Int
    <3> TAKE r \in 1..B, c \in 1..O
    <3>1. P[r][c] = y[r][c] + l.bias[c] /\ y[r][c] \in Int /\ l.bias[c] \in Int
      BY <1>5, <1>7
    <3> QED
      BY <3>1
  <2> QED
    BY <1>7a, <2>1, MatrixByElements
<1>9. ASSUME NEW r \in 1..B, NEW c \in 1..O
      PROVE  /\ l.bias[c] \in Int /\ Through(I, m[r], l.weights, c) \in Int
             /\ Forward(l, m)[r][c] = Through(I, m[r], l.weights, c) + l.bias[c]
  <2>1. y[r][c] = Through(I, m[r], l.weights, c) /\ Through(I, m[r], l.weights, c) \in Int
    BY <1>3
  <2>2. P[r][c] = y[r][c] + l.bias[c]
    BY <1>7
  <2> QED
    BY <1>5, <1>6, <2>1, <2>2
<1> QED
  BY <1>6, <1>8, <1>9

\* The three products of Linear::backward.
LEMMA GradInputIs ==
  ASSUME NEW B \in Nat, NEW I \in Nat \ {0}, NEW O \in Nat \ {0}, NEW l \in LayerOf(I, O), NEW g \in MatrixOf(B, O)
  PROVE  /\ GradInput(l, g) \in MatrixOf(B, I)
         /\ \A r \in 1..B, k \in 1..I : GradInput(l, g)[r][k] = Back(O, g[r], l.weights, k)
<1> DEFINE W == l.weights
           T == TransposeOf(W)
<1>1. W \in MatrixOf(I, O)
  BY DEF LayerOf
<1>2. T \in MatrixOf(O, I) /\ \A k \in 1..I, c \in 1..O : T[c][k] = W[k][c]
  BY <1>1, TransposeIs
<1>3. GradInput(l, g) = Matmul(g, T)
  BY DEF GradInput
<1> HIDE DEF T, W
<1>4. /\ Matmul(g, T) \in MatrixOf(B, I)
      /\ \A r \in 1..B, k \in 1..I : Matmul(g, T)[r][k] = Total([c \in 1..O |-> g[r][c] * T[c][k]])
  BY <1>2, MatmulIs
<1>5. ASSUME NEW r \in 1..B, NEW k \in 1..I
      PROVE  [c \in 1..O |-> g[r][c] * T[c][k]] = [c \in 1..O |-> g[r][c] * W[k][c]]
  BY <1>2
<1>6. ASSUME NEW r \in 1..B, NEW k \in 1..I
      PROVE  GradInput(l, g)[r][k] = Back(O, g[r], W, k)
  BY <1>3, <1>4, <1>5 DEF Back
<1> QED
  BY <1>3, <1>4, <1>6 DEF W

LEMMA GradWeightsIs ==
  ASSUME NEW B \in Nat \ {0}, NEW I \in Nat, NEW O \in Nat \ {0}, NEW m \in MatrixOf(B, I), NEW g \in MatrixOf(B, O)
  PROVE  \A k \in 1..I, c \in 1..O :
           GradWeights(m, g)[k][c] = Total([r \in 1..B |-> m[r][k] * g[r][c]])
<1> DEFINE T == TransposeOf(m)
<1>2. T \in MatrixOf(I, B) /\ \A r \in 1..B, k \in 1..I : T[k][r] = m[r][k]
  BY TransposeIs
<1>3. GradWeights(m, g) = Matmul(T, g)
  BY DEF GradWeights
<1> HIDE DEF T
<1>4. \A k \in 1..I, c \in 1..O : Matmul(T, g)[k][c] = Total([r \in 1..B |-> T[k][r] * g[r][c]])
  BY <1>2, MatmulIs
<1>5. ASSUME NEW c \in 1..O, NEW k \in 1..I
      PROVE  [r \in 1..B |-> T[k][r] * g[r][c]] = [r \in 1..B |-> m[r][k] * g[r][c]]
  BY <1>2
<1> QED
  BY <1>3, <1>4, <1>5

LEMMA GradBiasIs ==
  ASSUME NEW B \in Nat \ {0}, NEW O \in Nat, NEW g \in MatrixOf(B, O)
  PROVE  \A c \in 1..O : GradBias(g)[c] = Total([r \in 1..B |-> g[r][c]])
<1>1. DOMAIN g = 1..B /\ DOMAIN g[1] = 1..O
  <2>1. 1 \in 1..B
    OBVIOUS
  <2> QED
    BY <2>1, MatrixParts
<1>2. GradBias(g) = [c \in 1..O |-> Total([r \in 1..B |-> g[r][c]])]
  BY <1>1 DEF GradBias
<1> QED
  BY <1>2, Zenon

\* What an activation lets through, and what its derivative does.
Activations == {"none", "relu", "sigmoid"}
Masked(l, g, y) == IF l.act # "none" THEN Derivative(g, y) ELSE g

\* The activation and its derivative, element by element.
LEMMA ActivatedIs ==
  ASSUME NEW R \in Nat, NEW C \in Nat, NEW l, l.act \in Activations, NEW m \in MatrixOf(R, C)
  PROVE  /\ Activated(l, m) \in MatrixOf(R, C)
         /\ \A r \in 1..R, c \in 1..C :
              Activated(l, m)[r][c] = IF l.act # "none" /\ ~(m[r][c] > 0) THEN 0 ELSE m[r][c]
<1>1. CASE l.act = "none"
  <2>1. Activated(l, m) = m
    BY <1>1 DEF Activated
  <2> QED
    BY <1>1, <2>1
<1>2. CASE l.act # "none"
  <2> DEFINE P == [r \in 1..R |-> [c \in 1..C |-> IF m[r][c] > 0 THEN m[r][c] ELSE 0]]
  <2>1. Activated(l, m) = [r \in DOMAIN m |-> [c \in DOMAIN m[r] |-> IF m[r][c] > 0 THEN m[r][c] ELSE 0]]
    BY <1>2 DEF Activated, Activations, Map, ReLU, Sigmoid
  <2>2. Activated(l, m) = P
    BY <2>1, MatrixParts
  <2>3. /\ P = [r \in 1..R |-> [c \in 1..C |-> P[r][c]]]
        /\ \A r \in 1..R, c \in 1..C : P[r][c] = IF m[r][c] > 0 THEN m[r][c] ELSE 0
    BY Zenon
  <2> HIDE DEF P
  <2>4. P \in MatrixOf(R, C)
    <3>1. \A r \in 1..R, c \in 1..C : m[r][c] \in Int
      BY MatrixParts
    <3>2. \A r \in 1..R, c \in 1..C : P[r][c] \in Int
      BY <2>3, <3>1
    <3> QED
      BY <2>3, <3>2, MatrixByElements
  <2>5. \A r \in 1..R, c \in 1..C : P[r][c] = IF l.act # "none" /\ ~(m[r][c] > 0) THEN 0 ELSE m[r][c]
    BY <1>2, <2>3
  <2> QED
    BY <2>2, <2>4, <2>5
<1> QED
  BY <1>1, <1>2

LEMMA MaskedIs ==
  ASSUME NEW R \in Nat, NEW C \in Nat, NEW l, NEW g \in MatrixOf(R, C), NEW y
  PROVE  /\ Masked(l, g, y) \in MatrixOf(R, C)
         /\ \A r \in 1..R, c \in 1..C :
              Masked(l, g, y)[r][c] = IF l.act # "none" /\ ~(y[r][c] > 0) THEN 0 ELSE g[r][c]
<1>1. CASE l.act = "none"
  <2>1. Masked(l, g, y) = g
    BY <1>1 DEF Masked
  <2> QED
    BY <1>1, <2>1
<1>2. CASE l.act # "none"
  <2> DEFINE P == [r \in 1..R |-> [c \in 1..C |-> IF y[r][c] > 0 THEN g[r][c] ELSE 0]]
  <2>1. Masked(l, g, y) = [r \in DOMAIN g |-> [c \in DOMAIN g[r] |-> IF y[r][c] > 0 THEN g[r][c] ELSE 0]]
    BY <1>2 DEF Masked, Derivative
  <2>2. Masked(l, g, y) = P
    BY <2>1, MatrixParts
  <2>3. /\ P = [r \in 1..R |-> [c \in 1..C |-> P[r][c]]]
        /\ \A r \in 1..R, c \in 1..C : P[r][c] = IF y[r][c] > 0 THEN g[r][c] ELSE 0
    BY Zenon
  <2> HIDE DEF P
  <2>4. P \in MatrixOf(R, C)
    <3>1. \A r \in 1..R, c \in 1..C : g[r][c] \in Int
      BY MatrixParts
    <3>2. \A r \in 1..R, c \in 1..C : P[r][c] \in Int
      BY <2>3, <3>1
    <3> QED
      BY <2>3, <3>2, MatrixByElements
  <2>5. \A r \in 1..R, c \in 1..C : P[r][c] = IF l.act # "none" /\ ~(y[r][c] > 0) THEN 0 ELSE g[r][c]
    BY <1>2, <2>3
  <2> QED
    BY <2>2, <2>4, <2>5
<1> QED
  BY <1>1, <1>2

-----------------------------------------------------------------------------
(* Sums over all elements of two matrices.  Backward is the adjoint of forward: *)
(* multiplying by the transposed weights moves from one side of the sum to the other. *)

LEMMA Swap == \A a, b, c \in Int : a * (b * c) = b * (a * c) /\ a * b = b * a /\ a * b \in Int
OBVIOUS

LEMMA TakeOut == \A a, b, c \in Int : (a + b) * c = a * c + b * c /\ (a - b) * c = a * c - b * c
OBVIOUS

\* The inner product of two vectors.
Pair(K, v, d) == Total([k \in 1..K |-> v[k] * d[k]])

\* Passing a vector through a matrix and pairing the result with another vector
\* is pairing it with the other vector passed back.
Mapped(K, O, d, W, e) ==
  /\ K \in Nat /\ O \in Nat /\ W \in MatrixOf(K, O) /\ d \in [1..K -> Int] /\ e \in [1..O -> Int]
  /\ \A c \in 1..O : e[c] = Through(K, d, W, c)
MappedBack(K, O, g, W, h) ==
  /\ g \in [1..O -> Int] /\ h \in [1..K -> Int]
  /\ \A k \in 1..K : h[k] = Back(O, g, W, k)

\* A product with a row and with a column, exchanged.
LEMMA VectorAdjoint ==
  ASSUME NEW K, NEW O, NEW g, NEW d, NEW W, NEW e, Mapped(K, O, d, W, e), NEW h, MappedBack(K, O, g, W, h)
  PROVE  Pair(O, g, e) = Pair(K, h, d)
<1> DEFINE across(k) == [c \in 1..O |-> g[c] * W[k][c]]
           down(c) == [k \in 1..K |-> d[k] * W[k][c]]
           f == [k \in 1..K |-> [c \in 1..O |-> d[k] * (g[c] * W[k][c])]]
           column(c) == [k \in 1..K |-> f[k][c]]
<1>0. /\ K \in Nat /\ O \in Nat /\ W \in MatrixOf(K, O)
      /\ g \in [1..O -> Int] /\ d \in [1..K -> Int]
  BY DEF Mapped, MappedBack
<1>1. \A k \in 1..K, c \in 1..O : W[k][c] \in Int /\ g[c] \in Int /\ d[k] \in Int
  BY <1>0, MatrixParts
<1>2. ASSUME NEW k \in 1..K
      PROVE  /\ across(k) \in [1..O -> Int] /\ f[k] \in [1..O -> Int]
             /\ Total(f[k]) = Total(across(k)) * d[k]
  <2>1. across(k) \in [1..O -> Int] /\ \A c \in 1..O : across(k)[c] = g[c] * W[k][c]
    BY <1>1
  <2>2. /\ f[k] = [c \in 1..O |-> d[k] * (g[c] * W[k][c])]
        /\ \A c \in 1..O : f[k][c] = d[k] * across(k)[c]
    BY Zenon
  <2>3. d[k] \in Int /\ O \in Nat
    BY <1>0
  <2> DEFINE v == f[k]
             u == across(k)
  <2> HIDE DEF across, f
  <2>4. v \in [1..O -> Int]
    <3>1. \A c \in 1..O : d[k] * (g[c] * W[k][c]) \in Int
      BY <1>1, Swap
    <3> QED
      BY <2>2, <3>1
  <2>5. \A c \in 1..O : v[c] = d[k] * u[c]
    BY <2>2
  <2>6. u \in [1..O -> Int]
    BY <2>1
  <2> HIDE DEF v, u
  <2>7. Total(v) = d[k] * Total(u) /\ Total(u) \in Int
    BY <2>3, <2>4, <2>5, <2>6, TotalTimes, TotalInt
  <2>8. Total(v) = Total(u) * d[k]
    BY <2>3, <2>7, Swap
  <2> QED
    BY <2>4, <2>6, <2>8 DEF u, v
<1>3. ASSUME NEW c \in 1..O
      PROVE  Total(column(c)) = g[c] * Total(down(c))
  <2> DEFINE v == column(c)
             u == down(c)
  <2>1. u \in [1..K -> Int] /\ \A k \in 1..K : u[k] = d[k] * W[k][c]
    BY <1>1
  <2>2. \A k \in 1..K : v[k] = d[k] * (g[c] * W[k][c])
    OBVIOUS
  <2>3. \A k \in 1..K : v[k] = g[c] * u[k] /\ v[k] \in Int
    <3> TAKE k \in 1..K
    <3>1. d[k] \in Int /\ g[c] \in Int /\ W[k][c] \in Int
      BY <1>1
    <3>2. v[k] = d[k] * (g[c] * W[k][c])
      BY <2>2
    <3>3. u[k] = d[k] * W[k][c] /\ u[k] \in Int
      BY <2>1
    <3>4. v[k] = g[c] * (d[k] * W[k][c])
      <4> DEFINE p == d[k]
                 q == g[c]
                 w == W[k][c]
      <4>1. p \in Int /\ q \in Int /\ w \in Int /\ v[k] = p * (q * w)
        BY <3>1, <3>2
      <4> HIDE DEF p, q, w, v
      <4>2. v[k] = q * (p * w)
        BY <4>1, Swap
      <4> QED
        BY <4>2 DEF p, q, w
    <3> HIDE DEF u, v
    <3>5. g[c] * u[k] \in Int
      BY <3>1, <3>3, Swap
    <3> QED
      BY <3>3, <3>4, <3>5
  <2>4. v = [k \in 1..K |-> v[k]]
    BY Zenon
  <2>5. g[c] \in Int /\ K \in Nat
    BY <1>0
  <2> HIDE DEF v, u
  <2>6. v \in [1..K -> Int]
    BY <2>3, <2>4
  <2>7. Total(v) = g[c] * Total(u)
    BY <2>1, <2>3, <2>5, <2>6, TotalTimes
  <2> QED
    BY <2>7 DEF u, v
<1>4. f \in [1..K -> [1..O -> Int]]
  <2>1. f = [k \in 1..K |-> f[k]]
    BY Zenon
  <2>2. \A k \in 1..K : f[k] \in [1..O -> Int]
    BY <1>2
  <2> HIDE DEF f
  <2> QED
    BY <2>1, <2>2
<1>5. Total([k \in 1..K |-> Total(f[k])]) = Total([c \in 1..O |-> Total(column(c))])
  <2> HIDE DEF f
  <2> QED
    BY <1>0, <1>4, TotalExchange
<1>6. [k \in 1..K |-> Total(f[k])] = [k \in 1..K |-> Total(across(k)) * d[k]]
  <2>1. \A k \in 1..K : Total(f[k]) = Total(across(k)) * d[k]
    BY <1>2
  <2> HIDE DEF f, across
  <2> QED
    BY <2>1
<1>7. [c \in 1..O |-> Total(column(c))] = [c \in 1..O |-> g[c] * Total(down(c))]
  <2>1. \A c \in 1..O : Total(column(c)) = g[c] * Total(down(c))
    BY <1>3
  <2> HIDE DEF column, down
  <2> QED
    BY <2>1
<1>8. Total([c \in 1..O |-> g[c] * Total(down(c))]) = Total([k \in 1..K |-> Total(across(k)) * d[k]])
  <2> HIDE DEF f, column, down, across
  <2> QED
    BY <1>5, <1>6, <1>7
<1>9. Pair(O, g, e) = Total([c \in 1..O |-> g[c] * Total(down(c))])
  <2>1. \A c \in 1..O : e[c] = Total(down(c))
    BY DEF Mapped, Through
  <2> HIDE DEF down
  <2>2. [c \in 1..O |-> g[c] * e[c]] = [c \in 1..O |-> g[c] * Total(down(c))]
    BY <2>1
  <2> QED
    BY <2>2 DEF Pair
<1>10. Pair(K, h, d) = Total([k \in 1..K |-> Total(across(k)) * d[k]])
  <2>1. \A k \in 1..K : h[k] = Total(across(k))
    BY DEF MappedBack, Back
  <2> HIDE DEF across
  <2>2. [k \in 1..K |-> h[k] * d[k]] = [k \in 1..K |-> Total(across(k)) * d[k]]
    BY <2>1
  <2> QED
    BY <2>2 DEF Pair
<1> HIDE DEF down, across
<1> QED
  BY <1>8, <1>9, <1>10

\* The inner product of two matrices.
Inner(R, C, g, d) == Total([r \in 1..R |-> Pair(C, g[r], d[r])])

\* Sums over two matrices compared row by row, and element by element.
LEMMA InnerByRows ==
  ASSUME NEW R, NEW C, NEW D, NEW g, NEW d, NEW h, NEW e,
         \A r \in 1..R : Pair(C, g[r], d[r]) = Pair(D, h[r], e[r])
  PROVE  Inner(R, C, g, d) = Inner(R, D, h, e)
<1>1. [r \in 1..R |-> Pair(C, g[r], d[r])] = [r \in 1..R |-> Pair(D, h[r], e[r])]
  OBVIOUS
<1> QED
  BY <1>1 DEF Inner

LEMMA InnerByElements ==
  ASSUME NEW R, NEW C, NEW g, NEW d, NEW h, NEW e,
         \A r \in 1..R, c \in 1..C : g[r][c] * d[r][c] = h[r][c] * e[r][c]
  PROVE  Inner(R, C, g, d) = Inner(R, C, h, e)
<1>1. ASSUME NEW r \in 1..R
      PROVE  Pair(C, g[r], d[r]) = Pair(C, h[r], e[r])
  <2>1. [c \in 1..C |-> g[r][c] * d[r][c]] = [c \in 1..C |-> h[r][c] * e[r][c]]
    OBVIOUS
  <2> QED
    BY <2>1 DEF Pair
<1> QED
  BY <1>1, InnerByRows

\* Two matrices at the same distance from a third, one on each side.
Around(R, C, up, mid, down) ==
  /\ up \in MatrixOf(R, C) /\ mid \in MatrixOf(R, C) /\ down \in MatrixOf(R, C)
  /\ \A r \in 1..R, c \in 1..C : up[r][c] + down[r][c] = 2 * mid[r][c]

Diff(R, C, up, down) == [r \in 1..R |-> [c \in 1..C |-> up[r][c] - down[r][c]]]

\* The difference of two matrices has their shape.
LEMMA DiffIs ==
  ASSUME NEW R \in Nat, NEW C \in Nat, NEW up \in MatrixOf(R, C), NEW down \in MatrixOf(R, C)
  PROVE  /\ Diff(R, C, up, down) \in MatrixOf(R, C)
         /\ \A r \in 1..R, c \in 1..C : Diff(R, C, up, down)[r][c] = up[r][c] - down[r][c]
<1> DEFINE D == Diff(R, C, up, down)
<1>1. D = [r \in 1..R |-> [c \in 1..C |-> D[r][c]]] /\ \A r \in 1..R, c \in 1..C : D[r][c] = up[r][c] - down[r][c]
  BY Zenon DEF Diff
<1>2. \A r \in 1..R, c \in 1..C : up[r][c] \in Int /\ down[r][c] \in Int
  BY MatrixParts
<1> HIDE DEF D
<1>3. \A r \in 1..R, c \in 1..C : D[r][c] \in Int
  BY <1>1, <1>2
<1>4. D \in MatrixOf(R, C)
  BY <1>1, <1>3, MatrixByElements
<1> QED
  BY <1>1, <1>4 DEF D

-----------------------------------------------------------------------------
(* Three matrices, a step up, the middle and a step down, through a layer.   *)

\* The same numbers, one step up and one step down, keep their middle through a
\* linear map, and their distance is mapped as they are.
AroundVector(I, u, m, d, dif) ==
  /\ I \in Nat /\ u \in [1..I -> Int] /\ m \in [1..I -> Int] /\ d \in [1..I -> Int]
  /\ \A k \in 1..I : u[k] + d[k] = 2 * m[k] /\ dif[k] = u[k] - d[k]

\* A row stays around its middle when it goes through the weights.
LEMMA ThroughAround ==
  ASSUME NEW I, NEW u, NEW m, NEW d, NEW dif, AroundVector(I, u, m, d, dif),
         NEW W, NEW p, \A k \in 1..I : W[k][p] \in Int
  PROVE  /\ Through(I, u, W, p) + Through(I, d, W, p) = 2 * Through(I, m, W, p)
         /\ Through(I, u, W, p) - Through(I, d, W, p) = Through(I, dif, W, p)
<1> DEFINE w == [k \in 1..I |-> W[k][p]]
           a == [k \in 1..I |-> u[k] * w[k]]
           b == [k \in 1..I |-> d[k] * w[k]]
           c == [k \in 1..I |-> m[k] * w[k]]
           e == [k \in 1..I |-> (u[k] - d[k]) * w[k]]
           s == [k \in 1..I |-> u[k] * w[k] + d[k] * w[k]]
<1>0. /\ I \in Nat /\ u \in [1..I -> Int] /\ m \in [1..I -> Int] /\ d \in [1..I -> Int]
      /\ \A k \in 1..I : u[k] + d[k] = 2 * m[k] /\ dif[k] = u[k] - d[k]
  BY DEF AroundVector
<1>1. \A k \in 1..I : u[k] \in Int /\ d[k] \in Int /\ m[k] \in Int /\ w[k] \in Int /\ u[k] - d[k] \in Int
  BY <1>0
<1>2. /\ a \in [1..I -> Int] /\ b \in [1..I -> Int] /\ c \in [1..I -> Int] /\ e \in [1..I -> Int]
      /\ s \in [1..I -> Int]
  <2>1. \A k \in 1..I : /\ u[k] * w[k] \in Int /\ d[k] * w[k] \in Int /\ m[k] * w[k] \in Int
                        /\ (u[k] - d[k]) * w[k] \in Int /\ u[k] * w[k] + d[k] * w[k] \in Int
    <3> TAKE k \in 1..I
    <3>1. u[k] * w[k] \in Int /\ d[k] * w[k] \in Int /\ m[k] * w[k] \in Int /\ (u[k] - d[k]) * w[k] \in Int
      BY <1>1, Swap
    <3> QED
      BY <3>1
  <2> QED
    BY <2>1
<1>3. \A k \in 1..I : s[k] = a[k] + b[k] /\ s[k] = c[k] + c[k] /\ a[k] = b[k] + e[k]
  <2> TAKE k \in 1..I
  <2>1. a[k] = u[k] * w[k] /\ b[k] = d[k] * w[k] /\ c[k] = m[k] * w[k] /\ e[k] = (u[k] - d[k]) * w[k]
        /\ s[k] = u[k] * w[k] + d[k] * w[k]
    OBVIOUS
  <2>2. /\ u[k] * w[k] \in Int /\ d[k] * w[k] \in Int /\ m[k] * w[k] \in Int
        /\ u[k] + d[k] = m[k] + m[k]
    BY <1>0, <1>1, Swap
  <2>3. /\ (u[k] + d[k]) * w[k] = u[k] * w[k] + d[k] * w[k]
        /\ (m[k] + m[k]) * w[k] = m[k] * w[k] + m[k] * w[k]
        /\ (u[k] - d[k]) * w[k] = u[k] * w[k] - d[k] * w[k]
    BY <1>1, TakeOut
  <2>4. u[k] * w[k] + d[k] * w[k] = m[k] * w[k] + m[k] * w[k]
    BY <2>2, <2>3
  <2>5. s[k] = a[k] + b[k]
    BY <2>1
  <2>6. s[k] = c[k] + c[k]
    BY <2>1, <2>4
  <2>7. a[k] = b[k] + e[k]
    BY <2>1, <2>2, <2>3
  <2> HIDE DEF a, b, c, e, s
  <2> QED
    BY <2>5, <2>6, <2>7
<1> HIDE DEF a, b, c, e, s
<1>4. AddUp(I, a, b, s) /\ AddUp(I, c, c, s) /\ AddUp(I, b, e, a)
  BY <1>0, <1>2, <1>3 DEF AddUp
<1>5. /\ Total(s) = Total(a) + Total(b) /\ Total(s) = Total(c) + Total(c) /\ Total(a) = Total(b) + Total(e)
      /\ Total(a) \in Int /\ Total(b) \in Int /\ Total(c) \in Int /\ Total(e) \in Int
  BY <1>4, TotalAddsUp
<1>6. Total(a) + Total(b) = 2 * Total(c) /\ Total(a) - Total(b) = Total(e)
  BY <1>5
<1>7. /\ a = [k \in 1..I |-> u[k] * W[k][p]] /\ b = [k \in 1..I |-> d[k] * W[k][p]]
      /\ c = [k \in 1..I |-> m[k] * W[k][p]] /\ e = [k \in 1..I |-> dif[k] * W[k][p]]
  BY <1>0 DEF a, b, c, e
<1>8. /\ Total(a) = Through(I, u, W, p) /\ Total(b) = Through(I, d, W, p)
      /\ Total(c) = Through(I, m, W, p) /\ Total(e) = Through(I, dif, W, p)
  BY <1>7 DEF Through
<1> QED
  BY <1>6, <1>8

\* A layer before its activation.
LEMMA ForwardAround ==
  ASSUME NEW B \in Nat, NEW I \in Nat \ {0}, NEW O \in Nat \ {0}, NEW l \in LayerOf(I, O),
         NEW up, NEW mid, NEW down, Around(B, I, up, mid, down)
  PROVE  /\ Around(B, O, Forward(l, up), Forward(l, mid), Forward(l, down))
         /\ \A g \in MatrixOf(B, O) :
              Inner(B, O, g, Diff(B, O, Forward(l, up), Forward(l, down)))
                = Inner(B, I, GradInput(l, g), Diff(B, I, up, down))
<1> DEFINE W == l.weights
           bias == l.bias
           yu == Forward(l, up)
           ym == Forward(l, mid)
           yd == Forward(l, down)
           dx == Diff(B, I, up, down)
           dy == Diff(B, O, yu, yd)
<1>1. /\ up \in MatrixOf(B, I) /\ mid \in MatrixOf(B, I) /\ down \in MatrixOf(B, I)
      /\ \A r \in 1..B, k \in 1..I : up[r][k] + down[r][k] = 2 * mid[r][k]
  BY DEF Around
<1>2. W \in MatrixOf(I, O) /\ \A c \in 1..O : bias[c] \in Int
  BY DEF LayerOf
<1>3. /\ yu \in MatrixOf(B, O) /\ ym \in MatrixOf(B, O) /\ yd \in MatrixOf(B, O)
      /\ \A r \in 1..B, c \in 1..O :
           /\ yu[r][c] = Through(I, up[r], W, c) + bias[c] /\ Through(I, up[r], W, c) \in Int
           /\ ym[r][c] = Through(I, mid[r], W, c) + bias[c] /\ Through(I, mid[r], W, c) \in Int
           /\ yd[r][c] = Through(I, down[r], W, c) + bias[c] /\ Through(I, down[r], W, c) \in Int
  BY <1>1, ForwardIs
<1>4. dx \in MatrixOf(B, I) /\ \A r \in 1..B, k \in 1..I : dx[r][k] = up[r][k] - down[r][k]
  BY <1>1, DiffIs
<1>5. dy \in MatrixOf(B, O) /\ \A r \in 1..B, c \in 1..O : dy[r][c] = yu[r][c] - yd[r][c]
  <2> HIDE DEF yu, yd
  <2> QED
    BY <1>3, DiffIs
<1>6. ASSUME NEW g \in MatrixOf(B, O)
      PROVE  /\ GradInput(l, g) \in MatrixOf(B, I)
             /\ \A r \in 1..B, k \in 1..I : GradInput(l, g)[r][k] = Back(O, g[r], W, k)
  BY GradInputIs
<1> HIDE DEF W, bias, yu, ym, yd, dx, dy
<1>7. ASSUME NEW r \in 1..B, NEW c \in 1..O
      PROVE  /\ yu[r][c] + yd[r][c] = 2 * ym[r][c]
             /\ dy[r][c] = Through(I, dx[r], W, c)
  <2> DEFINE u == up[r]
             m == mid[r]
             d == down[r]
             e == dx[r]
  <2>1. /\ I \in Nat
        /\ u \in [1..I -> Int] /\ m \in [1..I -> Int] /\ d \in [1..I -> Int]
        /\ \A k \in 1..I : u[k] + d[k] = 2 * m[k]
        /\ \A k \in 1..I : e[k] = u[k] - d[k]
    BY <1>1, <1>4, MatrixParts
  <2>2. \A k \in 1..I : W[k][c] \in Int
    BY <1>2, MatrixParts
  <2>3. /\ yu[r][c] = Through(I, u, W, c) + bias[c] /\ Through(I, u, W, c) \in Int
        /\ ym[r][c] = Through(I, m, W, c) + bias[c] /\ Through(I, m, W, c) \in Int
        /\ yd[r][c] = Through(I, d, W, c) + bias[c] /\ Through(I, d, W, c) \in Int
    BY <1>3
  <2> HIDE DEF u, m, d, e
  <2>4. AroundVector(I, u, m, d, e)
    BY <2>1 DEF AroundVector
  <2>5. /\ Through(I, u, W, c) + Through(I, d, W, c) = 2 * Through(I, m, W, c)
        /\ Through(I, u, W, c) - Through(I, d, W, c) = Through(I, e, W, c)
    BY <2>2, <2>4, ThroughAround
  <2>7. bias[c] \in Int
    BY <1>2
  <2>8. yu[r][c] + yd[r][c] = 2 * ym[r][c] /\ yu[r][c] - yd[r][c] = Through(I, e, W, c)
    BY <2>3, <2>5, <2>7
  <2>9. dy[r][c] = Through(I, e, W, c)
    BY <1>5, <2>8
  <2> QED
    BY <2>8, <2>9 DEF e
<1>8. Around(B, O, yu, ym, yd)
  BY <1>3, <1>7 DEF Around
<1>9. ASSUME NEW g \in MatrixOf(B, O)
      PROVE  Inner(B, O, g, dy) = Inner(B, I, GradInput(l, g), dx)
  <2> DEFINE G == GradInput(l, g)
  <2>1. G \in MatrixOf(B, I) /\ \A r \in 1..B, k \in 1..I : G[r][k] = Back(O, g[r], W, k)
    BY <1>6
  <2> HIDE DEF G
  <2>2. ASSUME NEW r \in 1..B
        PROVE  Pair(O, g[r], dy[r]) = Pair(I, G[r], dx[r])
    <3>1. /\ g[r] \in [1..O -> Int] /\ dx[r] \in [1..I -> Int] /\ I \in Nat /\ O \in Nat
          /\ dy[r] \in [1..O -> Int] /\ G[r] \in [1..I -> Int]
      BY <1>4, <1>5, <2>1, MatrixParts
    <3>2. Mapped(I, O, dx[r], W, dy[r])
      BY <1>2, <1>7, <3>1 DEF Mapped
    <3>3. MappedBack(I, O, g[r], W, G[r])
      BY <2>1, <3>1 DEF MappedBack
    <3> QED
      BY <3>2, <3>3, VectorAdjoint
  <2>3. Inner(B, O, g, dy) = Inner(B, I, G, dx)
    BY <2>2, InnerByRows
  <2> QED
    BY <2>3 DEF G
<1> QED
  BY <1>8, <1>9 DEF yu, ym, yd, dx, dy

\* An activation, as long as none of its numbers changes sign.
SameSign(R, C, a, b) == \A r \in 1..R, c \in 1..C : (a[r][c] > 0) = (b[r][c] > 0)

\* A matrix stays around its middle when it goes through an activation that does
\* not change over, and the masked gradient takes in the difference.
LEMMA ActivatedAround ==
  ASSUME NEW B \in Nat, NEW O \in Nat, NEW l, l.act \in Activations,
         NEW up, NEW mid, NEW down, Around(B, O, up, mid, down),
         SameSign(B, O, up, mid), SameSign(B, O, down, mid)
  PROVE  /\ Around(B, O, Activated(l, up), Activated(l, mid), Activated(l, down))
         /\ \A g \in MatrixOf(B, O) :
              Inner(B, O, g, Diff(B, O, Activated(l, up), Activated(l, down)))
                = Inner(B, O, Masked(l, g, mid), Diff(B, O, up, down))
<1> DEFINE au == Activated(l, up)
           am == Activated(l, mid)
           ad == Activated(l, down)
           dx == Diff(B, O, up, down)
           dy == Diff(B, O, au, ad)
           Off(r, c) == l.act # "none" /\ ~(mid[r][c] > 0)
<1>1. /\ up \in MatrixOf(B, O) /\ mid \in MatrixOf(B, O) /\ down \in MatrixOf(B, O)
      /\ \A r \in 1..B, c \in 1..O : up[r][c] + down[r][c] = 2 * mid[r][c]
  BY DEF Around
<1>2. \A r \in 1..B, c \in 1..O : up[r][c] \in Int /\ mid[r][c] \in Int /\ down[r][c] \in Int
  BY <1>1, MatrixParts
<1>3. /\ au \in MatrixOf(B, O) /\ am \in MatrixOf(B, O) /\ ad \in MatrixOf(B, O)
      /\ \A r \in 1..B, c \in 1..O :
           /\ au[r][c] = IF Off(r, c) THEN 0 ELSE up[r][c]
           /\ am[r][c] = IF Off(r, c) THEN 0 ELSE mid[r][c]
           /\ ad[r][c] = IF Off(r, c) THEN 0 ELSE down[r][c]
  <2>1. au \in MatrixOf(B, O) /\ \A r \in 1..B, c \in 1..O :
          au[r][c] = IF l.act # "none" /\ ~(up[r][c] > 0) THEN 0 ELSE up[r][c]
    BY <1>1, ActivatedIs
  <2>2. am \in MatrixOf(B, O) /\ \A r \in 1..B, c \in 1..O :
          am[r][c] = IF l.act # "none" /\ ~(mid[r][c] > 0) THEN 0 ELSE mid[r][c]
    BY <1>1, ActivatedIs
  <2>3. ad \in MatrixOf(B, O) /\ \A r \in 1..B, c \in 1..O :
          ad[r][c] = IF l.act # "none" /\ ~(down[r][c] > 0) THEN 0 ELSE down[r][c]
    BY <1>1, ActivatedIs
  <2> HIDE DEF au, am, ad
  <2>4. ASSUME NEW r \in 1..B, NEW c \in 1..O
        PROVE  (up[r][c] > 0) = (mid[r][c] > 0) /\ (down[r][c] > 0) = (mid[r][c] > 0)
    BY DEF SameSign
  <2> QED
    BY <2>1, <2>2, <2>3, <2>4
<1>4. dx \in MatrixOf(B, O) /\ \A r \in 1..B, c \in 1..O : dx[r][c] = up[r][c] - down[r][c]
  BY <1>1, DiffIs
<1>5. dy \in MatrixOf(B, O) /\ \A r \in 1..B, c \in 1..O : dy[r][c] = au[r][c] - ad[r][c]
  <2> HIDE DEF au, ad
  <2> QED
    BY <1>3, DiffIs
<1> HIDE DEF au, am, ad, dx, dy
<1>6. Around(B, O, au, am, ad)
  <2>1. \A r \in 1..B, c \in 1..O : au[r][c] + ad[r][c] = 2 * am[r][c]
    BY <1>1, <1>2, <1>3
  <2> QED
    BY <1>3, <2>1 DEF Around
<1>7. ASSUME NEW g \in MatrixOf(B, O)
      PROVE  Inner(B, O, g, dy) = Inner(B, O, Masked(l, g, mid), dx)
  <2> DEFINE G == Masked(l, g, mid)
  <2>1. \A r \in 1..B, c \in 1..O : G[r][c] = IF Off(r, c) THEN 0 ELSE g[r][c]
    BY MaskedIs
  <2> HIDE DEF G
  <2>2. ASSUME NEW r \in 1..B, NEW c \in 1..O
        PROVE  g[r][c] * dy[r][c] = G[r][c] * dx[r][c]
    <3>1. g[r][c] \in Int /\ up[r][c] \in Int /\ down[r][c] \in Int
      BY <1>2, MatrixParts
    <3>2. CASE Off(r, c)
      <4>1. dy[r][c] = 0 /\ G[r][c] = 0 /\ dx[r][c] \in Int
        BY <1>3, <1>4, <1>5, <2>1, <3>1, <3>2
      <4> QED
        BY <3>1, <4>1
    <3>3. CASE ~Off(r, c)
      <4>1. dy[r][c] = dx[r][c] /\ G[r][c] = g[r][c]
        BY <1>3, <1>4, <1>5, <2>1, <3>3
      <4> QED
        BY <4>1
    <3> QED
      BY <3>2, <3>3
  <2>3. Inner(B, O, g, dy) = Inner(B, O, G, dx)
    BY <2>2, InnerByElements
  <2> QED
    BY <2>3 DEF G
<1> QED
  BY <1>6, <1>7 DEF au, am, ad, dx, dy

-----------------------------------------------------------------------------
(* A row of inputs through weights of which one is moved.                    *)

\* A row through a matrix that differs by s in one number of the column looked at.
EntryMoves(I, W, U, p, r, s) ==
  /\ I \in Nat /\ r \in 1..I /\ s \in Int
  /\ \A k \in 1..I : W[k][p] \in Int /\ U[k][p] = W[k][p] + (IF k = r THEN s ELSE 0)

\* A moved weight changes one number of what comes out, by the input it meets.
LEMMA ThroughMoved ==
  ASSUME NEW I, NEW W, NEW U, NEW p, NEW r, NEW s, EntryMoves(I, W, U, p, r, s), NEW v \in [1..I -> Int]
  PROVE  Through(I, v, U, p) = Through(I, v, W, p) + v[r] * s
<1> DEFINE w == [k \in 1..I |-> W[k][p]]
           a == [k \in 1..I |-> v[k] * w[k]]
           b == [k \in 1..I |-> IF k = r THEN v[r] * s ELSE 0]
           e == [k \in 1..I |-> v[k] * U[k][p]]
<1>0. /\ I \in Nat /\ r \in 1..I /\ s \in Int
      /\ \A k \in 1..I : W[k][p] \in Int /\ U[k][p] = W[k][p] + (IF k = r THEN s ELSE 0)
  BY DEF EntryMoves
<1>1. \A k \in 1..I : w[k] \in Int /\ v[k] \in Int /\ v[k] * w[k] \in Int /\ v[k] * s \in Int
  <2> TAKE k \in 1..I
  <2>1. w[k] \in Int /\ v[k] \in Int /\ s \in Int
    BY <1>0
  <2> HIDE DEF w
  <2> QED
    BY <2>1, Swap
<1>2. a \in [1..I -> Int] /\ b \in [1..I -> Int]
  BY <1>1
<1>3. \A k \in 1..I : a[k] \in Int /\ b[k] \in Int /\ e[k] = a[k] + b[k]
  <2> TAKE k \in 1..I
  <2>1. U[k][p] = w[k] + (IF k = r THEN s ELSE 0) /\ s \in Int
    BY <1>0
  <2>2. e[k] = v[k] * U[k][p] /\ a[k] = v[k] * w[k] /\ b[k] = IF k = r THEN v[r] * s ELSE 0
    OBVIOUS
  <2>3. w[k] \in Int /\ v[k] \in Int /\ v[k] * w[k] \in Int /\ v[k] * s \in Int
    BY <1>1
  <2> HIDE DEF w, a, b, e
  <2>4. CASE k = r
    <3>1. e[k] = v[k] * (w[k] + s) /\ b[k] = v[k] * s
      BY <2>1, <2>2, <2>4
    <3> QED
      BY <2>1, <2>2, <2>3, <3>1, Distribute
  <2>5. CASE k # r
    <3>1. U[k][p] = w[k] /\ b[k] = 0
      BY <2>1, <2>2, <2>3, <2>5
    <3> QED
      BY <2>2, <2>3, <3>1
  <2> QED
    BY <2>4, <2>5
<1>4. e \in [1..I -> Int]
  <2>1. e = [k \in 1..I |-> e[k]]
    BY Zenon
  <2> HIDE DEF e, a, b
  <2> QED
    BY <1>3, <2>1
<1>5. b[r] = v[r] * s /\ \A k \in 1..I : k # r => b[k] = 0
  BY <1>0
<1>6. Total(a) = Through(I, v, W, p) /\ Total(e) = Through(I, v, U, p)
  <2>1. a = [k \in 1..I |-> v[k] * W[k][p]]
    OBVIOUS
  <2> QED
    BY <2>1 DEF Through
<1> HIDE DEF a, b, e, w
<1>7. Total(b) = v[r] * s
  BY <1>0, <1>2, <1>5, TotalOfOne
<1>8. AddUp(I, a, b, e)
  BY <1>0, <1>2, <1>3, <1>4 DEF AddUp
<1>9. Total(e) = Total(a) + Total(b)
  BY <1>8, TotalAddsUp
<1> QED
  BY <1>6, <1>7, <1>9

Scaled(N, a, f, k) ==
  /\ N \in Nat /\ a \in Int /\ f \in [1..N -> Int] /\ k \in [1..N -> Int]
  /\ \A i \in 1..N : k[i] = a * f[i]

LEMMA TotalScales ==
  ASSUME NEW N, NEW a, NEW f, NEW k, Scaled(N, a, f, k)
  PROVE  Total(k) = a * Total(f) /\ Total(k) \in Int /\ Total(f) \in Int
<1>1. /\ N \in Nat /\ a \in Int /\ f \in [1..N -> Int] /\ k \in [1..N -> Int]
      /\ \A i \in 1..N : k[i] = a * f[i]
  BY DEF Scaled
<1>2. Total(k) \in Int /\ Total(f) \in Int
  BY <1>1, TotalInt
<1> QED
  BY <1>1, <1>2, TotalTimes

\* Pairing with a matrix that is zero but for one column, which is twice e.
ColumnSum(B, e, g, c) == Total([i \in 1..B |-> e[i] * g[i][c]])
IsColumn(B, O, c, e, D) ==
  /\ B \in Nat /\ O \in Nat /\ c \in 1..O /\ D \in MatrixOf(B, O) /\ e \in [1..B -> Int]
  /\ \A i \in 1..B, p \in 1..O : D[i][p] = IF p = c THEN 2 * e[i] ELSE 0

LEMMA InnerOfColumn ==
  ASSUME NEW B, NEW O, NEW c, NEW e, NEW D, IsColumn(B, O, c, e, D), NEW g \in MatrixOf(B, O)
  PROVE  Inner(B, O, g, D) = 2 * ColumnSum(B, e, g, c)
<1>0. /\ B \in Nat /\ O \in Nat /\ c \in 1..O /\ D \in MatrixOf(B, O) /\ e \in [1..B -> Int]
      /\ \A i \in 1..B, p \in 1..O : D[i][p] = IF p = c THEN 2 * e[i] ELSE 0
  BY DEF IsColumn
<1> DEFINE products == [i \in 1..B |-> e[i] * g[i][c]]
           pairs == [i \in 1..B |-> Pair(O, g[i], D[i])]
<1>1. \A i \in 1..B : e[i] \in Int /\ g[i][c] \in Int /\ e[i] * g[i][c] \in Int
  <2> TAKE i \in 1..B
  <2>1. e[i] \in Int /\ g[i][c] \in Int
    BY <1>0, MatrixParts
  <2> QED
    BY <2>1, Swap
<1>2. products \in [1..B -> Int]
  BY <1>1
<1>3. ASSUME NEW i \in 1..B
      PROVE  Pair(O, g[i], D[i]) = 2 * products[i] /\ products[i] \in Int
  <2> DEFINE f == [p \in 1..O |-> g[i][p] * D[i][p]]
  <2>1. \A p \in 1..O : g[i][p] \in Int /\ D[i][p] \in Int /\ g[i][p] * D[i][p] \in Int
    <3> TAKE p \in 1..O
    <3>1. g[i][p] \in Int /\ D[i][p] \in Int
      BY <1>0, MatrixParts
    <3> QED
      BY <3>1, Swap
  <2>2. f \in [1..O -> Int]
    BY <2>1
  <2>3. \A p \in 1..O : p # c => f[p] = 0
    <3> TAKE p \in 1..O
    <3>1. p # c => D[i][p] = 0
      BY <1>0
    <3>2. g[i][p] \in Int /\ g[i][p] * 0 = 0
      BY <2>1
    <3>3. f[p] = g[i][p] * D[i][p]
      OBVIOUS
    <3> QED
      BY <3>1, <3>2, <3>3
  <2>4. f[c] = g[i][c] * (2 * e[i])
    <3>1. c \in 1..O /\ D[i][c] = 2 * e[i]
      BY <1>0
    <3>2. f[c] = g[i][c] * D[i][c]
      BY <3>1, Zenon
    <3> QED
      BY <3>1, <3>2, Zenon
  <2>5. Pair(O, g[i], D[i]) = Total(f)
    BY DEF Pair
  <2> HIDE DEF f
  <2>6. Total(f) = f[c]
    BY <1>0, <2>2, <2>3, TotalOfOne
  <2>7. g[i][c] * (2 * e[i]) = 2 * (e[i] * g[i][c])
    <3> DEFINE q == g[i][c]
               w == e[i]
    <3>1. q \in Int /\ w \in Int
      BY <1>1
    <3> HIDE DEF q, w
    <3>2. q * (2 * w) = 2 * (q * w) /\ q * w = w * q
      BY <3>1, Swap
    <3> QED
      BY <3>2 DEF q, w
  <2> QED
    BY <1>1, <2>4, <2>5, <2>6, <2>7
<1>4. pairs \in [1..B -> Int] /\ \A i \in 1..B : pairs[i] = 2 * products[i]
  <2>1. pairs = [i \in 1..B |-> pairs[i]] /\ \A i \in 1..B : pairs[i] = Pair(O, g[i], D[i])
    BY Zenon
  <2> HIDE DEF pairs, products
  <2>2. \A i \in 1..B : pairs[i] = 2 * products[i] /\ pairs[i] \in Int
    BY <1>3, <2>1
  <2> QED
    BY <2>1, <2>2
<1>5. Inner(B, O, g, D) = Total(pairs)
  BY DEF Inner
<1> HIDE DEF pairs, products
<1>6. Total(pairs) = 2 * Total(products)
  <2>1. Scaled(B, 2, products, pairs)
    BY <1>0, <1>2, <1>4 DEF Scaled
  <2> QED
    BY <2>1, TotalScales
<1> QED
  BY <1>5, <1>6 DEF products, ColumnSum

\* A matrix moved by the same amount both ways in one column.
ColumnMoves(B, O, c, e, up, mid, down) ==
  /\ B \in Nat /\ O \in Nat /\ c \in 1..O /\ e \in [1..B -> Int]
  /\ up \in MatrixOf(B, O) /\ mid \in MatrixOf(B, O) /\ down \in MatrixOf(B, O)
  /\ \A i \in 1..B, p \in 1..O :
       /\ up[i][p] = mid[i][p] + (IF p = c THEN e[i] ELSE 0)
       /\ down[i][p] = mid[i][p] - (IF p = c THEN e[i] ELSE 0)

\* A column moved up and down stays around its middle, and its difference meets one
\* column of the gradient.
LEMMA AroundColumn ==
  ASSUME NEW B, NEW O, NEW c, NEW e, NEW up, NEW mid, NEW down, ColumnMoves(B, O, c, e, up, mid, down)
  PROVE  /\ Around(B, O, up, mid, down)
         /\ \A g \in MatrixOf(B, O) :
              Inner(B, O, g, Diff(B, O, up, down)) = 2 * ColumnSum(B, e, g, c)
<1> DEFINE D == Diff(B, O, up, down)
<1>0. /\ B \in Nat /\ O \in Nat /\ c \in 1..O /\ e \in [1..B -> Int]
      /\ up \in MatrixOf(B, O) /\ mid \in MatrixOf(B, O) /\ down \in MatrixOf(B, O)
      /\ \A i \in 1..B, p \in 1..O :
           /\ up[i][p] = mid[i][p] + (IF p = c THEN e[i] ELSE 0)
           /\ down[i][p] = mid[i][p] - (IF p = c THEN e[i] ELSE 0)
  BY DEF ColumnMoves
<1>1. \A i \in 1..B, p \in 1..O : mid[i][p] \in Int /\ e[i] \in Int
  BY <1>0, MatrixParts
<1>2. \A i \in 1..B, p \in 1..O :
        up[i][p] + down[i][p] = 2 * mid[i][p] /\ up[i][p] - down[i][p] = IF p = c THEN 2 * e[i] ELSE 0
  <2> TAKE i \in 1..B, p \in 1..O
  <2>1. mid[i][p] \in Int /\ e[i] \in Int
    BY <1>1
  <2>2. CASE p = c
    <3>1. up[i][p] = mid[i][p] + e[i] /\ down[i][p] = mid[i][p] - e[i]
      BY <1>0, <2>2
    <3> QED
      BY <2>1, <2>2, <3>1
  <2>3. CASE p # c
    <3>1. up[i][p] = mid[i][p] + 0 /\ down[i][p] = mid[i][p] - 0
      BY <1>0, <2>3
    <3> QED
      BY <2>1, <2>3, <3>1
  <2> QED
    BY <2>2, <2>3
<1>3. Around(B, O, up, mid, down)
  BY <1>0, <1>2 DEF Around
<1>4. D \in MatrixOf(B, O) /\ \A i \in 1..B, p \in 1..O : D[i][p] = up[i][p] - down[i][p]
  BY <1>0, DiffIs
<1> HIDE DEF D
<1>5. \A i \in 1..B, p \in 1..O : D[i][p] = IF p = c THEN 2 * e[i] ELSE 0
  BY <1>2, <1>4
<1>6. ASSUME NEW g \in MatrixOf(B, O)
      PROVE  Inner(B, O, g, D) = 2 * ColumnSum(B, e, g, c)
  <2>1. IsColumn(B, O, c, e, D)
    BY <1>0, <1>4, <1>5 DEF IsColumn
  <2> QED
    BY <2>1, InnerOfColumn
<1> QED
  BY <1>3, <1>6 DEF D

-----------------------------------------------------------------------------
(* Layers of which one weight or one bias is moved, and inputs of which one is. *)

\* Layers that differ from l in one weight, or in one bias.
WithWeight(u, l, I, O, r, c, s) ==
  /\ u \in LayerOf(I, O) /\ u.bias = l.bias /\ u.act = l.act
  /\ \A k \in 1..I, p \in 1..O :
       u.weights[k][p] = l.weights[k][p] + (IF k = r /\ p = c THEN s ELSE 0)

WithBias(u, l, I, O, c, s) ==
  /\ u \in LayerOf(I, O) /\ u.weights = l.weights /\ u.act = l.act
  /\ \A p \in 1..O : u.bias[p] = l.bias[p] + (IF p = c THEN s ELSE 0)

\* What one weight does to the numbers before the activation.
StepsIn(B, O, y, z, m, r, c, s) ==
  /\ y \in MatrixOf(B, O)
  /\ \A i \in 1..B, p \in 1..O : y[i][p] = z[i][p] + (IF p = c THEN m[i][r] * s ELSE 0)

LEMMA WeightSteps ==
  ASSUME NEW B \in Nat, NEW I \in Nat \ {0}, NEW O \in Nat \ {0}, NEW l \in LayerOf(I, O),
         NEW m \in MatrixOf(B, I), NEW r \in 1..I, NEW c \in 1..O, NEW s \in Int,
         NEW u, WithWeight(u, l, I, O, r, c, s)
  PROVE  StepsIn(B, O, Forward(u, m), Forward(l, m), m, r, c, s)
<1>0. u \in LayerOf(I, O) /\ u.bias = l.bias
  BY DEF WithWeight
<1>1. \A k \in 1..I, p \in 1..O :
        u.weights[k][p] = l.weights[k][p] + (IF k = r /\ p = c THEN s ELSE 0)
  BY DEF WithWeight
<1>2. /\ Forward(u, m) \in MatrixOf(B, O)
      /\ \A i \in 1..B, p \in 1..O : Forward(u, m)[i][p] = Through(I, m[i], u.weights, p) + u.bias[p]
  BY <1>0, ForwardIs
<1>3. \A i \in 1..B, p \in 1..O :
        /\ l.bias[p] \in Int /\ Through(I, m[i], l.weights, p) \in Int
        /\ Forward(l, m)[i][p] = Through(I, m[i], l.weights, p) + l.bias[p]
  BY ForwardIs
<1>4. l.weights \in MatrixOf(I, O)
  BY DEF LayerOf
<1>5. ASSUME NEW i \in 1..B, NEW p \in 1..O
      PROVE  Forward(u, m)[i][p] = Forward(l, m)[i][p] + (IF p = c THEN m[i][r] * s ELSE 0)
  <2> DEFINE W == l.weights
             U == u.weights
             v == m[i]
             t == IF p = c THEN s ELSE 0
  <2>1. v \in [1..I -> Int] /\ t \in Int /\ I \in Nat /\ v[r] \in Int /\ v[r] * s \in Int
    <3>1. v \in [1..I -> Int] /\ t \in Int /\ I \in Nat /\ v[r] \in Int
      BY MatrixParts
    <3> HIDE DEF v, t
    <3> QED
      BY <3>1, Swap
  <2>2. \A k \in 1..I : W[k][p] \in Int
    BY <1>4, MatrixParts
  <2>3. \A k \in 1..I : U[k][p] = W[k][p] + (IF k = r THEN t ELSE 0)
    <3> TAKE k \in 1..I
    <3>1. U[k][p] = W[k][p] + (IF k = r /\ p = c THEN s ELSE 0)
      BY <1>1
    <3>2. (IF k = r /\ p = c THEN s ELSE 0) = IF k = r THEN t ELSE 0
      OBVIOUS
    <3> QED
      BY <3>1, <3>2
  <2> HIDE DEF W, U, v
  <2>4. Through(I, v, U, p) = Through(I, v, W, p) + v[r] * t
    <3>1. EntryMoves(I, W, U, p, r, t)
      BY <2>1, <2>2, <2>3 DEF EntryMoves
    <3>2. v \in [1..I -> Int]
      BY <2>1
    <3> HIDE DEF t
    <3> QED
      BY ONLY <3>1, <3>2, ThroughMoved
  <2>5. v[r] * t = IF p = c THEN v[r] * s ELSE 0
    BY <2>1
  <2> HIDE DEF t
  <2>6. /\ Forward(u, m)[i][p] = Through(I, v, U, p) + u.bias[p]
        /\ Forward(l, m)[i][p] = Through(I, v, W, p) + l.bias[p]
        /\ l.bias[p] \in Int /\ Through(I, v, W, p) \in Int /\ u.bias[p] = l.bias[p]
    BY <1>0, <1>2, <1>3 DEF v, U, W
  <2> DEFINE x1 == Through(I, v, W, p)
             b1 == l.bias[p]
             d1 == v[r] * t
             d2 == v[r] * s
  <2>7. x1 \in Int /\ b1 \in Int /\ d1 \in Int /\ d2 \in Int /\ d1 = IF p = c THEN d2 ELSE 0
    BY <2>1, <2>5, <2>6
  <2>8. Forward(u, m)[i][p] = (x1 + d1) + b1 /\ Forward(l, m)[i][p] = x1 + b1
    BY <2>4, <2>6
  <2> HIDE DEF x1, b1, d1, d2
  <2>9. Forward(u, m)[i][p] = Forward(l, m)[i][p] + (IF p = c THEN d2 ELSE 0)
    BY <2>7, <2>8
  <2> QED
    BY <2>9 DEF d2, v
<1> QED
  BY <1>2, <1>5 DEF StepsIn

\* The derivative by a weight.
LEMMA WeightAround ==
  ASSUME NEW B \in Nat \ {0}, NEW I \in Nat \ {0}, NEW O \in Nat \ {0}, NEW l \in LayerOf(I, O),
         NEW m \in MatrixOf(B, I), NEW r \in 1..I, NEW c \in 1..O,
         NEW u, WithWeight(u, l, I, O, r, c, 1), NEW d, WithWeight(d, l, I, O, r, c, -1)
  PROVE  /\ Around(B, O, Forward(u, m), Forward(l, m), Forward(d, m))
         /\ \A g \in MatrixOf(B, O) :
              Inner(B, O, g, Diff(B, O, Forward(u, m), Forward(d, m))) = 2 * GradWeights(m, g)[r][c]
<1> DEFINE yu == Forward(u, m)
           ym == Forward(l, m)
           yd == Forward(d, m)
           e == [i \in 1..B |-> m[i][r]]
<1>0. 1 \in Int /\ -1 \in Int /\ B \in Nat
  OBVIOUS
<1>0a. StepsIn(B, O, yu, ym, m, r, c, 1)
  BY <1>0, WeightSteps
<1>0b. StepsIn(B, O, yd, ym, m, r, c, -1)
  BY <1>0, WeightSteps
<1>1. /\ yu \in MatrixOf(B, O)
      /\ \A i \in 1..B, p \in 1..O : yu[i][p] = ym[i][p] + (IF p = c THEN m[i][r] * 1 ELSE 0)
  BY <1>0a DEF StepsIn
<1>2. /\ yd \in MatrixOf(B, O)
      /\ \A i \in 1..B, p \in 1..O : yd[i][p] = ym[i][p] + (IF p = c THEN m[i][r] * (-1) ELSE 0)
  BY <1>0b DEF StepsIn
<1>3. ym \in MatrixOf(B, O)
  BY ForwardIs
<1>4. \A i \in 1..B : m[i][r] \in Int
  BY MatrixParts
<1>5. e \in [1..B -> Int] /\ \A i \in 1..B : e[i] = m[i][r]
  BY <1>4
<1> HIDE DEF yu, ym, yd, e
<1>6. \A i \in 1..B, p \in 1..O :
        /\ yu[i][p] = ym[i][p] + (IF p = c THEN e[i] ELSE 0)
        /\ yd[i][p] = ym[i][p] - (IF p = c THEN e[i] ELSE 0)
  <2> TAKE i \in 1..B, p \in 1..O
  <2>1. ym[i][p] \in Int /\ e[i] \in Int
    BY <1>3, <1>5, MatrixParts
  <2>2. e[i] = m[i][r]
    BY <1>5
  <2>3. yu[i][p] = ym[i][p] + (IF p = c THEN e[i] * 1 ELSE 0)
    BY <1>1, <2>2
  <2>4. yd[i][p] = ym[i][p] + (IF p = c THEN e[i] * (-1) ELSE 0)
    BY <1>2, <2>2
  <2> DEFINE v == e[i]
             q == ym[i][p]
  <2>5. v * 1 = v /\ v * (-1) = -v /\ v \in Int /\ q \in Int
    BY <2>1
  <2> QED
    BY <2>1, <2>3, <2>4, <2>5
<1>7. /\ Around(B, O, yu, ym, yd)
      /\ \A g \in MatrixOf(B, O) :
           Inner(B, O, g, Diff(B, O, yu, yd)) = 2 * ColumnSum(B, e, g, c)
  <2>1. ColumnMoves(B, O, c, e, yu, ym, yd)
    BY <1>0, <1>1, <1>2, <1>3, <1>5, <1>6 DEF ColumnMoves
  <2> QED
    BY <2>1, AroundColumn
<1>8. ASSUME NEW g \in MatrixOf(B, O)
      PROVE  GradWeights(m, g)[r][c] = ColumnSum(B, e, g, c)
  <2>1. GradWeights(m, g)[r][c] = Total([i \in 1..B |-> m[i][r] * g[i][c]])
    BY GradWeightsIs
  <2>2. [i \in 1..B |-> m[i][r] * g[i][c]] = [i \in 1..B |-> e[i] * g[i][c]]
    BY <1>5
  <2> QED
    BY <2>1, <2>2 DEF ColumnSum
<1>9. \A g \in MatrixOf(B, O) : Inner(B, O, g, Diff(B, O, yu, yd)) = 2 * GradWeights(m, g)[r][c]
  BY <1>7, <1>8
<1> QED
  BY <1>7, <1>9 DEF yu, ym, yd

\* The derivative by a bias.
LEMMA BiasAround ==
  ASSUME NEW B \in Nat \ {0}, NEW I \in Nat \ {0}, NEW O \in Nat \ {0}, NEW l \in LayerOf(I, O),
         NEW m \in MatrixOf(B, I), NEW c \in 1..O,
         NEW u, WithBias(u, l, I, O, c, 1), NEW d, WithBias(d, l, I, O, c, -1)
  PROVE  /\ Around(B, O, Forward(u, m), Forward(l, m), Forward(d, m))
         /\ \A g \in MatrixOf(B, O) :
              Inner(B, O, g, Diff(B, O, Forward(u, m), Forward(d, m))) = 2 * GradBias(g)[c]
<1> DEFINE yu == Forward(u, m)
           ym == Forward(l, m)
           yd == Forward(d, m)
           e == [i \in 1..B |-> 1]
<1>0. B \in Nat
  OBVIOUS
<1>1. /\ u \in LayerOf(I, O) /\ u.weights = l.weights
      /\ \A p \in 1..O : u.bias[p] = l.bias[p] + (IF p = c THEN 1 ELSE 0)
  BY DEF WithBias
<1>2. /\ d \in LayerOf(I, O) /\ d.weights = l.weights
      /\ \A p \in 1..O : d.bias[p] = l.bias[p] + (IF p = c THEN -1 ELSE 0)
  BY DEF WithBias
<1>3. /\ ym \in MatrixOf(B, O)
      /\ \A i \in 1..B, p \in 1..O :
           /\ l.bias[p] \in Int /\ Through(I, m[i], l.weights, p) \in Int
           /\ ym[i][p] = Through(I, m[i], l.weights, p) + l.bias[p]
  BY ForwardIs
<1>4. /\ yu \in MatrixOf(B, O)
      /\ \A i \in 1..B, p \in 1..O : yu[i][p] = Through(I, m[i], l.weights, p) + u.bias[p]
  BY <1>1, ForwardIs
<1>5. /\ yd \in MatrixOf(B, O)
      /\ \A i \in 1..B, p \in 1..O : yd[i][p] = Through(I, m[i], l.weights, p) + d.bias[p]
  BY <1>2, ForwardIs
<1>6. e \in [1..B -> Int] /\ \A i \in 1..B : e[i] = 1
  OBVIOUS
<1> HIDE DEF yu, ym, yd, e
<1>7. \A i \in 1..B, p \in 1..O :
        /\ yu[i][p] = ym[i][p] + (IF p = c THEN e[i] ELSE 0)
        /\ yd[i][p] = ym[i][p] - (IF p = c THEN e[i] ELSE 0)
  <2> TAKE i \in 1..B, p \in 1..O
  <2> DEFINE x1 == Through(I, m[i], l.weights, p)
             b1 == l.bias[p]
             s1 == IF p = c THEN 1 ELSE 0
  <2>1. x1 \in Int /\ b1 \in Int /\ s1 \in Int /\ (IF p = c THEN -1 ELSE 0) = -s1
    BY <1>3
  <2>2. ym[i][p] = x1 + b1 /\ yu[i][p] = x1 + (b1 + s1) /\ yd[i][p] = x1 + (b1 + (-s1))
    BY <1>1, <1>2, <1>3, <1>4, <1>5, <2>1
  <2>3. (IF p = c THEN e[i] ELSE 0) = s1
    BY <1>6
  <2> HIDE DEF x1, b1, s1
  <2> QED
    BY <2>1, <2>2, <2>3
<1>8. /\ Around(B, O, yu, ym, yd)
      /\ \A g \in MatrixOf(B, O) :
           Inner(B, O, g, Diff(B, O, yu, yd)) = 2 * ColumnSum(B, e, g, c)
  <2>1. ColumnMoves(B, O, c, e, yu, ym, yd)
    BY <1>0, <1>3, <1>4, <1>5, <1>6, <1>7 DEF ColumnMoves
  <2> QED
    BY <2>1, AroundColumn
<1>9. ASSUME NEW g \in MatrixOf(B, O)
      PROVE  GradBias(g)[c] = ColumnSum(B, e, g, c)
  <2>1. GradBias(g)[c] = Total([i \in 1..B |-> g[i][c]])
    BY GradBiasIs
  <2>2. \A i \in 1..B : g[i][c] = e[i] * g[i][c]
    BY <1>6, MatrixParts
  <2>3. [i \in 1..B |-> g[i][c]] = [i \in 1..B |-> e[i] * g[i][c]]
    BY <2>2
  <2> QED
    BY <2>1, <2>3 DEF ColumnSum
<1>10. \A g \in MatrixOf(B, O) : Inner(B, O, g, Diff(B, O, yu, yd)) = 2 * GradBias(g)[c]
  BY <1>8, <1>9
<1> QED
  BY <1>8, <1>10 DEF yu, ym, yd

\* The derivative by a number of the batch.
InputMoves(B, I, m, r, c, up, down) ==
  /\ B \in Nat \ {0} /\ I \in Nat \ {0} /\ r \in 1..B /\ c \in 1..I
  /\ up \in MatrixOf(B, I) /\ m \in MatrixOf(B, I) /\ down \in MatrixOf(B, I)
  /\ \A i \in 1..B, p \in 1..I :
       /\ up[i][p] = m[i][p] + (IF i = r /\ p = c THEN 1 ELSE 0)
       /\ down[i][p] = m[i][p] - (IF i = r /\ p = c THEN 1 ELSE 0)

\* A moved input meets its own gradient.
LEMMA InputAround ==
  ASSUME NEW B, NEW I, NEW m, NEW r, NEW c, NEW up, NEW down, InputMoves(B, I, m, r, c, up, down)
  PROVE  /\ Around(B, I, up, m, down)
         /\ \A g \in MatrixOf(B, I) : Inner(B, I, g, Diff(B, I, up, down)) = 2 * g[r][c]
<1> DEFINE e == [i \in 1..B |-> IF i = r THEN 1 ELSE 0]
<1>0. /\ B \in Nat /\ I \in Nat /\ r \in 1..B /\ c \in 1..I
      /\ up \in MatrixOf(B, I) /\ m \in MatrixOf(B, I) /\ down \in MatrixOf(B, I)
      /\ \A i \in 1..B, p \in 1..I :
           /\ up[i][p] = m[i][p] + (IF i = r /\ p = c THEN 1 ELSE 0)
           /\ down[i][p] = m[i][p] - (IF i = r /\ p = c THEN 1 ELSE 0)
  BY DEF InputMoves
<1>1. e \in [1..B -> Int] /\ \A i \in 1..B : e[i] = IF i = r THEN 1 ELSE 0
  OBVIOUS
<1> HIDE DEF e
<1>2. \A i \in 1..B, p \in 1..I :
        /\ up[i][p] = m[i][p] + (IF p = c THEN e[i] ELSE 0)
        /\ down[i][p] = m[i][p] - (IF p = c THEN e[i] ELSE 0)
  <2> TAKE i \in 1..B, p \in 1..I
  <2>1. (IF p = c THEN e[i] ELSE 0) = IF i = r /\ p = c THEN 1 ELSE 0
    BY <1>1
  <2> QED
    BY <1>0, <2>1
<1>3. ColumnMoves(B, I, c, e, up, m, down)
  BY <1>0, <1>1, <1>2 DEF ColumnMoves
<1>4. ASSUME NEW g \in MatrixOf(B, I)
      PROVE  Inner(B, I, g, Diff(B, I, up, down)) = 2 * g[r][c]
  <2> DEFINE f == [i \in 1..B |-> e[i] * g[i][c]]
  <2>0. Inner(B, I, g, Diff(B, I, up, down)) = 2 * ColumnSum(B, e, g, c)
    BY <1>3, AroundColumn
  <2>2. \A i \in 1..B : g[i][c] \in Int
    BY <1>0, MatrixParts
  <2>2a. \A i \in 1..B : e[i] * g[i][c] \in Int
    BY <1>1, <2>2, Swap
  <2>1. f \in [1..B -> Int] /\ Inner(B, I, g, Diff(B, I, up, down)) = 2 * Total(f)
    BY <2>0, <2>2a DEF ColumnSum
  <2>3. f[r] = g[r][c] /\ \A i \in 1..B : i # r => f[i] = 0
    BY <1>0, <1>1, <2>2
  <2> HIDE DEF f
  <2>4. Total(f) = f[r]
    BY <1>0, <2>1, <2>3, TotalOfOne
  <2> QED
    BY <2>1, <2>3, <2>4
<1> QED
  BY <1>3, <1>4, AroundColumn

-----------------------------------------------------------------------------
(* A sum over the places of a matrix in memory, and the sum over its rows.   *)

\* The sums of the first elements of f.
Partial(N, f, g) ==
  /\ N \in Nat /\ f \in [1..N -> Int] /\ g \in [0..N -> Int]
  /\ g[0] = 0 /\ \A i \in 1..N : g[i] = g[i - 1] + f[i]

\* Every sum has partial sums.
LEMMA PartialExists ==
  ASSUME NEW N \in Nat, NEW f \in [1..N -> Int]
  PROVE  \E g : Partial(N, f, g) /\ Total(f) = g[N]
<1>1. PICK g \in [0..N -> Int] :
        g[0] = 0 /\ (\A i \in 1..N : g[i] = g[i - 1] + f[i]) /\ Total(f) = g[N]
  BY TotalSteps
<1> QED
  BY <1>1 DEF Partial

\* A piece of a sum.
IsPiece(N, f, o, C, v) == o \in Nat /\ C \in Nat /\ o + C <= N /\ v = [c \in 1..C |-> f[o + c]]

\* The sum over a piece of a sequence is the difference of two partial sums.
LEMMA PieceSum ==
  ASSUME NEW N, NEW f, NEW g, Partial(N, f, g), NEW o, NEW C, NEW v, IsPiece(N, f, o, C, v)
  PROVE  v \in [1..C -> Int] /\ Total(v) = g[o + C] - g[o]
<1>0. /\ N \in Nat /\ f \in [1..N -> Int] /\ g \in [0..N -> Int]
      /\ \A i \in 1..N : g[i] = g[i - 1] + f[i]
      /\ o \in Nat /\ C \in Nat /\ o + C <= N /\ v = [c \in 1..C |-> f[o + c]]
  BY DEF Partial, IsPiece
<1>1. \A c \in 1..C : o + c \in 1..N /\ v[c] = f[o + c] /\ f[o + c] \in Int
  BY <1>0
<1>2. v \in [1..C -> Int] /\ C \in Nat
  BY <1>0, <1>1
<1>3. PICK h : Partial(C, v, h) /\ Total(v) = h[C]
  BY <1>2, PartialExists
<1>4. h \in [0..C -> Int] /\ h[0] = 0 /\ \A c \in 1..C : h[c] = h[c - 1] + v[c]
  BY <1>3 DEF Partial
<1> DEFINE S == {c \in 0..C : h[c] = g[o + c] - g[o]}
<1>5. 0 \in S
  <2>1. 0 \in 0..C /\ o \in 0..N /\ o + 0 = o
    BY <1>0
  <2>2. g[o] - g[o] = 0
    BY <1>0, <2>1
  <2> QED
    BY <1>4, <2>1, <2>2
<1>6. ASSUME NEW c \in 0..(C - 1), c \in S PROVE c + 1 \in S
  <2>1. c + 1 \in 1..C /\ c \in 0..C /\ o + c + 1 \in 1..N /\ o + c \in 0..N /\ o \in 0..N /\ c + 1 \in 0..C
    BY <1>0
  <2>2. h[c + 1] = h[c] + v[c + 1]
    BY <1>4, <2>1
  <2>3. v[c + 1] = f[o + c + 1]
    BY <1>1, <2>1
  <2>4. g[o + c + 1] = g[o + c] + f[o + c + 1]
    BY <1>0, <2>1
  <2>5. h[c] = g[o + c] - g[o]
    BY <1>6
  <2>6. g[o + c] \in Int /\ g[o] \in Int /\ f[o + c + 1] \in Int /\ o + (c + 1) = o + c + 1
    BY <1>0, <2>1
  <2>7. h[c + 1] = g[o + (c + 1)] - g[o]
    BY <2>2, <2>3, <2>4, <2>5, <2>6
  <2> QED
    BY <2>1, <2>7
<1> HIDE DEF S
<1>7. \A c \in 0..C : c \in S
  BY <1>0, <1>5, <1>6, InductionUpTo
<1>8. C \in S
  BY <1>0, <1>7
<1> QED
  BY <1>2, <1>3, <1>8 DEF S

\* Summands of zero at the end may be left out.
FirstOf(N, f, n, v) ==
  /\ N \in Nat /\ f \in [1..N -> Int] /\ n \in 0..N /\ v = [k \in 1..n |-> f[k]]
  /\ \A k \in 1..N : k > n => f[k] = 0

\* A sum that is cut off after n elements.
LEMMA TotalOfFirst ==
  ASSUME NEW N, NEW f, NEW n, NEW v, FirstOf(N, f, n, v)
  PROVE  v \in [1..n -> Int] /\ Total(v) = Total(f)
<1>0. /\ N \in Nat /\ f \in [1..N -> Int] /\ n \in 0..N /\ v = [k \in 1..n |-> f[k]]
      /\ \A k \in 1..N : k > n => f[k] = 0
  BY DEF FirstOf
<1>1. PICK g : Partial(N, f, g) /\ Total(f) = g[N]
  BY <1>0, PartialExists
<1>2. g \in [0..N -> Int] /\ g[0] = 0 /\ \A i \in 1..N : g[i] = g[i - 1] + f[i]
  BY <1>1 DEF Partial
<1>3. v = [c \in 1..n |-> f[0 + c]]
  BY <1>0
<1>4. v \in [1..n -> Int] /\ Total(v) = g[0 + n] - g[0]
  <2>1. IsPiece(N, f, 0, n, v)
    BY <1>0, <1>3 DEF IsPiece
  <2> QED
    BY <1>1, <2>1, PieceSum
<1>5. Total(v) = g[n]
  BY <1>0, <1>2, <1>4
<1> DEFINE S == {i \in 0..N : i >= n => g[i] = g[n]}
<1>6. 0 \in S
  BY <1>0
<1>7. ASSUME NEW i \in 0..(N - 1), i \in S PROVE i + 1 \in S
  <2>1. i + 1 \in 1..N /\ g[i + 1] = g[i] + f[i + 1] /\ i + 1 \in 0..N /\ g[i] \in Int
    BY <1>0, <1>2
  <2>2. i + 1 > n => f[i + 1] = 0 /\ g[i] = g[n]
    BY <1>0, <1>7, <2>1
  <2>3. i + 1 >= n => g[i + 1] = g[n]
    <3>1. CASE i + 1 = n
      BY <3>1
    <3>2. CASE i + 1 > n
      BY <1>0, <2>1, <2>2, <3>2
    <3> QED
      BY <1>0, <3>1, <3>2
  <2> QED
    BY <2>1, <2>3
<1> HIDE DEF S
<1>8. \A i \in 0..N : i \in S
  BY <1>0, <1>6, <1>7, InductionUpTo
<1>9. N \in S
  BY <1>0, <1>8
<1> QED
  BY <1>0, <1>1, <1>4, <1>5, <1>9 DEF S

\* Where rows of C elements lie.
LEMMA RowsFit ==
  ASSUME NEW R \in Nat, NEW C \in Nat, NEW r \in 1..R
  PROVE  (r - 1) * C \in Nat /\ (r - 1) * C + C = r * C /\ r * C <= R * C /\ R * C \in Nat
<1>1. R - r \in Nat /\ r - 1 \in Nat
  OBVIOUS
<1>2. \A a, b \in Nat : a * C \in Nat /\ (a + b) * C = a * C + b * C /\ (a + 1) * C = a * C + C
  OBVIOUS
<1>3. (r - 1) * C \in Nat /\ ((r - 1) + 1) * C = (r - 1) * C + C
  BY <1>1, <1>2
<1>4. (R - r) * C \in Nat /\ (r + (R - r)) * C = r * C + (R - r) * C /\ r * C \in Nat /\ R * C \in Nat
  BY <1>1, <1>2
<1>5. (r - 1) + 1 = r /\ r + (R - r) = R
  OBVIOUS
<1> QED
  BY <1>3, <1>4, <1>5

\* A sum over the elements is the sum of the sums of the rows.
LEMMA SumOfRows ==
  ASSUME NEW R \in Nat, NEW C \in Nat, NEW f \in [1..(R * C) -> Int]
  PROVE  Total(f) = Total([r \in 1..R |-> Total([c \in 1..C |-> f[(r - 1) * C + c]])])
<1> DEFINE row(r) == [c \in 1..C |-> f[(r - 1) * C + c]]
           rows == [r \in 1..R |-> Total(row(r))]
           start == [r \in 0..R |-> r * C]
           N == R * C
<1>1. N \in Nat /\ f \in [1..N -> Int]
  OBVIOUS
<1>2. /\ start[0] = 0 /\ start[R] = N
      /\ \A r \in 1..R : /\ start[r - 1] \in Nat /\ start[r - 1] + C = start[r] /\ start[r] <= N
                         /\ row(r) = [c \in 1..C |-> f[start[r - 1] + c]]
  <2>1. start[0] = 0 /\ start[R] = N
    OBVIOUS
  <2>2. ASSUME NEW r \in 1..R
        PROVE  /\ start[r - 1] \in Nat /\ start[r - 1] + C = start[r] /\ start[r] <= N
               /\ row(r) = [c \in 1..C |-> f[start[r - 1] + c]]
    <3>1. r - 1 \in 0..R /\ r \in 0..R
      OBVIOUS
    <3>2. start[r - 1] = (r - 1) * C /\ start[r] = r * C
      BY <3>1
    <3> HIDE DEF start
    <3>3. start[r - 1] \in Nat /\ start[r - 1] + C = start[r] /\ start[r] <= N
      BY <3>2, RowsFit
    <3>4. row(r) = [c \in 1..C |-> f[start[r - 1] + c]]
      BY <3>2
    <3> QED
      BY <3>3, <3>4
  <2> QED
    BY <2>1, <2>2
<1> HIDE DEF row, start, N
<1>3. PICK g : Partial(N, f, g) /\ Total(f) = g[N]
  BY <1>1, PartialExists
<1>4. ASSUME NEW r \in 1..R
      PROVE  Total(row(r)) = g[start[r]] - g[start[r - 1]] /\ Total(row(r)) \in Int
  <2> DEFINE v == row(r)
             o == start[r - 1]
  <2>1. v = [c \in 1..C |-> f[o + c]] /\ o \in Nat /\ o + C <= N /\ o + C = start[r] /\ C \in Nat
    BY <1>2
  <2> HIDE DEF v, o
  <2>1a. IsPiece(N, f, o, C, v)
    BY <2>1 DEF IsPiece
  <2>2. v \in [1..C -> Int] /\ Total(v) = g[o + C] - g[o]
    BY <1>3, <2>1a, PieceSum
  <2>3. Total(v) \in Int
    BY <2>2, TotalInt
  <2> QED
    BY <2>1, <2>2, <2>3 DEF v, o
<1>5. rows \in [1..R -> Int] /\ \A r \in 1..R : rows[r] = g[start[r]] - g[start[r - 1]]
  <2>1. \A r \in 1..R : Total(row(r)) = g[start[r]] - g[start[r - 1]] /\ Total(row(r)) \in Int
    BY <1>4
  <2> QED
    BY <2>1
<1> HIDE DEF rows
<1>6. PICK h : Partial(R, rows, h) /\ Total(rows) = h[R]
  BY <1>5, PartialExists
<1>7. h \in [0..R -> Int] /\ h[0] = 0 /\ \A r \in 1..R : h[r] = h[r - 1] + rows[r]
  BY <1>6 DEF Partial
<1>8. g \in [0..N -> Int] /\ g[0] = 0
  BY <1>3 DEF Partial
<1> DEFINE S == {r \in 0..R : h[r] = g[start[r]]}
<1>9. 0 \in S
  BY <1>2, <1>7, <1>8
<1>10. ASSUME NEW r \in 0..(R - 1), r \in S PROVE r + 1 \in S
  <2>1. r + 1 \in 1..R /\ (r + 1) - 1 = r /\ r + 1 \in 0..R
    OBVIOUS
  <2>2. h[r + 1] = h[r] + rows[r + 1] /\ rows[r + 1] = g[start[r + 1]] - g[start[r]]
    BY <1>5, <1>7, <2>1
  <2>3. start[r + 1] \in 0..N /\ start[r] \in 0..N
    <3>1. \A i \in 1..R : start[i - 1] \in 0..N /\ start[i] \in 0..N
      <4> TAKE i \in 1..R
      <4>1. start[i - 1] \in Nat /\ start[i - 1] + C = start[i] /\ start[i] <= N
        BY <1>2
      <4> QED
        BY <1>1, <4>1
    <3>2. start[r + 1] \in 0..N /\ start[(r + 1) - 1] \in 0..N
      BY <2>1, <3>1
    <3> QED
      BY <2>1, <3>2
  <2>4. g[start[r + 1]] \in Int /\ g[start[r]] \in Int
    BY <1>8, <2>3
  <2>5. h[r] = g[start[r]]
    BY <1>10
  <2> QED
    BY <2>1, <2>2, <2>4, <2>5
<1> HIDE DEF S
<1>11. \A r \in 0..R : r \in S
  BY <1>9, <1>10, InductionUpTo
<1>12. R \in S
  BY <1>11
<1>13. Total(f) = Total(rows)
  BY <1>2, <1>3, <1>6, <1>12 DEF S
<1> QED
  BY <1>13 DEF rows, row

\* The place of an element in memory.
Place(C, r, c) == (r - 1) * C + (c - 1)

\* The place of an element in memory, and the element at a place.
LEMMA PlaceIs ==
  ASSUME NEW R \in Nat, NEW C \in Nat \ {0}, NEW r \in 1..R, NEW c \in 1..C
  PROVE  /\ Place(C, r, c) \in 0..(R * C - 1)
         /\ Place(C, r, c) \div C + 1 = r /\ (Place(C, r, c) % C) + 1 = c
         /\ (r - 1) * C + c = Place(C, r, c) + 1
<1> DEFINE a == (r - 1) * C
           N == R * C
           e == r * C
<1>1. a \in Nat /\ a + C = e /\ e <= N /\ N \in Nat /\ e \in Int
  BY RowsFit
<1>2. Place(C, r, c) = a + (c - 1)
  BY DEF Place
<1>3. Place(C, r, c) = (r - 1) * C + (c - 1) /\ r - 1 \in Nat /\ c - 1 \in 0..(C - 1)
  BY DEF Place
<1>4. Place(C, r, c) \in Nat
  <2> HIDE DEF a, e, N
  <2> QED
    BY <1>1, <1>2
<1>5. Place(C, r, c) \div C = r - 1 /\ Place(C, r, c) % C = c - 1
  BY <1>3, <1>4, DivUnique
<1>6. Place(C, r, c) \in 0..(N - 1) /\ a + c = Place(C, r, c) + 1
  <2> HIDE DEF a, e, N
  <2> QED
    BY <1>1, <1>2
<1> QED
  BY <1>5, <1>6

LEMMA PlaceOf ==
  ASSUME NEW R \in Nat, NEW C \in Nat \ {0}, NEW k \in 0..(R * C - 1)
  PROVE  k \div C + 1 \in 1..R /\ (k % C) + 1 \in 1..C /\ Place(C, k \div C + 1, (k % C) + 1) = k
<1> DEFINE q == k \div C
           t == k % C
<1>1. k \in Nat /\ k < R * C
  <2>1. R * C \in Nat
    BY NatTimes
  <2> QED
    BY <2>1
<1>2. q \in Int /\ t \in 0..(C - 1) /\ k = C * q + t
  BY <1>1
<1> HIDE DEF q, t
<1>3. C * q = q * C
  BY <1>2
<1>4. q >= 0
  <2> SUFFICES ASSUME q <= -1 PROVE FALSE
    BY <1>2
  <2>1. q * C <= (-1) * C
    BY <1>2, TimesMonotone
  <2> QED
    BY <1>1, <1>2, <1>3, <2>1
<1>5. q < R
  <2> SUFFICES ASSUME R <= q PROVE FALSE
    BY <1>2
  <2>1. R * C <= q * C
    BY <1>2, TimesMonotone
  <2> QED
    BY <1>1, <1>2, <1>3, <2>1
<1>6. Place(C, q + 1, t + 1) = q * C + t
  <2>1. (q + 1) - 1 = q /\ (t + 1) - 1 = t
    BY <1>2
  <2> QED
    BY <2>1 DEF Place
<1> QED
  BY <1>2, <1>3, <1>4, <1>5, <1>6 DEF q, t

-----------------------------------------------------------------------------
(* The loss over a prediction and its gradient.                              *)

\* The gradient MSE has written once it is at n.
LossGrad(t, B, C, y, n) ==
  [r \in 1..B |-> [c \in 1..C |->
     LET k == Place(C, r, c) IN IF k < n THEN 2 * (Element(y, k) - Element(t, k)) ELSE 0]]

\* The loss MSE has summed up once it is at n.
TermAt(t, y, k) == (Element(y, k) - Element(t, k)) * (Element(y, k) - Element(t, k))
LossAt(t, y, n) == Total([k \in 1..n |-> TermAt(t, y, k - 1)])

\* All elements of the true outputs are numbers.
TrueOutputs(t, N) == \A k \in 0..(N - 1) : Element(t, k) \in Int

\* Element reads what lies at a place in memory.
LEMMA ElementIs ==
  ASSUME NEW R \in Nat \ {0}, NEW C \in Nat \ {0}, NEW m \in MatrixOf(R, C)
  PROVE  /\ Elements(m) = R * C
         /\ \A k \in 0..(R * C - 1) :
              /\ Row(m, k) \in 1..R /\ Column(m, k) \in 1..C
              /\ Place(C, Row(m, k), Column(m, k)) = k /\ Element(m, k) \in Int
         /\ \A r \in 1..R, c \in 1..C :
              /\ Place(C, r, c) \in 0..(R * C - 1)
              /\ Row(m, Place(C, r, c)) = r /\ Column(m, Place(C, r, c)) = c
              /\ Element(m, Place(C, r, c)) = m[r][c]
<1>1. Len(m) = R /\ Len(m[1]) = C
  BY MatrixLengths
<1>2. ASSUME NEW k \in 0..(R * C - 1)
      PROVE  /\ Row(m, k) \in 1..R /\ Column(m, k) \in 1..C
             /\ Place(C, Row(m, k), Column(m, k)) = k /\ Element(m, k) \in Int
  <2>1. Row(m, k) = k \div C + 1 /\ Column(m, k) = (k % C) + 1
    BY <1>1 DEF Row, Column
  <2>2. Row(m, k) \in 1..R /\ Column(m, k) \in 1..C /\ Place(C, Row(m, k), Column(m, k)) = k
    <3> DEFINE q == k \div C + 1
               t == (k % C) + 1
    <3>1. q \in 1..R /\ t \in 1..C /\ Place(C, q, t) = k
      BY PlaceOf
    <3>2. Row(m, k) = q /\ Column(m, k) = t
      BY <2>1
    <3> HIDE DEF q, t
    <3> QED
      BY <3>1, <3>2
  <2>3. Element(m, k) = m[Row(m, k)][Column(m, k)]
    BY DEF Element
  <2> QED
    BY <2>2, <2>3, MatrixParts
<1>3. ASSUME NEW r \in 1..R, NEW c \in 1..C
      PROVE  /\ Place(C, r, c) \in 0..(R * C - 1)
             /\ Row(m, Place(C, r, c)) = r /\ Column(m, Place(C, r, c)) = c
             /\ Element(m, Place(C, r, c)) = m[r][c]
  <2>1. /\ Place(C, r, c) \in 0..(R * C - 1)
        /\ Place(C, r, c) \div C + 1 = r /\ (Place(C, r, c) % C) + 1 = c
    BY PlaceIs
  <2>2. Row(m, Place(C, r, c)) = r /\ Column(m, Place(C, r, c)) = c
    BY <1>1, <2>1 DEF Row, Column
  <2>3. Element(m, Place(C, r, c)) = m[r][c]
    BY <2>2 DEF Element
  <2> QED
    BY <2>1, <2>2, <2>3
<1> QED
  BY <1>1, <1>2, <1>3 DEF Elements

LEMMA PlaceElement ==
  ASSUME NEW R \in Nat \ {0}, NEW C \in Nat \ {0}, NEW m \in MatrixOf(R, C), NEW r \in 1..R, NEW c \in 1..C
  PROVE  Element(m, Place(C, r, c)) = m[r][c]
BY ElementIs

\* The gradient has the shape of the prediction.
LEMMA LossGradIs ==
  ASSUME NEW B \in Nat \ {0}, NEW C \in Nat \ {0}, NEW y \in MatrixOf(B, C),
         NEW t, TrueOutputs(t, B * C), NEW n
  PROVE  /\ LossGrad(t, B, C, y, n) \in MatrixOf(B, C)
         /\ \A r \in 1..B, c \in 1..C :
              LET k == Place(C, r, c)
              IN  /\ k \in 0..(B * C - 1) /\ Element(t, k) \in Int
                  /\ LossGrad(t, B, C, y, n)[r][c] = IF k < n THEN 2 * (y[r][c] - Element(t, k)) ELSE 0
<1> DEFINE P == LossGrad(t, B, C, y, n)
<1>1. /\ P = [r \in 1..B |-> [c \in 1..C |-> P[r][c]]]
      /\ \A r \in 1..B, c \in 1..C :
           P[r][c] = IF Place(C, r, c) < n THEN 2 * (Element(y, Place(C, r, c)) - Element(t, Place(C, r, c))) ELSE 0
  BY Zenon DEF LossGrad
<1> HIDE DEF P
<1>2. ASSUME NEW r \in 1..B, NEW c \in 1..C
      PROVE  /\ Place(C, r, c) \in 0..(B * C - 1) /\ Element(t, Place(C, r, c)) \in Int
             /\ P[r][c] = IF Place(C, r, c) < n THEN 2 * (y[r][c] - Element(t, Place(C, r, c))) ELSE 0
             /\ P[r][c] \in Int
  <2>1. Place(C, r, c) \in 0..(B * C - 1) /\ Element(y, Place(C, r, c)) = y[r][c]
    BY ElementIs
  <2>2. Element(t, Place(C, r, c)) \in Int
    BY <2>1 DEF TrueOutputs
  <2>4. y[r][c] \in Int
    BY MatrixParts
  <2> QED
    BY <1>1, <2>1, <2>2, <2>4
<1>3. P \in MatrixOf(B, C)
  <2>1. \A r \in 1..B, c \in 1..C : P[r][c] \in Int
    BY <1>2
  <2> QED
    BY <1>1, <2>1, MatrixByElements
<1> QED
  BY <1>2, <1>3 DEF P

\* A square, one step up and one step down.
LEMMA Squares ==
  ASSUME NEW u \in Int, NEW d \in Int, NEW m \in Int, NEW t \in Int, u + d = 2 * m
  PROVE  (u - t) * (u - t) = (d - t) * (d - t) + (2 * (m - t)) * (u - d)
<1>1. d = 2 * m - u
  OBVIOUS
<1> DEFINE p == u - t
           q == m - t
<1>2. p \in Int /\ q \in Int /\ d - t = 2 * q - p /\ u - d = 2 * (p - q) /\ u - t = p /\ m - t = q
  BY <1>1
<1> HIDE DEF p, q
<1>3. p * p = (2 * q - p) * (2 * q - p) + (2 * q) * (2 * (p - q))
  BY <1>2
<1> QED
  BY <1>2, <1>3

\* The loss is quadratic in each number of the prediction.
LEMMA LossAround ==
  ASSUME NEW B \in Nat \ {0}, NEW C \in Nat \ {0}, NEW t, TrueOutputs(t, B * C),
         NEW n \in 0..(B * C),
         NEW up, NEW mid, NEW down, Around(B, C, up, mid, down)
  PROVE  /\ LossAt(t, up, n) - LossAt(t, down, n) = Inner(B, C, LossGrad(t, B, C, mid, n), Diff(B, C, up, down))
         /\ LossAt(t, up, n) \in Int /\ LossAt(t, down, n) \in Int
<1> DEFINE N == B * C
           G == LossGrad(t, B, C, mid, n)
           D == Diff(B, C, up, down)
           term(k) == (2 * (Element(mid, k) - Element(t, k))) * (Element(up, k) - Element(down, k))
           fu == [k \in 1..n |-> TermAt(t, up, k - 1)]
           fd == [k \in 1..n |-> TermAt(t, down, k - 1)]
           f == [k \in 1..N |-> IF k - 1 < n THEN term(k - 1) ELSE 0]
           fn == [k \in 1..n |-> f[k]]
<1>1. /\ up \in MatrixOf(B, C) /\ mid \in MatrixOf(B, C) /\ down \in MatrixOf(B, C)
      /\ \A r \in 1..B, c \in 1..C : up[r][c] + down[r][c] = 2 * mid[r][c]
  BY DEF Around
<1>2. N \in Nat /\ n \in 0..N /\ n \in Nat
  BY NatTimes
<1>3. ASSUME NEW k \in 0..(N - 1)
      PROVE  /\ Element(up, k) \in Int /\ Element(mid, k) \in Int /\ Element(down, k) \in Int
             /\ Element(t, k) \in Int
             /\ Element(up, k) + Element(down, k) = 2 * Element(mid, k)
  <2> DEFINE r == Row(up, k)
             c == Column(up, k)
  <2>1. r \in 1..B /\ c \in 1..C /\ Place(C, r, c) = k /\ Element(up, k) \in Int
    BY <1>1, ElementIs
  <2>2. Element(mid, k) \in Int /\ Element(down, k) \in Int
    BY <1>1, ElementIs
  <2> HIDE DEF r, c
  <2>3. Element(up, k) = up[r][c] /\ Element(mid, k) = mid[r][c] /\ Element(down, k) = down[r][c]
    <3>1. Element(up, Place(C, r, c)) = up[r][c]
      BY <1>1, <2>1, ElementIs
    <3>2. Element(mid, Place(C, r, c)) = mid[r][c]
      BY <1>1, <2>1, ElementIs
    <3>3. Element(down, Place(C, r, c)) = down[r][c]
      BY <1>1, <2>1, ElementIs
    <3> QED
      BY <2>1, <3>1, <3>2, <3>3
  <2>4. Element(t, k) \in Int
    BY DEF TrueOutputs
  <2> QED
    BY <1>1, <2>1, <2>2, <2>3, <2>4
<1> HIDE DEF N
<1>4. ASSUME NEW k \in 0..(N - 1)
      PROVE  /\ TermAt(t, up, k) = TermAt(t, down, k) + term(k)
             /\ TermAt(t, up, k) \in Int /\ TermAt(t, down, k) \in Int /\ term(k) \in Int
  <2> DEFINE u == Element(up, k)
             d == Element(down, k)
             m == Element(mid, k)
             w == Element(t, k)
  <2>1. u \in Int /\ d \in Int /\ m \in Int /\ w \in Int /\ u + d = 2 * m
    BY <1>3
  <2>2. /\ TermAt(t, up, k) = (u - w) * (u - w) /\ TermAt(t, down, k) = (d - w) * (d - w)
        /\ term(k) = (2 * (m - w)) * (u - d)
    BY DEF TermAt
  <2> HIDE DEF u, d, m, w, term
  <2>3. (u - w) * (u - w) = (d - w) * (d - w) + (2 * (m - w)) * (u - d)
    BY <2>1, Squares
  <2>4. \A a, b \in Int : a * b \in Int
    OBVIOUS
  <2>5. u - w \in Int /\ d - w \in Int /\ 2 * (m - w) \in Int /\ u - d \in Int
    BY <2>1
  <2> QED
    BY <2>2, <2>3, <2>4, <2>5
<1>5. f \in [1..N -> Int] /\ \A k \in 1..N : f[k] = IF k - 1 < n THEN term(k - 1) ELSE 0
  <2>1. \A k \in 1..N : term(k - 1) \in Int
    <3> HIDE DEF term
    <3> TAKE k \in 1..N
    <3>1. k - 1 \in 0..(N - 1)
      BY <1>2
    <3> QED
      BY <1>4, <3>1
  <2> HIDE DEF term
  <2> QED
    BY <2>1
<1>6. fu = [k \in 1..n |-> TermAt(t, up, k - 1)] /\ fd = [k \in 1..n |-> TermAt(t, down, k - 1)]
      /\ fn = [k \in 1..n |-> f[k]]
  BY Zenon
<1> HIDE DEF term, f, fu, fd, fn
<1>7. fn \in [1..n -> Int] /\ Total(fn) = Total(f)
  <2>1. \A k \in 1..N : k > n => f[k] = 0
    BY <1>2, <1>5
  <2>2. FirstOf(N, f, n, fn)
    BY <1>2, <1>5, <1>6, <2>1 DEF FirstOf
  <2> QED
    BY <2>2, TotalOfFirst
<1>8. AddUp(n, fd, fn, fu)
  <2>1. ASSUME NEW k \in 1..n
        PROVE  fu[k] = fd[k] + fn[k] /\ fu[k] \in Int /\ fd[k] \in Int
    <3>1. k - 1 \in 0..(N - 1) /\ k \in 1..N /\ k - 1 < n
      BY <1>2
    <3>2. fu[k] = TermAt(t, up, k - 1) /\ fd[k] = TermAt(t, down, k - 1) /\ fn[k] = term(k - 1)
      BY <1>5, <1>6, <3>1
    <3>3. /\ TermAt(t, up, k - 1) = TermAt(t, down, k - 1) + term(k - 1)
          /\ TermAt(t, up, k - 1) \in Int /\ TermAt(t, down, k - 1) \in Int
      BY <1>4, <3>1
    <3> QED
      BY <3>2, <3>3
  <2>2. fu \in [1..n -> Int] /\ fd \in [1..n -> Int]
    BY <1>6, <2>1
  <2> QED
    BY <1>2, <1>7, <2>1, <2>2 DEF AddUp
<1>9. Total(fu) = Total(fd) + Total(f) /\ Total(fu) \in Int /\ Total(fd) \in Int /\ Total(f) \in Int
  BY <1>7, <1>8, TotalAddsUp
<1>10. LossAt(t, up, n) = Total(fu) /\ LossAt(t, down, n) = Total(fd)
  BY <1>6 DEF LossAt
<1>11. Total(f) = Total([r \in 1..B |-> Total([c \in 1..C |-> f[(r - 1) * C + c]])])
  <2>1. B \in Nat /\ C \in Nat /\ f \in [1..(B * C) -> Int]
    BY <1>5 DEF N
  <2> QED
    BY <2>1, SumOfRows
<1>12. D \in MatrixOf(B, C) /\ \A r \in 1..B, c \in 1..C : D[r][c] = up[r][c] - down[r][c]
  BY <1>1, DiffIs
<1>13. \A r \in 1..B, c \in 1..C :
         LET k == Place(C, r, c)
         IN  /\ k \in 0..(N - 1) /\ Element(t, k) \in Int
             /\ G[r][c] = IF k < n THEN 2 * (mid[r][c] - Element(t, k)) ELSE 0
  BY <1>1, LossGradIs DEF N
<1> HIDE DEF D, G
<1>14. ASSUME NEW r \in 1..B, NEW c \in 1..C
       PROVE  f[(r - 1) * C + c] = G[r][c] * D[r][c]
  <2> DEFINE k == Place(C, r, c)
  <2>1. (r - 1) * C + c = k + 1 /\ k \in 0..(N - 1)
    BY PlaceIs DEF N
  <2>2. /\ Element(up, k) = up[r][c] /\ Element(mid, k) = mid[r][c] /\ Element(down, k) = down[r][c]
    <3>1. Element(up, k) = up[r][c]
      BY <1>1, PlaceElement
    <3>2. Element(mid, k) = mid[r][c]
      BY <1>1, PlaceElement
    <3>3. Element(down, k) = down[r][c]
      BY <1>1, PlaceElement
    <3> QED
      BY <3>1, <3>2, <3>3
  <2>3. G[r][c] = IF k < n THEN 2 * (mid[r][c] - Element(t, k)) ELSE 0
    BY <1>13
  <2>4. term(k) = (2 * (mid[r][c] - Element(t, k))) * D[r][c]
    BY <1>12, <2>2 DEF term
  <2>5. f[k + 1] = IF k < n THEN term(k) ELSE 0
    <3> HIDE DEF k
    <3>1. k + 1 \in 1..N /\ (k + 1) - 1 = k
      BY <1>2, <2>1
    <3> QED
      BY <1>5, <3>1
  <2>6. D[r][c] \in Int
    BY <1>12, MatrixParts
  <2>7. CASE k < n
    BY <2>1, <2>3, <2>4, <2>5, <2>7
  <2>8. CASE ~(k < n)
    <3>1. f[(r - 1) * C + c] = 0 /\ G[r][c] = 0
      BY <2>1, <2>3, <2>5, <2>8
    <3> QED
      BY <2>6, <3>1
  <2> QED
    BY <2>7, <2>8
<1>15. Inner(B, C, G, D) = Total(f)
  <2>1. ASSUME NEW r \in 1..B
        PROVE  Total([c \in 1..C |-> f[(r - 1) * C + c]]) = Pair(C, G[r], D[r])
    <3>1. [c \in 1..C |-> f[(r - 1) * C + c]] = [c \in 1..C |-> G[r][c] * D[r][c]]
      BY <1>14
    <3> QED
      BY <3>1 DEF Pair
  <2>2. [r \in 1..B |-> Total([c \in 1..C |-> f[(r - 1) * C + c]])] = [r \in 1..B |-> Pair(C, G[r], D[r])]
    BY <2>1
  <2> QED
    BY <1>11, <2>2 DEF Inner
<1> QED
  BY <1>9, <1>10, <1>15 DEF G, D

-----------------------------------------------------------------------------
(* The fold of Raw, as the sequence of what goes into each layer.            *)

\* One step of the fold of Raw.
FirstOut(m) == [out |-> m, raw |-> <<>>]
NextOut(acc, l) ==
  [out |-> Activated(l, Forward(l, acc.out)), raw |-> Append(acc.raw, Forward(l, acc.out))]
RawStep(layers, m, h, s) ==
  IF s = {} THEN FirstOut(m) ELSE NextOut(h[s \ {Max(s)}], layers[Max(s)])

LEMMA NextOutIs ==
  ASSUME NEW acc, NEW l
  PROVE  /\ NextOut(acc, l).out = Activated(l, Forward(l, acc.out))
         /\ NextOut(acc, l).raw = Append(acc.raw, Forward(l, acc.out))
BY DEF NextOut

\* The recursion behind the fold has a solution, for a network of any length.
LEMMA RawFoldExists ==
  ASSUME NEW N \in Nat, NEW layers, NEW m
  PROVE  \E h : h = [s \in SUBSET (1..N) |-> RawStep(layers, m, h, s)]
<1> DEFINE Good(n) == \E h : h = [s \in SUBSET (1..n) |-> RawStep(layers, m, h, s)]
           S == {n \in 0..N : Good(n)}
<1>1. 0 \in S
  <2> DEFINE h == [s \in SUBSET (1..0) |-> FirstOut(m)]
  <2>1. \A s \in SUBSET (1..0) : s = {}
    OBVIOUS
  <2>2. \A s \in SUBSET (1..0) : RawStep(layers, m, h, s) = FirstOut(m)
    BY <2>1 DEF RawStep
  <2>3. h = [s \in SUBSET (1..0) |-> RawStep(layers, m, h, s)]
    BY <2>2
  <2>4. Good(0)
    BY <2>3
  <2> HIDE DEF Good
  <2>5. 0 \in 0..N
    OBVIOUS
  <2> QED
    BY <2>4, <2>5
<1>2. ASSUME NEW n \in 0..(N - 1), n \in S PROVE n + 1 \in S
  <2>1. PICK h : h = [s \in SUBSET (1..n) |-> RawStep(layers, m, h, s)]
    BY <1>2
  <2> DEFINE k == [s \in SUBSET (1..(n + 1)) |->
                     IF n + 1 \in s THEN NextOut(h[s \ {n + 1}], layers[n + 1]) ELSE h[s]]
  <2>2. ASSUME NEW s \in SUBSET (1..(n + 1)), n + 1 \notin s
        PROVE  s \in SUBSET (1..n)
    <3>1. \A x0 \in s : x0 \in 1..n
      BY <2>2
    <3> QED
      BY <3>1
  <2>3. \A s \in SUBSET (1..(n + 1)) :
          /\ n + 1 \in s => k[s] = NextOut(h[s \ {n + 1}], layers[n + 1])
          /\ n + 1 \notin s => k[s] = h[s]
    BY Zenon
  <2>3a. k = [s \in SUBSET (1..(n + 1)) |-> k[s]]
    BY Zenon
  <2> HIDE DEF k
  <2>4. ASSUME NEW s \in SUBSET (1..(n + 1))
        PROVE  k[s] = RawStep(layers, m, k, s)
    <3>1. CASE n + 1 \in s
      <4>1. Max(s) = n + 1
        <5>1. \A y \in s : n + 1 >= y
          OBVIOUS
        <5>2. \A x0 \in s : (\A y \in s : x0 >= y) => x0 = n + 1
          BY <3>1, <5>1
        <5> QED
          BY <3>1, <5>1, <5>2 DEF Max
      <4>2. s \ {n + 1} \in SUBSET (1..(n + 1)) /\ n + 1 \notin s \ {n + 1}
        OBVIOUS
      <4>3. k[s \ {n + 1}] = h[s \ {n + 1}]
        BY <2>3, <4>2
      <4>4. k[s] = NextOut(h[s \ {n + 1}], layers[n + 1])
        BY <2>3, <3>1
      <4>5. s # {}
        BY <3>1
      <4>6. RawStep(layers, m, k, s) = NextOut(k[s \ {n + 1}], layers[n + 1])
        BY <4>1, <4>5 DEF RawStep
      <4> QED
        BY <4>3, <4>4, <4>6
    <3>2. CASE n + 1 \notin s
      <4>1. s \in SUBSET (1..n)
        BY <2>2, <3>2
      <4>2. h[s] = RawStep(layers, m, h, s)
        BY <2>1, <4>1, Zenon
      <4>3. n + 1 \notin s \ {Max(s)} /\ s \ {Max(s)} \in SUBSET (1..(n + 1))
        BY <3>2
      <4>4. k[s] = h[s] /\ k[s \ {Max(s)}] = h[s \ {Max(s)}]
        BY <2>3, <3>2, <4>3
      <4> QED
        BY <4>2, <4>4 DEF RawStep
    <3> QED
      BY <3>1, <3>2
  <2>5. k = [s \in SUBSET (1..(n + 1)) |-> RawStep(layers, m, k, s)]
    BY <2>3a, <2>4
  <2>6. Good(n + 1)
    BY <2>5
  <2> HIDE DEF Good
  <2>7. n + 1 \in 0..N
    OBVIOUS
  <2> QED
    BY <2>6, <2>7
<1>3. N \in S
  <2> HIDE DEF S
  <2>1. \A n \in 0..N : n \in S
    BY <1>1, <1>2, InductionUpTo
  <2> QED
    BY <2>1
<1> QED
  BY <1>3

\* What goes into each layer, and out of the last.
Carried(layers, m, A) ==
  /\ A = [l \in 0..Len(layers) |-> A[l]] /\ A[0] = m
  /\ \A l \in 1..Len(layers) : A[l] = Activated(layers[l], Forward(layers[l], A[l - 1]))

Computes(layers, m, A) ==
  /\ Carried(layers, m, A) /\ Raw(layers, m).out = A[Len(layers)]
  /\ Raw(layers, m).raw = [l \in 1..Len(layers) |-> Forward(layers[l], A[l - 1])]

\* Raw is the sequence of what the layers put out.
LEMMA RawIs ==
  ASSUME NEW layers, DOMAIN layers = 1..Len(layers), Len(layers) \in Nat, NEW m
  PROVE  \E A : Computes(layers, m, A)
<1> DEFINE N == Len(layers)
           iter == CHOOSE h : h = [s \in SUBSET (1..N) |-> RawStep(layers, m, h, s)]
           g == [i \in 0..N |-> iter[1..i]]
           A == [i \in 0..N |-> g[i].out]
           z(l) == Forward(layers[l], A[l - 1])
           raw(n) == [l \in 1..n |-> z(l)]
           V == {z(l) : l \in 1..N}
<1>0. N \in Nat
  OBVIOUS
<1>1. iter = [s \in SUBSET (1..N) |-> RawStep(layers, m, iter, s)]
  BY <1>0, RawFoldExists
<1>2. Raw(layers, m) = iter[1..N]
  BY DEF Raw, FoldLeft, MapThenFoldSet, RawStep, FirstOut, NextOut
<1> HIDE DEF iter, N
<1>3. \A s \in SUBSET (1..N) : iter[s] = RawStep(layers, m, iter, s)
  BY <1>1, Zenon
<1>4. g = [i \in 0..N |-> g[i]] /\ \A i \in 0..N : g[i] = iter[1..i]
  BY Zenon
<1> HIDE DEF g
<1>5. g[0] = FirstOut(m)
  <2>1. 1..0 = {} /\ {} \in SUBSET (1..N) /\ 0 \in 0..N
    BY <1>0
  <2>2. iter[{}] = FirstOut(m)
    BY <1>3, <2>1 DEF RawStep
  <2> QED
    BY <1>4, <2>1, <2>2
<1>6. ASSUME NEW i \in 1..N PROVE g[i] = NextOut(g[i - 1], layers[i])
  <2>0. i \in Nat \ {0} /\ 1..i \in SUBSET (1..N) /\ i \in 0..N /\ i - 1 \in 0..N
    BY <1>0
  <2>1. Max(1..i) = i /\ (1..i) \ {i} = 1..(i - 1) /\ 1..i # {}
    BY <2>0, LargestOfInitial
  <2>2. iter[1..i] = RawStep(layers, m, iter, 1..i)
    BY <1>3, <2>0, Zenon
  <2>3. RawStep(layers, m, iter, 1..i) = NextOut(iter[(1..i) \ {i}], layers[i])
    BY <2>1, Zenon DEF RawStep
  <2> QED
    BY <1>4, <2>0, <2>1, <2>2, <2>3
<1>7. A = [l \in 0..N |-> A[l]] /\ \A l \in 0..N : A[l] = g[l].out
  BY Zenon
<1> HIDE DEF A
<1>8. Carried(layers, m, A)
  <2>1. A[0] = m
    <3>1. 0 \in 0..N
      BY <1>0
    <3>2. A[0] = g[0].out
      BY <1>7, <3>1
    <3> QED
      BY <1>5, <3>2 DEF FirstOut
  <2>2. ASSUME NEW l \in 1..N
        PROVE  A[l] = Activated(layers[l], Forward(layers[l], A[l - 1]))
    <3>1. l \in 0..N /\ l - 1 \in 0..N
      BY <1>0
    <3>2. A[l] = g[l].out /\ A[l - 1] = g[l - 1].out
      BY <1>7, <3>1
    <3>3. g[l].out = Activated(layers[l], Forward(layers[l], g[l - 1].out))
      <4>1. g[l] = NextOut(g[l - 1], layers[l])
        BY <1>6
      <4> QED
        BY <4>1, NextOutIs
    <3> QED
      BY <3>2, <3>3
  <2> QED
    BY <1>7, <2>1, <2>2 DEF Carried, N
<1>9. Raw(layers, m) = g[N] /\ Raw(layers, m).out = A[N]
  <2>1. N \in 0..N
    BY <1>0
  <2> QED
    BY <1>2, <1>4, <1>7, <2>1
<1> HIDE DEF z
<1>10. \A n \in 0..N : raw(n) \in Seq(V) /\ Len(raw(n)) = n /\ raw(n) = [l \in 1..n |-> z(l)]
  <2> TAKE n \in 0..N
  <2>1. \A l \in 1..n : z(l) \in V
    BY <1>0
  <2> HIDE DEF V
  <2>2. raw(n) \in [1..n -> V]
    BY <2>1
  <2>3. n \in Nat
    BY <1>0
  <2>4. raw(n) \in Seq(V) /\ Len(raw(n)) = n
    <3> HIDE DEF raw
    <3> QED
      BY <2>2, <2>3
  <2> QED
    BY <2>4
<1> DEFINE T == {n \in 0..N : g[n].raw = raw(n)}
<1>11. 0 \in T
  <2>1. g[0].raw = <<>>
    BY <1>5 DEF FirstOut
  <2>2. raw(0) = <<>>
    <3>1. raw(0) \in Seq(V) /\ Len(raw(0)) = 0
      BY <1>0, <1>10
    <3> HIDE DEF raw, V
    <3> QED
      BY <3>1
  <2> QED
    BY <1>0, <2>1, <2>2
<1>12. ASSUME NEW n \in 0..(N - 1), n \in T PROVE n + 1 \in T
  <2>1. n + 1 \in 1..N /\ (n + 1) - 1 = n /\ n \in 0..N /\ n + 1 \in 0..N
    BY <1>0
  <2>2. g[n + 1].raw = Append(g[n].raw, Forward(layers[n + 1], g[n].out))
    <3>1. g[n + 1] = NextOut(g[n], layers[n + 1])
      BY <1>6, <2>1
    <3> QED
      BY <3>1, NextOutIs
  <2>3. Forward(layers[n + 1], g[n].out) = z(n + 1)
    BY <1>7, <2>1 DEF z
  <2> DEFINE s == raw(n)
             t == raw(n + 1)
             v == z(n + 1)
  <2>4. /\ s \in Seq(V) /\ Len(s) = n /\ t \in Seq(V) /\ Len(t) = n + 1 /\ v \in V
        /\ t[n + 1] = v /\ \A i \in 1..n : t[i] = s[i]
    <3>1. s \in Seq(V) /\ Len(s) = n /\ t \in Seq(V) /\ Len(t) = n + 1
      <4> HIDE DEF raw, V
      <4> QED
        BY <1>10, <2>1
    <3>2. v \in V
      BY <2>1
    <3>3. n + 1 \in 1..(n + 1) /\ \A i \in 1..n : i \in 1..(n + 1)
      BY <1>0
    <3>4. t[n + 1] = v
      BY <3>3
    <3>5. \A i \in 1..n : t[i] = s[i]
      BY <3>3
    <3> QED
      BY <3>1, <3>2, <3>4, <3>5
  <2>5. g[n].raw = s
    BY <1>12
  <2> HIDE DEF s, t, v, V, raw
  <2>6. Append(s, v) = t
    <3>1. /\ Append(s, v) \in Seq(V) /\ Len(Append(s, v)) = n + 1
          /\ Append(s, v)[n + 1] = v /\ \A i \in 1..n : Append(s, v)[i] = s[i]
      BY <2>4, AppendProperties
    <3>2. \A i \in 1..(n + 1) : Append(s, v)[i] = t[i]
      <4> TAKE i \in 1..(n + 1)
      <4>1. i \in 1..n \/ i = n + 1
        BY <1>0
      <4> QED
        BY <2>4, <3>1, <4>1
    <3> QED
      BY <2>4, <3>1, <3>2
  <2>7. g[n + 1].raw = t
    BY <2>2, <2>3, <2>5, <2>6 DEF v
  <2> QED
    BY <2>1, <2>7 DEF t
<1> HIDE DEF T
<1>13. \A n \in 0..N : n \in T
  BY <1>0, <1>11, <1>12, InductionUpTo
<1>14. N \in T
  BY <1>0, <1>13
<1>15. Raw(layers, m).raw = [l \in 1..N |-> Forward(layers[l], A[l - 1])]
  BY <1>9, <1>14 DEF T, z
<1> QED
  BY <1>8, <1>9, <1>15 DEF N, Computes

-----------------------------------------------------------------------------
(* The difference between a step up and a step down, carried through the network *)
(* forward, and the gradient carried backward.                               *)

SignsLike(a, b) == \A r \in DOMAIN a : \A c \in DOMAIN a[r] : (a[r][c] > 0) = (b[r][c] > 0)

\* Signs that are alike, for matrices of known shape.
LEMMA SameSignIs ==
  ASSUME NEW R \in Nat, NEW C \in Nat, NEW a \in MatrixOf(R, C), NEW b, SignsLike(a, b)
  PROVE  SameSign(R, C, a, b)
BY MatrixParts DEF SignsLike, SameSign

\* One layer, backwards.
LEMMA LayerAround ==
  ASSUME NEW B \in Nat, NEW I \in Nat \ {0}, NEW O \in Nat \ {0}, NEW l \in LayerOf(I, O),
         NEW up, NEW mid, NEW down, Around(B, I, up, mid, down),
         SignsLike(Forward(l, up), Forward(l, mid)), SignsLike(Forward(l, down), Forward(l, mid))
  PROVE  /\ Around(B, O, Activated(l, Forward(l, up)), Activated(l, Forward(l, mid)),
                   Activated(l, Forward(l, down)))
         /\ \A g \in MatrixOf(B, O) :
              Inner(B, O, g, Diff(B, O, Activated(l, Forward(l, up)), Activated(l, Forward(l, down))))
                = Inner(B, I, GradInput(l, Masked(l, g, Forward(l, mid))), Diff(B, I, up, down))
<1> DEFINE yu == Forward(l, up)
           ym == Forward(l, mid)
           yd == Forward(l, down)
           dx == Diff(B, I, up, down)
<1>1. /\ Around(B, O, yu, ym, yd)
      /\ \A g \in MatrixOf(B, O) : Inner(B, O, g, Diff(B, O, yu, yd)) = Inner(B, I, GradInput(l, g), dx)
  BY ForwardAround
<1>2. l.act \in Activations
  BY DEF LayerOf, Activations
<1>3. SignsLike(yu, ym) /\ SignsLike(yd, ym)
  OBVIOUS
<1> HIDE DEF yu, ym, yd, dx
<1>4. yu \in MatrixOf(B, O) /\ yd \in MatrixOf(B, O) /\ B \in Nat /\ O \in Nat
  BY <1>1 DEF Around
<1>5. SameSign(B, O, yu, ym) /\ SameSign(B, O, yd, ym)
  BY <1>3, <1>4, SameSignIs
<1>6. /\ Around(B, O, Activated(l, yu), Activated(l, ym), Activated(l, yd))
      /\ \A g \in MatrixOf(B, O) :
           Inner(B, O, g, Diff(B, O, Activated(l, yu), Activated(l, yd)))
             = Inner(B, O, Masked(l, g, ym), Diff(B, O, yu, yd))
  BY <1>1, <1>2, <1>4, <1>5, ActivatedAround
<1>7. ASSUME NEW g \in MatrixOf(B, O)
      PROVE  Inner(B, O, g, Diff(B, O, Activated(l, yu), Activated(l, yd)))
               = Inner(B, I, GradInput(l, Masked(l, g, ym)), dx)
  <2>1. Masked(l, g, ym) \in MatrixOf(B, O)
    BY <1>4, MaskedIs
  <2> QED
    BY <1>1, <1>6, <2>1
<1> QED
  BY <1>6, <1>7 DEF yu, ym, yd, dx

\* A network and what forward and backward have computed with it: A[l] is what
\* layer l puts out, and G[l] what backward carries into it.
Setting(L, layers, W, B, A, raws, G) ==
  /\ L \in Nat /\ B \in Nat \ {0} /\ W \in [0..L -> Nat \ {0}]
  /\ \A l \in 1..L : layers[l] \in LayerOf(W[l - 1], W[l])
  /\ A[0] \in MatrixOf(B, W[0])
  /\ \A l \in 1..L : raws[l] = Forward(layers[l], A[l - 1]) /\ A[l] = Activated(layers[l], raws[l])
  /\ G[L] \in MatrixOf(B, W[L])
  /\ \A l \in 1..L : G[l - 1] = GradInput(layers[l], Masked(layers[l], G[l], raws[l]))

\* The shape of what goes through one layer.
LEMMA LayerTypes ==
  ASSUME NEW B \in Nat, NEW I \in Nat \ {0}, NEW O \in Nat \ {0}, NEW l \in LayerOf(I, O),
         NEW m \in MatrixOf(B, I)
  PROVE  Forward(l, m) \in MatrixOf(B, O) /\ Activated(l, Forward(l, m)) \in MatrixOf(B, O)
<1>1. Forward(l, m) \in MatrixOf(B, O) /\ O \in Nat
  BY ForwardIs
<1>2. l.act \in Activations
  BY DEF LayerOf, Activations
<1> QED
  BY <1>1, <1>2, ActivatedIs

\* The shape of what goes through all layers, and of the gradients.
LEMMA SettingTypes ==
  ASSUME NEW L, NEW layers, NEW W, NEW B, NEW A, NEW raws, NEW G, Setting(L, layers, W, B, A, raws, G)
  PROVE  /\ \A l \in 0..L : A[l] \in MatrixOf(B, W[l]) /\ G[l] \in MatrixOf(B, W[l])
         /\ \A l \in 1..L : /\ raws[l] \in MatrixOf(B, W[l])
                            /\ Masked(layers[l], G[l], raws[l]) \in MatrixOf(B, W[l])
<1>0. /\ L \in Nat /\ B \in Nat \ {0} /\ B \in Nat /\ W \in [0..L -> Nat \ {0}]
      /\ \A l \in 1..L : layers[l] \in LayerOf(W[l - 1], W[l])
      /\ A[0] \in MatrixOf(B, W[0])
      /\ \A l \in 1..L : raws[l] = Forward(layers[l], A[l - 1]) /\ A[l] = Activated(layers[l], raws[l])
      /\ G[L] \in MatrixOf(B, W[L])
      /\ \A l \in 1..L : G[l - 1] = GradInput(layers[l], Masked(layers[l], G[l], raws[l]))
  BY DEF Setting
<1>1. ASSUME NEW l \in 1..L
      PROVE  /\ l \in 0..L /\ l - 1 \in 0..L /\ W[l] \in Nat \ {0} /\ W[l - 1] \in Nat \ {0}
             /\ layers[l] \in LayerOf(W[l - 1], W[l])
  <2>1. l \in 0..L /\ l - 1 \in 0..L
    BY <1>0
  <2> QED
    BY <1>0, <2>1
<1> DEFINE S == {n \in 0..L : A[n] \in MatrixOf(B, W[n])}
           T == {n \in 0..L : G[n] \in MatrixOf(B, W[n])}
<1>2. 0 \in S
  BY <1>0
<1>3. ASSUME NEW n \in 0..(L - 1), n \in S PROVE n + 1 \in S
  <2> DEFINE l == n + 1
  <2>1. l \in 1..L /\ l - 1 = n /\ l \in 0..L
    BY <1>0
  <2> HIDE DEF l
  <2>2. A[l] = Activated(layers[l], Forward(layers[l], A[l - 1])) /\ A[l - 1] \in MatrixOf(B, W[l - 1])
    BY <1>0, <1>3, <2>1
  <2>2a. W[l] \in Nat \ {0} /\ W[l - 1] \in Nat \ {0} /\ layers[l] \in LayerOf(W[l - 1], W[l]) /\ B \in Nat
    BY <1>0, <1>1, <2>1
  <2>2b. Activated(layers[l], Forward(layers[l], A[l - 1])) \in MatrixOf(B, W[l])
    BY <2>2, <2>2a, LayerTypes
  <2>3. A[l] \in MatrixOf(B, W[l])
    BY <2>2, <2>2b
  <2> QED
    BY <2>1, <2>3 DEF l
<1> HIDE DEF S
<1>4. \A n \in 0..L : n \in S
  BY <1>0, <1>2, <1>3, InductionUpTo
<1>5. ASSUME NEW l \in 1..L PROVE raws[l] \in MatrixOf(B, W[l])
  <2>1. A[l - 1] \in MatrixOf(B, W[l - 1])
    BY <1>1, <1>4 DEF S
  <2> QED
    BY <1>0, <1>1, <2>1, LayerTypes
<1>6. L \in T
  BY <1>0
<1>7. ASSUME NEW n \in 0..(L - 1), n + 1 \in T PROVE n \in T
  <2> DEFINE l == n + 1
  <2>1. l \in 1..L /\ l - 1 = n /\ l \in 0..L
    BY <1>0
  <2>2. G[l] \in MatrixOf(B, W[l])
    BY <1>7
  <2> HIDE DEF l, T
  <2>3. W[l] \in Nat \ {0} /\ W[l] \in Nat /\ W[l - 1] \in Nat \ {0} /\ layers[l] \in LayerOf(W[l - 1], W[l])
    BY <1>1, <2>1
  <2>4. Masked(layers[l], G[l], raws[l]) \in MatrixOf(B, W[l])
    BY <1>0, <2>2, <2>3, MaskedIs
  <2>5. GradInput(layers[l], Masked(layers[l], G[l], raws[l])) \in MatrixOf(B, W[l - 1])
    BY <1>0, <2>3, <2>4, GradInputIs
  <2>6. G[l - 1] \in MatrixOf(B, W[l - 1])
    <3>1. G[l - 1] = GradInput(layers[l], Masked(layers[l], G[l], raws[l]))
      BY <1>0, <2>1
    <3> QED
      BY <2>5, <3>1
  <2>7. G[n] \in MatrixOf(B, W[n]) /\ n \in 0..L
    BY <1>1, <2>1, <2>6
  <2> QED
    BY <2>7 DEF T
<1> HIDE DEF T
<1>8. \A n \in 0..L : n \in T
  BY <1>0, <1>6, <1>7, InductionDownFrom
<1>9. ASSUME NEW l \in 1..L PROVE Masked(layers[l], G[l], raws[l]) \in MatrixOf(B, W[l])
  <2>1. G[l] \in MatrixOf(B, W[l]) /\ W[l] \in Nat
    BY <1>1, <1>8 DEF T
  <2> QED
    BY <1>0, <2>1, MaskedIs
<1> QED
  BY <1>4, <1>5, <1>8, <1>9 DEF S, T

\* Behind layer j the values are computed as usual, with no number changing sign.
Follows(L, layers, raws, U, j) ==
  \A l \in (j + 1)..L : /\ U[l] = Activated(layers[l], Forward(layers[l], U[l - 1]))
                        /\ SignsLike(Forward(layers[l], U[l - 1]), raws[l])

\* What backward carries is the derivative by what goes through each layer.
LEMMA Propagates ==
  ASSUME NEW L, NEW layers, NEW W, NEW B, NEW A, NEW raws, NEW G, Setting(L, layers, W, B, A, raws, G),
         NEW j \in 0..L, NEW U, NEW D, Follows(L, layers, raws, U, j), Follows(L, layers, raws, D, j),
         Around(B, W[j], U[j], A[j], D[j])
  PROVE  /\ Around(B, W[L], U[L], A[L], D[L])
         /\ Inner(B, W[L], G[L], Diff(B, W[L], U[L], D[L])) = Inner(B, W[j], G[j], Diff(B, W[j], U[j], D[j]))
<1>0. /\ L \in Nat /\ B \in Nat /\ W \in [0..L -> Nat \ {0}]
      /\ \A l \in 1..L : layers[l] \in LayerOf(W[l - 1], W[l])
      /\ \A l \in 1..L : raws[l] = Forward(layers[l], A[l - 1]) /\ A[l] = Activated(layers[l], raws[l])
      /\ \A l \in 1..L : G[l - 1] = GradInput(layers[l], Masked(layers[l], G[l], raws[l]))
  BY DEF Setting
<1> DEFINE Dist(l) == Inner(B, W[l], G[l], Diff(B, W[l], U[l], D[l]))
           Good(l) == Around(B, W[l], U[l], A[l], D[l]) /\ Dist(l) = Dist(j)
           S == {n \in 0..(L - j) : Good(j + n)}
<1>1. 0 \in S
  <2>1. Good(j) /\ j + 0 = j /\ 0 \in 0..(L - j)
    BY <1>0
  <2> HIDE DEF Good
  <2> QED
    BY <2>1
<1>2. ASSUME NEW n \in 0..((L - j) - 1), n \in S PROVE n + 1 \in S
  <2> DEFINE l == j + (n + 1)
  <2>1. l \in 1..L /\ l - 1 = j + n /\ l \in (j + 1)..L /\ n + 1 \in 0..(L - j) /\ l - 1 \in 0..L /\ l \in 0..L
    BY <1>0
  <2>2. Good(l - 1)
    <3> HIDE DEF Good, l
    <3> QED
      BY <1>2, <2>1
  <2>3. Around(B, W[l - 1], U[l - 1], A[l - 1], D[l - 1]) /\ Dist(l - 1) = Dist(j)
    BY <2>2
  <2> HIDE DEF l, Dist
  <2>4. W[l - 1] \in Nat \ {0} /\ W[l] \in Nat \ {0} /\ layers[l] \in LayerOf(W[l - 1], W[l])
    BY <1>0, <2>1
  <2>5. /\ U[l] = Activated(layers[l], Forward(layers[l], U[l - 1]))
        /\ D[l] = Activated(layers[l], Forward(layers[l], D[l - 1]))
        /\ SignsLike(Forward(layers[l], U[l - 1]), raws[l])
        /\ SignsLike(Forward(layers[l], D[l - 1]), raws[l])
    BY <2>1 DEF Follows
  <2>6. raws[l] = Forward(layers[l], A[l - 1]) /\ A[l] = Activated(layers[l], raws[l])
    BY <1>0, <2>1
  <2>7. SignsLike(Forward(layers[l], U[l - 1]), Forward(layers[l], A[l - 1]))
    BY <2>5, <2>6
  <2>8. SignsLike(Forward(layers[l], D[l - 1]), Forward(layers[l], A[l - 1]))
    BY <2>5, <2>6
  <2>9. /\ Around(B, W[l], U[l], A[l], D[l])
        /\ \A g \in MatrixOf(B, W[l]) :
             Inner(B, W[l], g, Diff(B, W[l], U[l], D[l]))
               = Inner(B, W[l - 1], GradInput(layers[l], Masked(layers[l], g, raws[l])),
                       Diff(B, W[l - 1], U[l - 1], D[l - 1]))
    <3> DEFINE ll == layers[l]
               up == U[l - 1]
               mid == A[l - 1]
               down == D[l - 1]
               I == W[l - 1]
               O == W[l]
    <3>1. /\ I \in Nat \ {0} /\ O \in Nat \ {0} /\ ll \in LayerOf(I, O) /\ Around(B, I, up, mid, down)
          /\ SignsLike(Forward(ll, up), Forward(ll, mid)) /\ SignsLike(Forward(ll, down), Forward(ll, mid))
      BY <2>3, <2>4, <2>7, <2>8
    <3>2. /\ U[l] = Activated(ll, Forward(ll, up)) /\ A[l] = Activated(ll, Forward(ll, mid))
          /\ D[l] = Activated(ll, Forward(ll, down)) /\ raws[l] = Forward(ll, mid)
      BY <2>5, <2>6
    <3> HIDE DEF ll, up, mid, down, I, O
    <3>3. /\ Around(B, O, Activated(ll, Forward(ll, up)), Activated(ll, Forward(ll, mid)),
                    Activated(ll, Forward(ll, down)))
          /\ \A g \in MatrixOf(B, O) :
               Inner(B, O, g, Diff(B, O, Activated(ll, Forward(ll, up)), Activated(ll, Forward(ll, down))))
                 = Inner(B, I, GradInput(ll, Masked(ll, g, Forward(ll, mid))), Diff(B, I, up, down))
      BY <1>0, <3>1, LayerAround
    <3> QED
      BY <3>2, <3>3 DEF ll, up, mid, down, I, O
  <2>10. G[l] \in MatrixOf(B, W[l])
    BY <2>1, SettingTypes
  <2>11. G[l - 1] = GradInput(layers[l], Masked(layers[l], G[l], raws[l]))
    BY <1>0, <2>1
  <2>12. Dist(l) = Dist(l - 1)
    BY <2>9, <2>10, <2>11 DEF Dist
  <2>13. Good(l)
    BY <2>3, <2>9, <2>12
  <2> HIDE DEF Good
  <2> QED
    BY <2>1, <2>13 DEF l
<1> HIDE DEF S, Dist
<1>3. L - j \in Nat /\ j + (L - j) = L
  BY <1>0
<1>4. \A n \in 0..(L - j) : n \in S
  BY <1>1, <1>2, <1>3, InductionUpTo
<1>5. L - j \in S
  BY <1>3, <1>4
<1>6. Good(L)
  <2> HIDE DEF Good
  <2> QED
    BY <1>3, <1>5 DEF S
<1> QED
  BY <1>6 DEF Dist

-----------------------------------------------------------------------------
(* A network that differs in one layer, or that is given other inputs.       *)

\* Forward and backward are done, and MSE got as far as n.
Finished(L, layers, W, B, A, raws, G, t, n) ==
  /\ Len(layers) = L /\ DOMAIN layers = 1..L
  /\ Setting(L, layers, W, B, A, raws, G)
  /\ TrueOutputs(t, B * W[L]) /\ n \in 0..(B * W[L])
  /\ G[L] = LossGrad(t, B, W[L], A[L], n)

\* The change of the loss is what the gradient at layer j makes of the change there.
LEMMA LossMoves ==
  ASSUME NEW L, NEW layers, NEW W, NEW B, NEW A, NEW raws, NEW G, NEW t, NEW n,
         Finished(L, layers, W, B, A, raws, G, t, n),
         NEW j \in 0..L, NEW U, NEW D, Follows(L, layers, raws, U, j), Follows(L, layers, raws, D, j),
         Around(B, W[j], U[j], A[j], D[j])
  PROVE  LossAt(t, U[L], n) - LossAt(t, D[L], n) = Inner(B, W[j], G[j], Diff(B, W[j], U[j], D[j]))
<1>0. /\ Setting(L, layers, W, B, A, raws, G)
      /\ TrueOutputs(t, B * W[L]) /\ n \in 0..(B * W[L]) /\ G[L] = LossGrad(t, B, W[L], A[L], n)
  BY DEF Finished
<1>1. B \in Nat \ {0} /\ W[L] \in Nat \ {0}
  BY <1>0 DEF Setting
<1>2. /\ Around(B, W[L], U[L], A[L], D[L])
      /\ Inner(B, W[L], G[L], Diff(B, W[L], U[L], D[L])) = Inner(B, W[j], G[j], Diff(B, W[j], U[j], D[j]))
  BY <1>0, Propagates
<1>3. LossAt(t, U[L], n) - LossAt(t, D[L], n)
        = Inner(B, W[L], LossGrad(t, B, W[L], A[L], n), Diff(B, W[L], U[L], D[L]))
  BY <1>0, <1>1, <1>2, LossAround
<1> QED
  BY <1>0, <1>2, <1>3

\* Only layer j is another one, with the same activation.
AltersOnly(L, layers, ls, j) ==
  /\ Len(ls) = L /\ DOMAIN ls = 1..L /\ ls[j].act = layers[j].act
  /\ \A l \in 1..L : l # j => ls[l] = layers[l]

LEMMA ActOnly ==
  ASSUME NEW l, NEW k, l.act = k.act, NEW m
  PROVE  Activated(l, m) = Activated(k, m)
BY DEF Activated

\* What the altered network computes.
LEMMA AlteredRun ==
  ASSUME NEW L, NEW layers, NEW W, NEW B, NEW A, NEW raws, NEW G, Setting(L, layers, W, B, A, raws, G),
         NEW j \in 1..L, NEW ls, AltersOnly(L, layers, ls, j), SameSigns(Raw(ls, A[0]).raw, raws)
  PROVE  \E U : /\ Raw(ls, A[0]).out = U[L] /\ Follows(L, layers, raws, U, j)
                /\ U[j] = Activated(layers[j], Forward(ls[j], A[j - 1]))
                /\ SignsLike(Forward(ls[j], A[j - 1]), raws[j])
<1>0. /\ L \in Nat
      /\ \A l \in 1..L : raws[l] = Forward(layers[l], A[l - 1]) /\ A[l] = Activated(layers[l], raws[l])
      /\ Len(ls) = L /\ DOMAIN ls = 1..L /\ ls[j].act = layers[j].act
      /\ \A l \in 1..L : l # j => ls[l] = layers[l]
  BY DEF Setting, AltersOnly
<1>1. PICK U : /\ Carried(ls, A[0], U) /\ Raw(ls, A[0]).out = U[Len(ls)]
               /\ Raw(ls, A[0]).raw = [l \in 1..Len(ls) |-> Forward(ls[l], U[l - 1])]
  <2> DEFINE m == A[0]
  <2>1. DOMAIN ls = 1..Len(ls) /\ Len(ls) \in Nat
    BY <1>0
  <2> HIDE DEF m
  <2>2. \E U : Computes(ls, m, U)
    BY <2>1, RawIs
  <2> QED
    BY <2>2 DEF m, Computes
<1>2. U[0] = A[0] /\ \A l \in 1..L : U[l] = Activated(ls[l], Forward(ls[l], U[l - 1]))
  BY <1>0, <1>1 DEF Carried
<1>3. \A l \in 1..L : SignsLike(Forward(ls[l], U[l - 1]), raws[l])
  <2> DEFINE run == Raw(ls, A[0]).raw
  <2>1. DOMAIN run = 1..L /\ \A l \in 1..L : run[l] = Forward(ls[l], U[l - 1])
    <3>1. run = [l \in 1..L |-> Forward(ls[l], U[l - 1])]
      BY <1>0, <1>1
    <3> HIDE DEF run
    <3> QED
      BY <3>1, Zenon
  <2>2. SameSigns(run, raws)
    OBVIOUS
  <2> HIDE DEF run
  <2>3. \A l \in DOMAIN run : SignsLike(run[l], raws[l])
    BY <2>2 DEF SameSigns, SignsLike
  <2> QED
    BY <2>1, <2>3
<1> DEFINE S == {n \in 0..(j - 1) : U[n] = A[n]}
<1>4. 0 \in S
  BY <1>0, <1>2
<1>5. ASSUME NEW n \in 0..((j - 1) - 1), n \in S PROVE n + 1 \in S
  <2>1. n + 1 \in 1..L /\ n + 1 # j /\ (n + 1) - 1 = n /\ n + 1 \in 0..(j - 1)
    BY <1>0
  <2>2. U[n + 1] = Activated(ls[n + 1], Forward(ls[n + 1], U[n])) /\ ls[n + 1] = layers[n + 1]
    BY <1>0, <1>2, <2>1
  <2>3. A[n + 1] = Activated(layers[n + 1], Forward(layers[n + 1], A[n]))
    BY <1>0, <2>1
  <2>4. U[n] = A[n]
    BY <1>5
  <2> QED
    BY <2>1, <2>2, <2>3, <2>4
<1> HIDE DEF S
<1>6. j - 1 \in Nat
  BY <1>0
<1>7. \A n \in 0..(j - 1) : n \in S
  BY <1>4, <1>5, <1>6, InductionUpTo
<1>8. U[j - 1] = A[j - 1]
  <2>1. j - 1 \in S
    BY <1>6, <1>7
  <2> QED
    BY <2>1 DEF S
<1>9. SignsLike(Forward(ls[j], A[j - 1]), raws[j]) /\ U[j] = Activated(ls[j], Forward(ls[j], A[j - 1]))
  BY <1>2, <1>3, <1>8
<1>10. U[j] = Activated(layers[j], Forward(ls[j], A[j - 1]))
  BY <1>0, <1>9, ActOnly
<1>11. Follows(L, layers, raws, U, j)
  <2>1. ASSUME NEW l \in (j + 1)..L
        PROVE  /\ U[l] = Activated(layers[l], Forward(layers[l], U[l - 1]))
               /\ SignsLike(Forward(layers[l], U[l - 1]), raws[l])
    <3>1. l \in 1..L /\ l # j
      BY <1>0
    <3>2. ls[l] = layers[l]
      BY <1>0, <3>1
    <3> QED
      BY <1>2, <1>3, <3>1, <3>2
  <2> QED
    BY <2>1 DEF Follows
<1>12. Raw(ls, A[0]).out = U[L]
  BY <1>0, <1>1
<1> QED
  BY <1>9, <1>10, <1>11, <1>12

\* The derivative by a parameter of layer j, given by its effect in front of the
\* activation.
LayerMoves(L, layers, W, B, A, raws, j, up, down) ==
  /\ AltersOnly(L, layers, up, j) /\ SameSigns(Raw(up, A[0]).raw, raws)
  /\ AltersOnly(L, layers, down, j) /\ SameSigns(Raw(down, A[0]).raw, raws)
  /\ Around(B, W[j], Forward(up[j], A[j - 1]), raws[j], Forward(down[j], A[j - 1]))

\* So it is what the gradient in front of the activation makes of the change there.
LEMMA LayerMoved ==
  ASSUME NEW L, NEW layers, NEW W, NEW B, NEW A, NEW raws, NEW G, NEW t, NEW n,
         Finished(L, layers, W, B, A, raws, G, t, n), NEW j \in 1..L,
         NEW up, NEW down, LayerMoves(L, layers, W, B, A, raws, j, up, down)
  PROVE  LossAt(t, Raw(up, A[0]).out, n) - LossAt(t, Raw(down, A[0]).out, n)
           = Inner(B, W[j], Masked(layers[j], G[j], raws[j]),
                   Diff(B, W[j], Forward(up[j], A[j - 1]), Forward(down[j], A[j - 1])))
<1>0. Setting(L, layers, W, B, A, raws, G)
  BY DEF Finished
<1>1. /\ L \in Nat /\ B \in Nat /\ W[j] \in Nat /\ layers[j] \in LayerOf(W[j - 1], W[j])
      /\ A[j] = Activated(layers[j], raws[j]) /\ j \in 0..L
  BY <1>0 DEF Setting
<1>2. G[j] \in MatrixOf(B, W[j]) /\ raws[j] \in MatrixOf(B, W[j])
  BY <1>0, <1>1, SettingTypes
<1>3. layers[j].act \in Activations
  BY <1>1 DEF LayerOf, Activations
<1>4. PICK U : /\ Raw(up, A[0]).out = U[L] /\ Follows(L, layers, raws, U, j)
               /\ U[j] = Activated(layers[j], Forward(up[j], A[j - 1]))
               /\ SignsLike(Forward(up[j], A[j - 1]), raws[j])
  BY <1>0, AlteredRun DEF LayerMoves
<1>5. PICK D : /\ Raw(down, A[0]).out = D[L] /\ Follows(L, layers, raws, D, j)
               /\ D[j] = Activated(layers[j], Forward(down[j], A[j - 1]))
               /\ SignsLike(Forward(down[j], A[j - 1]), raws[j])
  BY <1>0, AlteredRun DEF LayerMoves
<1> DEFINE l == layers[j]
           yu == Forward(up[j], A[j - 1])
           yd == Forward(down[j], A[j - 1])
           ym == raws[j]
           O == W[j]
<1>6. Around(B, O, yu, ym, yd) /\ SignsLike(yu, ym) /\ SignsLike(yd, ym) /\ l.act \in Activations
  BY <1>3, <1>4, <1>5 DEF LayerMoves
<1>7. U[j] = Activated(l, yu) /\ D[j] = Activated(l, yd) /\ A[j] = Activated(l, ym) /\ O \in Nat
      /\ G[j] \in MatrixOf(B, O)
  BY <1>1, <1>2, <1>4, <1>5
<1> HIDE DEF l, yu, yd, ym, O
<1>8. yu \in MatrixOf(B, O) /\ yd \in MatrixOf(B, O)
  BY <1>6 DEF Around
<1>9. SameSign(B, O, yu, ym) /\ SameSign(B, O, yd, ym)
  BY <1>1, <1>6, <1>7, <1>8, SameSignIs
<1>10. /\ Around(B, O, Activated(l, yu), Activated(l, ym), Activated(l, yd))
       /\ \A g \in MatrixOf(B, O) :
            Inner(B, O, g, Diff(B, O, Activated(l, yu), Activated(l, yd)))
              = Inner(B, O, Masked(l, g, ym), Diff(B, O, yu, yd))
  BY <1>1, <1>6, <1>7, <1>9, ActivatedAround
<1>11. Inner(B, O, G[j], Diff(B, O, U[j], D[j])) = Inner(B, O, Masked(l, G[j], ym), Diff(B, O, yu, yd))
  BY <1>7, <1>10
<1>12. Around(B, O, U[j], A[j], D[j])
  BY <1>7, <1>10
<1>13. LossAt(t, U[L], n) - LossAt(t, D[L], n) = Inner(B, W[j], G[j], Diff(B, W[j], U[j], D[j]))
  BY <1>1, <1>4, <1>5, <1>12, LossMoves DEF O
<1> QED
  BY <1>4, <1>5, <1>11, <1>13 DEF O, l, yu, yd, ym

\* The derivative by a number of the batch.
LEMMA InputMoved ==
  ASSUME NEW L, NEW layers, NEW W, NEW B, NEW A, NEW raws, NEW G, NEW t, NEW n,
         Finished(L, layers, W, B, A, raws, G, t, n),
         NEW up, SameSigns(Raw(layers, up).raw, raws),
         NEW down, SameSigns(Raw(layers, down).raw, raws),
         Around(B, W[0], up, A[0], down)
  PROVE  LossAt(t, Raw(layers, up).out, n) - LossAt(t, Raw(layers, down).out, n)
           = Inner(B, W[0], G[0], Diff(B, W[0], up, down))
<1>0. L \in Nat /\ 0 \in 0..L /\ Len(layers) = L /\ DOMAIN layers = 1..L
  BY DEF Finished, Setting
<1>0a. 0 \in 0..L
  BY <1>0
<1>1. ASSUME NEW m, SameSigns(Raw(layers, m).raw, raws)
      PROVE  \E U : U[0] = m /\ Raw(layers, m).out = U[L] /\ Follows(L, layers, raws, U, 0)
  <2>0. PICK U : Computes(layers, m, U)
    BY <1>0, RawIs
  <2>1. /\ Carried(layers, m, U) /\ Raw(layers, m).out = U[L]
        /\ Raw(layers, m).raw = [l \in 1..L |-> Forward(layers[l], U[l - 1])]
    BY <1>0, <2>0 DEF Computes
  <2>2. U[0] = m /\ \A l \in 1..L : U[l] = Activated(layers[l], Forward(layers[l], U[l - 1]))
    BY <1>0, <2>1 DEF Carried
  <2>3. \A l \in 1..L : SignsLike(Forward(layers[l], U[l - 1]), raws[l])
    <3> DEFINE run == Raw(layers, m).raw
    <3>1. DOMAIN run = 1..L /\ \A l \in 1..L : run[l] = Forward(layers[l], U[l - 1])
      <4>1. run = [l \in 1..L |-> Forward(layers[l], U[l - 1])]
        BY <2>1
      <4> HIDE DEF run
      <4> QED
        BY <4>1, Zenon
    <3>2. SameSigns(run, raws)
      BY <1>1
    <3> HIDE DEF run
    <3>3. \A l \in DOMAIN run : SignsLike(run[l], raws[l])
      BY <3>2 DEF SameSigns, SignsLike
    <3> QED
      BY <3>1, <3>3
  <2>4. Follows(L, layers, raws, U, 0)
    BY <2>2, <2>3 DEF Follows
  <2> QED
    BY <2>1, <2>2, <2>4
<1>2. PICK U : U[0] = up /\ Raw(layers, up).out = U[L] /\ Follows(L, layers, raws, U, 0)
  BY <1>1
<1>3. PICK D : D[0] = down /\ Raw(layers, down).out = D[L] /\ Follows(L, layers, raws, D, 0)
  BY <1>1
<1>4. Around(B, W[0], U[0], A[0], D[0])
  BY <1>2, <1>3
<1>5. LossAt(t, U[L], n) - LossAt(t, D[L], n) = Inner(B, W[0], G[0], Diff(B, W[0], U[0], D[0]))
  BY <1>0a, <1>2, <1>3, <1>4, LossMoves
<1> QED
  BY <1>2, <1>3, <1>5

-----------------------------------------------------------------------------
(* The derivatives by one weight, one bias and one input.                    *)

\* One number of a matrix replaced, one layer of a network, and one of its numbers.
Put(m, r, c, v) == [m EXCEPT ![r][c] = v]
With(layers, j, v) == [layers EXCEPT ![j] = v]
MovedTo(layers, j, r, c, s) == [layers EXCEPT ![j].weights[r][c] = @ + s]
ShiftedTo(layers, j, c, s) == [layers EXCEPT ![j].bias[c] = @ + s]

\* A matrix with one number replaced.
LEMMA MatrixExcept ==
  ASSUME NEW R \in Nat, NEW C \in Nat, NEW m \in MatrixOf(R, C), NEW r \in 1..R, NEW c \in 1..C, NEW v \in Int
  PROVE  /\ Put(m, r, c, v) \in MatrixOf(R, C)
         /\ \A i \in 1..R, p \in 1..C :
              Put(m, r, c, v)[i][p] = IF i = r /\ p = c THEN v ELSE m[i][p]
<1> DEFINE row == [m[r] EXCEPT ![c] = v]
           k == [m EXCEPT ![r] = row]
<1>1. Put(m, r, c, v) = k
  BY DEF Put
<1>2. m \in [1..R -> [1..C -> Int]] /\ m[r] \in [1..C -> Int]
  BY DEF MatrixOf
<1>3. row \in [1..C -> Int] /\ \A p \in 1..C : row[p] = IF p = c THEN v ELSE m[r][p]
  BY <1>2
<1> HIDE DEF row
<1>4. k \in [1..R -> [1..C -> Int]] /\ \A i \in 1..R : k[i] = IF i = r THEN row ELSE m[i]
  BY <1>2, <1>3
<1> HIDE DEF k
<1>5. \A i \in 1..R, p \in 1..C : k[i][p] = IF i = r /\ p = c THEN v ELSE m[i][p]
  BY <1>3, <1>4
<1> QED
  BY <1>1, <1>4, <1>5 DEF MatrixOf

\* A network with one layer replaced.
LEMMA LayersExcept ==
  ASSUME NEW L \in Nat, NEW layers, DOMAIN layers = 1..L, NEW j \in 1..L, NEW v
  PROVE  LET ls == With(layers, j, v)
         IN  /\ Len(ls) = L /\ DOMAIN ls = 1..L /\ ls[j] = v
             /\ \A l \in 1..L : l # j => ls[l] = layers[l]
<1> DEFINE ls == With(layers, j, v)
           V == {ls[l] : l \in 1..L}
<1>1. ls = [l \in 1..L |-> IF l = j THEN v ELSE layers[l]]
  BY DEF With
<1>2. DOMAIN ls = 1..L /\ ls[j] = v /\ ls = [l \in 1..L |-> ls[l]]
      /\ \A l \in 1..L : l # j => ls[l] = layers[l]
  BY <1>1
<1> HIDE DEF ls
<1>3. ls \in [1..L -> V]
  <2>1. \A l \in 1..L : ls[l] \in V
    OBVIOUS
  <2> HIDE DEF V
  <2> QED
    BY <1>2, <2>1
<1>4. Len(ls) = L
  <2> HIDE DEF V
  <2> QED
    BY <1>3
<1> QED
  BY <1>2, <1>4 DEF ls

\* A network with one weight moved, and one with a bias moved.
LEMMA MovedIs ==
  ASSUME NEW L \in Nat, NEW layers, DOMAIN layers = 1..L, NEW j \in 1..L, NEW I \in Nat, NEW O \in Nat,
         layers[j] \in LayerOf(I, O), NEW r \in 1..I, NEW c \in 1..O, NEW s \in Int,
         NEW ls, ls = MovedTo(layers, j, r, c, s)
  PROVE  AltersOnly(L, layers, ls, j) /\ WithWeight(ls[j], layers[j], I, O, r, c, s)
<1> DEFINE l == layers[j]
           w == l.weights
           k == Put(w, r, c, w[r][c] + s)
           v == [l EXCEPT !.weights = k]
<1>1. w \in MatrixOf(I, O) /\ l.bias \in [1..O -> Int] /\ l.act \in Activations
      /\ l = [weights |-> l.weights, bias |-> l.bias, act |-> l.act]
  BY DEF LayerOf, Activations
<1>2. ls = With(layers, j, v)
  BY DEF With, MovedTo, Put
<1>3. v = [weights |-> k, bias |-> l.bias, act |-> l.act]
  <2> DEFINE k1 == k
             l1 == l
  <2>1. l1 \in LayerOf(I, O)
    OBVIOUS
  <2> HIDE DEF k1, l1
  <2>2. [l1 EXCEPT !.weights = k1] = [weights |-> k1, bias |-> l1.bias, act |-> l1.act]
    BY <2>1 DEF LayerOf
  <2> QED
    BY <2>2, Zenon DEF k1, l1
<1> HIDE DEF v
<1>4. AltersOnly(L, layers, ls, j) /\ ls[j] = v
  <2>1. /\ Len(ls) = L /\ DOMAIN ls = 1..L /\ ls[j] = v
        /\ \A i \in 1..L : i # j => ls[i] = layers[i]
    BY <1>2, LayersExcept
  <2>2. v.act = layers[j].act
    BY <1>3
  <2> QED
    BY <2>1, <2>2 DEF AltersOnly
<1>5. w[r][c] \in Int
  BY <1>1, MatrixParts
<1>6. /\ k \in MatrixOf(I, O)
      /\ \A i \in 1..I, p \in 1..O : k[i][p] = IF i = r /\ p = c THEN w[r][c] + s ELSE w[i][p]
  <2> DEFINE n == w[r][c] + s
  <2>1. n \in Int
    BY <1>5
  <2> HIDE DEF n, w
  <2>2. /\ Put(w, r, c, n) \in MatrixOf(I, O)
        /\ \A i \in 1..I, p \in 1..O : Put(w, r, c, n)[i][p] = IF i = r /\ p = c THEN n ELSE w[i][p]
    BY <1>1, <2>1, MatrixExcept
  <2> QED
    BY <2>2 DEF n
<1> HIDE DEF k, w
<1>7. \A i \in 1..I, p \in 1..O : k[i][p] = w[i][p] + (IF i = r /\ p = c THEN s ELSE 0)
  <2> TAKE i \in 1..I, p \in 1..O
  <2>1. w[i][p] \in Int
    BY <1>1, MatrixParts
  <2> QED
    BY <1>6, <2>1
<1>8. v \in LayerOf(I, O) /\ v.bias = l.bias /\ v.act = l.act /\ v.weights = k
  <2> HIDE DEF l
  <2> QED
    BY <1>1, <1>3, <1>6 DEF LayerOf, Activations
<1> QED
  BY <1>4, <1>7, <1>8 DEF WithWeight, w, l

LEMMA ShiftedIs ==
  ASSUME NEW L \in Nat, NEW layers, DOMAIN layers = 1..L, NEW j \in 1..L, NEW I \in Nat, NEW O \in Nat,
         layers[j] \in LayerOf(I, O), NEW c \in 1..O, NEW s \in Int,
         NEW ls, ls = ShiftedTo(layers, j, c, s)
  PROVE  AltersOnly(L, layers, ls, j) /\ WithBias(ls[j], layers[j], I, O, c, s)
<1> DEFINE l == layers[j]
           b == l.bias
           k == [b EXCEPT ![c] = b[c] + s]
           v == [l EXCEPT !.bias = k]
<1>1. l.weights \in MatrixOf(I, O) /\ b \in [1..O -> Int] /\ l.act \in Activations
      /\ l = [weights |-> l.weights, bias |-> l.bias, act |-> l.act]
  BY DEF LayerOf, Activations
<1>2. ls = With(layers, j, v)
  BY DEF With, ShiftedTo
<1>3. v = [weights |-> l.weights, bias |-> k, act |-> l.act]
  <2> DEFINE k1 == k
             l1 == l
  <2>1. l1 \in LayerOf(I, O)
    OBVIOUS
  <2> HIDE DEF k1, l1
  <2>2. [l1 EXCEPT !.bias = k1] = [weights |-> l1.weights, bias |-> k1, act |-> l1.act]
    BY <2>1 DEF LayerOf
  <2> QED
    BY <2>2, Zenon DEF k1, l1
<1> HIDE DEF v
<1>4. AltersOnly(L, layers, ls, j) /\ ls[j] = v
  <2>1. /\ Len(ls) = L /\ DOMAIN ls = 1..L /\ ls[j] = v
        /\ \A i \in 1..L : i # j => ls[i] = layers[i]
    BY <1>2, LayersExcept
  <2>2. v.act = layers[j].act
    BY <1>3
  <2> QED
    BY <2>1, <2>2 DEF AltersOnly
<1> HIDE DEF b
<1>5. k \in [1..O -> Int] /\ \A p \in 1..O : k[p] = b[p] + (IF p = c THEN s ELSE 0)
  <2>1. \A p \in 1..O : b[p] \in Int
    BY <1>1
  <2>2. \A p \in 1..O : k[p] = IF p = c THEN b[c] + s ELSE b[p]
    BY <1>1
  <2>3. k \in [1..O -> Int]
    BY <1>1, <2>1
  <2> HIDE DEF k
  <2> QED
    BY <2>1, <2>2, <2>3
<1> HIDE DEF k
<1>6. v \in LayerOf(I, O) /\ v.weights = l.weights /\ v.act = l.act /\ v.bias = k
  <2> HIDE DEF l
  <2> QED
    BY <1>1, <1>3, <1>5 DEF LayerOf, Activations
<1> QED
  BY <1>4, <1>5, <1>6 DEF WithBias, b, l

-----------------------------------------------------------------------------
\* The three kinds of derivatives of a finished computation.
LEMMA SmallStep == 1 \in Int /\ -1 \in Int /\ \A k \in Nat \ {0} : k \in Nat
OBVIOUS

\* GradWeights is the derivative by a weight.
LEMMA WeightDerivative ==
  ASSUME NEW L, NEW layers, NEW W, NEW B, NEW A, NEW raws, NEW G, NEW t, NEW n,
         Finished(L, layers, W, B, A, raws, G, t, n), NEW j \in 1..L,
         NEW r \in 1..W[j - 1], NEW c \in 1..W[j],
         NEW up, up = MovedTo(layers, j, r, c, 1), SameSigns(Raw(up, A[0]).raw, raws),
         NEW down, down = MovedTo(layers, j, r, c, -1), SameSigns(Raw(down, A[0]).raw, raws)
  PROVE  2 * GradWeights(A[j - 1], Masked(layers[j], G[j], raws[j]))[r][c]
           = LossAt(t, Raw(up, A[0]).out, n) - LossAt(t, Raw(down, A[0]).out, n)
<1>0. Setting(L, layers, W, B, A, raws, G)
  BY DEF Finished
<1>1. /\ L \in Nat /\ B \in Nat \ {0} /\ W[j] \in Nat \ {0} /\ W[j - 1] \in Nat \ {0}
      /\ layers[j] \in LayerOf(W[j - 1], W[j]) /\ raws[j] = Forward(layers[j], A[j - 1]) /\ j - 1 \in 0..L
  <2>1. L \in Nat /\ W \in [0..L -> Nat \ {0}]
    BY <1>0 DEF Setting
  <2>2. j \in 0..L /\ j - 1 \in 0..L
    BY <2>1
  <2> QED
    BY <1>0, <2>1, <2>2 DEF Setting
<1>2. A[j - 1] \in MatrixOf(B, W[j - 1]) /\ Masked(layers[j], G[j], raws[j]) \in MatrixOf(B, W[j])
  BY <1>0, <1>1, SettingTypes
<1>3. AltersOnly(L, layers, up, j) /\ WithWeight(up[j], layers[j], W[j - 1], W[j], r, c, 1)
  BY <1>1, SmallStep, MovedIs DEF Finished
<1>4. AltersOnly(L, layers, down, j) /\ WithWeight(down[j], layers[j], W[j - 1], W[j], r, c, -1)
  BY <1>1, SmallStep, MovedIs DEF Finished
<1> DEFINE m == A[j - 1]
           M == Masked(layers[j], G[j], raws[j])
           u == up[j]
           d == down[j]
           l == layers[j]
           I == W[j - 1]
           O == W[j]
<1>5. /\ Around(B, O, Forward(u, m), Forward(l, m), Forward(d, m))
      /\ \A g \in MatrixOf(B, O) :
           Inner(B, O, g, Diff(B, O, Forward(u, m), Forward(d, m))) = 2 * GradWeights(m, g)[r][c]
  <2>1. /\ B \in Nat \ {0} /\ I \in Nat \ {0} /\ O \in Nat \ {0} /\ l \in LayerOf(I, O)
        /\ m \in MatrixOf(B, I) /\ r \in 1..I /\ c \in 1..O
        /\ WithWeight(u, l, I, O, r, c, 1) /\ WithWeight(d, l, I, O, r, c, -1)
    BY <1>1, <1>2, <1>3, <1>4
  <2> HIDE DEF m, u, d, l, I, O
  <2> QED
    BY <2>1, WeightAround
<1>6. Inner(B, O, M, Diff(B, O, Forward(u, m), Forward(d, m))) = 2 * GradWeights(m, M)[r][c]
  BY <1>2, <1>5
<1>7. Around(B, W[j], Forward(up[j], A[j - 1]), raws[j], Forward(down[j], A[j - 1]))
  BY <1>1, <1>5
<1>8. LossAt(t, Raw(up, A[0]).out, n) - LossAt(t, Raw(down, A[0]).out, n)
        = Inner(B, W[j], Masked(layers[j], G[j], raws[j]),
                Diff(B, W[j], Forward(up[j], A[j - 1]), Forward(down[j], A[j - 1])))
  <2>1. LayerMoves(L, layers, W, B, A, raws, j, up, down)
    BY <1>3, <1>4, <1>7 DEF LayerMoves
  <2> QED
    BY <2>1, LayerMoved
<1> QED
  BY <1>6, <1>8

\* GradBias is the derivative by a bias.
LEMMA BiasDerivative ==
  ASSUME NEW L, NEW layers, NEW W, NEW B, NEW A, NEW raws, NEW G, NEW t, NEW n,
         Finished(L, layers, W, B, A, raws, G, t, n), NEW j \in 1..L, NEW c \in 1..W[j],
         NEW up, up = ShiftedTo(layers, j, c, 1), SameSigns(Raw(up, A[0]).raw, raws),
         NEW down, down = ShiftedTo(layers, j, c, -1), SameSigns(Raw(down, A[0]).raw, raws)
  PROVE  2 * GradBias(Masked(layers[j], G[j], raws[j]))[c]
           = LossAt(t, Raw(up, A[0]).out, n) - LossAt(t, Raw(down, A[0]).out, n)
<1>0. Setting(L, layers, W, B, A, raws, G)
  BY DEF Finished
<1>1. /\ L \in Nat /\ B \in Nat \ {0} /\ W[j] \in Nat \ {0} /\ W[j - 1] \in Nat \ {0}
      /\ layers[j] \in LayerOf(W[j - 1], W[j]) /\ raws[j] = Forward(layers[j], A[j - 1]) /\ j - 1 \in 0..L
  <2>1. L \in Nat /\ W \in [0..L -> Nat \ {0}]
    BY <1>0 DEF Setting
  <2>2. j \in 0..L /\ j - 1 \in 0..L
    BY <2>1
  <2> QED
    BY <1>0, <2>1, <2>2 DEF Setting
<1>2. A[j - 1] \in MatrixOf(B, W[j - 1]) /\ Masked(layers[j], G[j], raws[j]) \in MatrixOf(B, W[j])
  BY <1>0, <1>1, SettingTypes
<1>3. AltersOnly(L, layers, up, j) /\ WithBias(up[j], layers[j], W[j - 1], W[j], c, 1)
  BY <1>1, SmallStep, ShiftedIs DEF Finished
<1>4. AltersOnly(L, layers, down, j) /\ WithBias(down[j], layers[j], W[j - 1], W[j], c, -1)
  BY <1>1, SmallStep, ShiftedIs DEF Finished
<1> DEFINE m == A[j - 1]
           M == Masked(layers[j], G[j], raws[j])
           u == up[j]
           d == down[j]
           l == layers[j]
           I == W[j - 1]
           O == W[j]
<1>5. /\ Around(B, O, Forward(u, m), Forward(l, m), Forward(d, m))
      /\ \A g \in MatrixOf(B, O) :
           Inner(B, O, g, Diff(B, O, Forward(u, m), Forward(d, m))) = 2 * GradBias(g)[c]
  <2>1. /\ B \in Nat \ {0} /\ I \in Nat \ {0} /\ O \in Nat \ {0} /\ l \in LayerOf(I, O)
        /\ m \in MatrixOf(B, I) /\ c \in 1..O
        /\ WithBias(u, l, I, O, c, 1) /\ WithBias(d, l, I, O, c, -1)
    BY <1>1, <1>2, <1>3, <1>4
  <2> HIDE DEF m, u, d, l, I, O
  <2> QED
    BY <2>1, BiasAround
<1>6. Inner(B, O, M, Diff(B, O, Forward(u, m), Forward(d, m))) = 2 * GradBias(M)[c]
  BY <1>2, <1>5
<1>7. Around(B, W[j], Forward(up[j], A[j - 1]), raws[j], Forward(down[j], A[j - 1]))
  BY <1>1, <1>5
<1>8. LossAt(t, Raw(up, A[0]).out, n) - LossAt(t, Raw(down, A[0]).out, n)
        = Inner(B, W[j], Masked(layers[j], G[j], raws[j]),
                Diff(B, W[j], Forward(up[j], A[j - 1]), Forward(down[j], A[j - 1])))
  <2>1. LayerMoves(L, layers, W, B, A, raws, j, up, down)
    BY <1>3, <1>4, <1>7 DEF LayerMoves
  <2> QED
    BY <2>1, LayerMoved
<1> QED
  BY <1>6, <1>8

\* A number of the batch moved up and down.
LEMMA PutAround ==
  ASSUME NEW B \in Nat \ {0}, NEW I \in Nat \ {0}, NEW m \in MatrixOf(B, I),
         NEW r \in 1..B, NEW c \in 1..I
  PROVE  InputMoves(B, I, m, r, c, Put(m, r, c, m[r][c] + 1), Put(m, r, c, m[r][c] - 1))
<1> DEFINE up == Put(m, r, c, m[r][c] + 1)
           down == Put(m, r, c, m[r][c] - 1)
<1>0. up = Put(m, r, c, m[r][c] + 1) /\ down = Put(m, r, c, m[r][c] - 1)
  OBVIOUS
<1>1. m[r][c] \in Int /\ B \in Nat /\ I \in Nat
  BY MatrixParts
<1> HIDE DEF up, down
<1>2. \A v \in Int :
        /\ Put(m, r, c, v) \in MatrixOf(B, I)
        /\ \A i \in 1..B, p \in 1..I : Put(m, r, c, v)[i][p] = IF i = r /\ p = c THEN v ELSE m[i][p]
  <2> TAKE v \in Int
  <2> QED
    BY <1>1, MatrixExcept
<1>3. m[r][c] + 1 \in Int /\ m[r][c] - 1 \in Int
  BY <1>1
<1>4. up \in MatrixOf(B, I) /\ \A i \in 1..B, p \in 1..I : up[i][p] = IF i = r /\ p = c THEN m[r][c] + 1 ELSE m[i][p]
  BY <1>0, <1>2, <1>3
<1>5. down \in MatrixOf(B, I) /\ \A i \in 1..B, p \in 1..I : down[i][p] = IF i = r /\ p = c THEN m[r][c] - 1 ELSE m[i][p]
  BY <1>0, <1>2, <1>3
<1>6. \A i \in 1..B, p \in 1..I :
        /\ up[i][p] = m[i][p] + (IF i = r /\ p = c THEN 1 ELSE 0)
        /\ down[i][p] = m[i][p] - (IF i = r /\ p = c THEN 1 ELSE 0)
  <2> TAKE i \in 1..B, p \in 1..I
  <2>1. m[i][p] \in Int
    BY <1>1, MatrixParts
  <2> QED
    BY <1>1, <1>4, <1>5, <2>1
<1>7. InputMoves(B, I, m, r, c, up, down)
  BY <1>1, <1>4, <1>5, <1>6 DEF InputMoves
<1> QED
  BY <1>7 DEF up, down

\* What backward carries out of the first layer is the derivative by an input.
LEMMA InputDerivative ==
  ASSUME NEW L, NEW layers, NEW W, NEW B, NEW A, NEW raws, NEW G, NEW t, NEW n,
         Finished(L, layers, W, B, A, raws, G, t, n),
         NEW r \in 1..B, NEW c \in 1..W[0],
         NEW up, up = Put(A[0], r, c, A[0][r][c] + 1), SameSigns(Raw(layers, up).raw, raws),
         NEW down, down = Put(A[0], r, c, A[0][r][c] - 1), SameSigns(Raw(layers, down).raw, raws)
  PROVE  2 * G[0][r][c] = LossAt(t, Raw(layers, up).out, n) - LossAt(t, Raw(layers, down).out, n)
<1>0. Setting(L, layers, W, B, A, raws, G)
  BY DEF Finished
<1> DEFINE m == A[0]
           I == W[0]
<1>1. B \in Nat \ {0} /\ I \in Nat \ {0} /\ m \in MatrixOf(B, I) /\ G[0] \in MatrixOf(B, I)
  <2>1. B \in Nat \ {0} /\ m \in MatrixOf(B, I) /\ W \in [0..L -> Nat \ {0}] /\ L \in Nat /\ 0 \in 0..L
    BY <1>0 DEF Setting
  <2>2. I \in Nat \ {0}
    BY <2>1
  <2>3. G[0] \in MatrixOf(B, I)
    BY <1>0, <2>1, SettingTypes
  <2> QED
    BY <2>1, <2>2, <2>3
<1>2. up = Put(m, r, c, m[r][c] + 1) /\ down = Put(m, r, c, m[r][c] - 1)
  OBVIOUS
<1>3. r \in 1..B /\ c \in 1..I
  OBVIOUS
<1> HIDE DEF m, I
<1>8. Around(B, I, up, m, down) /\ Inner(B, I, G[0], Diff(B, I, up, down)) = 2 * G[0][r][c]
  <2>1. InputMoves(B, I, m, r, c, up, down)
    BY <1>1, <1>2, <1>3, PutAround
  <2> QED
    BY <1>1, <2>1, InputAround
<1>9. LossAt(t, Raw(layers, up).out, n) - LossAt(t, Raw(layers, down).out, n)
        = Inner(B, W[0], G[0], Diff(B, W[0], up, down))
  BY <1>8, InputMoved DEF m, I
<1> QED
  BY <1>8, <1>9 DEF I

-----------------------------------------------------------------------------
(* What forward leaves behind.                                               *)

\* A sequence, whatever its elements are.
IsList(s) == Len(s) \in Nat /\ s = [i \in 1..Len(s) |-> s[i]]

LEMMA EmptyList == IsList(<<>>) /\ Len(<<>>) = 0
BY DEF IsList

\* Append, for elements of whatever kind.
LEMMA ListAppend ==
  ASSUME NEW s, IsList(s), NEW e
  PROVE  /\ IsList(Append(s, e)) /\ Len(Append(s, e)) = Len(s) + 1
         /\ Append(s, e)[Len(s) + 1] = e
         /\ \A i \in 1..Len(s) : Append(s, e)[i] = s[i]
<1> DEFINE V == {s[i] : i \in 1..Len(s)} \cup {e}
<1>1. Len(s) \in Nat /\ s = [i \in 1..Len(s) |-> s[i]]
  BY DEF IsList
<1>2. (\A i \in 1..Len(s) : s[i] \in V) /\ e \in V
  OBVIOUS
<1> HIDE DEF V
<1>3. s \in [1..Len(s) -> V]
  BY <1>1, <1>2
<1>4. s \in Seq(V)
  BY <1>1, <1>3
<1>5. /\ Append(s, e) \in Seq(V) /\ Len(Append(s, e)) = Len(s) + 1
      /\ \A i \in 1..Len(s) : Append(s, e)[i] = s[i]
      /\ Append(s, e)[Len(s) + 1] = e
  BY <1>2, <1>4, AppendProperties
<1> DEFINE a == Append(s, e)
<1>6. IsList(a)
  <2>1. a \in Seq(V) /\ Len(a) = Len(s) + 1
    BY <1>5
  <2> HIDE DEF a
  <2> QED
    BY <2>1 DEF IsList
<1> QED
  BY <1>5, <1>6

-----------------------------------------------------------------------------
\* A network with a batch and true outputs, as CasesAssumption has them.
Fits(layers, batch, t) ==
  /\ Len(layers) \in Nat \ {0} /\ DOMAIN layers = 1..Len(layers)
  /\ \A l \in 0..Len(layers) : Width(layers, l) \in Nat \ {0}
  /\ \A l \in 1..Len(layers) : layers[l] \in LayerOf(Width(layers, l - 1), Width(layers, l))
  /\ \E B \in Nat \ {0} : batch \in MatrixOf(B, Width(layers, 0))
  /\ \E R, C \in Nat \ {0} : t \in MatrixOf(R, C)

\* The cases a computation starts from fit.
LEMMA CasesFit ==
  ASSUME NEW case \in Cases
  PROVE  Fits(case[1], case[2], case[3])
<1> DEFINE layers == case[1]
           batch == case[2]
           t == case[3]
<1>1. /\ layers \in Seq(Layer) /\ layers # <<>>
      /\ batch \in Seq(Seq(Int)) /\ batch # <<>> /\ t \in Seq(Seq(Int)) /\ t # <<>>
      /\ \A l \in 0..Len(layers) : Width(layers, l) > 0
      /\ \A l \in 1..Len(layers) : layers[l] \in LayerOf(Width(layers, l - 1), Width(layers, l))
      /\ batch \in MatrixOf(Len(batch), Width(layers, 0))
      /\ t[1] # <<>> /\ t \in MatrixOf(Len(t), Len(t[1]))
  BY CasesAssumption
<1> HIDE DEF layers, batch, t
<1>2. Len(layers) \in Nat \ {0} /\ DOMAIN layers = 1..Len(layers) /\ \A l \in 1..Len(layers) : layers[l] \in Layer
  BY <1>1
<1>3. Len(batch) \in Nat \ {0}
  BY <1>1
<1>4. Len(t) \in Nat \ {0} /\ Len(t[1]) \in Nat \ {0}
  <2>1. Len(t) \in Nat \ {0} /\ t[1] \in Seq(Int)
    BY <1>1
  <2> QED
    BY <1>1, <2>1
<1>5. \A l \in 0..Len(layers) : Width(layers, l) \in Nat \ {0}
  <2> TAKE l \in 0..Len(layers)
  <2>1. Width(layers, l) \in Nat
    <3>1. CASE l = 0
      <4>1. layers[1].weights \in Seq(Seq(Int))
        BY <1>2 DEF Layer
      <4> QED
        BY <3>1, <4>1 DEF Width
    <3>2. CASE l # 0
      <4>1. l \in 1..Len(layers)
        BY <1>2, <3>2
      <4>2. layers[l].bias \in Seq(Int)
        BY <1>2, <4>1 DEF Layer
      <4> QED
        BY <3>2, <4>2 DEF Width
    <3> QED
      BY <3>1, <3>2
  <2> QED
    BY <1>1, <2>1
<1> QED
  BY <1>1, <1>2, <1>3, <1>4, <1>5 DEF Fits, layers, batch, t

\* What went into each layer reached, and what the last one put out.
At(sv, last, l) == IF l < Len(sv) THEN sv[l + 1] ELSE last

Carries(layers, sv, last, raws) ==
  /\ IsList(sv) /\ IsList(raws) /\ Len(raws) = Len(sv) /\ Len(sv) <= Len(layers)
  /\ \A l \in 1..Len(sv) :
       /\ raws[l] = Forward(layers[l], At(sv, last, l - 1))
       /\ At(sv, last, l) = Activated(layers[l], raws[l])

\* Before forward nothing is carried but the batch.
LEMMA CarriesNothing ==
  ASSUME NEW layers, NEW batch, NEW t, Fits(layers, batch, t)
  PROVE  Carries(layers, <<>>, batch, <<>>) /\ At(<<>>, batch, 0) = batch
<1>1. Len(layers) \in Nat
  BY DEF Fits
<1> QED
  BY <1>1, EmptyList DEF Carries, At

\* ForwardLayer goes on by a layer.
LEMMA CarriesOn ==
  ASSUME NEW layers, NEW sv, NEW last, NEW raws, Carries(layers, sv, last, raws),
         Len(layers) \in Nat, Len(sv) # Len(layers),
         NEW y, y = Forward(layers[Len(sv) + 1], last), NEW next, next = Activated(layers[Len(sv) + 1], y)
  PROVE  /\ Carries(layers, Append(sv, last), next, Append(raws, y))
         /\ At(Append(sv, last), next, 0) = At(sv, last, 0)
<1> DEFINE N == Len(sv)
           s == Append(sv, last)
           q == Append(raws, y)
<1>0. IsList(sv) /\ IsList(raws) /\ Len(raws) = N /\ N <= Len(layers) /\ N \in Nat
  BY DEF Carries, IsList
<1>1. IsList(s) /\ Len(s) = N + 1 /\ s[N + 1] = last /\ \A i \in 1..N : s[i] = sv[i]
  BY <1>0, ListAppend
<1>2. IsList(q) /\ Len(q) = N + 1 /\ q[N + 1] = y /\ \A i \in 1..N : q[i] = raws[i]
  BY <1>0, ListAppend
<1>3. \A l \in 0..N : At(s, next, l) = At(sv, last, l)
  <2> TAKE l \in 0..N
  <2>1. l < Len(s) /\ At(s, next, l) = s[l + 1]
    BY <1>0, <1>1 DEF At
  <2>2. CASE l < N
    <3>1. l + 1 \in 1..N /\ At(sv, last, l) = sv[l + 1]
      BY <1>0, <2>2 DEF At
    <3> QED
      BY <1>1, <2>1, <3>1
  <2>3. CASE l = N
    <3>1. At(sv, last, l) = last
      BY <2>3 DEF At
    <3> QED
      BY <1>1, <2>1, <2>3, <3>1
  <2> QED
    BY <1>0, <2>2, <2>3
<1>4. At(s, next, N + 1) = next
  BY <1>0, <1>1 DEF At
<1>5. \A l \in 1..N : raws[l] = Forward(layers[l], At(sv, last, l - 1)) /\ At(sv, last, l) = Activated(layers[l], raws[l])
  BY DEF Carries
<1>6. At(sv, last, N) = last
  BY <1>0 DEF At
<1>7. y = Forward(layers[N + 1], last) /\ next = Activated(layers[N + 1], y)
  OBVIOUS
<1>7a. N + 1 <= Len(layers)
  BY <1>0
<1> HIDE DEF s, q, N
<1>8. \A l \in 1..(N + 1) : q[l] = Forward(layers[l], At(s, next, l - 1)) /\ At(s, next, l) = Activated(layers[l], q[l])
  <2> TAKE l \in 1..(N + 1)
  <2>1. CASE l \in 1..N
    <3>1. l - 1 \in 0..N /\ l \in 0..N
      BY <1>0, <2>1
    <3> QED
      BY <1>2, <1>3, <1>5, <2>1, <3>1
  <2>2. CASE l = N + 1
    <3>1. l - 1 = N /\ N \in 0..N
      BY <1>0, <2>2
    <3> QED
      BY <1>2, <1>3, <1>4, <1>6, <1>7, <2>2, <3>1
  <2> QED
    BY <1>0, <2>1, <2>2
<1>9. Carries(layers, s, next, q)
  BY <1>1, <1>2, <1>7a, <1>8 DEF Carries
<1>10. At(s, next, 0) = At(sv, last, 0)
  BY <1>0, <1>3
<1> QED
  BY <1>9, <1>10 DEF s, q

\* The shape of what is carried.
LEMMA CarriedTypes ==
  ASSUME NEW layers, NEW sv, NEW last, NEW raws, NEW t, Carries(layers, sv, last, raws),
         Fits(layers, At(sv, last, 0), t), NEW B \in Nat, At(sv, last, 0) \in MatrixOf(B, Width(layers, 0))
  PROVE  \A l \in 0..Len(sv) : At(sv, last, l) \in MatrixOf(B, Width(layers, l))
<1> DEFINE N == Len(sv)
           S == {n \in 0..N : At(sv, last, n) \in MatrixOf(B, Width(layers, n))}
<1>0. N \in Nat /\ Len(layers) \in Nat /\ N <= Len(layers)
  BY DEF Carries, IsList, Fits
<1>1. 0 \in S
  BY <1>0
<1>2. ASSUME NEW n \in 0..(N - 1), n \in S PROVE n + 1 \in S
  <2>1. /\ n + 1 \in 1..N /\ n + 1 \in 0..N /\ n + 1 \in 1..Len(layers) /\ (n + 1) - 1 = n
        /\ n \in 0..Len(layers) /\ n + 1 \in 0..Len(layers)
    BY <1>0
  <2>2. /\ layers[n + 1] \in LayerOf(Width(layers, n), Width(layers, n + 1))
        /\ Width(layers, n) \in Nat \ {0} /\ Width(layers, n + 1) \in Nat \ {0}
    BY <2>1 DEF Fits
  <2>3. At(sv, last, n + 1) = Activated(layers[n + 1], Forward(layers[n + 1], At(sv, last, n)))
    BY <2>1 DEF Carries
  <2>4. At(sv, last, n) \in MatrixOf(B, Width(layers, n))
    BY <1>2
  <2> QED
    BY <2>1, <2>2, <2>3, <2>4, LayerTypes
<1> HIDE DEF S
<1>3. \A n \in 0..N : n \in S
  BY <1>0, <1>1, <1>2, InductionUpTo
<1> QED
  BY <1>3 DEF S

-----------------------------------------------------------------------------
(* The steps of MSE.                                                         *)

\* The matrices MSE compares: a prediction and as many true outputs.
Compared(t, y, B, C) ==
  /\ B \in Nat \ {0} /\ C \in Nat \ {0} /\ y \in MatrixOf(B, C)
  /\ Elements(y) = B * C /\ Len(y) = B /\ Len(y[1]) = C
  /\ Elements(t) = B * C => TrueOutputs(t, B * C)

LEMMA ComparedIs ==
  ASSUME NEW B \in Nat \ {0}, NEW C \in Nat \ {0}, NEW y \in MatrixOf(B, C),
         NEW R \in Nat \ {0}, NEW Q \in Nat \ {0}, NEW t \in MatrixOf(R, Q)
  PROVE  Compared(t, y, B, C)
<1>1. Elements(y) = B * C /\ Len(y) = B /\ Len(y[1]) = C
  BY ElementIs, MatrixLengths
<1>2. Elements(t) = R * Q /\ \A k \in 0..(R * Q - 1) : Element(t, k) \in Int
  BY ElementIs
<1>3. Elements(t) = B * C => TrueOutputs(t, B * C)
  BY <1>2 DEF TrueOutputs
<1> QED
  BY <1>1, <1>3 DEF Compared

\* The terms of the loss are numbers.
LEMMA TermIs ==
  ASSUME NEW t, NEW y, NEW B, NEW C, Compared(t, y, B, C), Elements(t) = B * C
  PROVE  \A k \in 0..(B * C - 1) : Element(y, k) \in Int /\ Element(t, k) \in Int /\ TermAt(t, y, k) \in Int
<1> TAKE k \in 0..(B * C - 1)
<1>1. Element(y, k) \in Int
  BY ElementIs DEF Compared
<1>2. Element(t, k) \in Int
  BY DEF Compared, TrueOutputs
<1> DEFINE d == Element(y, k) - Element(t, k)
<1>3. d \in Int
  BY <1>1, <1>2
<1> HIDE DEF d
<1>4. d * d \in Int
  BY <1>3
<1> QED
  BY <1>1, <1>2, <1>4 DEF TermAt, d

\* MSE::forward adds one term.
LEMMA LossBegins ==
  ASSUME NEW t, NEW y
  PROVE  LossAt(t, y, 0) = 0
<1> DEFINE f == [k \in 1..0 |-> TermAt(t, y, k - 1)]
<1>1. f \in [1..0 -> Int]
  OBVIOUS
<1> HIDE DEF f
<1>2. Total(f) = 0
  BY <1>1, TotalEmpty
<1> QED
  BY <1>2 DEF LossAt, f

\* One more element of the loss.
LEMMA LossGoesOn ==
  ASSUME NEW t, NEW y, NEW B, NEW C, Compared(t, y, B, C), Elements(t) = B * C, NEW n \in 0..(B * C - 1)
  PROVE  LossAt(t, y, n + 1) = LossAt(t, y, n) + TermAt(t, y, n)
<1> DEFINE N == B * C
           f == [k \in 1..(n + 1) |-> TermAt(t, y, k - 1)]
           front == [k \in 1..n |-> f[k]]
<1>0. N \in Nat /\ n \in Nat /\ n < N
  <2>1. N \in Nat
    BY DEF Compared
  <2> HIDE DEF N
  <2> QED
    BY <2>1 DEF N
<1>1. f \in [1..(n + 1) -> Int]
  <2>1. \A k \in 1..(n + 1) : TermAt(t, y, k - 1) \in Int
    <3> TAKE k \in 1..(n + 1)
    <3>1. k - 1 \in 0..(N - 1)
      <4> HIDE DEF N
      <4> QED
        BY <1>0
    <3> QED
      BY <3>1, TermIs
  <2> QED
    BY <2>1
<1>2. f[n + 1] = TermAt(t, y, n)
  <2>1. n + 1 \in 1..(n + 1) /\ (n + 1) - 1 = n
    BY <1>0
  <2> QED
    BY <2>1
<1>3. front = [k \in 1..n |-> TermAt(t, y, k - 1)]
  <2>1. \A k \in 1..n : f[k] = TermAt(t, y, k - 1)
    <3> TAKE k \in 1..n
    <3>1. k \in 1..(n + 1)
      BY <1>0
    <3> QED
      BY <3>1
  <2> HIDE DEF f
  <2> QED
    BY <2>1
<1>4. LossAt(t, y, n + 1) = Total(f) /\ LossAt(t, y, n) = Total(front)
  BY <1>3 DEF LossAt
<1>5. Total(f) = Total(front) + f[n + 1]
  <2> HIDE DEF f
  <2> QED
    BY <1>0, <1>1, TotalExtends
<1> QED
  BY <1>2, <1>4, <1>5

\* Two functions, and two matrices, with the same elements.
LEMMA SameFunction ==
  ASSUME NEW N, NEW S, NEW f \in [1..N -> S], NEW g \in [1..N -> S], \A i \in 1..N : f[i] = g[i]
  PROVE  f = g
<1>1. DOMAIN f = 1..N /\ DOMAIN g = 1..N /\ f = [i \in 1..N |-> f[i]] /\ g = [i \in 1..N |-> g[i]]
  OBVIOUS
<1>2. [i \in 1..N |-> f[i]] = [i \in 1..N |-> g[i]]
  BY Zenon
<1> QED
  BY <1>1, <1>2

LEMMA SameMatrix ==
  ASSUME NEW R \in Nat, NEW C \in Nat, NEW m \in MatrixOf(R, C), NEW k \in MatrixOf(R, C),
         \A r \in 1..R : \A c \in 1..C : m[r][c] = k[r][c]
  PROVE  m = k
<1> DEFINE S == [1..C -> Int]
<1>1. m \in [1..R -> S] /\ k \in [1..R -> S]
  BY DEF MatrixOf
<1>2. \A r \in 1..R : m[r] \in [1..C -> Int] /\ k[r] \in [1..C -> Int]
  BY <1>1
<1> HIDE DEF S
<1>3. ASSUME NEW r \in 1..R PROVE m[r] = k[r]
  <2>1. m[r] \in [1..C -> Int] /\ k[r] \in [1..C -> Int] /\ \A c \in 1..C : m[r][c] = k[r][c]
    BY <1>2
  <2> DEFINE f == m[r]
             g == k[r]
  <2>2. f \in [1..C -> Int] /\ g \in [1..C -> Int] /\ \A c \in 1..C : f[c] = g[c]
    BY <2>1, Zenon
  <2> HIDE DEF f, g
  <2>3. f = g
    BY <2>2, SameFunction
  <2> QED
    BY <2>3 DEF f, g
<1>4. \A r \in 1..R : m[r] = k[r]
  BY <1>3
<1> HIDE <1>3
<1> QED
  BY <1>1, <1>4, SameFunction

\* A matrix that differs from another in one number.
LEMMA PutIs ==
  ASSUME NEW R \in Nat, NEW C \in Nat, NEW m \in MatrixOf(R, C), NEW k \in MatrixOf(R, C),
         NEW q \in 1..R, NEW p \in 1..C, NEW v \in Int, k[q][p] = v,
         \A r \in 1..R, c \in 1..C : ~(r = q /\ c = p) => k[r][c] = m[r][c]
  PROVE  Put(m, q, p, v) = k
<1> DEFINE u == Put(m, q, p, v)
<1>1. /\ u \in MatrixOf(R, C)
      /\ \A r \in 1..R, c \in 1..C : u[r][c] = IF r = q /\ c = p THEN v ELSE m[r][c]
  BY MatrixExcept
<1> HIDE DEF u
<1>2. \A r \in 1..R : \A c \in 1..C : u[r][c] = k[r][c]
  BY <1>1
<1>3. u = k
  BY <1>1, <1>2, SameMatrix
<1> QED
  BY <1>3 DEF u

LEMMA PlaceFits ==
  ASSUME NEW B \in Nat \ {0}, NEW C \in Nat \ {0}, NEW r \in 1..B, NEW c \in 1..C
  PROVE  Place(C, r, c) \in Nat /\ ~(Place(C, r, c) < 0)
<1> DEFINE k == Place(C, r, c)
           N == B * C - 1
<1>1. k \in 0..N
  BY PlaceIs
<1> HIDE DEF k, N
<1>2. k \in Nat /\ ~(k < 0)
  BY <1>1
<1> QED
  BY <1>2 DEF k

\* MSE::backward starts from zeros, and writes one element.
LEMMA GradBegins ==
  ASSUME NEW t, NEW y, NEW B, NEW C, Compared(t, y, B, C)
  PROVE  [r \in DOMAIN y |-> [c \in DOMAIN y[r] |-> 0]] = LossGrad(t, B, C, y, 0)
<1>1. B \in Nat \ {0} /\ C \in Nat \ {0} /\ B \in Nat /\ C \in Nat /\ y \in MatrixOf(B, C)
  BY DEF Compared
<1>2. DOMAIN y = 1..B /\ \A r \in 1..B : DOMAIN y[r] = 1..C
  BY <1>1, MatrixParts
<1> DEFINE z == [r \in DOMAIN y |-> [c \in DOMAIN y[r] |-> 0]]
           k == LossGrad(t, B, C, y, 0)
           h == [r \in 1..B |-> [c \in 1..C |-> 0]]
<1>3. z = h
  BY <1>2
<1>4. \A r \in 1..B, c \in 1..C : ~(Place(C, r, c) < 0)
  BY <1>1, PlaceFits
<1>5. k = h
  <2>1. \A r \in 1..B : [c \in 1..C |-> LET p == Place(C, r, c) IN IF p < 0 THEN 2 * (Element(y, p) - Element(t, p)) ELSE 0]
                            = [c \in 1..C |-> 0]
    BY <1>4
  <2> QED
    BY <2>1, Zenon DEF LossGrad
<1> QED
  BY <1>3, <1>5

\* One more element of the gradient.
LEMMA GradGoesOn ==
  ASSUME NEW t, NEW y, NEW B, NEW C, Compared(t, y, B, C), Elements(t) = B * C, NEW n \in 0..(B * C - 1)
  PROVE  Put(LossGrad(t, B, C, y, n), Row(y, n), Column(y, n), 2 * (Element(y, n) - Element(t, n)))
           = LossGrad(t, B, C, y, n + 1)
<1> DEFINE m == LossGrad(t, B, C, y, n)
           k == LossGrad(t, B, C, y, n + 1)
           v == 2 * (Element(y, n) - Element(t, n))
           q == Row(y, n)
           p == Column(y, n)
<1>0. /\ B \in Nat \ {0} /\ C \in Nat \ {0} /\ B \in Nat /\ C \in Nat /\ y \in MatrixOf(B, C)
      /\ TrueOutputs(t, B * C)
  BY DEF Compared
<1>1. v \in Int
  BY TermIs
<1>2. q \in 1..B /\ p \in 1..C /\ Place(C, q, p) = n
  BY <1>0, ElementIs
<1>3. /\ m \in MatrixOf(B, C) /\ k \in MatrixOf(B, C)
      /\ \A r \in 1..B, c \in 1..C :
           /\ m[r][c] = IF Place(C, r, c) < n THEN 2 * (y[r][c] - Element(t, Place(C, r, c))) ELSE 0
           /\ k[r][c] = IF Place(C, r, c) < n + 1 THEN 2 * (y[r][c] - Element(t, Place(C, r, c))) ELSE 0
  BY <1>0, LossGradIs
<1>4. v = 2 * (y[q][p] - Element(t, n))
  BY DEF Element
<1>5. \A r \in 1..B, c \in 1..C :
        /\ Place(C, r, c) \in Nat
        /\ Row(y, Place(C, r, c)) = r /\ Column(y, Place(C, r, c)) = c
  BY <1>0, ElementIs
<1>5a. n \in Nat
  <2> DEFINE N == B * C - 1
  <2>1. n \in 0..N
    OBVIOUS
  <2> HIDE DEF N
  <2> QED
    BY <2>1
<1>5b. q = Row(y, n) /\ p = Column(y, n)
  OBVIOUS
<1> HIDE DEF m, k, v, q, p
<1>6. k[q][p] = v
  BY <1>2, <1>3, <1>4, <1>5a
<1>7. \A r \in 1..B, c \in 1..C : ~(r = q /\ c = p) => k[r][c] = m[r][c]
  <2> TAKE r \in 1..B, c \in 1..C
  <2>1. ASSUME ~(r = q /\ c = p) PROVE k[r][c] = m[r][c]
    <3>1. Place(C, r, c) # n
      BY <1>5, <1>5b, <2>1
    <3>2. Place(C, r, c) < n + 1 <=> Place(C, r, c) < n
      BY <1>5, <1>5a, <3>1
    <3> QED
      BY <1>3, <3>2
  <2> QED
    BY <2>1
<1>8. Put(m, q, p, v) = k
  <2>1. m \in MatrixOf(B, C) /\ k \in MatrixOf(B, C) /\ B \in Nat /\ C \in Nat /\ q \in 1..B /\ p \in 1..C
    BY <1>0, <1>2, <1>3
  <2> QED
    BY <1>1, <1>6, <1>7, <2>1, PutIs
<1> QED
  BY <1>8 DEF m, k, v, q, p

-----------------------------------------------------------------------------
(* What backward leaves behind.                                              *)

\* What backward stores of layer l: G[l] is the gradient by what the layer put out.
StoredGrads(layers, sv, raws, G, l) ==
  LET M == Masked(layers[l], G[l], raws[l])
  IN  [weights |-> GradWeights(sv[l], M), bias |-> GradBias(M)]

Chain(layers, sv, raws, gs, g, top, G) ==
  /\ G[Len(layers)] = top /\ g = G[Len(layers) - Len(gs)]
  /\ \A l \in (Len(layers) - Len(gs) + 1)..Len(layers) :
       /\ G[l - 1] = GradInput(layers[l], Masked(layers[l], G[l], raws[l]))
       /\ gs[Len(layers) - l + 1] = StoredGrads(layers, sv, raws, G, l)

Backs(layers, sv, raws, gs, g, top) ==
  /\ IsList(gs) /\ Len(gs) <= Len(layers)
  /\ \E G : Chain(layers, sv, raws, gs, g, top, G)

\* Backward starts with the gradient of the loss.
LEMMA BacksNothing ==
  ASSUME NEW layers, Len(layers) \in Nat, NEW sv, NEW raws, NEW top
  PROVE  Backs(layers, sv, raws, <<>>, top, top)
<1> DEFINE L == Len(layers)
           G == [l \in 0..L |-> top]
<1>1. G[L] = top /\ L - Len(<<>>) = L /\ (L - Len(<<>>) + 1)..L = {} /\ Len(<<>>) <= L /\ Len(<<>>) = 0
  <2>1. L \in Nat /\ L \in 0..L
    OBVIOUS
  <2> HIDE DEF L
  <2> QED
    BY <2>1, EmptyList
<1>2. \A l \in (L - Len(<<>>) + 1)..L : FALSE
  BY <1>1
<1> HIDE DEF G
<1>3. Chain(layers, sv, raws, <<>>, top, top, G)
  BY <1>1, <1>2 DEF Chain
<1> QED
  BY <1>1, <1>3, EmptyList DEF Backs

\* BackwardLayer goes on by a layer.
LEMMA BacksOn ==
  ASSUME NEW layers, Len(layers) \in Nat, NEW sv, NEW raws, NEW gs, NEW g, NEW top,
         Backs(layers, sv, raws, gs, g, top), Len(gs) < Len(layers),
         NEW j, j = Len(layers) - Len(gs), NEW M, M = Masked(layers[j], g, raws[j])
  PROVE  Backs(layers, sv, raws, Append(gs, [weights |-> GradWeights(sv[j], M), bias |-> GradBias(M)]),
               GradInput(layers[j], M), top)
<1> DEFINE L == Len(layers)
           N == Len(gs)
           e == [weights |-> GradWeights(sv[j], M), bias |-> GradBias(M)]
           h == GradInput(layers[j], M)
           q == Append(gs, e)
<1>0. IsList(gs) /\ N \in Nat /\ L \in Nat /\ N < L /\ j = L - N
  BY DEF Backs, IsList
<1>1. PICK G : Chain(layers, sv, raws, gs, g, top, G)
  BY DEF Backs
<1> DEFINE K == [l \in 0..L |-> IF l = j - 1 THEN h ELSE G[l]]
<1>2. K[j - 1] = h /\ \A l \in j..L : K[l] = G[l]
  <2>1. j - 1 \in 0..L /\ \A l \in j..L : l \in 0..L /\ l # j - 1
    BY <1>0
  <2> QED
    BY <2>1
<1>3. IsList(q) /\ Len(q) = N + 1 /\ q[N + 1] = e /\ \A i \in 1..N : q[i] = gs[i]
  BY <1>0, ListAppend
<1>4. /\ G[L] = top /\ g = G[j]
      /\ \A l \in (j + 1)..L : /\ G[l - 1] = GradInput(layers[l], Masked(layers[l], G[l], raws[l]))
                               /\ gs[L - l + 1] = StoredGrads(layers, sv, raws, G, l)
  <2>1. L - N = j /\ L - N + 1 = j + 1
    BY <1>0
  <2> HIDE DEF L, N
  <2> QED
    BY <1>1, <2>1 DEF Chain, L, N
<1>5. e = StoredGrads(layers, sv, raws, G, j)
  BY <1>4 DEF StoredGrads
<1>6. h = GradInput(layers[j], Masked(layers[j], G[j], raws[j]))
  BY <1>4
<1> HIDE DEF K, q, e, h, L, N
<1>7. \A l \in j..L : StoredGrads(layers, sv, raws, K, l) = StoredGrads(layers, sv, raws, G, l)
  <2> TAKE l \in j..L
  <2>1. K[l] = G[l]
    BY <1>2
  <2> QED
    BY <2>1 DEF StoredGrads
<1>8. \A l \in j..L : /\ K[l - 1] = GradInput(layers[l], Masked(layers[l], K[l], raws[l]))
                      /\ q[L - l + 1] = StoredGrads(layers, sv, raws, K, l)
  <2> TAKE l \in j..L
  <2>1. CASE l = j
    <3>1. L - j + 1 = N + 1 /\ j \in j..L
      BY <1>0
    <3> QED
      BY <1>2, <1>3, <1>5, <1>6, <1>7, <2>1, <3>1
  <2>2. CASE l # j
    <3>1. l \in (j + 1)..L /\ l - 1 \in j..L /\ L - l + 1 \in 1..N
      BY <1>0, <2>2
    <3>2. K[l - 1] = G[l - 1] /\ K[l] = G[l] /\ q[L - l + 1] = gs[L - l + 1]
      BY <1>2, <1>3, <3>1
    <3>3. StoredGrads(layers, sv, raws, K, l) = StoredGrads(layers, sv, raws, G, l)
      BY <1>7
    <3> QED
      BY <1>4, <3>1, <3>2, <3>3
  <2> QED
    BY <2>1, <2>2
<1>9. Chain(layers, sv, raws, q, h, top, K)
  <2>1. Len(layers) - Len(q) = j - 1 /\ Len(layers) - Len(q) + 1 = j
    BY <1>0, <1>3 DEF L
  <2>2. K[Len(layers)] = top
    <3>1. L \in j..L
      BY <1>0
    <3> QED
      BY <1>2, <1>4, <3>1 DEF L
  <2> QED
    BY <1>2, <1>8, <2>1, <2>2 DEF Chain, L
<1>10. Len(q) <= Len(layers)
  BY <1>0, <1>3 DEF L
<1>11. Backs(layers, sv, raws, q, h, top)
  BY <1>3, <1>9, <1>10 DEF Backs
<1> QED
  BY <1>11 DEF q, e, h

-----------------------------------------------------------------------------
\* What forward, the loss and backward leave behind.
Complete(layers, sv, last, raws, gs, g, t, n) ==
  /\ Fits(layers, At(sv, last, 0), t) /\ Carries(layers, sv, last, raws)
  /\ Len(sv) = Len(layers) /\ Len(gs) = Len(layers)
  /\ Elements(t) = Elements(last) /\ n \in 0..Elements(last)
  /\ Backs(layers, sv, raws, gs, g, LossGrad(t, Len(last), Len(last[1]), last, n))

Widths(layers) == [l \in 0..Len(layers) |-> Width(layers, l)]
Inputs(layers, sv, last) == [l \in 0..Len(layers) |-> At(sv, last, l)]

\* It is what the derivatives are about.
Explained(layers, sv, last, raws, gs, g, t, n, G) ==
  LET L == Len(layers)
      W == Widths(layers)
      A == Inputs(layers, sv, last)
  IN  /\ Finished(L, layers, W, Len(A[0]), A, raws, G, t, n)
      /\ G[0] = g /\ A[0] = sv[1] /\ A[L] = last
      /\ \A l \in 1..L : gs[L - l + 1] = StoredGrads(layers, sv, raws, G, l) /\ sv[l] = A[l - 1]

\* A prediction has the shape of the last layer.
LEMMA PredictionCompares ==
  ASSUME NEW layers, NEW sv, NEW last, NEW raws, NEW t, Carries(layers, sv, last, raws),
         Fits(layers, At(sv, last, 0), t), Len(sv) = Len(layers)
  PROVE  /\ Compared(t, last, Len(last), Len(last[1]))
         /\ Len(last) = Len(At(sv, last, 0)) /\ Len(last[1]) = Width(layers, Len(layers))
         /\ At(sv, last, 0) \in MatrixOf(Len(last), Width(layers, 0))
<1>1. PICK B \in Nat \ {0} : At(sv, last, 0) \in MatrixOf(B, Width(layers, 0))
  BY DEF Fits
<1>2. PICK R \in Nat \ {0}, Q \in Nat \ {0} : t \in MatrixOf(R, Q)
  BY DEF Fits
<1>3. Len(layers) \in Nat /\ Len(layers) \in 0..Len(layers) /\ 0 \in 0..Len(layers) /\ B \in Nat
  BY DEF Fits
<1>4. Width(layers, 0) \in Nat \ {0} /\ Width(layers, Len(layers)) \in Nat \ {0}
  BY <1>3 DEF Fits
<1>5. last \in MatrixOf(B, Width(layers, Len(layers)))
  <2>1. At(sv, last, Len(sv)) \in MatrixOf(B, Width(layers, Len(sv)))
    BY <1>1, <1>3, CarriedTypes
  <2>2. At(sv, last, Len(sv)) = last
    BY <1>3 DEF At
  <2> QED
    BY <2>1, <2>2
<1>6. Len(last) = B /\ Len(last[1]) = Width(layers, Len(layers))
  BY <1>4, <1>5, MatrixLengths
<1>7. Len(At(sv, last, 0)) = B
  BY <1>1, <1>4, MatrixLengths
<1>8. Compared(t, last, B, Width(layers, Len(layers)))
  BY <1>2, <1>4, <1>5, ComparedIs
<1> QED
  BY <1>1, <1>6, <1>7, <1>8

\* Forward and backward as Setting describes them.
LEMMA CompleteIsExplained ==
  ASSUME NEW layers, NEW sv, NEW last, NEW raws, NEW gs, NEW g, NEW t, NEW n,
         Complete(layers, sv, last, raws, gs, g, t, n)
  PROVE  \E G : Explained(layers, sv, last, raws, gs, g, t, n, G)
<1> DEFINE L == Len(layers)
           W == Widths(layers)
           A == Inputs(layers, sv, last)
           B == Len(last)
           top == LossGrad(t, Len(last), Len(last[1]), last, n)
<1>0. /\ Fits(layers, At(sv, last, 0), t) /\ Carries(layers, sv, last, raws)
      /\ Len(sv) = L /\ Len(gs) = L /\ Elements(t) = Elements(last) /\ n \in 0..Elements(last)
      /\ Backs(layers, sv, raws, gs, g, top)
  BY DEF Complete
<1>1. /\ Compared(t, last, B, Len(last[1])) /\ B = Len(At(sv, last, 0))
      /\ Len(last[1]) = Width(layers, L) /\ At(sv, last, 0) \in MatrixOf(B, Width(layers, 0))
  BY <1>0, PredictionCompares
<1>2. PICK G : Chain(layers, sv, raws, gs, g, top, G)
  BY <1>0 DEF Backs
<1>3. /\ L \in Nat \ {0} /\ DOMAIN layers = 1..L
      /\ \A l \in 0..L : Width(layers, l) \in Nat \ {0}
      /\ \A l \in 1..L : layers[l] \in LayerOf(Width(layers, l - 1), Width(layers, l))
  BY <1>0 DEF Fits
<1>4. /\ L - Len(gs) = 0 /\ L - Len(gs) + 1 = 1 /\ 0 \in 0..L /\ L \in 0..L /\ L \in Nat
      /\ \A l \in 1..L : l \in 0..L /\ l - 1 \in 0..L /\ l - 1 < Len(sv) /\ (l - 1) + 1 = l
  BY <1>0, <1>3
<1>5. /\ G[L] = top /\ g = G[0]
      /\ \A l \in 1..L : /\ G[l - 1] = GradInput(layers[l], Masked(layers[l], G[l], raws[l]))
                         /\ gs[L - l + 1] = StoredGrads(layers, sv, raws, G, l)
  <2> HIDE DEF top
  <2> QED
    BY <1>2, <1>4 DEF Chain
<1>6. W \in [0..L -> Nat \ {0}] /\ \A l \in 0..L : W[l] = Width(layers, l)
  BY <1>3 DEF Widths
<1>7. \A l \in 0..L : A[l] = At(sv, last, l)
  BY DEF Inputs
<1>8. \A l \in 1..L : sv[l] = A[l - 1]
  BY <1>4, <1>7 DEF At
<1>9. A[L] = last /\ A[0] = sv[1]
  <2>1. At(sv, last, L) = last
    BY <1>0, <1>4 DEF At
  <2>2. 1 \in 1..L /\ 1 - 1 = 0
    BY <1>3
  <2> QED
    BY <1>4, <1>7, <1>8, <2>1, <2>2
<1>10. \A l \in 1..L : raws[l] = Forward(layers[l], A[l - 1]) /\ A[l] = Activated(layers[l], raws[l])
  <2> TAKE l \in 1..L
  <2>1. l \in 1..Len(sv)
    BY <1>0
  <2>2. raws[l] = Forward(layers[l], At(sv, last, l - 1)) /\ At(sv, last, l) = Activated(layers[l], raws[l])
    BY <1>0, <2>1 DEF Carries
  <2> QED
    BY <1>4, <1>7, <2>2
<1>11. /\ B \in Nat \ {0} /\ last \in MatrixOf(B, W[L]) /\ Elements(last) = B * W[L]
       /\ TrueOutputs(t, B * W[L]) /\ W[L] \in Nat \ {0} /\ Len(last[1]) = W[L]
  BY <1>0, <1>1, <1>4, <1>6 DEF Compared
<1>12. top = LossGrad(t, B, W[L], A[L], n) /\ A[0] \in MatrixOf(B, W[0]) /\ B = Len(A[0]) /\ n \in 0..(B * W[L])
  BY <1>0, <1>1, <1>4, <1>6, <1>7, <1>9, <1>11
<1> HIDE DEF L, W, A, B, top
<1>13. G[L] \in MatrixOf(B, W[L])
  BY <1>5, <1>9, <1>11, <1>12, LossGradIs
<1>14. \A l \in 1..L : layers[l] \in LayerOf(W[l - 1], W[l])
  BY <1>3, <1>4, <1>6
<1>15. Setting(L, layers, W, B, A, raws, G)
  BY <1>4, <1>5, <1>6, <1>10, <1>11, <1>12, <1>13, <1>14 DEF Setting
<1>16. Finished(L, layers, W, B, A, raws, G, t, n)
  BY <1>3, <1>5, <1>11, <1>12, <1>15 DEF Finished, L
<1>17. Finished(L, layers, W, Len(A[0]), A, raws, G, t, n)
  BY <1>12, <1>16
<1> QED
  BY <1>5, <1>8, <1>9, <1>17 DEF Explained, L, W, A

-----------------------------------------------------------------------------
(* A computation that is complete has the derivatives as its gradients.      *)

\* A prediction is what Raw puts out.
LEMMA RawOfInputs ==
  ASSUME NEW L, NEW layers, NEW W, NEW B, NEW A, NEW raws, NEW G, NEW t, NEW n,
         Finished(L, layers, W, B, A, raws, G, t, n)
  PROVE  Raw(layers, A[0]).out = A[L]
<1>1. /\ L \in Nat /\ Len(layers) = L /\ DOMAIN layers = 1..L
      /\ \A l \in 1..L : A[l] = Activated(layers[l], Forward(layers[l], A[l - 1]))
  BY DEF Finished, Setting
<1>2. PICK U : Carried(layers, A[0], U) /\ Raw(layers, A[0]).out = U[L]
  <2> DEFINE m == A[0]
  <2>1. DOMAIN layers = 1..Len(layers) /\ Len(layers) \in Nat
    BY <1>1
  <2> HIDE DEF m
  <2>2. \E U : Computes(layers, m, U)
    BY <2>1, RawIs
  <2> QED
    BY <1>1, <2>2 DEF m, Computes
<1>3. U[0] = A[0] /\ \A l \in 1..L : U[l] = Activated(layers[l], Forward(layers[l], U[l - 1]))
  BY <1>1, <1>2 DEF Carried
<1> DEFINE S == {l \in 0..L : U[l] = A[l]}
<1>4. 0 \in S
  BY <1>1, <1>3
<1>5. ASSUME NEW l \in 0..(L - 1), l \in S PROVE l + 1 \in S
  <2>1. l + 1 \in 1..L /\ l + 1 \in 0..L /\ (l + 1) - 1 = l /\ U[l] = A[l]
    BY <1>1, <1>5
  <2> QED
    BY <1>1, <1>3, <2>1
<1> HIDE DEF S
<1>6. \A l \in 0..L : l \in S
  BY <1>1, <1>4, <1>5, InductionUpTo
<1>7. L \in S
  BY <1>1, <1>6
<1> QED
  BY <1>2, <1>7 DEF S

\* The operators of the property, in terms of those of the lemmas.
LEMMA LossIsLossAt ==
  ASSUME NEW y
  PROVE  Loss(y) = LossAt(y_true, y, at)
BY DEF Loss, LossAt, LossTerm, Difference, TermAt

LEMMA MovesAre ==
  /\ \A l, r, c, by : Moved(l, r, c, by) = MovedTo(net, l, r, c, by)
  /\ \A l, c, by : Shifted(l, c, by) = ShiftedTo(net, l, c, by)
BY DEF Moved, Shifted, MovedTo, ShiftedTo

LEMMA InputsMove ==
  ASSUME NEW m, NEW r, NEW c
  PROVE  /\ [m EXCEPT ![r][c] = @ + 1] = Put(m, r, c, m[r][c] + 1)
         /\ [m EXCEPT ![r][c] = @ - 1] = Put(m, r, c, m[r][c] - 1)
BY DEF Put

\* What backward stored of each layer.
LEMMA StoredAre ==
  ASSUME NEW layers, NEW sv, NEW raws, NEW G, NEW l, NEW e, e = StoredGrads(layers, sv, raws, G, l)
  PROVE  /\ e.weights = GradWeights(sv[l], Masked(layers[l], G[l], raws[l]))
         /\ e.bias = GradBias(Masked(layers[l], G[l], raws[l]))
BY DEF StoredGrads

\* What is complete has the derivatives by every weight, bias and input.
LEMMA CompleteImplies ==
  ASSUME Complete(net, saved, x, y_raw, grads, grad, y_true, at), loss = LossAt(y_true, x, at)
  PROVE  GradientsAreDerivatives
<1> DEFINE L == Len(net)
           W == Widths(net)
           A == Inputs(net, saved, x)
           B == Len(A[0])
<1>1. PICK G : Explained(net, saved, x, y_raw, grads, grad, y_true, at, G)
  BY CompleteIsExplained
<1>2. /\ Finished(L, net, W, B, A, y_raw, G, y_true, at)
      /\ G[0] = grad /\ A[0] = saved[1] /\ A[L] = x
      /\ \A l \in 1..L : grads[L - l + 1] = StoredGrads(net, saved, y_raw, G, l) /\ saved[l] = A[l - 1]
  BY <1>1 DEF Explained
<1> HIDE DEF L, W, A, B
<1>3. /\ L \in Nat /\ B \in Nat \ {0} /\ W \in [0..L -> Nat \ {0}] /\ DOMAIN net = 1..L /\ L = Len(net)
      /\ \A l \in 1..L : net[l] \in LayerOf(W[l - 1], W[l])
  BY <1>2 DEF Finished, Setting, L
<1>4. loss = Loss(Raw(net, saved[1]).out)
  <2>1. Raw(net, A[0]).out = A[L]
    BY <1>2, RawOfInputs
  <2> QED
    BY <1>2, <2>1, LossIsLossAt
<1>5. ASSUME NEW l \in 1..L
      PROVE  /\ DOMAIN net[l].bias = 1..W[l] /\ DOMAIN net[l].weights = 1..W[l - 1]
             /\ GradsOf(l).weights = GradWeights(A[l - 1], Masked(net[l], G[l], y_raw[l]))
             /\ GradsOf(l).bias = GradBias(Masked(net[l], G[l], y_raw[l]))
  <2>1. net[l].weights \in MatrixOf(W[l - 1], W[l]) /\ net[l].bias \in [1..W[l] -> Int]
    BY <1>3 DEF LayerOf
  <2>2. DOMAIN net[l].weights = 1..W[l - 1]
    BY <2>1 DEF MatrixOf
  <2>3. GradsOf(l) = StoredGrads(net, saved, y_raw, G, l)
    BY <1>2 DEF GradsOf, L
  <2> QED
    BY <1>2, <2>1, <2>2, <2>3, StoredAre
<1>6. ASSUME NEW l \in 1..L, NEW c \in 1..W[l]
      PROVE  IsDerivative(GradsOf(l).bias[c], Shifted(l, c, 1), Shifted(l, c, -1), saved[1], saved[1])
  <2> DEFINE up == ShiftedTo(net, l, c, 1)
             down == ShiftedTo(net, l, c, -1)
  <2>1. Shifted(l, c, 1) = up /\ Shifted(l, c, -1) = down
    BY MovesAre
  <2>2. ASSUME SameSigns(Raw(up, A[0]).raw, y_raw), SameSigns(Raw(down, A[0]).raw, y_raw)
        PROVE  2 * GradBias(Masked(net[l], G[l], y_raw[l]))[c]
                 = LossAt(y_true, Raw(up, A[0]).out, at) - LossAt(y_true, Raw(down, A[0]).out, at)
    BY <1>2, <2>2, BiasDerivative
  <2> HIDE DEF up, down
  <2> QED
    BY <1>2, <1>5, <2>1, <2>2, LossIsLossAt DEF IsDerivative
<1>7. ASSUME NEW l \in 1..L, NEW c \in 1..W[l], NEW r \in 1..W[l - 1]
      PROVE  IsDerivative(GradsOf(l).weights[r][c], Moved(l, r, c, 1), Moved(l, r, c, -1), saved[1], saved[1])
  <2> DEFINE up == MovedTo(net, l, r, c, 1)
             down == MovedTo(net, l, r, c, -1)
  <2>1. Moved(l, r, c, 1) = up /\ Moved(l, r, c, -1) = down
    BY MovesAre
  <2>2. ASSUME SameSigns(Raw(up, A[0]).raw, y_raw), SameSigns(Raw(down, A[0]).raw, y_raw)
        PROVE  2 * GradWeights(A[l - 1], Masked(net[l], G[l], y_raw[l]))[r][c]
                 = LossAt(y_true, Raw(up, A[0]).out, at) - LossAt(y_true, Raw(down, A[0]).out, at)
    BY <1>2, <2>2, WeightDerivative
  <2> HIDE DEF up, down
  <2> QED
    BY <1>2, <1>5, <2>1, <2>2, LossIsLossAt DEF IsDerivative
<1>8. DOMAIN grad = 1..B /\ \A r \in 1..B : DOMAIN grad[r] = 1..W[0]
  <2>1. 0 \in 0..L /\ B \in Nat
    BY <1>3
  <2>2. grad \in MatrixOf(B, W[0])
    BY <1>2, <2>1, SettingTypes DEF Finished
  <2>3. W[0] \in Nat
    BY <1>3, <2>1
  <2> QED
    BY <2>1, <2>2, <2>3, MatrixParts
<1>9. ASSUME NEW r \in 1..B, NEW c \in 1..W[0]
      PROVE  IsDerivative(grad[r][c], net, net,
                          [saved[1] EXCEPT ![r][c] = @ + 1], [saved[1] EXCEPT ![r][c] = @ - 1])
  <2> DEFINE up == Put(A[0], r, c, A[0][r][c] + 1)
             down == Put(A[0], r, c, A[0][r][c] - 1)
  <2>1. [saved[1] EXCEPT ![r][c] = @ + 1] = up /\ [saved[1] EXCEPT ![r][c] = @ - 1] = down
    BY <1>2, InputsMove
  <2>2. ASSUME SameSigns(Raw(net, up).raw, y_raw), SameSigns(Raw(net, down).raw, y_raw)
        PROVE  2 * G[0][r][c] = LossAt(y_true, Raw(net, up).out, at) - LossAt(y_true, Raw(net, down).out, at)
    BY <1>2, <2>2, InputDerivative
  <2> HIDE DEF up, down
  <2> QED
    BY <1>2, <2>1, <2>2, LossIsLossAt DEF IsDerivative
<1>10. \A l \in DOMAIN net : \A c \in DOMAIN net[l].bias :
         /\ IsDerivative(GradsOf(l).bias[c], Shifted(l, c, 1), Shifted(l, c, -1), saved[1], saved[1])
         /\ \A r \in DOMAIN net[l].weights :
              IsDerivative(GradsOf(l).weights[r][c], Moved(l, r, c, 1), Moved(l, r, c, -1),
                           saved[1], saved[1])
  BY <1>3, <1>5, <1>6, <1>7
<1>11. \A r \in DOMAIN grad : \A c \in DOMAIN grad[r] :
         IsDerivative(grad[r][c], net, net,
                      [saved[1] EXCEPT ![r][c] = @ + 1], [saved[1] EXCEPT ![r][c] = @ - 1])
  BY <1>8, <1>9
<1> QED
  BY <1>4, <1>10, <1>11 DEF GradientsAreDerivatives

-----------------------------------------------------------------------------
(* The loops of MSE, for every rounding.                                     *)

\* The loop variable never passes the size, and at the end nothing is left that
\* does not round to the bound.
IInv ==
  /\ pc \in {"idle", "loop", "returned", "threw"}
  /\ preds \in 0..Largest
  /\ at \in 0..preds
  /\ pc \in {"loop", "returned"} => preds = trues /\ limit = Approx[preds]
  /\ pc = "returned" => limit <= Approx[at]

LEMMA IInvInit == LossInit => IInv
BY RoundingAssumption DEF LossInit, IInv

LEMMA IInvNext == IInv /\ [LossNext]_lossVars => IInv'
<1> USE RoundingAssumption DEF IInv
<1> SUFFICES ASSUME IInv, [LossNext]_lossVars PROVE IInv'
  OBVIOUS
<1>1. ASSUME NEW f \in {"forward", "backward"}, NEW p \in 0..Largest, NEW q \in 0..Largest,
             Call(f, p, q)
      PROVE  IInv'
  BY <1>1 DEF Call
<1>2. CASE Iterate
  <2>1. at # preds
    BY <1>2 DEF Iterate, GoesOn
  <2> QED
    BY <1>2, <2>1 DEF Iterate
<1>3. CASE Return
  BY <1>3 DEF Return, GoesOn
<1>4. CASE UNCHANGED lossVars
  BY <1>4 DEF lossVars
<1> QED
  BY <1>1, <1>2, <1>3, <1>4 DEF LossNext

LEMMA IInvImplies == IInv => StaysInTensors /\ OnlyRoundingSkips
<1> SUFFICES ASSUME IInv PROVE StaysInTensors /\ OnlyRoundingSkips
  OBVIOUS
<1>1. StaysInTensors
  <2>1. pc = "loop" /\ GoesOn => at # preds
    BY RoundingAssumption DEF IInv, GoesOn
  <2> QED
    BY <2>1 DEF IInv, StaysInTensors
<1>2. ASSUME pc = "returned" PROVE \A j \in at..(preds - 1) : Approx[j] = limit
  <2> TAKE j \in at..(preds - 1)
  <2>1. j \in 0..Largest /\ at <= j /\ j <= preds /\ at \in 0..Largest
    BY RoundingAssumption DEF IInv
  <2>2. Approx[at] <= Approx[j] /\ Approx[j] <= Approx[preds]
    BY <2>1, RoundingAssumption DEF IInv
  <2>3. limit = Approx[preds] /\ limit <= Approx[at]
    BY <1>2 DEF IInv
  <2> QED
    BY <2>1, <2>2, <2>3, RoundingAssumption DEF IInv
<1>3. ASSUME pc = "returned", preds <= Exact PROVE at = preds
  <2>1. at \in 0..Largest /\ at <= Exact
    BY <1>3, RoundingAssumption DEF IInv
  <2>2. Approx[at] = at /\ Approx[preds] = preds
    BY <1>3, <2>1, RoundingAssumption DEF IInv
  <2> QED
    BY <1>3, <2>2 DEF IInv
<1> QED
  BY <1>1, <1>2, <1>3 DEF OnlyRoundingSkips

-----------------------------------------------------------------------------
\* Whatever the network computes, it calls the loss in a way LossSpec describes.
LEMMA StepIsLossStep == [Next]_vars => [LossNext]_lossVars
<1> SUFFICES ASSUME [Next]_vars PROVE [LossNext]_lossVars
  OBVIOUS
<1>1. CASE ForwardLayer
  BY <1>1 DEF ForwardLayer
<1>2. CASE BackwardLayer
  BY <1>2 DEF BackwardLayer
<1>3. CASE CallForward
  BY <1>3 DEF CallForward, LossNext
<1>4. CASE CallBackward
  BY <1>4 DEF CallBackward, LossNext
<1>5. CASE IterateLoss
  BY <1>5 DEF IterateLoss, LossNext
<1>6. CASE ReturnLoss
  BY <1>6 DEF ReturnLoss, LossNext
<1>7. CASE UNCHANGED vars
  BY <1>7 DEF vars
<1> QED
  BY <1>1, <1>2, <1>3, <1>4, <1>5, <1>6, <1>7 DEF Next

\* The computation of LinearGrad uses the loops of the loss as MseLoss says.
THEOREM UsesTheLoss == Spec => LossSpec
<1>1. Init => LossInit
  BY DEF Init
<1> QED
  BY <1>1, StepIsLossStep, PTL DEF Spec, LossSpec

\* The loops of forward and backward never leave either tensor (lossfs.hpp:27, 42).
THEOREM InTensors == Spec => []StaysInTensors
BY IInvInit, IInvNext, IInvImplies, UsesTheLoss, PTL DEF LossSpec

\* Nothing is left out of the loss or the gradient but by rounding of the size.
THEOREM SkippedByRounding == Spec => []OnlyRoundingSkips
BY IInvInit, IInvNext, IInvImplies, UsesTheLoss, PTL DEF LossSpec
-----------------------------------------------------------------------------
\* What forward has carried so far.
NetworkRan ==
  /\ Fits(net, At(saved, x, 0), y_true)
  /\ Carries(net, saved, x, y_raw)

\* When MSE is called, and for what.
CallsInOrder ==
  /\ op \in {"forward", "backward"}
  /\ pc = "idle" => op = "forward" /\ loss = 0
  /\ pc # "idle" => Len(saved) = Len(net)
  /\ ~(pc = "returned" /\ op = "backward") => grads = <<>>
  /\ pc \in {"loop", "returned"} =>
       /\ preds = Elements(x) /\ preds = Elements(y_true)
       /\ \A j \in 0..(at - 1) : Approx[j] < limit

\* The loss of the elements reached, and what the loop of forward ended with.
LossSummed ==
  pc \in {"loop", "returned"} =>
    \E e \in 0..preds :
      /\ loss = LossAt(y_true, x, e)
      /\ op = "forward" => e = at
      /\ op = "backward" => limit <= Approx[e] /\ \A j \in 0..(e - 1) : Approx[j] < limit

\* The gradient by the prediction, and what backward has made of it.
GradientCarried ==
  LET top == LossGrad(y_true, Len(x), Len(x[1]), x, at)
  IN  op = "backward" =>
        /\ pc = "loop" => grad = top
        /\ pc = "returned" => Backs(net, saved, y_raw, grads, grad, top)

GInv == IInv /\ NetworkRan /\ CallsInOrder /\ LossSummed /\ GradientCarried

\* A computation starts with nothing carried.
LEMMA GInvInit == Init => GInv
<1> SUFFICES ASSUME Init PROVE GInv
  OBVIOUS
<1>1. IInv
  BY IInvInit DEF Init
<1>2. PICK case \in Cases : net = case[1] /\ x = case[2] /\ y_true = case[3]
  BY DEF Init
<1>3. Fits(net, x, y_true)
  BY <1>2, CasesFit
<1>4. NetworkRan
  BY <1>3, CarriesNothing DEF Init, NetworkRan
<1> QED
  BY <1>1, <1>4 DEF Init, LossInit, GInv, CallsInOrder, LossSummed, GradientCarried

\* What is compared while MSE runs.
LEMMA MseCompares ==
  ASSUME NetworkRan, Len(saved) = Len(net)
  PROVE  /\ Compared(y_true, x, Len(x), Len(x[1])) /\ Elements(x) = Len(x) * Len(x[1])
         /\ Len(net) \in Nat
<1>1. Compared(y_true, x, Len(x), Len(x[1]))
  BY PredictionCompares DEF NetworkRan
<1>2. Elements(x) = Len(x) * Len(x[1])
  BY DEF Elements
<1> QED
  BY <1>1, <1>2 DEF NetworkRan, Fits

\* Every step of forward, of MSE and of backward goes on from what is there.
LEMMA GInvNext == GInv /\ [Next]_vars => GInv'
<1> SUFFICES ASSUME GInv, [Next]_vars PROVE GInv'
  OBVIOUS
<1>0. IInv /\ NetworkRan /\ CallsInOrder /\ LossSummed /\ GradientCarried
  BY DEF GInv
<1>1. IInv'
  BY <1>0, IInvNext, StepIsLossStep
<1>2. CASE ForwardLayer
  <2>1. pc = "idle" /\ op = "forward" /\ loss = 0 /\ grads = <<>>
    BY <1>0, <1>2 DEF CallsInOrder, ForwardLayer, Predicted
  <2>2. NetworkRan'
    <3> DEFINE l == net[Len(saved) + 1]
               y == Forward(l, x)
    <3>1. /\ saved' = Append(saved, x) /\ y_raw' = Append(y_raw, y) /\ x' = Activated(l, y)
          /\ net' = net /\ y_true' = y_true /\ Len(saved) # Len(net)
      BY <1>2 DEF ForwardLayer, Predicted
    <3>2. Len(net) \in Nat /\ Carries(net, saved, x, y_raw) /\ Fits(net, At(saved, x, 0), y_true)
      BY <1>0 DEF NetworkRan, Fits
    <3>3. /\ Carries(net, saved', x', y_raw') /\ At(saved', x', 0) = At(saved, x, 0)
      BY <3>1, <3>2, CarriesOn
    <3> QED
      BY <3>1, <3>2, <3>3 DEF NetworkRan
  <2>3. pc' = "idle" /\ op' = "forward" /\ loss' = 0 /\ grads' = <<>>
    BY <1>2, <2>1 DEF ForwardLayer, lossVars
  <2> QED
    BY <1>1, <2>2, <2>3 DEF GInv, CallsInOrder, LossSummed, GradientCarried
<1>3. CASE CallForward
  <2>1. /\ pc = "idle" /\ Len(saved) = Len(net) /\ loss = 0 /\ grads = <<>>
        /\ UNCHANGED <<net, y_true, x, saved, y_raw, loss, grad, grads>>
        /\ Call("forward", Elements(x), Elements(y_true))
    BY <1>0, <1>3 DEF CallsInOrder, CallForward, Predicted
  <2>2. /\ op' = "forward" /\ at' = 0 /\ preds' = Elements(x) /\ pc' \in {"loop", "threw"}
        /\ pc' = "loop" => Elements(x) = Elements(y_true)
    BY <2>1 DEF Call
  <2>3. NetworkRan'
    BY <1>0, <2>1 DEF NetworkRan
  <2>4. CallsInOrder'
    BY <2>1, <2>2 DEF CallsInOrder
  <2>5. LossSummed'
    <3>1. LossAt(y_true', x', 0) = 0 /\ 0 \in 0..preds'
      <4>1. preds' \in Nat
        BY <1>1, RoundingAssumption DEF IInv
      <4> QED
        BY <4>1, LossBegins
    <3> QED
      BY <2>1, <2>2, <3>1 DEF LossSummed
  <2>6. GradientCarried'
    BY <2>2 DEF GradientCarried
  <2> QED
    BY <1>1, <2>3, <2>4, <2>5, <2>6 DEF GInv
<1>4. CASE CallBackward
  <2>1. /\ pc = "returned" /\ op = "forward" /\ Len(saved) = Len(net) /\ grads = <<>>
        /\ UNCHANGED <<net, y_true, x, saved, y_raw, loss, grads>>
        /\ Call("backward", Elements(x), Elements(y_true))
        /\ grad' = [r \in DOMAIN x |-> [c \in DOMAIN x[r] |-> 0]]
        /\ preds = Elements(x) /\ preds = Elements(y_true)
        /\ \A j \in 0..(at - 1) : Approx[j] < limit
    BY <1>0, <1>4 DEF CallsInOrder, CallBackward
  <2>2. /\ op' = "backward" /\ at' = 0 /\ preds' = preds /\ pc' = "loop" /\ limit' = limit
    <3>1. limit = Approx[preds]
      BY <1>0, <2>1 DEF IInv
    <3> QED
      BY <2>1, <3>1 DEF Call
  <2>3. NetworkRan'
    BY <1>0, <2>1 DEF NetworkRan
  <2>4. CallsInOrder'
    BY <2>1, <2>2 DEF CallsInOrder
  <2>5. LossSummed'
    <3>1. loss = LossAt(y_true, x, at)
      BY <1>0, <2>1 DEF LossSummed
    <3>2. at \in 0..preds /\ limit <= Approx[at]
      BY <1>0, <2>1 DEF IInv
    <3> QED
      BY <2>1, <2>2, <3>1, <3>2 DEF LossSummed
  <2>6. GradientCarried'
    <3>1. grad' = LossGrad(y_true, Len(x), Len(x[1]), x, 0)
      BY <1>0, <2>1, MseCompares, GradBegins
    <3> QED
      BY <2>1, <2>2, <3>1 DEF GradientCarried
  <2> QED
    BY <1>1, <2>3, <2>4, <2>5, <2>6 DEF GInv
<1>5. CASE IterateLoss
  <2>1. /\ pc = "loop" /\ pc' = "loop" /\ at' = at + 1 /\ Len(saved) = Len(net) /\ grads = <<>>
        /\ UNCHANGED <<net, y_true, x, saved, y_raw, grads>> /\ UNCHANGED <<op, preds, trues, limit>>
        /\ preds = Elements(x) /\ preds = Elements(y_true)
        /\ \A j \in 0..(at - 1) : Approx[j] < limit
        /\ Approx[at] < limit
    BY <1>0, <1>5 DEF CallsInOrder, IterateLoss, Iterate, GoesOn
  <2>2. at \in Nat /\ preds \in Nat /\ at < preds
    <3>1. at # preds
      BY <1>0, <2>1, RoundingAssumption DEF IInv
    <3> QED
      BY <1>0, <3>1, RoundingAssumption DEF IInv
  <2>3. NetworkRan'
    BY <1>0, <2>1 DEF NetworkRan
  <2>4. CallsInOrder'
    <3>1. \A j \in 0..(at' - 1) : Approx[j] < limit'
      <4> TAKE j \in 0..(at' - 1)
      <4>1. j \in 0..(at - 1) \/ j = at
        BY <2>1, <2>2
      <4> QED
        BY <2>1, <4>1
    <3> QED
      BY <1>0, <2>1, <3>1 DEF CallsInOrder
  <2>5. /\ Compared(y_true, x, Len(x), Len(x[1])) /\ Elements(x) = Len(x) * Len(x[1])
        /\ Elements(y_true) = Len(x) * Len(x[1])
    BY <1>0, <2>1, MseCompares
  <2>6. at \in 0..(Len(x) * Len(x[1]) - 1)
    <3> DEFINE N == Len(x) * Len(x[1])
    <3>1. preds = N
      BY <2>1, <2>5
    <3> HIDE DEF N
    <3>2. at \in 0..(N - 1)
      BY <2>2, <3>1
    <3> QED
      BY <3>2 DEF N
  <2>7. LossSummed'
    <3>1. CASE op = "forward"
      <4>1. loss = LossAt(y_true, x, at) /\ loss' = loss + LossTerm(x, at)
        BY <1>0, <1>5, <2>1, <3>1 DEF LossSummed, IterateLoss
      <4>2. LossTerm(x, at) = TermAt(y_true, x, at)
        BY DEF LossTerm, Difference, TermAt
      <4>3. LossAt(y_true, x, at + 1) = LossAt(y_true, x, at) + TermAt(y_true, x, at)
        BY <2>5, <2>6, LossGoesOn
      <4>4. loss' = LossAt(y_true, x, at + 1) /\ at + 1 \in 0..preds
        BY <2>2, <4>1, <4>2, <4>3
      <4> QED
        BY <2>1, <3>1, <4>4 DEF LossSummed
    <3>2. CASE op = "backward"
      <4>1. loss' = loss
        BY <1>5, <3>2 DEF IterateLoss
      <4>2. PICK e \in 0..preds : /\ loss = LossAt(y_true, x, e) /\ limit <= Approx[e]
                                  /\ \A j \in 0..(e - 1) : Approx[j] < limit
        BY <1>0, <2>1, <3>2 DEF LossSummed
      <4> QED
        BY <2>1, <3>2, <4>1, <4>2 DEF LossSummed
    <3> QED
      BY <1>0, <3>1, <3>2 DEF CallsInOrder
  <2>8. GradientCarried'
    <3>1. CASE op = "backward"
      <4>1. grad = LossGrad(y_true, Len(x), Len(x[1]), x, at)
        BY <1>0, <2>1, <3>1 DEF GradientCarried
      <4>2. grad' = Put(grad, Row(x, at), Column(x, at), 2 * (Element(x, at) - Element(y_true, at)))
        BY <1>5, <3>1 DEF IterateLoss, LossGradient, Difference, Put
      <4>3. grad' = LossGrad(y_true, Len(x), Len(x[1]), x, at + 1)
        BY <2>5, <2>6, <4>1, <4>2, GradGoesOn
      <4> QED
        BY <2>1, <3>1, <4>3 DEF GradientCarried
    <3>2. CASE op # "backward"
      BY <2>1, <3>2 DEF GradientCarried
    <3> QED
      BY <3>1, <3>2
  <2> QED
    BY <1>1, <2>3, <2>4, <2>7, <2>8 DEF GInv
<1>6. CASE ReturnLoss
  <2>1. /\ pc = "loop" /\ pc' = "returned" /\ grads = <<>>
        /\ UNCHANGED <<net, y_true, x, saved, y_raw, loss, grad, grads>> /\ UNCHANGED <<op, preds, trues, limit, at>>
    BY <1>0, <1>6 DEF CallsInOrder, ReturnLoss, Return
  <2>2. NetworkRan'
    BY <1>0, <2>1 DEF NetworkRan
  <2>3. CallsInOrder'
    BY <1>0, <2>1 DEF CallsInOrder
  <2>4. LossSummed'
    BY <1>0, <2>1 DEF LossSummed
  <2>5. GradientCarried'
    <3> DEFINE top == LossGrad(y_true, Len(x), Len(x[1]), x, at)
    <3>1. op = "backward" => grad = top
      BY <1>0, <2>1 DEF GradientCarried
    <3>2. Backs(net, saved, y_raw, <<>>, top, top)
      <4>1. Len(net) \in Nat
        BY <1>0 DEF NetworkRan, Fits
      <4> QED
        BY <4>1, BacksNothing
    <3> QED
      BY <2>1, <3>1, <3>2 DEF GradientCarried
  <2> QED
    BY <1>1, <2>2, <2>3, <2>4, <2>5 DEF GInv
<1>7. CASE BackwardLayer
  <2> DEFINE l == Len(net) - Len(grads)
             M == Masked(net[l], grad, y_raw[l])
  <2>1. /\ pc = "returned" /\ op = "backward" /\ Len(grads) < Len(net)
        /\ UNCHANGED <<net, y_true, x, saved, y_raw, loss>> /\ UNCHANGED <<pc, op, preds, trues, limit, at>>
        /\ grads' = Append(grads, [weights |-> GradWeights(saved[l], M), bias |-> GradBias(M)])
        /\ grad' = GradInput(net[l], M)
    BY <1>7 DEF BackwardLayer, Masked, lossVars
  <2>2. NetworkRan'
    BY <1>0, <2>1 DEF NetworkRan
  <2>3. CallsInOrder'
    BY <1>0, <2>1 DEF CallsInOrder
  <2>4. LossSummed'
    BY <1>0, <2>1 DEF LossSummed
  <2>5. GradientCarried'
    <3> DEFINE top == LossGrad(y_true, Len(x), Len(x[1]), x, at)
    <3>1. Backs(net, saved, y_raw, grads, grad, top) /\ Len(net) \in Nat
      BY <1>0, <2>1 DEF GradientCarried, NetworkRan, Fits
    <3> HIDE DEF top
    <3>2. Backs(net, saved, y_raw, grads', grad', top)
      BY <2>1, <3>1, BacksOn
    <3> QED
      BY <2>1, <3>2 DEF GradientCarried, top
  <2> QED
    BY <1>1, <2>2, <2>3, <2>4, <2>5 DEF GInv
<1>8. CASE UNCHANGED vars
  <2>1. /\ UNCHANGED <<net, y_true, x, saved, y_raw, loss, grad, grads>>
        /\ UNCHANGED <<pc, op, preds, trues, limit, at>>
    BY <1>8 DEF vars, lossVars
  <2> QED
    BY <1>0, <1>1, <2>1 DEF GInv, NetworkRan, CallsInOrder, LossSummed, GradientCarried
<1> QED
  BY <1>2, <1>3, <1>4, <1>5, <1>6, <1>7, <1>8 DEF Next

\* In the end the loops of forward and backward stopped at the same element.
LEMMA GInvImplies == GInv => GradientsAreDerivatives
<1> SUFFICES ASSUME GInv, Done PROVE GradientsAreDerivatives
  BY DEF GradientsAreDerivatives
<1>0. IInv /\ NetworkRan /\ CallsInOrder /\ LossSummed /\ GradientCarried
  BY DEF GInv
<1>1. Len(net) \in Nat \ {0} /\ Len(grads) = Len(net)
  BY <1>0 DEF NetworkRan, Fits, Done
<1>2. pc = "returned" /\ op = "backward" /\ Len(saved) = Len(net)
  <2>1. pc = "returned" /\ op = "backward"
    BY <1>0, <1>1, EmptyList DEF CallsInOrder
  <2> QED
    BY <1>0, <2>1 DEF CallsInOrder
<1>3. /\ preds = Elements(x) /\ preds = Elements(y_true) /\ \A j \in 0..(at - 1) : Approx[j] < limit
  BY <1>0, <1>2 DEF CallsInOrder
<1>4. PICK e \in 0..preds : /\ loss = LossAt(y_true, x, e) /\ limit <= Approx[e]
                            /\ \A j \in 0..(e - 1) : Approx[j] < limit
  BY <1>0, <1>2 DEF LossSummed
<1>5. at \in 0..preds /\ preds \in 0..Largest /\ limit = Approx[preds] /\ limit <= Approx[at]
  BY <1>0, <1>2 DEF IInv
<1>6. e = at
  <2>1. Largest \in Nat /\ at \in 0..Largest /\ e \in 0..Largest /\ preds \in 0..Largest
    BY <1>5, RoundingAssumption
  <2>2. Approx[at] \in Nat /\ Approx[e] \in Nat /\ limit \in Nat
    BY <1>5, <2>1, RoundingAssumption
  <2>3. CASE e < at
    BY <1>3, <1>4, <2>1, <2>2, <2>3
  <2>4. CASE at < e
    BY <1>4, <1>5, <2>1, <2>2, <2>4
  <2> QED
    BY <2>1, <2>3, <2>4
<1>7. Complete(net, saved, x, y_raw, grads, grad, y_true, at)
  BY <1>0, <1>1, <1>2, <1>3, <1>5 DEF Complete, NetworkRan, GradientCarried
<1> QED
  BY <1>4, <1>6, <1>7, CompleteImplies

\* What forward, the loss and backward have kept at every step (network.hpp:26-57,
\* layer.hpp:24-79, lossfs.hpp:19-46).
THEOREM GradInvariant == Spec => []GInv
BY GInvInit, GInvNext, PTL DEF Spec

\* The gradients backward stores (layer.hpp:61-71) are the derivatives of the loss
\* forward returned, for every network, batch and true outputs.
THEOREM GradientsAreRight == Spec => []GradientsAreDerivatives
BY GradInvariant, GInvImplies, PTL
=============================================================================
