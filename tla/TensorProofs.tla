---------------------------- MODULE TensorProofs ----------------------------
(***************************************************************************)
(* What operator(), the operations that move data, and the batches of      *)
(* matmul find in the flat vector of a tensor, for tensors of any rank and *)
(* any dimensions.  MatmulKernel and TensorData share no state.            *)
(***************************************************************************)
EXTENDS MatmulKernel, TensorData, TensorShapeProofs, FunctionTheorems

-----------------------------------------------------------------------------
(* MatmulKernel: the offsets of the batches.                                 *)

\* The coordinates of a batch are what dividing by the strides of the batch
\* dimensions gives.
LEMMA CoordsAreQuotients ==
  ASSUME OutBatch \in Shape, NEW k \in Nat
  PROVE  \A i \in 1..Len(OutBatch) :
           Coords(k)[i] = (k \div TailSize(OutBatch, i)) % OutBatch[i]
<1> DEFINE dims == OutBatch
           n == Len(dims)
           Quotients(f) == f = [i \in 0..n |-> IF i = n THEN k ELSE f[i + 1] \div dims[i + 1]]
           temp == CHOOSE f : Quotients(f)
           q == [i \in 0..n |-> k \div TailSize(dims, i)]
<1>1. Coords(k) = [i \in 1..n |-> temp[i] % dims[i]]
  BY DEF Coords
<1>2. n \in Nat /\ dims \in Seq(Nat \ {0}) /\ \A i \in 1..n : dims[i] \in Nat \ {0}
  BY DEF Shape, Dim
<1> HIDE DEF dims
<1>3. /\ TailSize(dims, n) = 1
      /\ \A i \in 0..n : TailSize(dims, i) \in Nat \ {0}
      /\ \A i \in 1..n : TailSize(dims, i - 1) = dims[i] * TailSize(dims, i)
  BY <1>2, TailSizes, TailSizesPositive
<1>4. ASSUME NEW i \in 0..n PROVE q[i] = IF i = n THEN k ELSE q[i + 1] \div dims[i + 1]
  <2>1. CASE i = n
    <3>1. k \div 1 = k
      OBVIOUS
    <3> QED
      BY <1>3, <2>1, <3>1
  <2>2. CASE i # n
    <3>1. i + 1 \in 1..n /\ i + 1 - 1 = i /\ i + 1 \in 0..n
      BY <1>2, <2>2
    <3>2. TailSize(dims, i + 1) \in Nat \ {0} /\ dims[i + 1] \in Nat \ {0}
      BY <1>2, <1>3, <3>1
    <3>3. (k \div TailSize(dims, i + 1)) \div dims[i + 1]
            = k \div (dims[i + 1] * TailSize(dims, i + 1))
      BY <3>2, DivDiv, ZenonT(30)
    <3>4. TailSize(dims, i) = dims[i + 1] * TailSize(dims, i + 1)
      BY <1>3, <3>1
    <3>5. q[i] = k \div TailSize(dims, i) /\ q[i + 1] = k \div TailSize(dims, i + 1)
      BY <3>1
    <3> HIDE DEF q
    <3> QED
      BY <2>2, <3>3, <3>4, <3>5
  <2> QED
    BY <2>1, <2>2
<1>5. Quotients(q)
  BY <1>4
<1> HIDE DEF q
<1>6. Quotients(temp)
  BY <1>5
<1> HIDE DEF temp
<1>7. \A i \in 0..n : temp[i] = IF i = n THEN k ELSE temp[i + 1] \div dims[i + 1]
  BY <1>6
<1> HIDE DEF Quotients
<1> DEFINE S == {i \in 0..n : temp[i] = q[i]}
<1>8. n \in S
  BY <1>2, <1>4, <1>7
<1>9. ASSUME NEW i \in 0..(n - 1), i + 1 \in S PROVE i \in S
  <2>1. i \in 0..n /\ i # n
    BY <1>2
  <2>2. temp[i] = temp[i + 1] \div dims[i + 1] /\ q[i] = q[i + 1] \div dims[i + 1]
    BY <1>4, <1>7, <2>1
  <2> QED
    BY <1>9, <2>1, <2>2
<1> HIDE DEF S
<1>10. \A i \in 0..n : i \in S
  BY <1>2, <1>8, <1>9, InductionDownFrom
<1>11. ASSUME NEW i \in 1..n PROVE Coords(k)[i] = (k \div TailSize(dims, i)) % dims[i]
  <2>1. i \in 0..n
    BY <1>2
  <2>2. temp[i] = k \div TailSize(dims, i)
    BY <1>10, <2>1 DEF S, q
  <2> QED
    BY <1>1, <2>2
<1> QED
  BY <1>11 DEF dims

\* The dimensions matmul puts in front of an operand's batch dimensions.
Pad(s) == Len(OutBatch) - (Len(s) - 2)

\* The padded batch dimensions of an operand are those of the result, or 1.
LEMMA PaddedOperand ==
  ASSUME a \in Shape, b \in Shape, CanMatmul(a, b), NEW s, s = a \/ s = b
  PROVE  /\ OutBatch \in Shape
         /\ s \in Shape /\ Len(s) \in Nat /\ Len(s) >= 2
         /\ Len(OutBatch) \in Nat /\ Pad(s) \in Nat
         /\ \A i \in 1..Len(OutBatch) :
              /\ Padded(s)[i] = IF i <= Pad(s) THEN 1 ELSE s[i - Pad(s)]
              /\ Padded(s)[i] \in Nat \ {0}
              /\ Padded(s)[i] = 1 \/ Padded(s)[i] = OutBatch[i]
<1> DEFINE m == BatchDims(a, b)
           pad(u) == m - (Len(u) - 2)
<1>1. /\ Len(a) \in Nat /\ Len(a) >= 2 /\ \A i \in 1..Len(a) : a[i] \in Nat \ {0}
      /\ Len(b) \in Nat /\ Len(b) >= 2 /\ \A i \in 1..Len(b) : b[i] \in Nat \ {0}
  BY DEF CanMatmul, Shape, Dim
<1>2. m \in Nat /\ pad(a) \in Nat /\ pad(b) \in Nat
  BY <1>1 DEF BatchDims
<1>3. OutBatch = [i \in 1..m |-> BroadcastDim(PaddedBatch(a, m)[i], PaddedBatch(b, m)[i])]
  BY DEF OutBatch, BroadcastBatch
<1>4. ASSUME NEW u, u = a \/ u = b, NEW i \in 1..m
      PROVE  /\ PaddedBatch(u, m)[i] = IF i <= pad(u) THEN 1 ELSE u[i - pad(u)]
             /\ PaddedBatch(u, m)[i] \in Nat \ {0}
  <2>1. PaddedBatch(u, m)[i] = IF i <= pad(u) THEN 1 ELSE u[i - pad(u)]
    BY DEF PaddedBatch
  <2>2. i > pad(u) => i - pad(u) \in 1..Len(u)
    BY <1>1, <1>2, <1>4, SMTT(30)
  <2>3. pad(u) \in Nat /\ \A j \in 1..Len(u) : u[j] \in Nat \ {0}
    BY <1>1, <1>2, <1>4
  <2> HIDE DEF pad
  <2> QED
    BY <1>2, <2>1, <2>2, <2>3
<1>5. \A i \in 1..m : \/ PaddedBatch(a, m)[i] = PaddedBatch(b, m)[i]
                      \/ PaddedBatch(a, m)[i] = 1
                      \/ PaddedBatch(b, m)[i] = 1
  BY DEF CanMatmul
<1> HIDE DEF m
<1>6. \A i \in 1..m :
        /\ OutBatch[i] = BroadcastDim(PaddedBatch(a, m)[i], PaddedBatch(b, m)[i])
        /\ OutBatch[i] \in Nat \ {0}
  BY <1>3, <1>4 DEF BroadcastDim
<1>7. Len(OutBatch) = m /\ OutBatch \in Seq(Nat \ {0})
  <2>1. OutBatch \in [1..m -> Nat \ {0}]
    BY <1>3, <1>6
  <2> QED
    BY <1>2, <2>1
<1>8. ASSUME NEW i \in 1..m
      PROVE  PaddedBatch(s, m)[i] = 1 \/ PaddedBatch(s, m)[i] = OutBatch[i]
  BY <1>5, <1>6 DEF BroadcastDim
<1>9. Padded(s) = PaddedBatch(s, m)
  BY DEF Padded, m
<1>10. Pad(s) = pad(s)
  BY <1>7 DEF Pad
<1>11. /\ OutBatch \in Shape /\ s \in Shape
       /\ Len(s) \in Nat /\ Len(s) >= 2 /\ Len(OutBatch) \in Nat /\ Pad(s) \in Nat
  BY <1>1, <1>2, <1>7, <1>10 DEF Shape, Dim
<1> HIDE DEF pad
<1>12. ASSUME NEW i \in 1..Len(OutBatch)
       PROVE  /\ Padded(s)[i] = IF i <= Pad(s) THEN 1 ELSE s[i - Pad(s)]
              /\ Padded(s)[i] \in Nat \ {0}
              /\ Padded(s)[i] = 1 \/ Padded(s)[i] = OutBatch[i]
  <2>1. i \in 1..m
    BY <1>7
  <2> QED
    BY <1>4, <1>8, <1>9, <1>10, <2>1
<1> QED
  BY <1>11, <1>12

\* Where the matrix of an iteration starts, as a sum over the batch dimensions.
LEMMA OffsetSteps ==
  ASSUME a \in Shape, b \in Shape, CanMatmul(a, b), NEW s, s = a \/ s = b,
         NEW k \in Nat, NEW garbage \in Nat
  PROVE  /\ \A i \in 1..Len(OutBatch) :
              /\ Coords(k)[i] \in 0..(OutBatch[i] - 1)
              /\ Coord(s, k, i) \in 0..(Padded(s)[i] - 1)
              /\ StrideAt(s, i, garbage) \in Nat
              /\ i <= Len(s) => StrideAt(s, i, garbage) = TailSize(s, i)
         /\ \E g \in [0..Len(OutBatch) -> Nat] :
              /\ g[0] = 0
              /\ \A i \in 1..Len(OutBatch) :
                   g[i] = g[i - 1] + Coord(s, k, i) * StrideAt(s, i, garbage)
              /\ Offset(s, k, garbage) = g[Len(OutBatch)]
<1> DEFINE m == Len(OutBatch)
           f == [i \in 1..m |-> Coord(s, k, i) * StrideAt(s, i, garbage)]
<1>1. /\ OutBatch \in Shape /\ s \in Shape /\ m \in Nat /\ Len(s) \in Nat
      /\ \A i \in 1..m : /\ Padded(s)[i] \in Nat \ {0}
                         /\ Padded(s)[i] = 1 \/ Padded(s)[i] = OutBatch[i]
  BY PaddedOperand
<1>2. ASSUME NEW i \in 1..m PROVE Coords(k)[i] \in 0..(OutBatch[i] - 1)
  <2>1. OutBatch \in Seq(Nat \ {0}) /\ OutBatch[i] \in Nat \ {0} /\ i \in 0..m
    BY <1>1 DEF Shape, Dim
  <2>2. TailSize(OutBatch, i) \in Nat \ {0}
    BY <2>1, TailSizesPositive
  <2> DEFINE d == OutBatch[i]
             q == k \div TailSize(OutBatch, i)
  <2>3. q \in Nat
    BY <2>2
  <2>4. Coords(k)[i] = q % d
    BY <1>1, CoordsAreQuotients
  <2> HIDE DEF q, d
  <2>5. d \in Nat \ {0}
    BY <2>1 DEF d
  <2>6. q % d \in 0..(d - 1)
    BY <2>3, <2>5
  <2> QED
    BY <2>4, <2>6 DEF d
<1>3. ASSUME NEW i \in 1..m PROVE Coord(s, k, i) \in 0..(Padded(s)[i] - 1)
  BY <1>1, <1>2 DEF Coord
<1>4. ASSUME NEW i \in 1..m
      PROVE  /\ StrideAt(s, i, garbage) \in Nat
             /\ i <= Len(s) => StrideAt(s, i, garbage) = TailSize(s, i)
  <2>1. CASE i <= Len(s)
    <3>1. s \in Seq(Nat \ {0}) /\ i \in 1..Len(s) /\ i \in 0..Len(s)
      BY <1>1, <2>1 DEF Shape, Dim
    <3>2. Strides(s)[i] = TailSize(s, i) /\ TailSize(s, i) \in Nat
      BY <3>1, TailSizes, TailSizesPositive
    <3> QED
      BY <2>1, <3>2 DEF StrideAt
  <2>2. CASE ~(i <= Len(s))
    BY <2>2 DEF StrideAt
  <2> QED
    BY <2>1, <2>2
<1>5. ASSUME NEW i \in 1..m PROVE f[i] = Coord(s, k, i) * StrideAt(s, i, garbage) /\ f[i] \in Nat
  <2>1. Coord(s, k, i) \in Nat /\ StrideAt(s, i, garbage) \in Nat
    BY <1>1, <1>3, <1>4
  <2> QED
    BY <2>1, NatTimes
<1>6. DOMAIN f = 1..m /\ Offset(s, k, garbage) = Summed(f)
  BY DEF Offset, Summed
<1> HIDE DEF f
<1>7. PICK g \in [0..m -> Int] :
        g[0] = 0 /\ (\A i \in 1..m : g[i] = g[i - 1] + f[i]) /\ Summed(f) = g[m]
  <2>1. m \in Nat /\ DOMAIN f = 1..m /\ \A i \in 1..m : f[i] \in Int
    BY <1>1, <1>5, <1>6
  <2> QED
    BY <2>1, SumSteps
<1> DEFINE S == {i \in 0..m : g[i] \in Nat}
<1>8. \A i \in 0..m : g[i] \in Nat
  <2>1. 0 \in S
    BY <1>1, <1>7
  <2>2. ASSUME NEW i \in 0..(m - 1), i \in S PROVE i + 1 \in S
    <3>1. i + 1 \in 1..m /\ i + 1 - 1 = i /\ i + 1 \in 0..m
      BY <1>1
    <3>2. g[i + 1] = g[i] + f[i + 1] /\ f[i + 1] \in Nat
      BY <1>5, <1>7, <3>1
    <3> QED
      BY <2>2, <3>1, <3>2
  <2> HIDE DEF S
  <2>3. \A i \in 0..m : i \in S
    BY <1>1, <2>1, <2>2, InductionUpTo
  <2> QED
    BY <2>3 DEF S
<1>9. g \in [0..m -> Nat]
  BY <1>8
<1>10. \A i \in 1..m : g[i] = g[i - 1] + Coord(s, k, i) * StrideAt(s, i, garbage)
  BY <1>5, <1>7
<1> QED
  BY <1>2, <1>3, <1>4, <1>6, <1>7, <1>9, <1>10

\* A plain matrix is read from its start in every iteration, whatever lies
\* behind its strides.
LEMMA MatrixFromItsStart ==
  ASSUME a \in Shape, b \in Shape, CanMatmul(a, b), NEW s, s = a \/ s = b,
         NEW k \in Nat, NEW garbage \in Nat, Len(s) = 2
  PROVE  Offset(s, k, garbage) = 0
<1> DEFINE m == Len(OutBatch)
<1>1. m \in Nat /\ Pad(s) = m
  BY PaddedOperand DEF Pad
<1>2. \A i \in 1..m : Padded(s)[i] = 1
  BY <1>1, PaddedOperand
<1>3. \A i \in 1..m : StrideAt(s, i, garbage) \in Nat
  BY OffsetSteps
<1>4. \A i \in 1..m : Coord(s, k, i) = 0
  BY <1>2 DEF Coord
<1>5. PICK g \in [0..m -> Nat] :
        /\ g[0] = 0
        /\ \A i \in 1..m : g[i] = g[i - 1] + Coord(s, k, i) * StrideAt(s, i, garbage)
        /\ Offset(s, k, garbage) = g[m]
  BY OffsetSteps, ZenonT(30)
<1> DEFINE S == {i \in 0..m : g[i] = 0}
<1>6. 0 \in S
  BY <1>1, <1>5
<1>7. ASSUME NEW i \in 0..(m - 1), i \in S PROVE i + 1 \in S
  <2>1. i + 1 \in 1..m /\ i + 1 - 1 = i /\ i + 1 \in 0..m
    BY <1>1
  <2>2. Coord(s, k, i + 1) * StrideAt(s, i + 1, garbage) = 0
    BY <1>3, <1>4, <2>1
  <2>3. g[i + 1] = g[i] + 0
    BY <1>5, <2>1, <2>2
  <2> QED
    BY <1>7, <2>1, <2>3
<1> HIDE DEF S
<1>8. m \in S
  <2>1. \A i \in 0..m : i \in S
    BY <1>1, <1>6, <1>7, InductionUpTo
  <2> QED
    BY <1>1, <2>1
<1> QED
  BY <1>5, <1>8 DEF S

\* The size of one matrix of an operand is the stride of its last batch dimension.
LEMMA MatrixSize ==
  ASSUME NEW s \in Shape, Len(s) >= 2
  PROVE  /\ TailSize(s, Len(s) - 2) = Rows(s) * Cols(s)
         /\ Rows(s) * Cols(s) \in Nat \ {0}
<1> DEFINE n == Len(s)
<1>1. /\ n \in Nat /\ n >= 2 /\ s \in Seq(Nat \ {0})
      /\ n - 1 \in 1..n /\ n \in 1..n /\ n - 2 \in 0..n /\ n - 1 - 1 = n - 2
  BY DEF Shape, Dim
<1>2. /\ TailSize(s, n) = 1
      /\ TailSize(s, n - 1) = s[n] * TailSize(s, n)
      /\ TailSize(s, n - 2) = s[n - 1] * TailSize(s, n - 1)
      /\ TailSize(s, n - 2) \in Nat \ {0}
  BY <1>1, TailSizes, TailSizesPositive
<1>3. s[n] * 1 = s[n]
  BY <1>1
<1> QED
  BY <1>2, <1>3 DEF Rows, Cols

\* A stride of the operand for each batch dimension: every matrix an iteration
\* reads lies within the data.  The i-th summand is at most the size of the data
\* behind the operand's dimension before the one it belongs to, less that behind it.
LEMMA MatrixInData ==
  ASSUME a \in Shape, b \in Shape, CanMatmul(a, b), NEW s, s = a \/ s = b,
         NEW k \in Nat, NEW garbage \in Nat, Len(OutBatch) <= Len(s)
  PROVE  InData(s, Offset(s, k, garbage))
<1> DEFINE m == Len(OutBatch)
           pad == Pad(s)
           size == [i \in 0..Len(s) |-> TailSize(s, i)]
<1>1. /\ m \in Nat /\ pad \in Nat /\ s \in Seq(Nat \ {0}) /\ s \in Seq(Nat)
      /\ Len(s) \in Nat /\ Len(s) >= 2 /\ m - pad = Len(s) - 2 /\ s \in Shape
      /\ m <= Len(s) /\ pad <= 2 /\ m = Len(OutBatch)
  BY PaddedOperand DEF Pad, Shape, Dim
<1>2. \A i \in 1..m : Padded(s)[i] = (IF i <= pad THEN 1 ELSE s[i - pad])
  BY PaddedOperand
<1>3. \A i \in 1..m : /\ Coord(s, k, i) \in 0..(Padded(s)[i] - 1)
                      /\ StrideAt(s, i, garbage) = size[i]
  <2>1. \A i \in 1..m : i <= Len(s) /\ i \in 0..Len(s)
    BY <1>1
  <2>2. \A i \in 1..m : /\ Coord(s, k, i) \in 0..(Padded(s)[i] - 1)
                        /\ i <= Len(s) => StrideAt(s, i, garbage) = TailSize(s, i)
    BY OffsetSteps
  <2>3. \A i \in 1..m : size[i] = TailSize(s, i)
    BY <2>1
  <2> HIDE DEF m, size
  <2> QED
    BY <2>1, <2>2, <2>3
<1>4. PICK g \in [0..m -> Nat] :
        /\ g[0] = 0
        /\ \A i \in 1..m : g[i] = g[i - 1] + Coord(s, k, i) * StrideAt(s, i, garbage)
        /\ Offset(s, k, garbage) = g[m]
  BY OffsetSteps
<1>5. /\ size[0] = DataSize(s)
      /\ \A i \in 0..Len(s) : size[i] \in Nat
      /\ \A i \in 1..Len(s) : size[i - 1] = s[i] * size[i] /\ size[i] <= size[i - 1]
  <2>1. /\ TailSize(s, 0) = DataSize(s)
        /\ \A i \in 0..Len(s) : TailSize(s, i) \in Nat
        /\ \A i \in 1..Len(s) : /\ TailSize(s, i - 1) = s[i] * TailSize(s, i)
                               /\ TailSize(s, i) <= TailSize(s, i - 1)
    BY <1>1, TailSizes, TailSizesPositive
  <2>2. 0 \in 0..Len(s) /\ \A i \in 1..Len(s) : i \in 0..Len(s) /\ i - 1 \in 0..Len(s)
    BY <1>1
  <2> QED
    BY <2>1, <2>2
<1> HIDE DEF size, m, pad
<1>6. ASSUME NEW j \in 0..Len(s), NEW d \in Nat, d <= 2, j + d \in 0..Len(s)
      PROVE  size[j + d] <= size[j]
  <2>1. d = 0 \/ d = 1 \/ d = 2
    BY <1>6
  <2>2. CASE d = 0
    BY <1>5, <2>2
  <2>3. CASE d = 1
    <3>1. j + 1 \in 1..Len(s) /\ j + 1 - 1 = j
      BY <1>1, <1>6, <2>3
    <3> QED
      BY <1>5, <2>3, <3>1
  <2>4. CASE d = 2
    <3>1. j + 1 \in 1..Len(s) /\ j + 1 - 1 = j /\ j + 2 \in 1..Len(s) /\ j + 2 - 1 = j + 1
      BY <1>1, <1>6, <2>4
    <3>2. size[j + 1] <= size[j] /\ size[j + 2] <= size[j + 1]
      BY <1>5, <3>1
    <3>3. size[j] \in Nat /\ size[j + 1] \in Nat /\ size[j + 2] \in Nat
      BY <1>1, <1>5, <3>1
    <3> QED
      BY <2>4, <3>2, <3>3
  <2> QED
    BY <2>1, <2>2, <2>3, <2>4
<1> DEFINE Bound(i) == IF i <= pad THEN g[i] = 0 ELSE g[i] + size[i - pad] <= size[0]
           S == {i \in 0..m : Bound(i)}
<1>7. 0 \in S
  BY <1>1, <1>4
<1>8. ASSUME NEW i \in 0..(m - 1), i \in S PROVE i + 1 \in S
  <2>1. i + 1 \in 1..m /\ i + 1 - 1 = i /\ i + 1 \in 0..m /\ i \in 0..m
    BY <1>1
  <2> DEFINE x == Coord(s, k, i + 1)
  <2>2. g[i + 1] = g[i] + x * size[i + 1] /\ x \in 0..(Padded(s)[i + 1] - 1)
    BY <1>3, <1>4, <2>1
  <2>3. g[i] \in Nat /\ g[i + 1] \in Nat /\ i + 1 \in 0..Len(s) /\ size[i + 1] \in Nat
    <3>1. g[i] \in Nat /\ g[i + 1] \in Nat
      BY <2>1
    <3>2. i + 1 \in 0..Len(s)
      BY <1>1, <2>1
    <3> QED
      BY <1>5, <3>1, <3>2
  <2> HIDE DEF x
  <2>4. CASE i + 1 <= pad
    <3>1. x = 0
      BY <1>2, <2>1, <2>2, <2>4
    <3>2. g[i + 1] = g[i] + 0
      BY <2>2, <2>3, <3>1
    <3>3. g[i] = 0
      BY <1>1, <1>8, <2>4
    <3>4. Bound(i + 1)
      BY <2>4, <3>2, <3>3
    <3> QED
      BY <2>1, <3>4
  <2>5. CASE ~(i + 1 <= pad)
    <3>0. PICK j \in Int : j = i + 1 - pad
      BY <1>1, <2>1
    <3> DEFINE d == s[j]
               tail == size[j]
    <3>1. j \in 1..Len(s) /\ j \in 0..Len(s) /\ j + pad = i + 1 /\ pad <= 2
          /\ j - 1 = i - pad /\ j - 1 \in 0..Len(s) /\ i + 1 - pad = j
      BY <1>1, <2>1, <2>5, <3>0
    <3>2. d \in Nat /\ x \in Nat /\ x + 1 <= d /\ tail \in Nat
      <4>1. Padded(s)[i + 1] = s[j]
        <5>1. i + 1 \in 1..m /\ ~(i + 1 <= pad) /\ i + 1 - pad = j
          BY <2>1, <2>5, <3>1
        <5>2. \A p \in 1..m : ~(p <= pad) => Padded(s)[p] = s[p - pad]
          BY <1>2
        <5>3. Padded(s)[i + 1] = s[i + 1 - pad]
          BY <1>1, <5>1, <5>2
        <5> QED
          BY <5>1, <5>3
      <4>2. s[j] \in Nat
        BY <1>1, <3>1
      <4>3. size[j] \in Nat
        BY <1>5, <3>1
      <4> QED
        BY <2>2, <4>1, <4>2, <4>3
    <3>3. size[i + 1] <= tail
      <4>1. j + pad \in 0..Len(s)
        BY <2>3, <3>1
      <4>2. size[j + pad] <= size[j]
        BY <1>1, <1>6, <3>1, <4>1
      <4> QED
        BY <3>1, <4>2
    <3>4. size[j - 1] = d * tail /\ size[j - 1] \in Nat /\ size[0] \in Nat
      <4>1. 0 \in 0..Len(s)
        BY <1>1
      <4> QED
        BY <1>5, <3>1, <4>1
    <3>5. g[i] + d * tail <= size[0]
      <4>1. CASE i <= pad
        <5>1. i = pad /\ j = 1
          BY <1>1, <2>1, <2>5, <3>0, <4>1
        <5>2. Bound(i)
          BY <1>8
        <5>3. g[i] = 0
          BY <4>1, <5>2
        <5> QED
          BY <3>4, <5>1, <5>3
      <4>2. CASE ~(i <= pad)
        <5>1. Bound(i)
          BY <1>8
        <5>2. g[i] + size[i - pad] <= size[0]
          BY <4>2, <5>1
        <5> QED
          BY <3>1, <3>4, <5>2
      <4> QED
        BY <4>1, <4>2
    <3> HIDE DEF d, tail
    <3>6. x * size[i + 1] <= x * tail
      <4>1. size[i + 1] * x <= tail * x
        BY <2>3, <3>2, <3>3, TimesMonotone
      <4>2. \A y, z \in Nat : y * z = z * y
        OBVIOUS
      <4> QED
        BY <2>3, <3>2, <4>1, <4>2
    <3>7. (x + 1) * tail <= d * tail
      BY <3>2, TimesMonotone
    <3>8. (x + 1) * tail = x * tail + tail
      BY <3>2
    <3>9. x * size[i + 1] \in Nat /\ x * tail \in Nat /\ d * tail \in Nat
      BY <2>3, <3>2, NatTimes
    <3>10. g[i + 1] + tail <= size[0]
      <4>1. size[0] \in Nat
        BY <3>4
      <4>2. x * tail + tail <= d * tail
        BY <3>7, <3>8
      <4> DEFINE p == g[i]
                 q == x * size[i + 1]
                 w == x * tail
                 r == d * tail
                 z == size[0]
      <4>3. /\ p \in Nat /\ q \in Nat /\ w \in Nat /\ r \in Nat /\ z \in Nat /\ tail \in Nat
            /\ p + r <= z /\ q <= w /\ w + tail <= r
        BY <2>3, <3>2, <3>5, <3>6, <3>9, <4>1, <4>2
      <4> HIDE DEF p, q, w, r, z
      <4>4. (p + q) + tail <= z
        BY <4>3
      <4>5. g[i + 1] = p + q
        BY <2>2 DEF p, q
      <4> QED
        BY <4>4, <4>5 DEF z
    <3>11. Bound(i + 1)
      <4>1. g[i + 1] + size[i + 1 - pad] <= size[0]
        BY <3>1, <3>10 DEF tail
      <4> QED
        BY <1>1, <2>5, <4>1
    <3> QED
      BY <2>1, <3>11
  <2> QED
    BY <2>4, <2>5
<1> HIDE DEF S
<1>9. \A i \in 0..m : i \in S
  BY <1>1, <1>7, <1>8, InductionUpTo
<1>10. Bound(m)
  BY <1>1, <1>9 DEF S
<1>11. g[m] + size[m - pad] <= size[0]
  <2>1. CASE m <= pad
    <3>1. m = pad /\ g[m] = 0 /\ m - pad = 0
      BY <1>1, <1>10, <2>1
    <3>2. size[0] \in Nat
      BY <1>1, <1>5
    <3> QED
      BY <3>1, <3>2
  <2> QED
    BY <1>10, <2>1
<1>12. size[m - pad] = Rows(s) * Cols(s)
  <2>1. m - pad \in 0..Len(s)
    BY <1>1
  <2>2. size[m - pad] = TailSize(s, Len(s) - 2)
    BY <1>1, <2>1 DEF size
  <2> QED
    BY <1>1, <2>2, MatrixSize
<1> QED
  BY <1>4, <1>5, <1>11, <1>12 DEF InData

\* The coordinates of a batch are the index of its matrix in the result.
LEMMA CoordsAreTheIndex ==
  ASSUME OutBatch \in Shape, NEW idx \in BatchIndices, NEW k, k = FlatIndex(OutBatch, idx)
  PROVE  /\ k \in Nat
         /\ \A i \in 1..Len(OutBatch) : idx[i] \in Nat /\ Coords(k)[i] = idx[i]
<1> DEFINE dims == OutBatch
           n == Len(dims)
           quotients == [i \in 1..n |-> (k \div TailSize(dims, i)) % dims[i]]
<1>1. n \in Nat /\ dims \in Seq(Nat) /\ \A i \in 1..n : dims[i] \in Nat \ {0}
  BY DEF Shape, Dim
<1>2. \A i \in 1..n : idx[i] \in 0..(dims[i] - 1)
  <2>1. ASSUME NEW i \in 1..n PROVE idx[i] \in 0..(dims[i] - 1)
    <3>1. /\ idx \in [1..n -> UNION {0..(dims[j] - 1) : j \in 1..n}]
          /\ idx[i] < dims[i]
      BY DEF BatchIndices
    <3>2. idx[i] \in UNION {0..(dims[j] - 1) : j \in 1..n}
      BY <3>1
    <3>3. PICK j \in 1..n : idx[i] \in 0..(dims[j] - 1)
      BY <3>2
    <3>4. dims[i] \in Nat /\ dims[j] \in Nat
      BY <1>1
    <3> QED
      BY <3>1, <3>3, <3>4
  <2> QED
    BY <2>1
<1>3. k \in 0..(DataSize(dims) - 1)
  BY <1>1, <1>2, FlatIndexInRange
<1>4. k \in Nat
  <2>1. DataSize(dims) \in Nat
    <3>1. 0 \in 0..n
      BY <1>1
    <3> QED
      BY <1>1, <3>1, TailSizes
  <2> QED
    BY <1>3, <2>1
<1>5. /\ FlatIndex(dims, quotients) = k
      /\ \A i \in 1..n : quotients[i] \in 0..(dims[i] - 1)
  BY <1>1, <1>3, Unflatten
<1>6. \A i \in 1..n : Coords(k)[i] = quotients[i]
  BY <1>4, CoordsAreQuotients
<1> HIDE DEF quotients
<1>7. \A i \in 1..n : idx[i] = quotients[i]
  <2>1. FlatIndex(dims, idx) = FlatIndex(dims, quotients)
    BY <1>5
  <2>2. dims \in Seq(Nat) /\ \A i \in 1..Len(dims) : quotients[i] \in 0..(dims[i] - 1)
    BY <1>1, <1>5
  <2>3. \A i \in 1..Len(dims) : idx[i] \in 0..(dims[i] - 1)
    BY <1>2
  <2> HIDE DEF dims
  <2>4. \A i \in 1..Len(dims) : idx[i] = quotients[i]
    BY <2>1, <2>2, <2>3, FlatIndexOneToOne, ZenonT(30)
  <2> QED
    BY <2>4
<1>8. \A i \in 1..n : idx[i] \in Nat
  BY <1>1, <1>2
<1> QED
  BY <1>4, <1>6, <1>7, <1>8

\* An operand whose batch dimensions are all there, or that has none, is read
\* where broadcasting puts it.
LEMMA AlignedIsBroadcast ==
  ASSUME a \in Shape, b \in Shape, CanMatmul(a, b), NEW s, s = a \/ s = b,
         NEW idx \in BatchIndices, NEW k, k = FlatIndex(OutBatch, idx),
         NEW garbage \in Nat, Aligned(s)
  PROVE  Broadcast(s, idx, Offset(s, k, garbage))
<1> DEFINE m == Len(OutBatch)
           n == Len(s) - 2
           jdx == [i \in 1..Len(s) |->
                     IF i > n \/ s[i] = 1 THEN 0 ELSE idx[i + (m - n)]]
           h == [i \in 1..Len(s) |-> jdx[i] * Strides(s)[i]]
           f == [i \in 1..m |-> Coord(s, k, i) * StrideAt(s, i, garbage)]
<1>1. /\ OutBatch \in Shape /\ s \in Shape /\ Len(s) \in Nat /\ Len(s) >= 2
      /\ m \in Nat /\ Pad(s) = m - n
      /\ \A i \in 1..m : Padded(s)[i] = IF i <= Pad(s) THEN 1 ELSE s[i - Pad(s)]
  BY PaddedOperand DEF Pad
<1>2. k \in Nat /\ \A i \in 1..m : idx[i] \in Nat /\ Coords(k)[i] = idx[i]
  BY <1>1, CoordsAreTheIndex
<1>3. MatrixAt(s, idx) = Summed(h)
  BY DEF MatrixAt, FlatIndex, Summed
<1>4. \A i \in 1..Len(s) : Strides(s)[i] = TailSize(s, i) /\ TailSize(s, i) \in Nat
  <2>1. s \in Seq(Nat) /\ \A i \in 1..Len(s) : i \in 0..Len(s)
    BY <1>1 DEF Shape, Dim
  <2> QED
    BY <2>1, TailSizes
<1>5. Offset(s, k, garbage) = Summed(f)
  BY DEF Offset, Summed
<1>6. CASE Len(s) = 2
  <2>1. Offset(s, k, garbage) = 0
    BY <1>2, <1>6, MatrixFromItsStart
  <2> DEFINE none == [i \in 1..0 |-> 0]
  <2>2. Summed(h) = Summed(none)
    <3>1. ASSUME NEW i \in 1..Len(s) PROVE h[i] = IF i <= 0 THEN none[i] ELSE 0
      <4>1. jdx[i] = 0
        BY <1>6
      <4>2. h[i] = 0 * Strides(s)[i] /\ Strides(s)[i] \in Nat
        BY <1>4, <4>1
      <4> QED
        BY <4>2
    <3>2. DOMAIN h = 1..Len(s) /\ DOMAIN none = 1..0 /\ \A i \in 1..0 : none[i] \in Int
      OBVIOUS
    <3> HIDE DEF h, none
    <3> QED
      BY <1>1, <3>1, <3>2, TrailingZeros, SMTT(30)
  <2>3. Summed(none) = 0
    <3>1. DOMAIN none = 1..0 /\ \A i \in 1..0 : none[i] \in Int
      OBVIOUS
    <3> HIDE DEF none
    <3>2. PICK g \in [0..0 -> Int] : g[0] = 0 /\ Summed(none) = g[0]
      BY <3>1, SumSteps
    <3> QED
      BY <3>2
  <2> QED
    BY <1>3, <2>1, <2>2, <2>3 DEF Broadcast
<1>7. CASE n = m
  <2>1. ASSUME NEW i \in 1..m
        PROVE  /\ Coord(s, k, i) = jdx[i] /\ jdx[i] \in Nat
               /\ StrideAt(s, i, garbage) = Strides(s)[i]
               /\ i \in 1..Len(s)
    <3>1. i \in 1..Len(s) /\ i <= Len(s) /\ i <= n /\ Pad(s) = 0 /\ i - 0 = i /\ i + 0 = i
      BY <1>1, <1>7
    <3>2. Padded(s)[i] = s[i]
      BY <1>1, <3>1
    <3>3. jdx[i] = IF s[i] = 1 THEN 0 ELSE idx[i]
      BY <1>1, <1>7, <3>1
    <3> HIDE DEF jdx, n
    <3>4. Coord(s, k, i) = jdx[i] /\ jdx[i] \in Nat
      BY <1>2, <3>2, <3>3 DEF Coord
    <3>5. StrideAt(s, i, garbage) = Strides(s)[i]
      BY <3>1 DEF StrideAt
    <3> QED
      BY <3>1, <3>4, <3>5
  <2>2. ASSUME NEW i \in 1..m PROVE f[i] = h[i] /\ f[i] \in Int
    <3>1. f[i] = jdx[i] * Strides(s)[i] /\ h[i] = jdx[i] * Strides(s)[i]
      BY <2>1
    <3>2. jdx[i] \in Nat /\ Strides(s)[i] \in Nat
      BY <1>4, <2>1
    <3>3. jdx[i] * Strides(s)[i] \in Nat
      BY <3>2, NatTimes
    <3> QED
      BY <3>1, <3>3
  <2>3. ASSUME NEW i \in 1..Len(s), ~(i <= m) PROVE h[i] = 0
    <3>1. jdx[i] = 0
      BY <1>1, <1>7, <2>3
    <3>2. h[i] = 0 * Strides(s)[i] /\ Strides(s)[i] \in Nat
      BY <1>4, <3>1
    <3> QED
      BY <3>2
  <2>4. DOMAIN h = 1..Len(s) /\ DOMAIN f = 1..m /\ m <= Len(s)
    BY <1>1, <1>7
  <2> HIDE DEF h, f, m
  <2>5. ASSUME NEW i \in 1..Len(s) PROVE h[i] = IF i <= m THEN f[i] ELSE 0
    <3>1. i <= m => i \in 1..m
      BY <1>1
    <3> QED
      BY <2>2, <2>3, <3>1
  <2>6. Summed(h) = Summed(f)
    <3>1. m \in Nat /\ Len(s) \in Nat /\ m <= Len(s)
      BY <1>1, <2>4
    <3>2. DOMAIN f = 1..m /\ \A i \in 1..m : f[i] \in Int
      BY <2>2, <2>4
    <3>3. DOMAIN h = 1..Len(s) /\ \A i \in 1..Len(s) : h[i] = IF i <= m THEN f[i] ELSE 0
      BY <2>4, <2>5
    <3> QED
      BY <3>1, <3>2, <3>3, TrailingZeros
  <2> QED
    BY <1>3, <1>5, <2>6 DEF Broadcast
<1> QED
  BY <1>6, <1>7 DEF Aligned

\* What iterations compute of the operands, and what the properties say of it,
\* depends on the operands alone.
LEMMA SameResult ==
  ASSUME a' = a, b' = b
  PROVE  /\ OutBatch' = OutBatch
         /\ BatchIndices' = BatchIndices
         /\ \A k : Coords(k)' = Coords(k)
<1>1. OutBatch' = OutBatch
  BY DEF OutBatch
<1>2. BatchIndices' = BatchIndices
  BY <1>1 DEF BatchIndices
<1>3. ASSUME NEW k PROVE Coords(k)' = Coords(k)
  BY <1>1 DEF Coords
<1> QED
  BY <1>1, <1>2, <1>3

LEMMA SameOffsets ==
  ASSUME a' = a, b' = b, NEW k, NEW garbage
  PROVE  /\ Offset(a, k, garbage)' = Offset(a, k, garbage)
         /\ Offset(b, k, garbage)' = Offset(b, k, garbage)
<1> DEFINE f == [i \in 1..Len(OutBatch) |-> Coord(a, k, i) * StrideAt(a, i, garbage)]
           g == [i \in 1..Len(OutBatch) |-> Coord(b, k, i) * StrideAt(b, i, garbage)]
<1>1. OutBatch' = OutBatch /\ Coords(k)' = Coords(k)
  BY SameResult
<1>2. Padded(a)' = Padded(a) /\ Padded(b)' = Padded(b)
  BY DEF Padded
<1>3. ASSUME NEW i
      PROVE  /\ Coord(a, k, i)' = Coord(a, k, i) /\ StrideAt(a, i, garbage)' = StrideAt(a, i, garbage)
             /\ Coord(b, k, i)' = Coord(b, k, i) /\ StrideAt(b, i, garbage)' = StrideAt(b, i, garbage)
  BY <1>1, <1>2 DEF Coord, StrideAt
<1>4. f' = f /\ g' = g
  BY <1>1, <1>3
<1>5. Offset(a, k, garbage) = Summed(f) /\ Offset(b, k, garbage) = Summed(g)
  BY DEF Offset, Summed
<1>6. (Offset(a, k, garbage) = Summed(f) /\ Offset(b, k, garbage) = Summed(g))'
  BY DEF Offset, Summed
<1> HIDE DEF f, g
<1> QED
  BY <1>4, <1>5, <1>6

-----------------------------------------------------------------------------
\* Every iteration so far has stored the offsets of its batch, whatever it read
\* behind the strides.
StoredOffsets ==
  \A n \in 1..Len(offsets) : \E ga, gb \in Garbage :
    offsets[n] = [a |-> Offset(a, n - 1, ga), b |-> Offset(b, n - 1, gb)]

KernelInvariant ==
  /\ KernelTypeOK
  /\ pc = "loop" => CanMatmul(a, b)
  /\ StoredOffsets

LEMMA KernelInvariantInit == KernelInit => KernelInvariant
BY DEF KernelInit, KernelInvariant, KernelTypeOK, StoredOffsets

\* An iteration appends offsets for the next batch.
LEMMA IteratePreserves ==
  ASSUME KernelInvariant, Iterate
  PROVE  KernelInvariant'
<1> DEFINE n == Len(offsets)
           stored(ga, gb) == [a |-> Offset(a, n, ga), b |-> Offset(b, n, gb)]
<1>1. /\ a \in Shape /\ b \in Shape /\ CanMatmul(a, b) /\ a' = a /\ b' = b /\ pc' = pc /\ pc = "loop"
      /\ a \in Operands /\ b \in Operands
      /\ n \in Nat /\ n < DataSize(OutBatch) /\ offsets \in Seq([a : Nat, b : Nat])
  BY KernelAssumption DEF KernelInvariant, KernelTypeOK, Iterate, Batches
<1>2. PICK ga, gb \in Garbage : offsets' = Append(offsets, stored(ga, gb))
  BY DEF Iterate
<1>3. ga \in Nat /\ gb \in Nat
  BY KernelAssumption
<1>4. Offset(a, n, ga) \in Nat /\ Offset(b, n, gb) \in Nat
  <2>1. ASSUME NEW s, s = a \/ s = b, NEW garbage \in Nat PROVE Offset(s, n, garbage) \in Nat
    <3>1. PICK g \in [0..Len(OutBatch) -> Nat] : Offset(s, n, garbage) = g[Len(OutBatch)]
      BY <1>1, <2>1, OffsetSteps
    <3>2. Len(OutBatch) \in Nat
      BY <1>1, PaddedOperand
    <3> QED
      BY <3>1, <3>2
  <2> QED
    BY <1>3, <2>1
<1>5. stored(ga, gb) \in [a : Nat, b : Nat]
  BY <1>4
<1>6. OutBatch' = OutBatch
  BY <1>1, SameResult
<1> HIDE DEF stored
<1>7. /\ offsets' \in Seq([a : Nat, b : Nat]) /\ Len(offsets') = n + 1
      /\ \A i \in 1..n : offsets'[i] = offsets[i]
      /\ offsets'[n + 1] = stored(ga, gb)
  BY <1>1, <1>2, <1>5
<1>8. DataSize(OutBatch) \in Nat
  <2>1. OutBatch \in Shape
    BY <1>1, PaddedOperand
  <2>2. OutBatch \in Seq(Nat) /\ 0 \in 0..Len(OutBatch)
    BY <2>1 DEF Shape, Dim
  <2> QED
    BY <2>2, TailSizes
<1>9. KernelTypeOK'
  BY <1>1, <1>6, <1>7, <1>8 DEF KernelTypeOK
<1>10. (pc = "loop" => CanMatmul(a, b))'
  BY <1>1
<1>11. StoredOffsets'
  <2>1. ASSUME NEW i \in 1..Len(offsets')
        PROVE  \E xa, xb \in Garbage :
                 offsets'[i] = [a |-> Offset(a, i - 1, xa), b |-> Offset(b, i - 1, xb)]
    <3>1. CASE i \in 1..n
      BY <1>7, <3>1 DEF KernelInvariant, StoredOffsets
    <3>2. CASE i \notin 1..n
      <4>1. i = n + 1 /\ i - 1 = n
        BY <1>1, <1>7, <3>2
      <4> QED
        BY <1>7, <4>1 DEF stored
    <3> QED
      BY <3>1, <3>2
  <2>2. ASSUME NEW k, NEW garbage
        PROVE  /\ Offset(a, k, garbage)' = Offset(a, k, garbage)
               /\ Offset(b, k, garbage)' = Offset(b, k, garbage)
    BY <1>1, SameOffsets
  <2> QED
    BY <2>1, <2>2 DEF StoredOffsets
<1> QED
  BY <1>9, <1>10, <1>11 DEF KernelInvariant

\* The inductive invariant: the offsets stored are those computed, and no
\* iteration runs before the shapes have been accepted.
THEOREM KernelInvariantHolds == KernelSpec => []KernelInvariant
<1>1. ASSUME KernelInvariant, [KernelNext]_kernelVars PROVE KernelInvariant'
  <2>1. ASSUME UNCHANGED <<a, b, offsets>>, (pc = "loop" => CanMatmul(a, b))',
               pc' \in {"check", "loop", "done", "threw"}
        PROVE  KernelInvariant'
    <3>1. OutBatch' = OutBatch
      BY <2>1, SameResult
    <3>2. KernelTypeOK'
      BY <1>1, <2>1, <3>1 DEF KernelInvariant, KernelTypeOK
    <3>3. ASSUME NEW k, NEW garbage
          PROVE  /\ Offset(a, k, garbage)' = Offset(a, k, garbage)
                 /\ Offset(b, k, garbage)' = Offset(b, k, garbage)
      BY <2>1, SameOffsets
    <3>4. StoredOffsets'
      BY <1>1, <2>1, <3>3 DEF KernelInvariant, StoredOffsets
    <3> QED
      BY <2>1, <3>2, <3>4 DEF KernelInvariant
  <2>2. CASE Check
    BY <1>1, <2>1, <2>2 DEF Check
  <2>3. CASE Iterate
    BY <1>1, <2>3, IteratePreserves
  <2>4. CASE Finish
    BY <1>1, <2>1, <2>4 DEF Finish
  <2>5. CASE UNCHANGED kernelVars
    BY <1>1, <2>1, <2>5 DEF kernelVars, KernelInvariant, KernelTypeOK
  <2> QED
    BY <1>1, <2>2, <2>3, <2>4, <2>5 DEF KernelNext
<1> QED
  BY <1>1, KernelInvariantInit, PTL DEF KernelSpec

\* One pair of offsets for each batch of the result, and no more (tensor.hpp:242).
THEOREM KernelTypes == KernelSpec => []KernelTypeOK
<1>1. KernelInvariant => KernelTypeOK
  BY DEF KernelInvariant
<1> QED
  BY <1>1, KernelInvariantHolds, PTL

\* Products of equal ranks, and products with a matrix, read the matrix that
\* broadcasting pairs up, whatever the ranks and the dimensions (tensor.hpp:242-262).
THEOREM KernelBroadcasts == KernelSpec => []AlignedOperandsBroadcast
<1>1. ASSUME KernelInvariant PROVE AlignedOperandsBroadcast
  <2>1. ASSUME NEW n \in 1..Len(offsets), NEW idx \in BatchIndices,
               FlatIndex(OutBatch, idx) = n - 1
        PROVE  /\ Aligned(a) => Broadcast(a, idx, offsets[n].a)
               /\ Aligned(b) => Broadcast(b, idx, offsets[n].b)
    <3>1. a \in Shape /\ b \in Shape /\ CanMatmul(a, b)
      BY <1>1, KernelAssumption DEF KernelInvariant, KernelTypeOK
    <3>2. PICK ga, gb \in Garbage :
            offsets[n] = [a |-> Offset(a, n - 1, ga), b |-> Offset(b, n - 1, gb)]
      BY <1>1 DEF KernelInvariant, StoredOffsets
    <3>3. ga \in Nat /\ gb \in Nat
      BY KernelAssumption
    <3>4. Aligned(a) => Broadcast(a, idx, Offset(a, n - 1, ga))
      BY <2>1, <3>1, <3>3, AlignedIsBroadcast
    <3>5. Aligned(b) => Broadcast(b, idx, Offset(b, n - 1, gb))
      BY <2>1, <3>1, <3>3, AlignedIsBroadcast
    <3> QED
      BY <3>2, <3>4, <3>5
  <2> QED
    BY <2>1 DEF AlignedOperandsBroadcast
<1> QED
  BY <1>1, KernelInvariantHolds, PTL

\* With strides enough, every matrix an iteration reads lies in the operand's
\* data, also where broadcasting would have chosen another (tensor.hpp:250-262).
THEOREM KernelReadsInData == KernelSpec => []ReadsStayInData
<1>1. ASSUME KernelInvariant PROVE ReadsStayInData
  <2>1. ASSUME NEW n \in 1..Len(offsets)
        PROVE  /\ StridesSuffice(a) => InData(a, offsets[n].a)
               /\ StridesSuffice(b) => InData(b, offsets[n].b)
    <3>1. a \in Shape /\ b \in Shape /\ CanMatmul(a, b) /\ n - 1 \in Nat
      BY <1>1, KernelAssumption DEF KernelInvariant, KernelTypeOK
    <3>2. PICK ga, gb \in Garbage :
            offsets[n] = [a |-> Offset(a, n - 1, ga), b |-> Offset(b, n - 1, gb)]
      BY <1>1 DEF KernelInvariant, StoredOffsets
    <3>3. ASSUME NEW s, s = a \/ s = b, NEW garbage \in Nat, StridesSuffice(s)
          PROVE  InData(s, Offset(s, n - 1, garbage))
      <4>1. CASE Len(OutBatch) <= Len(s)
        BY <3>1, <3>3, <4>1, MatrixInData
      <4>2. CASE Len(s) = 2
        <5>1. Offset(s, n - 1, garbage) = 0
          BY <3>1, <3>3, <4>2, MatrixFromItsStart
        <5>2. s[1] \in Nat /\ s[2] \in Nat
          <6>1. s \in Shape
            BY <3>1, <3>3
          <6>2. \A i \in 1..Len(s) : s[i] \in Nat
            BY <6>1 DEF Shape, Dim
          <6> QED
            BY <4>2, <6>2
        <5>3. s[1] * s[2] \in Nat
          BY <5>2, NatTimes
        <5> QED
          BY <4>2, <5>1, <5>3 DEF InData, Rows, Cols, DataSize
      <4> QED
        BY <3>3, <4>1, <4>2 DEF StridesSuffice
    <3>4. ga \in Nat /\ gb \in Nat
      BY KernelAssumption
    <3>5. /\ StridesSuffice(a) => InData(a, Offset(a, n - 1, ga))
          /\ StridesSuffice(b) => InData(b, Offset(b, n - 1, gb))
      BY <3>3, <3>4
    <3> QED
      BY <3>2, <3>5
  <2> QED
    BY <2>1 DEF ReadsStayInData
<1> QED
  BY <1>1, KernelInvariantHolds, PTL

-----------------------------------------------------------------------------
(* TensorData: where the element of an index lies.                           *)

\* The indices of a shape, as the facts about flat indices speak of them.
LEMMA IndicesInRange ==
  ASSUME NEW s \in Seq(Nat), NEW idx \in Indices(s)
  PROVE  \A i \in 1..Len(s) : idx[i] \in 0..(s[i] - 1)
<1> SUFFICES ASSUME NEW i \in 1..Len(s) PROVE idx[i] \in 0..(s[i] - 1)
  OBVIOUS
<1>1. idx \in [1..Len(s) -> UNION {0..(s[j] - 1) : j \in 1..Len(s)}] /\ idx[i] < s[i]
  BY DEF Indices
<1>2. idx[i] \in UNION {0..(s[j] - 1) : j \in 1..Len(s)}
  BY <1>1
<1>3. PICK j \in 1..Len(s) : idx[i] \in 0..(s[j] - 1)
  BY <1>2
<1>4. s[i] \in Nat /\ s[j] \in Nat
  OBVIOUS
<1> QED
  BY <1>1, <1>3, <1>4

LEMMA InRangeIsIndex ==
  ASSUME NEW s \in Seq(Nat), NEW idx, DOMAIN idx = 1..Len(s), idx = [i \in DOMAIN idx |-> idx[i]],
         \A i \in 1..Len(s) : idx[i] \in 0..(s[i] - 1)
  PROVE  idx \in Indices(s)
<1> DEFINE coordinates == UNION {0..(s[j] - 1) : j \in 1..Len(s)}
<1>1. ASSUME NEW i \in 1..Len(s) PROVE idx[i] \in coordinates /\ idx[i] < s[i]
  <2>1. idx[i] \in 0..(s[i] - 1) /\ s[i] \in Nat
    OBVIOUS
  <2> QED
    BY <2>1
<1> HIDE DEF coordinates
<1>2. idx \in [1..Len(s) -> coordinates]
  BY <1>1
<1> QED
  BY <1>1, <1>2 DEF Indices, coordinates

LEMMA IndexIsFunction ==
  ASSUME NEW s, NEW idx \in Indices(s)
  PROVE  DOMAIN idx = 1..Len(s) /\ idx = [i \in 1..Len(s) |-> idx[i]]
BY DEF Indices

\* Two indices that agree in every coordinate are the same.
LEMMA SameIndex ==
  ASSUME NEW s, NEW idx \in Indices(s), NEW jdx \in Indices(s),
         \A i \in 1..Len(s) : idx[i] = jdx[i]
  PROVE  idx = jdx
<1>1. idx = [i \in 1..Len(s) |-> idx[i]] /\ jdx = [i \in 1..Len(s) |-> jdx[i]]
  BY IndexIsFunction
<1> QED
  BY <1>1

\* operator() finds the elements of a tensor at different places, all within
\* its data, and every element is found.
LEMMA Places ==
  ASSUME NEW s \in Seq(Nat)
  PROVE  /\ DataSize(s) \in Nat
         /\ \A idx \in Indices(s) : FlatIndex(s, idx) \in 0..(DataSize(s) - 1)
         /\ \A idx, jdx \in Indices(s) : FlatIndex(s, idx) = FlatIndex(s, jdx) => idx = jdx
         /\ \A k \in 0..(DataSize(s) - 1) : \E idx \in Indices(s) : FlatIndex(s, idx) = k
<1>1. DataSize(s) \in Nat
  <2>1. TailSize(s, 0) = DataSize(s) /\ TailSize(s, 0) \in Nat
    <3>1. /\ TailSize(s, 0) = DataSize(s)
          /\ \A i \in 0..Len(s) : TailSize(s, i) \in Nat
      BY TailSizes
    <3> QED
      BY <3>1
  <2> QED
    BY <2>1
<1>2. ASSUME NEW idx \in Indices(s) PROVE FlatIndex(s, idx) \in 0..(DataSize(s) - 1)
  <2>1. \A i \in 1..Len(s) : idx[i] \in 0..(s[i] - 1)
    BY IndicesInRange
  <2> QED
    BY <2>1, FlatIndexInRange
<1>3. ASSUME NEW idx \in Indices(s), NEW jdx \in Indices(s), FlatIndex(s, idx) = FlatIndex(s, jdx)
      PROVE  idx = jdx
  <2>1. \A i \in 1..Len(s) : idx[i] \in 0..(s[i] - 1)
    BY IndicesInRange
  <2>2. \A i \in 1..Len(s) : jdx[i] \in 0..(s[i] - 1)
    BY IndicesInRange
  <2>3. \A i \in 1..Len(s) : idx[i] = jdx[i]
    BY <1>3, <2>1, <2>2, FlatIndexOneToOne, ZenonT(30)
  <2> QED
    BY <2>3, SameIndex
<1>4. ASSUME NEW k \in 0..(DataSize(s) - 1) PROVE \E idx \in Indices(s) : FlatIndex(s, idx) = k
  <2> DEFINE idx == [i \in 1..Len(s) |-> (k \div TailSize(s, i)) % s[i]]
  <2>1. FlatIndex(s, idx) = k /\ \A i \in 1..Len(s) : idx[i] \in 0..(s[i] - 1)
    BY Unflatten
  <2>2. DOMAIN idx = 1..Len(s) /\ idx = [i \in DOMAIN idx |-> idx[i]]
    OBVIOUS
  <2> HIDE DEF idx
  <2>3. idx \in Indices(s)
    BY <2>1, <2>2, InRangeIsIndex
  <2> QED
    BY <2>1, <2>3
<1> QED
  BY <1>1, <1>2, <1>3, <1>4

\* Counting the indices before an index gives its place in the flat vector.
LEMMA OrderIsFlatIndex ==
  ASSUME NEW s \in Seq(Nat), NEW idx \in Indices(s)
  PROVE  Order(s, idx) = FlatIndex(s, idx)
<1> DEFINE here == FlatIndex(s, idx)
           Precedes(j, i) == j[i] < idx[i] /\ \A k \in 1..(i - 1) : j[k] = idx[k]
           before == {j \in Indices(s) : \E i \in 1..Len(s) : Precedes(j, i)}
           f == [j \in before |-> FlatIndex(s, j)]
<1>0. Order(s, idx) = Cardinality(before)
  BY DEF Order
<1>1. here \in 0..(DataSize(s) - 1) /\ DataSize(s) \in Nat
  BY Places
<1>2. ASSUME NEW j \in before PROVE FlatIndex(s, j) \in 0..(here - 1)
  <2>1. PICK i \in 1..Len(s) : Precedes(j, i)
    OBVIOUS
  <2>2. j \in Indices(s)
    OBVIOUS
  <2>3. \A m \in 1..Len(s) : j[m] \in 0..(s[m] - 1)
    BY <2>2, IndicesInRange
  <2>4. \A m \in 1..Len(s) : idx[m] \in 0..(s[m] - 1)
    BY IndicesInRange
  <2>5. FlatIndex(s, j) < FlatIndex(s, idx)
    BY <2>1, <2>3, <2>4, RowMajor
  <2>6. FlatIndex(s, j) \in 0..(DataSize(s) - 1)
    BY <2>2, Places
  <2> QED
    BY <1>1, <2>5, <2>6
<1>3. ASSUME NEW k \in 0..(here - 1) PROVE \E j \in before : FlatIndex(s, j) = k
  <2>0. k \in 0..(DataSize(s) - 1)
    BY <1>1
  <2>1. PICK j \in Indices(s) : FlatIndex(s, j) = k
    BY <2>0, Places
  <2>2. FlatIndex(s, j) < FlatIndex(s, idx)
    BY <1>1, <2>1
  <2>3. \A m \in 1..Len(s) : j[m] \in 0..(s[m] - 1)
    BY IndicesInRange
  <2>4. \A m \in 1..Len(s) : idx[m] \in 0..(s[m] - 1)
    BY IndicesInRange
  <2>5. \E q \in 1..Len(s) : idx[q] # j[q]
    <3> SUFFICES ASSUME \A q \in 1..Len(s) : idx[q] = j[q] PROVE FALSE
      OBVIOUS
    <3>1. idx = j
      BY SameIndex
    <3> QED
      BY <1>1, <2>1, <2>2, <3>1
  <2>6. PICK p \in 1..Len(s) : DiffersFirst(idx, j, p)
    <3>1. Len(s) \in Nat
      OBVIOUS
    <3>2. PICK q \in 1..Len(s) : idx[q] # j[q]
      BY <2>5
    <3> QED
      BY <3>1, <3>2, FirstDifference
  <2>7. idx[p] # j[p] /\ \A m \in 1..(p - 1) : idx[m] = j[m]
    BY <2>6 DEF DiffersFirst
  <2>8. ~(idx[p] < j[p])
    <3> SUFFICES ASSUME idx[p] < j[p] PROVE FALSE
      OBVIOUS
    <3>1. FlatIndex(s, idx) < FlatIndex(s, j)
      BY <2>3, <2>4, <2>7, RowMajor
    <3> QED
      BY <1>1, <2>1, <2>2, <3>1
  <2>9. j[p] < idx[p]
    <3>1. j[p] \in Int /\ idx[p] \in Int
      BY <2>3, <2>4
    <3> QED
      BY <2>7, <2>8, <3>1
  <2>10. Precedes(j, p)
    BY <2>7, <2>9
  <2>11. j \in before
    BY <2>10
  <2> QED
    BY <2>1, <2>11
<1>4. before \subseteq Indices(s)
  OBVIOUS
<1> HIDE DEF before, here, Precedes
<1>5. f \in Bijection(before, 0..(here - 1))
  <2>1. f \in [before -> 0..(here - 1)]
    BY <1>2
  <2>2. \A j1, j2 \in before : f[j1] = f[j2] => j1 = j2
    BY <1>4, Places
  <2>3. \A k \in 0..(here - 1) : \E j \in before : f[j] = k
    BY <1>3
  <2> HIDE DEF f
  <2> QED
    BY <2>1, <2>2, <2>3 DEF Bijection, Injection, Surjection, IsInjective
<1>6. ExistsBijection(0..(here - 1), before)
  <2>1. ExistsBijection(before, 0..(here - 1))
    BY <1>5 DEF ExistsBijection
  <2> QED
    BY <2>1, Fun_ExistsBijSymmetric
<1>7. here \in Nat
  BY <1>1
<1>8. IsFiniteSet(0..(here - 1)) /\ Cardinality(0..(here - 1)) = here
  <2>1. 0 \in Int /\ here - 1 \in Int
    BY <1>7
  <2>2. /\ IsFiniteSet(0..(here - 1))
        /\ Cardinality(0..(here - 1)) = IF 0 > here - 1 THEN 0 ELSE (here - 1) - 0 + 1
    BY <2>1, FS_Interval
  <2>3. (IF 0 > here - 1 THEN 0 ELSE (here - 1) - 0 + 1) = here
    BY <1>7
  <2> QED
    BY <2>2, <2>3
<1>9. Cardinality(before) = here
  BY <1>6, <1>8, FS_Bijection
<1> QED
  BY <1>0, <1>9 DEF here

\* Where operator() looks in a tensor whose strides are those of its shape.
LEMMA PositionIsFlatIndex ==
  ASSUME NEW x, NEW s \in Seq(Nat), x.strides = Strides(s), NEW idx \in Indices(s)
  PROVE  Position(x, idx) = 1 + FlatIndex(s, idx)
<1> DEFINE n == Len(s)
           strides == Strides(s)
           f == [i \in 1..n |-> idx[i] * strides[i]]
<1>1. Len(idx) = n /\ idx \in Seq(Nat)
  <2>1. n \in Nat
    OBVIOUS
  <2>2. DOMAIN idx = 1..n /\ idx = [i \in 1..n |-> idx[i]]
    BY IndexIsFunction
  <2>3. \A i \in 1..n : idx[i] \in Nat
    <3>1. \A i \in 1..n : idx[i] \in 0..(s[i] - 1)
      BY IndicesInRange
    <3> QED
      BY <3>1
  <2> QED
    BY <2>1, <2>2, <2>3
<1>2. FlatIndex(s, idx) = Summed(f)
  BY DEF FlatIndex, Summed
<1>3. Position(x, idx) = 1 + Summed([i \in 1..Len(idx) |-> idx[i] * x.strides[i]])
  BY DEF Position, Summed
<1>4. [i \in 1..Len(idx) |-> idx[i] * x.strides[i]] = f
  BY <1>1
<1> HIDE DEF f
<1> QED
  BY <1>2, <1>3, <1>4

\* One coordinate is the place; of two, the second counts on from rows of the
\* second dimension.
LEMMA VectorIndex ==
  ASSUME NEW s \in Seq(Nat), Len(s) = 1, NEW idx \in Indices(s)
  PROVE  FlatIndex(s, idx) = idx[1] /\ idx[1] \in 0..(s[1] - 1)
<1>1. \A i \in 1..Len(s) : idx[i] \in 0..(s[i] - 1)
  BY IndicesInRange
<1>2. PICK h \in [0..Len(s) -> Nat] :
        /\ h[0] = 0
        /\ \A i \in 1..Len(s) : h[i] = h[i - 1] * s[i] + idx[i]
        /\ h[Len(s)] = FlatIndex(s, idx)
        /\ \A i \in 0..Len(s) : h[i] * TailSize(s, i) + TailSize(s, i) <= DataSize(s)
  BY <1>1, PartialOffsets
<1>3. 1 \in 1..Len(s) /\ s[1] \in Nat
  OBVIOUS
<1>4. h[1] = h[1 - 1] * s[1] + idx[1] /\ 1 - 1 = 0 /\ h[1] = FlatIndex(s, idx)
  BY <1>2, <1>3
<1>5. 0 * s[1] = 0 /\ idx[1] \in 0..(s[1] - 1)
  BY <1>1, <1>3
<1>6. h[1] = 0 + idx[1]
  BY <1>2, <1>4, <1>5
<1> QED
  BY <1>4, <1>5, <1>6

\* A tensor of a shape, with its strides, over given data.
Made(s, data) == [shape |-> s, strides |-> Strides(s), data |-> data]

LEMMA WithOtherData ==
  ASSUME NEW x, NEW s, NEW data, NEW other, x = Made(s, data)
  PROVE  [x EXCEPT !.data = other] = Made(s, other)
<1>1. [[shape |-> s, strides |-> Strides(s), data |-> data] EXCEPT !.data = other]
        = [shape |-> s, strides |-> Strides(s), data |-> other]
  OBVIOUS
<1> QED
  BY <1>1, Zenon DEF Made

LEMMA MadeFields ==
  ASSUME NEW s, NEW data, NEW u
  PROVE  /\ Made(s, data).shape = s
         /\ Made(s, data).strides = Strides(s)
         /\ Made(s, data).data = data
         /\ Reshaped(Made(s, data), u) = Made(u, data)
         /\ Hollow(Made(s, data)) <=> Len(data) # DataSize(s)
<1>1. /\ Made(s, data).shape = s
      /\ Made(s, data).strides = Strides(s)
      /\ Made(s, data).data = data
  BY DEF Made
<1>2. Reshaped(Made(s, data), u) = Made(u, data)
  BY DEF Made, Reshaped
<1> QED
  BY <1>1, <1>2 DEF Hollow

\* What every operation leaves: strides that fit the shape, and as many elements
\* as the shape says unless there are none.
WellFormed(x) ==
  /\ x = Made(x.shape, x.data)
  /\ x.shape \in Seq(Nat)
  /\ x.data \in Seq({0, 1})
  /\ Hollow(x) => x.data = <<>> /\ DataSize(x.shape) = 1

\* What was stored for an index lies where operator() looks.
Agrees(x, value) ==
  ~Hollow(x) =>
    \A idx \in Indices(x.shape) : value[idx] = x.data[1 + FlatIndex(x.shape, idx)]

DataInvariant ==
  /\ DOMAIN t = Tensors
  /\ DOMAIN meaning = Tensors
  /\ \A x \in Tensors :
       /\ WellFormed(t[x])
       /\ Agrees(t[x], meaning[x])
       /\ ~Hollow(t[x]) => DOMAIN meaning[x] = Indices(t[x].shape)

\* A tensor the invariant speaks of, by its shape and its data.
LEMMA OfInvariant ==
  ASSUME DataInvariant, NEW x \in Tensors
  PROVE  /\ WellFormed(t[x])
         /\ Agrees(t[x], meaning[x])
         /\ ~Hollow(t[x]) => DOMAIN meaning[x] = Indices(t[x].shape)
         /\ t[x] = Made(t[x].shape, t[x].data)
         /\ t[x].strides = Strides(t[x].shape)
         /\ t[x].shape \in Seq(Nat)
         /\ t[x].data \in Seq({0, 1})
         /\ DataSize(t[x].shape) \in Nat
         /\ ~Hollow(t[x]) => Len(t[x].data) = DataSize(t[x].shape)
         /\ Hollow(t[x]) => t[x].data = <<>> /\ DataSize(t[x].shape) = 1
<1>1. /\ WellFormed(t[x])
      /\ Agrees(t[x], meaning[x])
      /\ ~Hollow(t[x]) => DOMAIN meaning[x] = Indices(t[x].shape)
  BY DEF DataInvariant
<1>2. /\ t[x] = Made(t[x].shape, t[x].data)
      /\ t[x].shape \in Seq(Nat)
      /\ t[x].data \in Seq({0, 1})
      /\ Hollow(t[x]) => t[x].data = <<>> /\ DataSize(t[x].shape) = 1
  BY <1>1 DEF WellFormed
<1>3. t[x].strides = Strides(t[x].shape)
  <2>1. Made(t[x].shape, t[x].data).strides = Strides(t[x].shape)
    BY MadeFields
  <2> QED
    BY <1>2, <2>1, Zenon
<1>4. DataSize(t[x].shape) \in Nat
  BY <1>2, Places
<1>5. ~Hollow(t[x]) => Len(t[x].data) = DataSize(t[x].shape)
  BY DEF Hollow
<1> QED
  BY <1>1, <1>2, <1>3, <1>4, <1>5

\* Enough elements for the shape, or none where the shape has room for one.
LEMMA MadeWellFormed ==
  ASSUME NEW s \in Seq(Nat), NEW data \in Seq({0, 1}),
         Len(data) = DataSize(s) \/ (data = <<>> /\ DataSize(s) = 1)
  PROVE  WellFormed(Made(s, data))
<1>1. /\ Made(s, data).shape = s
      /\ Made(s, data).data = data
      /\ Hollow(Made(s, data)) <=> Len(data) # DataSize(s)
  BY MadeFields
<1> HIDE DEF Made
<1> QED
  BY <1>1 DEF WellFormed

\* An assignment keeps the invariant if it stores, for each index of the new
\* shape, the value meant for it.
LEMMA AssignPreserves ==
  ASSUME DataInvariant, NEW x \in Tensors, NEW new, NEW value, Assign(x, new, value),
         WellFormed(new), Agrees(new, value)
  PROVE  DataInvariant'
<1> DEFINE kept == IF Hollow(new) THEN <<>> ELSE [idx \in Indices(new.shape) |-> value[idx]]
<1>1. /\ t' = [t EXCEPT ![x] = new]
      /\ meaning' = [meaning EXCEPT ![x] = kept]
  BY DEF Assign
<1>2. DOMAIN t = Tensors /\ DOMAIN meaning = Tensors
  BY DEF DataInvariant
<1>3. Agrees(new, kept)
  BY DEF Agrees
<1>4. ~Hollow(new) => DOMAIN kept = Indices(new.shape)
  OBVIOUS
<1> HIDE DEF kept
<1>5. ASSUME NEW y \in Tensors
      PROVE  /\ WellFormed(t'[y])
             /\ Agrees(t'[y], meaning'[y])
             /\ ~Hollow(t'[y]) => DOMAIN meaning'[y] = Indices(t'[y].shape)
  <2>1. CASE y = x
    <3>1. t'[y] = new /\ meaning'[y] = kept
      BY <1>1, <1>2, <2>1
    <3> QED
      BY <1>3, <1>4, <3>1
  <2>2. CASE y # x
    <3>1. t'[y] = t[y] /\ meaning'[y] = meaning[y]
      BY <1>1, <1>2, <2>2
    <3> QED
      BY <3>1 DEF DataInvariant
  <2> QED
    BY <2>1, <2>2
<1>6. DOMAIN t' = Tensors /\ DOMAIN meaning' = Tensors
  BY <1>1, <1>2
<1> QED
  BY <1>5, <1>6 DEF DataInvariant, WellFormed, Agrees, Hollow

\* What is noticed too late changes no tensor.
LEMMA OutOfRangePreserves ==
  ASSUME DataInvariant, NEW used, NEW d, OutOfRange(used, d)
  PROVE  DataInvariant'
BY DEF OutOfRange, DataInvariant, WellFormed, Agrees, Hollow

LEMMA NewIsMade ==
  ASSUME NEW s \in Seq(Nat), NEW other
  PROVE  /\ New(s) = Made(s, [i \in 1..DataSize(s) |-> 0])
         /\ [i \in 1..DataSize(s) |-> 0] \in Seq({0, 1})
         /\ Len([i \in 1..DataSize(s) |-> 0]) = DataSize(s)
         /\ DOMAIN New(s).data = 1..DataSize(s)
         /\ New(s).data = [i \in 1..DataSize(s) |-> 0]
         /\ [New(s) EXCEPT !.data = other] = Made(s, other)
         /\ ~Hollow(New(s))
         /\ New(s).shape = s
         /\ New(s).strides = Strides(s)
<1> DEFINE zeros == [i \in 1..DataSize(s) |-> 0]
<1>1. DataSize(s) \in Nat
  BY Places
<1>2. zeros \in Seq({0, 1}) /\ Len(zeros) = DataSize(s) /\ DOMAIN zeros = 1..DataSize(s)
  BY <1>1
<1>3. New(s) = Made(s, zeros)
  BY DEF New, Made
<1> HIDE DEF zeros
<1>4. /\ Made(s, zeros).data = zeros
      /\ Made(s, zeros).shape = s
      /\ Made(s, zeros).strides = Strides(s)
      /\ Hollow(Made(s, zeros)) <=> Len(zeros) # DataSize(s)
  BY MadeFields
<1>5. [New(s) EXCEPT !.data = other] = Made(s, other)
  BY <1>3, WithOtherData
<1>6. New(s).data = zeros /\ New(s).shape = s /\ New(s).strides = Strides(s) /\ ~Hollow(New(s))
  BY <1>2, <1>3, <1>4
<1> QED
  BY <1>2, <1>3, <1>5, <1>6, Zenon DEF zeros

\* Storing, for each index, what it is to have at the place of the index.
LEMMA MadeAgrees ==
  ASSUME NEW s \in Seq(Nat), NEW data, NEW value,
         Len(data) = DataSize(s) =>
           \A idx \in Indices(s) : value[idx] = data[1 + FlatIndex(s, idx)]
  PROVE  Agrees(Made(s, data), value)
<1>1. /\ Made(s, data).shape = s
      /\ Made(s, data).data = data
      /\ Hollow(Made(s, data)) <=> Len(data) # DataSize(s)
  BY MadeFields
<1> HIDE DEF Made
<1> QED
  BY <1>1 DEF Agrees

LEMMA AssignMade ==
  ASSUME DataInvariant, NEW x \in Tensors, NEW s \in Seq(Nat), NEW data \in Seq({0, 1}), NEW value,
         Assign(x, Made(s, data), value),
         Len(data) = DataSize(s) \/ (data = <<>> /\ DataSize(s) = 1),
         Len(data) = DataSize(s) =>
           \A idx \in Indices(s) : value[idx] = data[1 + FlatIndex(s, idx)]
  PROVE  DataInvariant'
<1>1. WellFormed(Made(s, data))
  BY MadeWellFormed
<1>2. Agrees(Made(s, data), value)
  BY MadeAgrees
<1> QED
  BY <1>1, <1>2, AssignPreserves

\* The place of an index is one of the elements.
LEMMA PlaceInData ==
  ASSUME NEW s \in Seq(Nat), NEW idx \in Indices(s)
  PROVE  1 + FlatIndex(s, idx) \in 1..DataSize(s)
<1>1. DataSize(s) \in Nat /\ FlatIndex(s, idx) \in 0..(DataSize(s) - 1)
  BY Places
<1> QED
  BY <1>1

LEMMA EmptyIsMade == Empty = Made(<<>>, <<>>) /\ WellFormed(Empty) /\ Hollow(Empty)
<1>1. Empty = Made(<<>>, <<>>)
  <2>1. Strides(<<>>) = <<>>
    BY DEF Strides
  <2> QED
    BY <2>1 DEF Empty, Made
<1>2. DataSize(<<>>) = 1
  <2>1. <<>> \in Seq(Nat) /\ Len(<<>>) = 0
    OBVIOUS
  <2>2. /\ TailSize(<<>>, Len(<<>>)) = 1
        /\ TailSize(<<>>, 0) = DataSize(<<>>)
    BY <2>1, TailSizes
  <2> QED
    BY <2>1, <2>2
<1>3. WellFormed(Made(<<>>, <<>>))
  <2>1. <<>> \in Seq(Nat) /\ <<>> \in Seq({0, 1})
    OBVIOUS
  <2> QED
    BY <1>2, <2>1, MadeWellFormed
<1>4. Hollow(Made(<<>>, <<>>)) <=> Len(<<>>) # DataSize(<<>>)
  BY MadeFields
<1> QED
  BY <1>1, <1>2, <1>3, <1>4

LEMMA ConstructPreserves ==
  ASSUME DataInvariant, NEW x \in Tensors, NEW s \in Shapes, Construct(x, s)
  PROVE  DataInvariant'
<1> DEFINE zeros == [i \in 1..DataSize(s) |-> 0]
           value == [idx \in Indices(s) |-> 0]
<1>1. s \in Seq(Nat)
  BY DataAssumption
<1>2. New(s) = Made(s, zeros) /\ zeros \in Seq({0, 1}) /\ Len(zeros) = DataSize(s)
  BY <1>1, NewIsMade
<1>3. Assign(x, Made(s, zeros), value)
  BY <1>2 DEF Construct
<1>4. \A idx \in Indices(s) : value[idx] = zeros[1 + FlatIndex(s, idx)]
  BY <1>1, PlaceInData
<1> HIDE DEF zeros, value
<1> QED
  BY <1>1, <1>2, <1>3, <1>4, AssignMade

LEMMA DefaultPreserves ==
  ASSUME DataInvariant, NEW x \in Tensors, Default(x)
  PROVE  DataInvariant'
<1> DEFINE value == [idx \in Indices(<<>>) |-> 0]
<1>1. Assign(x, Empty, value)
  BY DEF Default
<1>2. Agrees(Empty, value)
  BY EmptyIsMade DEF Agrees
<1> HIDE DEF value
<1> QED
  BY <1>1, <1>2, EmptyIsMade, AssignPreserves

LEMMA FillAllPreserves ==
  ASSUME DataInvariant, NEW x \in Tensors, NEW v \in {0, 1}, FillAll(x, v)
  PROVE  DataInvariant'
<1> DEFINE s == t[x].shape
           old == t[x].data
           data == [i \in DOMAIN old |-> v]
           value == [idx \in Indices(s) |-> v]
<1>1. /\ t[x] = Made(s, old)
      /\ s \in Seq(Nat)
      /\ old \in Seq({0, 1})
      /\ Len(old) = DataSize(s) \/ (old = <<>> /\ DataSize(s) = 1)
  BY OfInvariant
<1>2. Assign(x, [t[x] EXCEPT !.data = data], value)
  BY DEF FillAll
<1>3. [t[x] EXCEPT !.data = data] = Made(s, data)
  <2> HIDE DEF s, old, data
  <2> QED
    BY <1>1, WithOtherData
<1> HIDE DEF s, old
<1>4. data \in Seq({0, 1}) /\ Len(data) = Len(old) /\ DOMAIN data = 1..Len(old)
  BY <1>1
<1>5. data = <<>> <=> old = <<>>
  BY <1>1, <1>4
<1>6. Len(data) = DataSize(s) => \A idx \in Indices(s) : value[idx] = data[1 + FlatIndex(s, idx)]
  <2> SUFFICES ASSUME Len(data) = DataSize(s), NEW idx \in Indices(s)
               PROVE  value[idx] = data[1 + FlatIndex(s, idx)]
    OBVIOUS
  <2>1. 1 + FlatIndex(s, idx) \in 1..Len(old)
    BY <1>1, <1>4, PlaceInData
  <2> QED
    BY <1>1, <2>1
<1> HIDE DEF data, value
<1>7. Assign(x, Made(s, data), value)
  BY <1>2, <1>3
<1>8. Len(data) = DataSize(s) \/ (data = <<>> /\ DataSize(s) = 1)
  BY <1>1, <1>4, <1>5
<1> QED
  BY <1>1, <1>4, <1>6, <1>7, <1>8, AssignMade

LEMMA FilledByPreserves ==
  ASSUME DataInvariant, NEW x \in Tensors, NEW d \in Seq({0, 1}), FilledBy(x, d),
         Len(d) = Len(t[x].data)
  PROVE  DataInvariant'
<1> DEFINE s == t[x].shape
           old == t[x].data
           value == [idx \in Indices(s) |-> d[1 + Order(s, idx)]]
<1>1. /\ t[x] = Made(s, old)
      /\ s \in Seq(Nat)
      /\ Len(old) = DataSize(s) \/ (old = <<>> /\ DataSize(s) = 1)
  BY OfInvariant
<1>2. Assign(x, [t[x] EXCEPT !.data = d], value)
  BY DEF FilledBy
<1>3. [t[x] EXCEPT !.data = d] = Made(s, d)
  <2> HIDE DEF s, old
  <2> QED
    BY <1>1, WithOtherData
<1>4. Len(d) = Len(old)
  OBVIOUS
<1> HIDE DEF s, old
<1>5. ASSUME NEW idx \in Indices(s) PROVE value[idx] = d[1 + FlatIndex(s, idx)]
  <2>1. Order(s, idx) = FlatIndex(s, idx)
    BY <1>1, OrderIsFlatIndex
  <2> QED
    BY <2>1
<1> HIDE DEF value
<1>6. Len(d) = DataSize(s) \/ (d = <<>> /\ DataSize(s) = 1)
  BY <1>1, <1>4
<1>7. Assign(x, Made(s, d), value)
  BY <1>2, <1>3
<1> QED
  BY <1>1, <1>5, <1>6, <1>7, AssignMade

LEMMA Fill1Preserves ==
  ASSUME DataInvariant, NEW x \in Tensors, NEW d \in Vectors, Fill1(x, d)
  PROVE  DataInvariant'
<1>1. d \in Seq({0, 1})
  BY DataAssumption
<1> QED
  BY <1>1, FilledByPreserves, OutOfRangePreserves DEF Fill1

LEMMA Create1Preserves ==
  ASSUME DataInvariant, NEW x \in Tensors, NEW d \in Vectors, Create1(x, d)
  PROVE  DataInvariant'
<1> DEFINE s == <<Len(d)>>
           value == [idx \in Indices(s) |-> d[idx[1] + 1]]
<1>1. d \in Seq({0, 1}) /\ Len(d) \in Nat /\ s \in Seq(Nat) /\ Len(s) = 1 /\ s[1] = Len(d)
  BY DataAssumption
<1>2. DataSize(s) = Len(d)
  BY <1>1 DEF DataSize
<1>3. Assign(x, [New(s) EXCEPT !.data = d], value)
  BY DEF Create1
<1>4. ASSUME NEW idx \in Indices(s) PROVE value[idx] = d[1 + FlatIndex(s, idx)]
  <2>1. FlatIndex(s, idx) = idx[1] /\ idx[1] \in 0..(s[1] - 1)
    BY <1>1, VectorIndex
  <2>2. 1 + FlatIndex(s, idx) = idx[1] + 1
    BY <1>1, <2>1
  <2> QED
    BY <2>2
<1> HIDE DEF s, value
<1>5. [New(s) EXCEPT !.data = d] = Made(s, d)
  BY <1>1, NewIsMade
<1>6. Assign(x, Made(s, d), value)
  BY <1>3, <1>5
<1> QED
  BY <1>1, <1>2, <1>4, <1>6, AssignMade

LEMMA FunctionIsSeq ==
  ASSUME NEW S, NEW m \in Nat, NEW f, DOMAIN f = 1..m, f = [n \in 1..m |-> f[n]],
         \A n \in 1..m : f[n] \in S
  PROVE  f \in Seq(S) /\ Len(f) = m
OBVIOUS

LEMMA MatrixCoordinates ==
  ASSUME NEW s \in Seq(Nat), Len(s) = 2, NEW idx \in Indices(s)
  PROVE  s[1] \in Nat /\ s[2] \in Nat /\ idx[1] \in 0..(s[1] - 1) /\ idx[2] \in 0..(s[2] - 1)
<1>1. \A i \in 1..Len(s) : idx[i] \in 0..(s[i] - 1)
  BY IndicesInRange
<1>2. 1 \in 1..Len(s) /\ 2 \in 1..Len(s) /\ s[1] \in Nat /\ s[2] \in Nat
  OBVIOUS
<1>3. idx[1] \in 0..(s[1] - 1) /\ idx[2] \in 0..(s[2] - 1)
  BY <1>1, <1>2, Zenon
<1> QED
  BY <1>2, <1>3

\* Rows enough for the second dimension, each long enough for the first.
HasRows(s, d) ==
  d \in Seq(Seq({0, 1})) /\ Len(d) = s[2] /\ \A r \in DOMAIN d : Len(d[r]) >= s[1]

LEMMA RowElement ==
  ASSUME NEW s \in Seq(Nat), Len(s) = 2, NEW d, HasRows(s, d), NEW idx \in Indices(s)
  PROVE  d[idx[2] + 1][idx[1] + 1] \in {0, 1}
<1>1. s[1] \in Nat /\ s[2] \in Nat /\ idx[1] \in 0..(s[1] - 1) /\ idx[2] \in 0..(s[2] - 1)
  BY MatrixCoordinates
<1>2. idx[2] + 1 \in DOMAIN d
  BY <1>1, SMTT(30) DEF HasRows
<1>3. d[idx[2] + 1] \in Seq({0, 1}) /\ Len(d[idx[2] + 1]) >= s[1]
  BY <1>2 DEF HasRows
<1>4. idx[1] + 1 \in 1..Len(d[idx[2] + 1])
  BY <1>1, <1>3
<1> QED
  BY <1>3, <1>4

\* Each pass through operator() finds the element of its own index.
LEMMA StoredRows ==
  ASSUME NEW s \in Seq(Nat), Len(s) = 2, NEW old \in Seq({0, 1}), Len(old) = DataSize(s),
         NEW d, HasRows(s, d)
  PROVE  \E data \in Seq({0, 1}) :
           /\ Len(data) = Len(old)
           /\ Stored(Made(s, old), d) = Made(s, data)
           /\ \A idx \in Indices(s) : d[idx[2] + 1][idx[1] + 1] = data[1 + FlatIndex(s, idx)]
<1> DEFINE x == Made(s, old)
           at == [n \in DOMAIN old |-> {idx \in Indices(s) : Position(x, idx) = n}]
           index == [n \in DOMAIN old |-> CHOOSE idx \in at[n] : TRUE]
           data == [n \in DOMAIN old |-> IF at[n] = {} THEN old[n] ELSE d[index[n][2] + 1][index[n][1] + 1]]
<1>1. x.shape = s /\ x.strides = Strides(s) /\ x.data = old
  BY MadeFields
<1>2. Stored(x, d) = [x EXCEPT !.data = data]
  <2> HIDE DEF Made
  <2>1. Stored(x, d) =
          [x EXCEPT !.data = [n \in DOMAIN x.data |->
             LET found == {idx \in Indices(x.shape) : Position(x, idx) = n}
             IN  IF found = {} THEN x.data[n]
                 ELSE LET idx == CHOOSE i \in found : TRUE IN d[idx[2] + 1][idx[1] + 1]]]
    BY Zenon DEF Stored
  <2> HIDE DEF x
  <2>2. [n \in DOMAIN x.data |->
             LET found == {idx \in Indices(x.shape) : Position(x, idx) = n}
             IN  IF found = {} THEN x.data[n]
                 ELSE LET idx == CHOOSE i \in found : TRUE IN d[idx[2] + 1][idx[1] + 1]]
          = data
    BY <1>1
  <2> HIDE DEF data
  <2> QED
    BY <2>1, <2>2, Zenon
<1>3. Stored(x, d) = Made(s, data)
  <2> HIDE DEF data
  <2> QED
    BY <1>2, WithOtherData
<1>4. ASSUME NEW idx \in Indices(s)
      PROVE  d[idx[2] + 1][idx[1] + 1] \in {0, 1}
  BY RowElement
<1>5. ASSUME NEW idx \in Indices(s) PROVE Position(x, idx) = 1 + FlatIndex(s, idx)
  <2> HIDE DEF x
  <2> QED
    BY <1>1, PositionIsFlatIndex
<1> HIDE DEF x
<1>6. ASSUME NEW n \in DOMAIN old PROVE at[n] = {idx \in Indices(s) : Position(x, idx) = n}
  OBVIOUS
<1> HIDE DEF at
<1>7. ASSUME NEW n \in DOMAIN old
      PROVE  data[n] = IF at[n] = {} THEN old[n] ELSE d[index[n][2] + 1][index[n][1] + 1]
  OBVIOUS
<1>8. DOMAIN data = DOMAIN old /\ data = [n \in DOMAIN old |-> data[n]]
  OBVIOUS
<1> HIDE DEF data
<1>9. ASSUME NEW n \in DOMAIN old, at[n] # {} PROVE index[n] \in at[n]
  BY <1>9
<1> HIDE DEF index
<1>10. ASSUME NEW n \in DOMAIN old PROVE data[n] \in {0, 1}
  <2>1. CASE at[n] = {}
    BY <1>7, <2>1
  <2>2. CASE at[n] # {}
    <3>1. index[n] \in Indices(s)
      BY <1>6, <1>9, <2>2
    <3>2. d[index[n][2] + 1][index[n][1] + 1] \in {0, 1}
      BY <1>4, <3>1
    <3> QED
      BY <1>7, <2>2, <3>2
  <2> QED
    BY <2>1, <2>2
<1>11. ASSUME NEW idx \in Indices(s)
       PROVE  d[idx[2] + 1][idx[1] + 1] = data[1 + FlatIndex(s, idx)]
  <2> DEFINE n == 1 + FlatIndex(s, idx)
  <2>1. n \in DOMAIN old
    <3>1. 1 + FlatIndex(s, idx) \in 1..DataSize(s)
      BY PlaceInData
    <3> QED
      BY <3>1
  <2>2. idx \in at[n]
    BY <1>5, <1>6, <2>1
  <2>3. index[n] \in at[n]
    BY <1>9, <2>1, <2>2
  <2>4. index[n] = idx
    <3>1. index[n] \in Indices(s) /\ Position(x, index[n]) = n
      BY <1>6, <2>1, <2>3
    <3>2. 1 + FlatIndex(s, index[n]) = 1 + FlatIndex(s, idx)
      BY <1>5, <3>1
    <3>3. FlatIndex(s, index[n]) \in 0..(DataSize(s) - 1) /\ FlatIndex(s, idx) \in 0..(DataSize(s) - 1)
      BY <3>1, Places
    <3>4. FlatIndex(s, index[n]) = FlatIndex(s, idx)
      <4> HIDE DEF n
      <4> QED
        BY <3>2, <3>3
    <3> QED
      BY <3>1, <3>4, Places
  <2>5. data[n] = d[index[n][2] + 1][index[n][1] + 1]
    BY <1>7, <2>1, <2>2
  <2> HIDE DEF n
  <2>6. data[n] = d[idx[2] + 1][idx[1] + 1]
    BY <2>4, <2>5
  <2> QED
    BY <2>6 DEF n
<1>12. data \in Seq({0, 1}) /\ Len(data) = Len(old)
  <2>1. DOMAIN data = 1..Len(old) /\ Len(old) \in Nat
    BY <1>8
  <2>2. \A n \in 1..Len(old) : data[n] \in {0, 1}
    BY <1>10
  <2>3. data = [n \in 1..Len(old) |-> data[n]]
    BY <1>8, <2>1
  <2> QED
    BY <2>1, <2>2, <2>3, FunctionIsSeq
<1> QED
  BY <1>3, <1>11, <1>12 DEF x

LEMMA MatricesHaveRows ==
  ASSUME NEW d \in Matrices
  PROVE  d \in Seq(Seq({0, 1}))
BY DataAssumption

LEMMA FillRowsPreserves ==
  ASSUME DataInvariant, NEW x \in Tensors, NEW s \in Seq(Nat), NEW old \in Seq({0, 1}),
         NEW used, NEW d \in Matrices, FillRows(x, Made(s, old), used, d)
  PROVE  DataInvariant'
<1> DEFINE new == Made(s, old)
           value == [idx \in Indices(s) |-> d[idx[2] + 1][idx[1] + 1]]
<1>1. new.shape = s /\ (Hollow(new) <=> Len(old) # DataSize(s))
  BY MadeFields
<1>2. CASE OutOfRange(used, d)
  BY <1>2, OutOfRangePreserves
<1>3. CASE /\ AcceptsRows(s, d) /\ ~Hollow(new) /\ RowsLongEnough(s, d)
           /\ Assign(x, Stored(new, d), value)
  <2>1. HasRows(s, d) /\ Len(s) = 2 /\ Len(old) = DataSize(s)
    BY <1>1, <1>3, MatricesHaveRows DEF HasRows, AcceptsRows, RowsLongEnough
  <2>2. PICK data \in Seq({0, 1}) :
           /\ Len(data) = Len(old)
           /\ Stored(Made(s, old), d) = Made(s, data)
           /\ \A idx \in Indices(s) : d[idx[2] + 1][idx[1] + 1] = data[1 + FlatIndex(s, idx)]
    BY <2>1, StoredRows
  <2>3. \A idx \in Indices(s) : value[idx] = data[1 + FlatIndex(s, idx)]
    BY <2>2
  <2> HIDE DEF value
  <2>4. Assign(x, Made(s, data), value) /\ Len(data) = DataSize(s)
    BY <1>3, <2>1, <2>2
  <2> QED
    BY <2>3, <2>4, AssignMade
<1> HIDE DEF new
<1> QED
  BY <1>1, <1>2, <1>3 DEF FillRows, new

LEMMA Fill2Preserves ==
  ASSUME DataInvariant, NEW x \in Tensors, NEW d \in Matrices, Fill2(x, d)
  PROVE  DataInvariant'
<1>1. CASE OutOfRange({x}, d)
  BY <1>1, OutOfRangePreserves
<1>2. CASE FillRows(x, t[x], {x}, d)
  <2> DEFINE s == t[x].shape
             old == t[x].data
  <2>1. t[x] = Made(s, old) /\ s \in Seq(Nat) /\ old \in Seq({0, 1})
    BY OfInvariant
  <2> HIDE DEF s, old
  <2>2. FillRows(x, Made(s, old), {x}, d)
    BY <1>2, <2>1
  <2> QED
    BY <2>1, <2>2, FillRowsPreserves
<1> QED
  BY <1>1, <1>2 DEF Fill2

LEMMA Create2Preserves ==
  ASSUME DataInvariant, NEW x \in Tensors, NEW d \in Matrices, Create2(x, d)
  PROVE  DataInvariant'
<1>1. CASE OutOfRange({}, d)
  BY <1>1, OutOfRangePreserves
<1>2. CASE d # <<>> /\ FillRows(x, New(<<Len(d[1]), Len(d)>>), {}, d)
  <2> DEFINE s == <<Len(d[1]), Len(d)>>
             zeros == [i \in 1..DataSize(s) |-> 0]
  <2>1. s \in Seq(Nat)
    <3>1. d \in Seq(Seq({0, 1}))
      BY MatricesHaveRows
    <3>2. d[1] \in Seq({0, 1})
      BY <1>2, <3>1
    <3>3. Len(d[1]) \in Nat /\ Len(d) \in Nat
      BY <3>1, <3>2
    <3> QED
      BY <3>3
  <2>2. New(s) = Made(s, zeros) /\ zeros \in Seq({0, 1})
    BY <2>1, NewIsMade
  <2> HIDE DEF zeros
  <2>3. FillRows(x, Made(s, zeros), {}, d)
    BY <1>2, <2>2
  <2> HIDE DEF s
  <2> QED
    BY <2>1, <2>2, <2>3, FillRowsPreserves
<1> QED
  BY <1>1, <1>2 DEF Create2

LEMMA ReshapePreserves ==
  ASSUME DataInvariant, NEW x \in Tensors, NEW s \in Shapes, Reshape(x, s)
  PROVE  DataInvariant'
<1> DEFINE was == t[x].shape
           data == t[x].data
           m == meaning[x]
           same(idx) == {j \in DOMAIN m : Order(was, j) = Order(s, idx)}
           value == [idx \in Indices(s) |->
                       IF same(idx) = {} THEN 0 ELSE m[CHOOSE j \in same(idx) : TRUE]]
<1>1. s \in Seq(Nat)
  BY DataAssumption
<1>2. /\ t[x] = Made(was, data)
      /\ was \in Seq(Nat)
      /\ data \in Seq({0, 1})
      /\ Agrees(t[x], m)
      /\ ~Hollow(t[x]) => DOMAIN m = Indices(was)
      /\ Len(data) = DataSize(was) \/ (data = <<>> /\ DataSize(was) = 1)
  BY OfInvariant
<1>3. DataSize(was) = DataSize(s)
  BY DEF Reshape, CanReshape
<1>4. Assign(x, Reshaped(t[x], s), value)
  BY DEF Reshape
<1>5. ASSUME Len(data) = DataSize(s), NEW idx \in Indices(s)
      PROVE  value[idx] = data[1 + FlatIndex(s, idx)]
  <2>1. ~Hollow(t[x])
    BY <1>3, <1>5 DEF Hollow
  <2>2. DOMAIN m = Indices(was) /\ \A j \in Indices(was) : m[j] = data[1 + FlatIndex(was, j)]
    BY <1>2, <2>1 DEF Agrees
  <2> HIDE DEF was, data, m
  <2>3. Order(s, idx) = FlatIndex(s, idx)
    BY <1>1, OrderIsFlatIndex
  <2>4. FlatIndex(s, idx) \in 0..(DataSize(was) - 1)
    BY <1>1, <1>3, Places
  <2>5. PICK j \in Indices(was) : FlatIndex(was, j) = FlatIndex(s, idx)
    BY <1>2, <2>4, Places
  <2>6. j \in same(idx)
    <3>1. Order(was, j) = FlatIndex(was, j)
      BY <1>2, OrderIsFlatIndex
    <3> QED
      BY <2>2, <2>3, <2>5, <3>1
  <2>7. PICK k : k = (CHOOSE i \in same(idx) : TRUE)
    OBVIOUS
  <2>8. k \in same(idx)
    BY <2>6, <2>7
  <2>9. k \in Indices(was) /\ Order(was, k) = Order(s, idx)
    BY <2>2, <2>8
  <2>10. FlatIndex(was, k) = FlatIndex(s, idx)
    <3>1. Order(was, k) = FlatIndex(was, k)
      BY <1>2, <2>9, OrderIsFlatIndex
    <3> QED
      BY <2>3, <2>9, <3>1
  <2>11. value[idx] = m[k]
    <3>1. value[idx] = IF same(idx) = {} THEN 0 ELSE m[CHOOSE j1 \in same(idx) : TRUE]
      OBVIOUS
    <3> HIDE DEF same, value
    <3> QED
      BY <2>6, <2>7, <3>1
  <2> QED
    BY <2>2, <2>9, <2>10, <2>11
<1> HIDE DEF was, data, m, value, same
<1>6. Reshaped(t[x], s) = Made(s, data)
  BY <1>2, MadeFields
<1>7. Assign(x, Made(s, data), value)
  BY <1>4, <1>6
<1>8. Len(data) = DataSize(s) \/ (data = <<>> /\ DataSize(s) = 1)
  BY <1>2, <1>3
<1>9. Len(data) = DataSize(s) => \A idx \in Indices(s) : value[idx] = data[1 + FlatIndex(s, idx)]
  BY <1>5
<1> QED
  BY <1>1, <1>2, <1>7, <1>8, <1>9, AssignMade

LEMMA Dimensions == \A s \in Seq(Nat) : \A k \in 1..Len(s) : s[k] \in Nat
OBVIOUS

LEMMA MatrixIndex ==
  ASSUME NEW s \in Seq(Nat), Len(s) = 2, NEW i \in 0..(s[1] - 1), NEW j \in 0..(s[2] - 1)
  PROVE  <<i, j>> \in Indices(s)
<1> DEFINE idx == <<i, j>>
<1>1. Len(s) = 2 /\ s[1] \in Nat /\ s[2] \in Nat
  <2>1. \A k \in 1..Len(s) : s[k] \in Nat
    BY Dimensions, Zenon
  <2>2. Len(s) = 2 /\ 1 \in 1..2 /\ 2 \in 1..2
    OBVIOUS
  <2> QED
    BY <2>1, <2>2, Zenon
<1>2. DOMAIN idx = 1..Len(s) /\ idx = [k \in DOMAIN idx |-> idx[k]]
  <2>1. \A v, w : DOMAIN <<v, w>> = 1..2 /\ <<v, w>> = [k \in 1..2 |-> <<v, w>>[k]]
    OBVIOUS
  <2>2. DOMAIN idx = 1..2 /\ idx = [k \in 1..2 |-> idx[k]]
    BY <2>1, Zenon
  <2> HIDE DEF idx
  <2> QED
    BY <1>1, <2>2, Zenon
<1>3. idx[1] = i /\ idx[2] = j
  OBVIOUS
<1>4. ASSUME NEW k \in 1..Len(s) PROVE idx[k] \in 0..(s[k] - 1)
  <2>1. k = 1 \/ k = 2
    OBVIOUS
  <2> QED
    BY <1>3, <2>1
<1> HIDE DEF idx
<1>5. idx \in Indices(s)
  BY <1>2, <1>4, InRangeIsIndex
<1> QED
  BY <1>5 DEF idx

\* An index of a matrix with its coordinates exchanged is one of the transpose.
LEMMA IndexAcross ==
  ASSUME NEW s \in Seq(Nat), Len(s) = 2, NEW idx \in Indices(s)
  PROVE  /\ Transposed(s) \in Seq(Nat) /\ Len(Transposed(s)) = 2
         /\ Transposed(Transposed(s)) = s
         /\ <<idx[2], idx[1]>> \in Indices(Transposed(s))
         /\ << <<idx[2], idx[1]>>[2], <<idx[2], idx[1]>>[1] >> = idx
<1>1. s[1] \in Nat /\ s[2] \in Nat /\ idx[1] \in 0..(s[1] - 1) /\ idx[2] \in 0..(s[2] - 1)
  BY MatrixCoordinates
<1>2. /\ Transposed(s) \in Seq(Nat) /\ Len(Transposed(s)) = 2
      /\ Transposed(s)[1] = s[2] /\ Transposed(s)[2] = s[1]
  BY <1>1 DEF Transposed
<1>3. Transposed(Transposed(s)) = s
  <2>1. Transposed(Transposed(s)) = <<s[1], s[2]>>
    BY <1>2 DEF Transposed
  <2>2. s = <<s[1], s[2]>>
    OBVIOUS
  <2> QED
    BY <2>1, <2>2
<1>4. <<idx[2], idx[1]>> \in Indices(Transposed(s))
  BY <1>1, <1>2, MatrixIndex
<1>5. idx = <<idx[1], idx[2]>>
  <2>1. DOMAIN idx = 1..2 /\ idx = [i \in 1..2 |-> idx[i]]
    BY IndexIsFunction
  <2> HIDE DEF Indices
  <2>2. <<idx[1], idx[2]>> = [i \in 1..2 |-> idx[i]]
    OBVIOUS
  <2> QED
    BY <2>1, <2>2
<1>6. <<idx[2], idx[1]>>[2] = idx[1] /\ <<idx[2], idx[1]>>[1] = idx[2]
  OBVIOUS
<1> QED
  BY <1>2, <1>3, <1>4, <1>5, <1>6

LEMMA TransposePreserves ==
  ASSUME DataInvariant, NEW x \in Tensors, Transpose(x)
  PROVE  DataInvariant'
<1>1. CASE OutOfRange({x}, NoRows)
  BY <1>1, OutOfRangePreserves
<1>2. CASE ~OutOfRange({x}, NoRows)
  <2> DEFINE s == t[x].shape
             old == t[x].data
             m == meaning[x]
             u == Transposed(s)
             out == New(u)
             source == [n \in 1..DataSize(u) |->
                          CHOOSE idx \in Indices(s) : Position(out, <<idx[2], idx[1]>>) = n]
             data == [n \in 1..DataSize(u) |-> At(t[x], source[n])]
             value == [idx \in Indices(u) |-> m[<<idx[2], idx[1]>>]]
  <2>1. Len(s) = 2 /\ ~Hollow(t[x]) /\ Assign(x, TransposedData(t[x]), value)
    BY <1>2 DEF Transpose, CanTranspose
  <2>2. /\ s \in Seq(Nat)
        /\ old \in Seq({0, 1})
        /\ t[x].strides = Strides(s)
        /\ Len(old) = DataSize(s)
        /\ \A idx \in Indices(s) : m[idx] = old[1 + FlatIndex(s, idx)]
    BY <2>1, OfInvariant DEF Agrees
  <2>3. u \in Seq(Nat) /\ Len(u) = 2 /\ Transposed(u) = s
    <3>1. s[1] \in Nat /\ s[2] \in Nat
      BY <2>1, <2>2
    <3>2. s = <<s[1], s[2]>>
      BY <2>1, <2>2
    <3> HIDE DEF s
    <3> QED
      BY <3>1, <3>2 DEF Transposed
  <2>4. TransposedData(t[x]) = [out EXCEPT !.data = data]
    <3>1. TransposedData(t[x]) =
            [out EXCEPT !.data = [n \in DOMAIN out.data |->
               At(t[x], CHOOSE idx \in Indices(s) : Position(out, <<idx[2], idx[1]>>) = n)]]
      BY Zenon DEF TransposedData
    <3>2. DOMAIN out.data = 1..DataSize(u)
      BY <2>3, NewIsMade
    <3> HIDE DEF s, u, out
    <3>3. [n \in DOMAIN out.data |->
               At(t[x], CHOOSE idx \in Indices(s) : Position(out, <<idx[2], idx[1]>>) = n)] = data
      BY <3>2
    <3> HIDE DEF data
    <3> QED
      BY <3>1, <3>3, Zenon
  <2>5. TransposedData(t[x]) = Made(u, data)
    <3> HIDE DEF data, u
    <3>1. [New(u) EXCEPT !.data = data] = Made(u, data)
      BY <2>3, NewIsMade
    <3> QED
      BY <2>4, <3>1, Zenon
  <2>6. out.strides = Strides(u)
    BY <2>3, NewIsMade
  <2>7. DataSize(u) \in Nat
    BY <2>3, Places
  <2>8. DOMAIN data = 1..DataSize(u) /\ data = [n \in 1..DataSize(u) |-> data[n]]
    OBVIOUS
  <2>9. \A idx \in Indices(u) : value[idx] = m[<<idx[2], idx[1]>>]
    OBVIOUS
  <2>10. \A n \in 1..DataSize(u) : data[n] = At(t[x], source[n])
    OBVIOUS
  <2> HIDE DEF data, value
  <2>11. \A n \in 1..DataSize(u) :
           source[n] = CHOOSE idx \in Indices(s) : Position(out, <<idx[2], idx[1]>>) = n
    OBVIOUS
  <2> HIDE DEF source, out
  <2>12. ASSUME NEW idx \in Indices(s) PROVE At(t[x], idx) = old[1 + FlatIndex(s, idx)]
    <3>1. Position(t[x], idx) = 1 + FlatIndex(s, idx)
      BY <2>2, PositionIsFlatIndex
    <3> QED
      BY <3>1 DEF At
  <2> HIDE DEF s, old, m
  <2>13. ASSUME NEW idx \in Indices(u)
         PROVE  /\ <<idx[2], idx[1]>> \in Indices(s)
                /\ source[1 + FlatIndex(u, idx)] = <<idx[2], idx[1]>>
    <3> DEFINE n == 1 + FlatIndex(u, idx)
               jdx == <<idx[2], idx[1]>>
               Found(k) == k \in Indices(s) /\ Position(out, <<k[2], k[1]>>) = n
    <3>1. n \in 1..DataSize(u)
      BY <2>3, PlaceInData
    <3>2. jdx \in Indices(s) /\ <<jdx[2], jdx[1]>> = idx
      BY <2>3, IndexAcross
    <3>3. ASSUME NEW k \in Indices(s)
          PROVE  /\ <<k[2], k[1]>> \in Indices(u)
                 /\ Position(out, <<k[2], k[1]>>) = 1 + FlatIndex(u, <<k[2], k[1]>>)
                 /\ << <<k[2], k[1]>>[2], <<k[2], k[1]>>[1] >> = k
      <4>1. <<k[2], k[1]>> \in Indices(u) /\ << <<k[2], k[1]>>[2], <<k[2], k[1]>>[1] >> = k
        BY <2>1, <2>2, IndexAcross
      <4> HIDE DEF u
      <4> QED
        BY <2>3, <2>6, <4>1, PositionIsFlatIndex
    <3> HIDE DEF jdx
    <3>4. Position(out, <<jdx[2], jdx[1]>>) = n
      BY <3>2, <3>3
    <3>5. ASSUME NEW k \in Indices(s), Position(out, <<k[2], k[1]>>) = n
          PROVE  k = jdx
      <4> DEFINE across == <<k[2], k[1]>>
      <4>1. across \in Indices(u) /\ 1 + FlatIndex(u, across) = 1 + FlatIndex(u, idx)
        BY <3>3, <3>5
      <4>2. FlatIndex(u, across) \in 0..(DataSize(u) - 1) /\ FlatIndex(u, idx) \in 0..(DataSize(u) - 1)
        BY <2>3, <4>1, Places
      <4>3. across = idx
        <5>1. FlatIndex(u, across) = FlatIndex(u, idx)
          <6> HIDE DEF across
          <6> QED
            BY <4>1, <4>2
        <5> HIDE DEF across, u
        <5> QED
          BY <2>3, <4>1, <5>1, Places
      <4>4. k = <<across[2], across[1]>>
        BY <3>3
      <4>5. jdx = <<idx[2], idx[1]>>
        BY DEF jdx
      <4> HIDE DEF across
      <4> QED
        BY <4>3, <4>4, <4>5
    <3> HIDE DEF n
    <3>6. source[n] = CHOOSE k \in Indices(s) : Position(out, <<k[2], k[1]>>) = n
      BY <2>11, <3>1
    <3>7. source[n] \in Indices(s) /\ Position(out, <<source[n][2], source[n][1]>>) = n
      BY <3>2, <3>4, <3>6
    <3>8. source[n] = jdx
      BY <3>5, <3>7
    <3> QED
      BY <3>2, <3>8 DEF n, jdx
  <2>14. ASSUME NEW idx \in Indices(u) PROVE value[idx] = data[1 + FlatIndex(u, idx)]
    <3> DEFINE jdx == <<idx[2], idx[1]>>
               n == 1 + FlatIndex(u, idx)
    <3>1. jdx \in Indices(s) /\ source[n] = jdx
      BY <2>13
    <3>2. n \in 1..DataSize(u)
      BY <2>3, PlaceInData
    <3>3. value[idx] = m[jdx]
      BY <2>9
    <3> HIDE DEF jdx, n
    <3>4. data[n] = old[1 + FlatIndex(s, jdx)]
      BY <2>10, <2>12, <3>1, <3>2
    <3>5. m[jdx] = old[1 + FlatIndex(s, jdx)]
      BY <2>2, <3>1
    <3> QED
      BY <3>3, <3>4, <3>5 DEF n
  <2>15. ASSUME NEW n \in 1..DataSize(u) PROVE data[n] \in {0, 1}
    <3>1. n - 1 \in 0..(DataSize(u) - 1) /\ 1 + (n - 1) = n
      BY <2>7
    <3> HIDE DEF u
    <3>2. PICK idx \in Indices(u) : FlatIndex(u, idx) = n - 1
      BY <2>3, <3>1, Places
    <3>3. n = 1 + FlatIndex(u, idx)
      BY <3>1, <3>2
    <3>4. source[n] \in Indices(s)
      BY <2>13, <3>3
    <3>5. data[n] = old[1 + FlatIndex(s, source[n])]
      BY <2>10, <2>12, <3>4
    <3>6. 1 + FlatIndex(s, source[n]) \in 1..DataSize(s)
      BY <2>2, <3>4, PlaceInData
    <3>7. \A i \in 1..DataSize(s) : old[i] \in {0, 1}
      BY <2>2
    <3> QED
      BY <3>5, <3>6, <3>7
  <2>16. data \in Seq({0, 1}) /\ Len(data) = DataSize(u)
    <3> HIDE DEF u
    <3> QED
      BY <2>7, <2>8, <2>15, FunctionIsSeq
  <2>17. Assign(x, Made(u, data), value)
    BY <2>1, <2>5
  <2>18. \A idx \in Indices(u) : value[idx] = data[1 + FlatIndex(u, idx)]
    BY <2>14
  <2> HIDE DEF u
  <2> QED
    BY <2>3, <2>16, <2>17, <2>18, AssignMade
<1> QED
  BY <1>1, <1>2

LEMMA ApplyPreserves ==
  ASSUME DataInvariant, NEW x \in Tensors, NEW y \in Tensors, Apply(x, y)
  PROVE  DataInvariant'
<1> DEFINE s == t[y].shape
           old == t[y].data
           m == meaning[y]
           data == [i \in 1..DataSize(s) |-> IF i \in DOMAIN old THEN 1 - old[i] ELSE 0]
           value == [idx \in Indices(s) |-> IF Hollow(t[y]) THEN 0 ELSE 1 - m[idx]]
<1>1. /\ s \in Seq(Nat)
      /\ old \in Seq({0, 1})
      /\ Agrees(t[y], m)
      /\ ~Hollow(t[y]) => Len(old) = DataSize(s)
      /\ Hollow(t[y]) => old = <<>> /\ DataSize(s) = 1
      /\ DataSize(s) \in Nat
  BY OfInvariant
<1>2. Assign(x, Mapped(t[y]), value)
  BY DEF Apply
<1>3. Mapped(t[y]) = [New(s) EXCEPT !.data = data]
  <2>1. DOMAIN New(s).data = 1..DataSize(s)
    BY <1>1, NewIsMade
  <2>2. Mapped(t[y]) =
          [New(s) EXCEPT !.data =
             [i \in DOMAIN New(s).data |-> IF i \in DOMAIN old THEN 1 - old[i] ELSE 0]]
    BY Zenon DEF Mapped
  <2> HIDE DEF s, old
  <2> QED
    BY <2>1, <2>2, Zenon
<1>4. ~Hollow(t[y]) => \A idx \in Indices(s) : m[idx] = old[1 + FlatIndex(s, idx)]
  BY <1>1 DEF Agrees
<1> HIDE DEF s, old, m
<1>5. ASSUME NEW i \in 1..DataSize(s) PROVE data[i] \in {0, 1}
  <2>1. i \in DOMAIN old => old[i] \in {0, 1}
    BY <1>1
  <2> QED
    BY <2>1
<1>6. ASSUME NEW idx \in Indices(s) PROVE value[idx] = data[1 + FlatIndex(s, idx)]
  <2>1. 1 + FlatIndex(s, idx) \in 1..DataSize(s)
    BY <1>1, PlaceInData
  <2>2. CASE Hollow(t[y])
    BY <1>1, <2>1, <2>2
  <2>3. CASE ~Hollow(t[y])
    <3>1. DOMAIN old = 1..DataSize(s)
      BY <1>1, <2>3
    <3> QED
      BY <1>4, <2>1, <2>3, <3>1
  <2> QED
    BY <2>2, <2>3
<1>7. DOMAIN data = 1..DataSize(s) /\ data = [i \in 1..DataSize(s) |-> data[i]]
  OBVIOUS
<1> HIDE DEF data, value
<1>8. data \in Seq({0, 1}) /\ Len(data) = DataSize(s)
  BY <1>1, <1>5, <1>7, FunctionIsSeq
<1>9. Assign(x, Made(s, data), value)
  <2>1. [New(s) EXCEPT !.data = data] = Made(s, data)
    BY <1>1, NewIsMade
  <2> QED
    BY <1>2, <1>3, <2>1, Zenon
<1> QED
  BY <1>1, <1>6, <1>8, <1>9, AssignMade

LEMMA CombinePreserves ==
  ASSUME DataInvariant, NEW x \in Tensors, NEW y \in Tensors, Combine(x, y)
  PROVE  DataInvariant'
<1>1. CASE OutOfRange({x, y}, NoRows)
  BY <1>1, OutOfRangePreserves
<1>2. CASE ~OutOfRange({x, y}, NoRows)
  <2> DEFINE s == t[x].shape
             mine == t[x].data
             other == t[y].data
             m == meaning[x]
             k == meaning[y]
             data == [i \in 1..DataSize(s) |->
                        IF i \in DOMAIN mine THEN (mine[i] + other[i]) % 2 ELSE 0]
             value == [idx \in Indices(s) |->
                        IF Hollow(t[x]) THEN 0 ELSE (m[idx] + k[idx]) % 2]
             hollow == Hollow(t[x])
  <2>1. /\ t[x].shape = t[y].shape
        /\ Len(t[x].data) <= Len(t[y].data)
        /\ Assign(x, [New(t[x].shape) EXCEPT !.data =
                        [i \in DOMAIN New(t[x].shape).data |->
                           IF i \in DOMAIN t[x].data THEN (t[x].data[i] + t[y].data[i]) % 2 ELSE 0]],
             [idx \in Indices(t[x].shape) |->
                IF Hollow(t[x]) THEN 0 ELSE (meaning[x][idx] + meaning[y][idx]) % 2])
    BY <1>2 DEF Combine
  <2>2. s \in Seq(Nat) /\ mine \in Seq({0, 1}) /\ DataSize(s) \in Nat
        /\ (~Hollow(t[x]) => Len(mine) = DataSize(s))
        /\ (Hollow(t[x]) => mine = <<>> /\ DataSize(s) = 1)
        /\ Agrees(t[x], m)
    BY OfInvariant
  <2>3. other \in Seq({0, 1}) /\ Agrees(t[y], k)
        /\ (~Hollow(t[y]) => Len(other) = DataSize(t[y].shape))
        /\ (Hollow(t[y]) => other = <<>> /\ DataSize(t[y].shape) = 1)
    BY OfInvariant
  <2>4. Assign(x, [New(s) EXCEPT !.data = data], value)
    <3>1. DOMAIN New(s).data = 1..DataSize(s)
      BY <2>2, NewIsMade
    <3> QED
      BY <2>1, <3>1, Zenon
  <2>5. ~hollow => \A idx \in Indices(s) : m[idx] = mine[1 + FlatIndex(s, idx)]
    BY <2>2 DEF Agrees
  <2>6. ~hollow => Len(other) = DataSize(s) /\ \A idx \in Indices(s) : k[idx] = other[1 + FlatIndex(s, idx)]
    <3> SUFFICES ASSUME ~hollow
                 PROVE  Len(other) = DataSize(s)
                        /\ \A idx \in Indices(s) : k[idx] = other[1 + FlatIndex(s, idx)]
      OBVIOUS
    <3>1. ~Hollow(t[y])
      BY <2>1, <2>2, <2>3
    <3> QED
      BY <2>1, <2>3, <3>1 DEF Agrees
  <2>7. (~hollow => Len(mine) = DataSize(s)) /\ (hollow => mine = <<>> /\ DataSize(s) = 1)
    BY <2>2
  <2> HIDE DEF s, mine, other, m, k
  <2>8. \A idx \in Indices(s) : value[idx] = IF hollow THEN 0 ELSE (m[idx] + k[idx]) % 2
    OBVIOUS
  <2>9. DOMAIN data = 1..DataSize(s) /\ data = [i \in 1..DataSize(s) |-> data[i]]
    OBVIOUS
  <2>10. \A i \in 1..DataSize(s) :
           data[i] = IF i \in DOMAIN mine THEN (mine[i] + other[i]) % 2 ELSE 0
    OBVIOUS
  <2> HIDE DEF data, value, hollow
  <2>11. ASSUME NEW i \in 1..DataSize(s) PROVE data[i] \in {0, 1}
    <3>1. CASE i \in DOMAIN mine
      <4>1. ~hollow
        BY <2>7, <3>1
      <4>2. mine[i] \in {0, 1} /\ other[i] \in {0, 1}
        BY <2>2, <2>3, <2>6, <4>1, <3>1
      <4>3. (mine[i] + other[i]) % 2 \in {0, 1}
        <5>1. \A n \in Int : n % 2 \in {0, 1}
          OBVIOUS
        <5> QED
          BY <4>2, <5>1
      <4> QED
        BY <2>10, <3>1, <4>3
    <3>2. CASE i \notin DOMAIN mine
      BY <2>10, <3>2
    <3> QED
      BY <3>1, <3>2
  <2>12. ASSUME NEW idx \in Indices(s) PROVE value[idx] = data[1 + FlatIndex(s, idx)]
    <3> DEFINE n == 1 + FlatIndex(s, idx)
    <3>1. n \in 1..DataSize(s)
      BY <2>2, PlaceInData
    <3>2. CASE hollow
      <4>1. n \notin DOMAIN mine
        BY <2>7, <3>2
      <4> QED
        BY <2>8, <2>10, <3>1, <3>2, <4>1
    <3>3. CASE ~hollow
      <4>1. n \in DOMAIN mine
        BY <2>2, <2>7, <3>1, <3>3
      <4>2. m[idx] = mine[n] /\ k[idx] = other[n]
        BY <2>5, <2>6, <3>3
      <4> HIDE DEF n
      <4>3. data[n] = (mine[n] + other[n]) % 2
        BY <2>10, <3>1, <4>1
      <4>4. value[idx] = (m[idx] + k[idx]) % 2
        BY <2>8, <3>3
      <4>5. value[idx] = data[n]
        BY <4>2, <4>3, <4>4, Zenon
      <4> QED
        BY <4>5 DEF n
    <3> QED
      BY <3>2, <3>3
  <2>13. data \in Seq({0, 1}) /\ Len(data) = DataSize(s)
    BY <2>2, <2>9, <2>11, FunctionIsSeq
  <2>14. Assign(x, Made(s, data), value)
    <3>1. [New(s) EXCEPT !.data = data] = Made(s, data)
      BY <2>2, NewIsMade
    <3> QED
      BY <2>4, <3>1, Zenon
  <2> QED
    BY <2>2, <2>12, <2>13, <2>14, AssignMade
<1> QED
  BY <1>1, <1>2

LEMMA SetPreserves ==
  ASSUME DataInvariant, NEW x \in Tensors, NEW idx \in Indices(t[x].shape), NEW v \in {0, 1},
         Set(x, idx, v)
  PROVE  DataInvariant'
<1>1. CASE OutOfRange({x}, NoRows)
  BY <1>1, OutOfRangePreserves
<1>2. CASE ~OutOfRange({x}, NoRows)
  <2> DEFINE s == t[x].shape
             old == t[x].data
             m == meaning[x]
             n == 1 + FlatIndex(s, idx)
             data == [old EXCEPT ![n] = v]
             value == [m EXCEPT ![idx] = v]
  <2>1. ~Hollow(t[x]) /\ Assign(x, [t[x] EXCEPT !.data[Position(t[x], idx)] = v], [meaning[x] EXCEPT ![idx] = v])
    BY <1>2 DEF Set
  <2>2. /\ t[x] = Made(s, old)
        /\ t[x].strides = Strides(s)
        /\ s \in Seq(Nat)
        /\ old \in Seq({0, 1})
        /\ Len(old) = DataSize(s)
        /\ DOMAIN m = Indices(s)
        /\ \A jdx \in Indices(s) : m[jdx] = old[1 + FlatIndex(s, jdx)]
    BY <2>1, OfInvariant DEF Agrees
  <2>3. Position(t[x], idx) = n
    BY <2>2, PositionIsFlatIndex
  <2>4. [t[x] EXCEPT !.data[Position(t[x], idx)] = v] = [t[x] EXCEPT !.data = data]
    BY <2>3
  <2>5. [t[x] EXCEPT !.data = data] = Made(s, data)
    <3> HIDE DEF s, old, data
    <3> QED
      BY <2>2, WithOtherData
  <2>6. Assign(x, Made(s, data), value)
    BY <2>1, <2>4, <2>5
  <2>7. idx \in Indices(s)
    OBVIOUS
  <2> HIDE DEF s, old, m
  <2>8. n \in 1..DataSize(s)
    BY <2>2, <2>7, PlaceInData
  <2>9. data \in Seq({0, 1}) /\ Len(data) = DataSize(s)
    <3> HIDE DEF n
    <3> QED
      BY <2>2, <2>8
  <2>10. ASSUME NEW jdx \in Indices(s) PROVE value[jdx] = data[1 + FlatIndex(s, jdx)]
    <3>1. 1 + FlatIndex(s, jdx) \in 1..DataSize(s)
      BY <2>2, PlaceInData
    <3>2. CASE jdx = idx
      <4>1. value[idx] = v
        BY <2>2, <2>7
      <4>2. data[n] = v
        <5> HIDE DEF n
        <5> QED
          BY <2>2, <2>8
      <4> QED
        BY <3>2, <4>1, <4>2
    <3>3. CASE jdx # idx
      <4>1. 1 + FlatIndex(s, jdx) # n
        <5>1. FlatIndex(s, jdx) # FlatIndex(s, idx)
          BY <2>2, <2>7, <3>3, Places
        <5>2. FlatIndex(s, jdx) \in 0..(DataSize(s) - 1) /\ FlatIndex(s, idx) \in 0..(DataSize(s) - 1)
          BY <2>2, <2>7, Places
        <5> QED
          BY <5>1, <5>2
      <4>2. value[jdx] = m[jdx]
        BY <2>2, <3>3
      <4> DEFINE place == 1 + FlatIndex(s, jdx)
      <4> HIDE DEF n
      <4>3. data[place] = old[place]
        <5> HIDE DEF place
        <5> QED
          BY <2>2, <3>1, <4>1 DEF place
      <4> QED
        BY <2>2, <4>2, <4>3
    <3> QED
      BY <3>2, <3>3
  <2> HIDE DEF data, value
  <2> QED
    BY <2>2, <2>6, <2>9, <2>10, AssignMade
<1> QED
  BY <1>1, <1>2

LEMMA DataInvariantInit == Init => DataInvariant
<1> SUFFICES ASSUME Init PROVE DataInvariant
  OBVIOUS
<1>1. DOMAIN t = Tensors /\ DOMAIN meaning = Tensors
  BY DEF Init
<1>2. ASSUME NEW x \in Tensors
      PROVE  WellFormed(t[x]) /\ Hollow(t[x])
  <2>1. t[x] = Empty
    BY DEF Init
  <2> QED
    BY <2>1, EmptyIsMade
<1> QED
  BY <1>1, <1>2 DEF DataInvariant, Agrees

LEMMA NextPreserves == DataInvariant /\ [Next]_vars => DataInvariant'
<1> SUFFICES ASSUME DataInvariant, [Next]_vars PROVE DataInvariant'
  OBVIOUS
<1>1. ASSUME NEW x \in Tensors, NEW s \in Shapes, Construct(x, s) \/ Reshape(x, s)
      PROVE  DataInvariant'
  BY <1>1, ConstructPreserves, ReshapePreserves
<1>2. ASSUME NEW x \in Tensors, NEW v \in {0, 1},
             FillAll(x, v) \/ \E idx \in Indices(t[x].shape) : Set(x, idx, v)
      PROVE  DataInvariant'
  BY <1>2, FillAllPreserves, SetPreserves
<1>3. ASSUME NEW x \in Tensors, NEW d \in Vectors, Fill1(x, d) \/ Create1(x, d)
      PROVE  DataInvariant'
  BY <1>3, Fill1Preserves, Create1Preserves
<1>4. ASSUME NEW x \in Tensors, NEW d \in Matrices, Fill2(x, d) \/ Create2(x, d)
      PROVE  DataInvariant'
  BY <1>4, Fill2Preserves, Create2Preserves
<1>5. ASSUME NEW x \in Tensors, NEW y \in Tensors, Apply(x, y) \/ Combine(x, y)
      PROVE  DataInvariant'
  BY <1>5, ApplyPreserves, CombinePreserves
<1>6. ASSUME NEW x \in Tensors, Default(x) \/ Transpose(x) \/ Printed(x)
      PROVE  DataInvariant'
  BY <1>6, DefaultPreserves, TransposePreserves, OutOfRangePreserves DEF Printed
<1>7. CASE UNCHANGED vars
  BY <1>7 DEF vars, DataInvariant, WellFormed, Agrees, Hollow
<1> QED
  BY <1>1, <1>2, <1>3, <1>4, <1>5, <1>6, <1>7 DEF Next

\* Through every operation a tensor keeps the strides of its shape, and at the
\* place of every index the value last stored for it (tensor.hpp:19-103).
THEOREM DataInvariantHolds == Spec => []DataInvariant
BY DataInvariantInit, NextPreserves, PTL DEF Spec

\* Elements, and as many as the shape says unless a tensor was constructed
\* without a shape (tensor.hpp:19-56).
THEOREM DataTypes == Spec => []TypeOK
<1>1. DataInvariant => TypeOK
  <2> SUFFICES ASSUME DataInvariant, NEW x \in Tensors
               PROVE  /\ t[x].data \in Seq({0, 1})
                      /\ Hollow(t[x]) => t[x].data = <<>> /\ DataSize(t[x].shape) = 1
    BY DEF TypeOK
  <2> QED
    BY OfInvariant
<1> QED
  BY <1>1, DataInvariantHolds, PTL

\* operator() finds at every index what was stored for it, for tensors of any
\* rank, through any number of fills, reshapes and transposes (tensor.hpp:19-28,
\* 44-56, 191-200).
THEOREM ReadsStored == Spec => []ReadsWhatWasStored
<1>1. ASSUME DataInvariant PROVE ReadsWhatWasStored
  <2> SUFFICES ASSUME NEW x \in Tensors, ~Hollow(t[x]), NEW idx \in Indices(t[x].shape)
               PROVE  Position(t[x], idx) \in DOMAIN t[x].data /\ At(t[x], idx) = meaning[x][idx]
    BY DEF ReadsWhatWasStored
  <2> DEFINE s == t[x].shape
             old == t[x].data
             n == 1 + FlatIndex(s, idx)
  <2>1. /\ s \in Seq(Nat)
        /\ t[x].strides = Strides(s)
        /\ old \in Seq({0, 1})
        /\ Len(old) = DataSize(s)
        /\ meaning[x][idx] = old[1 + FlatIndex(s, idx)]
    BY <1>1, OfInvariant DEF Agrees
  <2>2. Position(t[x], idx) = n
    BY <2>1, PositionIsFlatIndex
  <2>3. n \in 1..DataSize(s)
    BY <2>1, PlaceInData
  <2>4. n \in DOMAIN old
    <3> HIDE DEF n, s, old
    <3> QED
      BY <2>1, <2>3
  <2> QED
    BY <2>1, <2>2, <2>4 DEF At
<1> QED
  BY <1>1, DataInvariantHolds, PTL

\* Rows that are taken by the length of the first and are too short.
LEMMA ShortRow ==
  ASSUME NEW s, NEW d, AcceptsRows(s, d), ~RowsLongEnough(s, d), d \in Seq(Seq({0, 1}))
  PROVE  \E r \in DOMAIN d : Len(d[r]) < Len(d[1])
<1>1. PICK r \in DOMAIN d : ~(Len(d[r]) >= s[1])
  BY DEF RowsLongEnough
<1>2. 1 \in DOMAIN d /\ Len(d[1]) = s[1] /\ Len(d[1]) \in Nat /\ Len(d[r]) \in Nat
  <2>1. 1 \in DOMAIN d /\ Len(d[1]) = s[1]
    BY DEF AcceptsRows
  <2>2. d[1] \in Seq({0, 1}) /\ d[r] \in Seq({0, 1})
    BY <2>1
  <2> QED
    BY <2>1, <2>2
<1>3. Len(d[r]) < Len(d[1])
  BY <1>1, <1>2
<1> QED
  BY <1>3

\* What the client did wrong when a call has looked outside a vector.
HollowUsed == \E x \in fault'.used : Hollow(t[x]) \/ t[x].shape = <<>>
BadRows ==
  \/ fault'.rows = <<>>
  \/ \E r \in DOMAIN fault'.rows : Len(fault'.rows[r]) < Len(fault'.rows[1])
Misuse == HollowUsed \/ BadRows

LEMMA AssignSeesNothing ==
  ASSUME NEW x, NEW new, NEW value, Assign(x, new, value)
  PROVE  ~fault'.seen
BY DEF Assign

LEMMA OutOfRangeRecords ==
  ASSUME NEW used, NEW d, OutOfRange(used, d)
  PROVE  fault'.used = used /\ fault'.rows = d
BY DEF OutOfRange

\* A call that looked outside a vector and used a tensor without elements or
\* without dimensions.
LEMMA HollowMisuse ==
  ASSUME NEW used, NEW d, NEW x \in used, Hollow(t[x]) \/ t[x].shape = <<>>,
         OutOfRange(used, d)
  PROVE  Misuse
BY OutOfRangeRecords DEF Misuse, HollowUsed

LEMMA RowsMisuse ==
  ASSUME NEW x \in Tensors, NEW new, NEW used, NEW d \in Matrices,
         FillRows(x, new, used, d), fault'.seen
  PROVE  OutOfRange(used, d) /\ (Hollow(new) \/ BadRows)
<1>1. /\ AcceptsRows(new.shape, d)
      /\ Hollow(new) \/ ~RowsLongEnough(new.shape, d)
      /\ OutOfRange(used, d)
  BY AssignSeesNothing DEF FillRows
<1>2. fault'.rows = d
  BY <1>1, OutOfRangeRecords
<1>3. ~RowsLongEnough(new.shape, d) => \E r \in DOMAIN d : Len(d[r]) < Len(d[1])
  BY <1>1, MatricesHaveRows, ShortRow
<1> QED
  BY <1>1, <1>2, <1>3 DEF BadRows

\* A call looks outside a vector only through a tensor it uses that was
\* constructed without a shape, or given no rows, or a row shorter than the
\* first (tensor.hpp:61-103, 170-200, 320-348).
THEOREM OutOfRangeIsExplained == Spec => OutOfRangeOnlyByHollowOrRagged
<1>1. ASSUME DataInvariant, [Next]_vars
      PROVE  [fault'.seen =>
                \/ \E x \in fault'.used : Hollow(t[x]) \/ t[x].shape = <<>>
                \/ fault'.rows = <<>>
                \/ \E r \in DOMAIN fault'.rows :
                     Len(fault'.rows[r]) < Len(fault'.rows[1])]_vars
  <2> SUFFICES ASSUME Next, fault'.seen PROVE Misuse
    BY <1>1 DEF Misuse, HollowUsed, BadRows
  <2>1. ASSUME NEW x \in Tensors, NEW s \in Shapes, Construct(x, s) \/ Reshape(x, s)
        PROVE  Misuse
    BY <2>1, AssignSeesNothing DEF Construct, Reshape
  <2>2. ASSUME NEW x \in Tensors, NEW v \in {0, 1},
               FillAll(x, v) \/ \E idx \in Indices(t[x].shape) : Set(x, idx, v)
        PROVE  Misuse
    <3>1. Hollow(t[x]) /\ OutOfRange({x}, NoRows)
      BY <2>2, AssignSeesNothing DEF FillAll, Set
    <3> QED
      BY <3>1, HollowMisuse
  <2>3. ASSUME NEW x \in Tensors, NEW d \in Vectors, Fill1(x, d) \/ Create1(x, d)
        PROVE  Misuse
    <3>1. t[x].shape = <<>> /\ OutOfRange({x}, NoRows)
      BY <2>3, AssignSeesNothing DEF Fill1, FilledBy, Create1
    <3> QED
      BY <3>1, HollowMisuse
  <2>4. ASSUME NEW x \in Tensors, NEW d \in Matrices, Fill2(x, d) \/ Create2(x, d)
        PROVE  Misuse
    <3>1. ASSUME NEW used, d = <<>> /\ OutOfRange(used, d)
          PROVE  Misuse
      BY <3>1, OutOfRangeRecords DEF Misuse, BadRows
    <3>2. CASE FillRows(x, t[x], {x}, d)
      <4>1. OutOfRange({x}, d) /\ (Hollow(t[x]) \/ BadRows)
        BY <3>2, RowsMisuse
      <4> QED
        BY <4>1, HollowMisuse DEF Misuse
    <3>3. CASE d # <<>> /\ FillRows(x, New(<<Len(d[1]), Len(d)>>), {}, d)
      <4> DEFINE s == <<Len(d[1]), Len(d)>>
      <4>1. s \in Seq(Nat)
        <5>1. d \in Seq(Seq({0, 1}))
          BY MatricesHaveRows
        <5>2. d[1] \in Seq({0, 1})
          BY <3>3, <5>1
        <5>3. Len(d[1]) \in Nat /\ Len(d) \in Nat
          BY <5>1, <5>2
        <5> QED
          BY <5>3
      <4> HIDE DEF s
      <4>2. ~Hollow(New(s))
        BY <4>1, NewIsMade
      <4>3. Hollow(New(s)) \/ BadRows
        BY <3>3, RowsMisuse DEF s
      <4> QED
        BY <4>2, <4>3 DEF Misuse
    <3> QED
      BY <2>4, <3>1, <3>2, <3>3 DEF Fill2, Create2
  <2>5. ASSUME NEW x \in Tensors, NEW y \in Tensors, Apply(x, y)
        PROVE  Misuse
    BY <2>5, AssignSeesNothing DEF Apply
  <2>6. ASSUME NEW x \in Tensors, NEW y \in Tensors, Combine(x, y)
        PROVE  Misuse
    <3>1. /\ t[x].shape = t[y].shape
          /\ Len(t[x].data) > Len(t[y].data)
          /\ OutOfRange({x, y}, NoRows)
      BY <2>6, AssignSeesNothing DEF Combine
    <3>2. (~Hollow(t[x]) => Len(t[x].data) = DataSize(t[x].shape))
      BY <1>1, OfInvariant
    <3>3. /\ ~Hollow(t[y]) => Len(t[y].data) = DataSize(t[y].shape)
          /\ DataSize(t[y].shape) \in Nat
      BY <1>1, OfInvariant
    <3>4. Hollow(t[x]) \/ Hollow(t[y])
      BY <3>1, <3>2, <3>3
    <3>5. x \in {x, y} /\ y \in {x, y}
      OBVIOUS
    <3> QED
      BY <3>1, <3>4, <3>5, HollowMisuse
  <2>7. ASSUME NEW x \in Tensors, Default(x) \/ Transpose(x) \/ Printed(x)
        PROVE  Misuse
    <3>1. Hollow(t[x]) /\ OutOfRange({x}, NoRows)
      BY <2>7, AssignSeesNothing DEF Default, Transpose, Printed
    <3> QED
      BY <3>1, HollowMisuse
  <2> QED
    BY <2>1, <2>2, <2>3, <2>4, <2>5, <2>6, <2>7 DEF Next
<1> QED
  BY <1>1, DataInvariantHolds, PTL DEF Spec, OutOfRangeOnlyByHollowOrRagged
=============================================================================
