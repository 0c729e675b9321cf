---------------------------- MODULE TensorShape ----------------------------
(***************************************************************************)
(* The shape algebra of nn::math::Tensor (tensor.hpp): what each operation *)
(* accepts, the shape it returns, and where it looks in the flat vector    *)
(* `data'.  A shape is a sequence of dimensions, outermost first; <<>> is  *)
(* the shape of a default-constructed tensor.  Element values are not      *)
(* modelled here.  Indices of shapes and strides start at 1, coordinates   *)
(* and flat indices at 0 as in the code.                                   *)
(***************************************************************************)
EXTENDS Integers, Sequences, SequencesExt

Dim == Nat \ {0}
Shape == Seq(Dim)

Product(s) == FoldLeft(LAMBDA x, y : x * y, 1, s)

\* Number of elements, the product of the dimensions; written out for the one
\* and two dimensions that training works with.
DataSize(s) ==
  IF Len(s) = 1 THEN s[1]
  ELSE IF Len(s) = 2 THEN s[1] * s[2] ELSE Product(s)

\* Row-major strides: the product of all dimensions further in.
Strides(s) == [i \in 1..Len(s) |-> DataSize(SubSeq(s, i + 1, Len(s)))]

\* The flat index operator() computes from an index it has found in range.
FlatIndex(s, idx) ==
  FoldLeft(+, 0, [i \in 1..Len(s) |-> idx[i] * Strides(s)[i]])

CanReshape(s, t) == DataSize(s) = DataSize(t)

CanTranspose(s) == Len(s) = 2
Transposed(s) == <<s[2], s[1]>>

(***************************************************************************)
(* matmul: the last two dimensions are matrices, the dimensions before     *)
(* them are batch dimensions, padded on the left with ones to the larger   *)
(* rank and broadcast where one side is 1.                                 *)
(***************************************************************************)
Rows(s) == s[Len(s) - 1]
Cols(s) == s[Len(s)]

BatchDims(a, b) ==
  IF Len(a) >= Len(b) THEN Len(a) - 2 ELSE Len(b) - 2

PaddedBatch(s, n) ==
  LET pad == n - (Len(s) - 2)
  IN  [i \in 1..n |-> IF i <= pad THEN 1 ELSE s[i - pad]]

BroadcastDim(x, y) == IF x = 1 THEN y ELSE x

BroadcastBatch(a, b) ==
  LET n == BatchDims(a, b)
  IN  [i \in 1..n |-> BroadcastDim(PaddedBatch(a, n)[i], PaddedBatch(b, n)[i])]

CanMatmul(a, b) ==
  /\ Len(a) >= 2
  /\ Len(b) >= 2
  /\ Cols(a) = Rows(b)
  /\ LET n == BatchDims(a, b)
         pa == PaddedBatch(a, n)
         pb == PaddedBatch(b, n)
     IN  \A i \in 1..n : pa[i] = pb[i] \/ pa[i] = 1 \/ pb[i] = 1

MatmulShape(a, b) == BroadcastBatch(a, b) \o <<Rows(a), Cols(b)>>
=============================================================================
