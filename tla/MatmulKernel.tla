---------------------------- MODULE MatmulKernel ----------------------------
(***************************************************************************)
(* Tensor::matmul (tensor.hpp:204-277) as a loop over the batches of its   *)
(* result.  Iteration b writes the b-th matrix of the result from the      *)
(* matrix of each operand that starts at a computed offset of its data; it *)
(* is those offsets that broadcasting has to get right.                    *)
(*                                                                         *)
(* The code pads the batch dimensions of the operand of smaller rank, but  *)
(* indexes its strides unpadded, from the front.  An index past the end of *)
(* strides reads outside the vector: any value of Garbage may come back.   *)
(***************************************************************************)
EXTENDS TensorShape

CONSTANTS
  Operands,   \* shapes of the operands
  Garbage   \* what a read past the end of strides may return

ASSUME KernelAssumption ==
  Operands \subseteq Shape /\ Garbage # {} /\ Garbage \subseteq Nat

VARIABLES
  a, b,      \* shapes of *this and other
  pc,        \* "check", "loop", "done" or "threw"
  offsets    \* [a, b] offsets of the iterations so far

kernelVars == <<a, b, pc, offsets>>

\* The padded batch shapes, and the batch shape of the result.
Padded(s) == PaddedBatch(s, BatchDims(a, b))
OutBatch == BroadcastBatch(a, b)

\* The loop with `<=' for `<', and as it is.
BatchesAndOne == DataSize(OutBatch) + 1
Batches == DataSize(OutBatch)

\* The batch coordinates, the last first: temp % dim, then temp /= dim; and
\* with the division left out.
CoordsUndivided(n) == [i \in 1..Len(OutBatch) |-> n % OutBatch[i]]
Coords(n) ==
  LET dims == OutBatch
      temp[i \in 0..Len(dims)] ==
        IF i = Len(dims) THEN n ELSE temp[i + 1] \div dims[i + 1]
  IN  [i \in 1..Len(dims) |-> temp[i] % dims[i]]

\* A batch dimension of size 1 is broadcast: its coordinate stays 0.
CoordNotBroadcast(s, n, i) == Coords(n)[i]
Coord(s, n, i) == IF Padded(s)[i] = 1 THEN 0 ELSE Coords(n)[i]

\* strides[i] of an operand, or what lies behind it.
StrideAt(s, i, garbage) == IF i <= Len(s) THEN Strides(s)[i] ELSE garbage

Offset(s, n, garbage) ==
  FoldLeft(+, 0, [i \in 1..Len(OutBatch) |-> Coord(s, n, i) * StrideAt(s, i, garbage)])

-----------------------------------------------------------------------------
KernelInit ==
  /\ a \in Operands
  /\ b \in Operands
  /\ pc = "check"
  /\ offsets = <<>>

Check ==
  /\ pc = "check"
  /\ pc' = IF CanMatmul(a, b) THEN "loop" ELSE "threw"
  /\ UNCHANGED <<a, b, offsets>>

Iterate ==
  /\ pc = "loop"
  /\ Len(offsets) < Batches
  /\ \E ga, gb \in Garbage :
       offsets' = Append(offsets, [a |-> Offset(a, Len(offsets), ga),
                                   b |-> Offset(b, Len(offsets), gb)])
  /\ UNCHANGED <<a, b, pc>>

Finish ==
  /\ pc = "loop"
  /\ Len(offsets) >= Batches
  /\ pc' = "done"
  /\ UNCHANGED <<a, b, offsets>>

KernelNext == Check \/ Iterate \/ Finish

KernelSpec == KernelInit /\ [][KernelNext]_kernelVars

-----------------------------------------------------------------------------
\* One pair of offsets for each batch of the result, and no more; none before
\* the shapes have been accepted.
KernelTypeOK ==
  /\ a \in Operands /\ b \in Operands
  /\ pc \in {"check", "loop", "done", "threw"}
  /\ offsets \in Seq([a : Nat, b : Nat])
  /\ offsets # <<>> => CanMatmul(a, b) /\ Len(offsets) <= DataSize(OutBatch)

\* Broadcasting by its definition: the result's matrix at batch index idx comes
\* from the operand's matrix at the trailing part of idx, with 0 wherever the
\* operand's dimension is 1.
BatchIndices ==
  {idx \in [1..Len(OutBatch) -> UNION {0..(OutBatch[i] - 1) : i \in 1..Len(OutBatch)}] :
     \A i \in 1..Len(OutBatch) : idx[i] < OutBatch[i]}

MatrixAt(s, idx) ==
  LET n == Len(s) - 2
      pad == Len(OutBatch) - n
  IN  FlatIndex(s, [i \in 1..Len(s) |->
                      IF i > n \/ s[i] = 1 THEN 0 ELSE idx[i + pad]])

Broadcast(s, idx, offset) == offset = MatrixAt(s, idx)

\* Operands whose batch dimensions all line up with the result's, and plain
\* matrices, as the weights of a layer are.
Aligned(s) == Len(s) = 2 \/ Len(s) - 2 = Len(OutBatch)

\* Every iteration multiplies the right matrix of an aligned operand: all
\* products of equal ranks, and all products with a matrix, are right, though
\* the second reads strides past its end from a batch rank of 3 on.
AlignedOperandsBroadcast ==
  \A n \in 1..Len(offsets) : \A idx \in BatchIndices :
    FlatIndex(OutBatch, idx) = n - 1 =>
      /\ Aligned(a) => Broadcast(a, idx, offsets[n].a)
      /\ Aligned(b) => Broadcast(b, idx, offsets[n].b)

\* The wrong stride is never the larger one: even misaligned operands are read
\* inside their data, as long as strides is not read past its end for a
\* dimension that is not 1 (an operand of rank 3 or more, a batch rank above it).
StridesSuffice(s) == Len(OutBatch) <= Len(s) \/ Len(s) = 2

InData(s, offset) == offset + Rows(s) * Cols(s) <= DataSize(s)

ReadsStayInData ==
  \A n \in 1..Len(offsets) :
    /\ StridesSuffice(a) => InData(a, offsets[n].a)
    /\ StridesSuffice(b) => InData(b, offsets[n].b)

\* What README.md:265 says of matmul: batch dimensions are broadcast, whatever
\* the ranks.
BatchesBroadcast ==
  \A n \in 1..Len(offsets) : \A idx \in BatchIndices :
    FlatIndex(OutBatch, idx) = n - 1 =>
      Broadcast(a, idx, offsets[n].a) /\ Broadcast(b, idx, offsets[n].b)
=============================================================================
