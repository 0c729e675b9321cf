------------------------ MODULE LinearNetworkProofs ------------------------
(***************************************************************************)
(* Proofs about LinearNetwork, for every set of layers and shapes.         *)
(***************************************************************************)
EXTENDS LinearNetwork, TensorShapeProofs, SequenceTheorems

-----------------------------------------------------------------------------
LEMMA FunctionIsSeq ==
  ASSUME NEW S, NEW n \in Nat, NEW f \in [1..n -> S]
  PROVE  f \in Seq(S) /\ Len(f) = n
<1>1. f \in Seq(S)
  BY SeqDef
<1>2. DOMAIN f = 1..n /\ DOMAIN f = 1..Len(f) /\ Len(f) \in Nat
  BY <1>1, LenProperties
<1>3. 1..n = 1..Len(f)
  BY <1>2
<1>4. n = Len(f)
  BY <1>2, <1>3, SMT
<1> QED
  BY <1>1, <1>4

-----------------------------------------------------------------------------
(* Shapes of one and two dimensions. *)

LEMMA ShapeElement ==
  ASSUME NEW s \in Shape
  PROVE  /\ Len(s) \in Nat
         /\ \A i \in 1..Len(s) : s[i] \in Nat /\ s[i] > 0
<1>1. Len(s) \in Nat
  BY LenProperties DEF Shape
<1>2. \A i \in 1..Len(s) : s[i] \in Dim
  BY ElementOfSeq DEF Shape
<1> QED
  BY <1>1, <1>2 DEF Dim

LEMMA ShortShapes ==
  /\ <<>> \in Shape
  /\ \A x \in Dim : <<x>> \in Shape
  /\ \A x, y \in Dim : <<x, y>> \in Shape
BY DEF Shape, Dim

LEMMA ShapeByElements ==
  ASSUME NEW s \in Shape
  PROVE  /\ Len(s) = 1 => s = <<s[1]>>
         /\ Len(s) = 2 => s = <<s[1], s[2]>>
<1>1. ASSUME Len(s) = 1
      PROVE  s = <<s[1]>>
  <2>1. s[1] \in Dim
    BY <1>1, ElementOfSeq DEF Shape
  <2>2. <<s[1]>> \in Seq(Dim) /\ Len(<<s[1]>>) = 1
    BY <2>1
  <2> QED
    BY <1>1, <2>2, SeqEqual DEF Shape
<1>2. ASSUME Len(s) = 2
      PROVE  s = <<s[1], s[2]>>
  <2>1. s[1] \in Dim /\ s[2] \in Dim
    BY <1>2, ElementOfSeq DEF Shape
  <2>2. <<s[1], s[2]>> \in Seq(Dim) /\ Len(<<s[1], s[2]>>) = 2
    BY <2>1
  <2> QED
    BY <1>2, <2>2, SeqEqual DEF Shape
<1> QED
  BY <1>1, <1>2

LEMMA WithColsShape ==
  ASSUME NEW s \in Shape, NEW n \in Dim, Len(s) > 0
  PROVE  /\ WithCols(s, n) \in Shape
         /\ Len(WithCols(s, n)) = Len(s)
         /\ WithCols(s, n)[Len(s)] = n
         /\ \A i \in 1..Len(s) - 1 : WithCols(s, n)[i] = s[i]
<1>1. Len(s) \in 1..Len(s)
  BY ShapeElement
<1> QED
  BY <1>1, ExceptSeq, ShapeElement DEF WithCols, Shape

LEMMA MatrixProduct ==
  ASSUME NEW a, NEW b, Len(a) = 2, Len(b) = 2
  PROVE  /\ CanMatmul(a, b) <=> a[2] = b[1]
         /\ MatmulShape(a, b) = <<a[1], b[2]>>
BY DEF CanMatmul, MatmulShape, BroadcastBatch, BatchDims, Rows, Cols

LEMMA AsMatrixShape ==
  ASSUME NEW s \in Shape
  PROVE  /\ AsMatrix(s) \in Shape
         /\ Len(s) = 1 => AsMatrix(s) = <<1, s[1]>>
         /\ Len(s) # 1 => AsMatrix(s) = s
<1>1. Len(s) = 1 => s[1] \in Dim
  BY ElementOfSeq DEF Shape
<1> QED
  BY <1>1, ShortShapes DEF AsMatrix, Dim

\* A row vector as a matrix.
LEMMA RowVector ==
  \A n : Len(<<1, n>>) = 2 /\ Cols(<<1, n>>) = n
BY DEF Cols

\* When the shapes that training reshapes between have equally many elements.
LEMMA ReshapeMatrix ==
  ASSUME NEW r \in Dim, NEW c \in Dim, NEW d \in Dim
  PROVE  CanReshape(<<r, c>>, <<r, d>>) <=> c = d
<1>1. r * c = r * d <=> c = d
  BY SMT DEF Dim
<1>2. DataSize(<<r, c>>) = r * c /\ DataSize(<<r, d>>) = r * d
  BY DEF DataSize
<1> QED
  BY <1>1, <1>2 DEF CanReshape

LEMMA ReshapeVector ==
  ASSUME NEW c \in Dim, NEW d \in Dim
  PROVE  /\ CanReshape(<<c>>, <<1, d>>) <=> c = d
         /\ CanReshape(<<1, c>>, <<d>>) <=> c = d
<1>1. /\ DataSize(<<1, c>>) = 1 * c
      /\ DataSize(<<1, d>>) = 1 * d
      /\ DataSize(<<c>>) = c
      /\ DataSize(<<d>>) = d
  BY DEF DataSize
<1>2. 1 * c = c /\ 1 * d = d
  BY DEF Dim
<1> QED
  BY <1>1, <1>2 DEF CanReshape

\* matmul returns a shape when it returns.
LEMMA ProductShape ==
  ASSUME NEW a \in Shape, NEW b \in Shape, CanMatmul(a, b)
  PROVE  MatmulShape(a, b) \in Shape
<1> DEFINE n == BatchDims(a, b)
           pa == PaddedBatch(a, n)
           pb == PaddedBatch(b, n)
<1>1. Len(a) \in Nat /\ Len(b) \in Nat /\ Len(a) >= 2 /\ Len(b) >= 2
  BY ShapeElement DEF CanMatmul
<1>2. n \in Nat /\ n >= Len(a) - 2 /\ n >= Len(b) - 2
  BY <1>1 DEF BatchDims
<1>3. ASSUME NEW s \in Shape, Len(s) \in Nat, n >= Len(s) - 2, NEW i \in 1..n
      PROVE  PaddedBatch(s, n)[i] \in Dim
  <2>1. CASE i <= n - (Len(s) - 2)
    BY <2>1 DEF PaddedBatch, Dim
  <2>2. CASE ~(i <= n - (Len(s) - 2))
    <3>1. i - (n - (Len(s) - 2)) \in 1..Len(s)
      BY <2>2, <1>2, <1>3
    <3> QED
      BY <2>2, <3>1, <1>3, ElementOfSeq DEF PaddedBatch, Shape
  <2> QED
    BY <2>1, <2>2
<1>4. BroadcastBatch(a, b) \in [1..n -> Dim]
  <2>1. \A i \in 1..n : pa[i] \in Dim /\ pb[i] \in Dim
    BY <1>1, <1>2, <1>3
  <2> HIDE DEF n, pa, pb
  <2>2. \A i \in 1..n : BroadcastDim(pa[i], pb[i]) \in Dim
    BY <2>1 DEF BroadcastDim
  <2> QED
    BY <2>2 DEF BroadcastBatch, n, pa, pb
<1>5. BroadcastBatch(a, b) \in Seq(Dim)
  BY <1>2, <1>4, FunctionIsSeq
<1>6. Rows(a) \in Dim /\ Cols(b) \in Dim
  BY <1>1, ElementOfSeq DEF Rows, Cols, Shape
<1>7. <<Rows(a), Cols(b)>> \in Seq(Dim)
  BY <1>6
<1> QED
  BY <1>5, <1>7, ConcatProperties DEF MatmulShape, Shape

-----------------------------------------------------------------------------
(* Type correctness. *)

LEMMA Constants ==
  /\ \A X \in InputShapes : X \in Shape
  /\ \A G \in GradShapes : G \in Shape
  /\ \A arg \in LayerArgs :
       arg.inF \in Dim /\ arg.outF \in Dim /\ arg.act \in BOOLEAN
BY ShapeAssumption DEF LayerArg

LEMMA LayerFields ==
  ASSUME TypeOK, NEW i \in 1..Len(layers)
  PROVE  /\ layers[i] \in Layer
         /\ layers[i].inF \in Dim /\ layers[i].outF \in Dim
         /\ layers[i].act \in BOOLEAN /\ layers[i].torn \in BOOLEAN
         /\ layers[i].savedX \in Tensor /\ layers[i].grad \in Tensor
         /\ layers[i].savedX.shape \in Shape /\ layers[i].savedX.pass \in Nat
         /\ layers[i].grad.shape \in Shape
         /\ WeightShape(layers[i]) \in Shape
<1>1. layers[i] \in Layer
  BY ElementOfSeq DEF TypeOK
<1> QED
  BY <1>1, ShortShapes DEF Layer, Tensor, WeightShape

LEMMA ConstructedIsLayer ==
  ASSUME NEW arg \in LayerArgs
  PROVE  Constructed(arg) \in Layer
<1>1. NoTensor \in Tensor
  BY ShortShapes DEF NoTensor, Tensor
<1>2. [shape |-> <<arg.inF, arg.outF>>, pass |-> 0] \in Tensor
  BY Constants, ShortShapes DEF Tensor
<1> QED
  BY <1>1, <1>2, Constants DEF Constructed, Layer

\* What reaches a layer is a shape once the first layer has accepted X.
LEMMA AcceptedInput ==
  ASSUME TypeOK, NEW X \in Shape, NEW done \in 0..Len(layers), ForwardStops(X, done)
  PROVE  /\ done > 0 => Len(X) > 0
         /\ \A i \in 1..Len(layers) : i <= done + 1 => LayerInput(X, i) \in Shape
         /\ \A i \in 1..done : WithCols(X, layers[i].outF) \in Shape
<1>1. done > 0 => Len(X) > 0
  <2> SUFFICES ASSUME done > 0, Len(X) = 0
               PROVE  FALSE
    BY ShapeElement
  <2>1. LayerAccepts(X, 1)
    BY DEF ForwardStops
  <2>2. AsMatrix(LayerInput(X, 1)) = X
    BY AsMatrixShape DEF LayerInput
  <2> QED
    BY <2>1, <2>2 DEF LayerAccepts, CanMatmul
<1>2. ASSUME NEW i \in 1..Len(layers), i <= done + 1
      PROVE  LayerInput(X, i) \in Shape
  <2>1. CASE i = 1
    BY <2>1 DEF LayerInput
  <2>2. CASE i # 1
    <3>1. i - 1 \in 1..Len(layers) /\ Len(X) > 0
      BY <1>1, <1>2, <2>2
    <3> QED
      BY <2>2, <3>1, LayerFields, WithColsShape DEF LayerInput
  <2> QED
    BY <2>1, <2>2
<1>3. ASSUME NEW i \in 1..done
      PROVE  WithCols(X, layers[i].outF) \in Shape
  <2>1. i \in 1..Len(layers) /\ Len(X) > 0
    BY <1>1
  <2> QED
    BY <2>1, LayerFields, WithColsShape
<1> QED
  BY <1>1, <1>2, <1>3

LEMMA SavedMatrixShape ==
  ASSUME TypeOK, NEW i \in 1..Len(layers)
  PROVE  SavedMatrix(layers[i]) \in Shape
BY LayerFields, ShortShapes DEF SavedMatrix, Dim

LEMMA GradInputShape ==
  ASSUME TypeOK, NEW G \in Shape, NEW i \in 1..Len(layers)
  PROVE  GradInput(G, i) \in Shape
<1>1. CASE i = Len(layers)
  BY <1>1 DEF GradInput
<1>2. CASE i # Len(layers)
  <2>1. Len(layers) \in Nat
    BY LenProperties DEF TypeOK
  <2>2. i + 1 \in 1..Len(layers)
    BY <1>2, <2>1
  <2> QED
    BY <1>2, <2>2, LayerFields DEF GradInput
<1> QED
  BY <1>1, <1>2

LEMMA WeightGradType ==
  ASSUME TypeOK, NEW i \in 1..Len(layers), NEW g \in Shape, WeightGradOK(g, layers[i])
  PROVE  WeightGradShape(g, layers[i]) \in Shape
<1> DEFINE m == SavedMatrix(layers[i])
<1>1. m \in Shape /\ Len(m) = 2
  BY SavedMatrixShape DEF WeightGradOK, CanTranspose
<1>2. m[1] \in Dim /\ m[2] \in Dim
  BY <1>1, ElementOfSeq DEF Shape
<1>3. Transposed(m) \in Shape
  BY <1>2, ShortShapes DEF Transposed
<1>4. CanMatmul(Transposed(m), AsMatrix(g))
  BY DEF WeightGradOK
<1>5. AsMatrix(g) \in Shape
  BY AsMatrixShape
<1> QED
  BY <1>3, <1>4, <1>5, ProductShape DEF WeightGradShape

LEMMA TypeOKInit ==
  Init => TypeOK
<1> SUFFICES ASSUME Init
             PROVE  TypeOK
  OBVIOUS
<1>1. <<>> \in Seq(Layer) /\ <<>> \in Seq(CacheEntry) /\ Len(<<>>) = 0
  BY EmptySeq
<1>2. call \in Calls
  BY DEF Init, Calls
<1>3. layers \in Seq(Layer) /\ cache \in Seq(CacheEntry)
  BY <1>1, Zenon DEF Init
<1>4. Len(cache) <= Len(layers)
  BY <1>1 DEF Init
<1> QED
  BY <1>2, <1>3, <1>4 DEF Init, TypeOK

LEMMA TypeOKStep ==
  TypeOK /\ [Next]_vars => TypeOK'
<1> SUFFICES ASSUME TypeOK, [Next]_vars
             PROVE  TypeOK'
  OBVIOUS
<1> USE DEF Calls
<1>len. Len(layers) \in Nat /\ Len(cache) \in Nat /\ Len(cache) <= Len(layers)
  BY LenProperties DEF TypeOK
<1>1. ASSUME NEW arg \in LayerArgs, AddLayer(arg)
      PROVE  TypeOK'
  <2>1. /\ layers' \in Seq(Layer)
        /\ Len(layers') = Len(layers) + 1
    BY <1>1, ConstructedIsLayer, AppendProperties DEF AddLayer, TypeOK
  <2> QED
    BY <1>1, <2>1, <1>len DEF AddLayer, TypeOK, Return
<1>2. ASSUME NEW X \in InputShapes, Forward(X)
      PROVE  TypeOK'
  <2>1. PICK done \in 0..Len(layers) :
          /\ ForwardStops(X, done)
          /\ layers' = [i \in 1..Len(layers) |->
               IF Saves(i, done) THEN [layers[i] EXCEPT !.savedX = Saved(X, i)]
               ELSE layers[i]]
          /\ cache' = NewCache(X, done)
          /\ Return("forward", IF done = Len(layers) THEN "ok" ELSE "threw")
    BY <1>2 DEF Forward
  <2>2. X \in Shape /\ pass + 1 \in Nat
    BY Constants DEF TypeOK
  <2>3. ASSUME NEW i \in 1..Len(layers), i <= done + 1
        PROVE  Saved(X, i) \in Tensor
    BY <2>1, <2>2, <2>3, AcceptedInput DEF Saved, Tensor
  <2>4. \A i \in 1..Len(layers) :
          (IF Saves(i, done) THEN [layers[i] EXCEPT !.savedX = Saved(X, i)]
           ELSE layers[i]) \in Layer
    BY <2>3, LayerFields DEF Layer, Saves
  <2>5. layers' \in Seq(Layer) /\ Len(layers') = Len(layers)
    BY <2>1, <2>4, <1>len, FunctionIsSeq
  <2>6. \A i \in 1..done : CachedEntry(X, i) \in CacheEntry
    BY <2>1, <2>2, <2>3, AcceptedInput DEF CachedEntry, CacheEntry, Tensor
  <2>7. cache' \in Seq(CacheEntry) /\ Len(cache') = done
    BY <2>1, <2>6, <1>len, FunctionIsSeq DEF NewCache
  <2> QED
    BY <1>2, <2>1, <2>2, <2>5, <2>7 DEF Forward, TypeOK, Return
<1>3. ASSUME NEW G \in GradShapes, Backward(G)
      PROVE  TypeOK'
  <2>1. PICK stop \in 0..Len(layers) :
          /\ BackwardStops(G, stop)
          /\ layers' = [i \in 1..Len(layers) |->
               IF StoresWeightGrad(G, stop, i)
               THEN [layers[i] EXCEPT !.grad =
                      [shape |-> WeightGradShape(GradInput(G, i), layers[i]),
                       pass  |-> layers[i].savedX.pass]]
               ELSE layers[i]]
          /\ Return("backward", IF stop = 0 THEN "ok"
                                ELSE IF UndefinedRead(G, stop) THEN "ub" ELSE "threw")
          /\ failedBackward' = (stop > 0)
    BY <1>3 DEF Backward
  <2>2. ASSUME NEW i \in 1..Len(layers), StoresWeightGrad(G, stop, i)
        PROVE  WeightGradShape(GradInput(G, i), layers[i]) \in Shape
    <3>1. WeightGradOK(GradInput(G, i), layers[i])
      BY <2>1, <2>2, <1>len DEF StoresWeightGrad, BackwardStops, LayerBackwardOK
    <3> QED
      BY <3>1, Constants, GradInputShape, WeightGradType
  <2>3. \A i \in 1..Len(layers) :
          (IF StoresWeightGrad(G, stop, i)
           THEN [layers[i] EXCEPT !.grad =
                  [shape |-> WeightGradShape(GradInput(G, i), layers[i]),
                   pass  |-> layers[i].savedX.pass]]
           ELSE layers[i]) \in Layer
    BY <2>2, LayerFields DEF Layer, Tensor
  <2>4. layers' \in Seq(Layer) /\ Len(layers') = Len(layers)
    BY <2>1, <2>3, <1>len, FunctionIsSeq
  <2>5. call' \in Calls /\ failedBackward' \in BOOLEAN
    BY <2>1 DEF Return
  <2> QED
    BY <1>3, <2>4, <2>5, <1>len DEF Backward, TypeOK
<1>4. ASSUME UpdateWeights
      PROVE  TypeOK'
  <2>1. PICK done \in 0..Len(layers) :
          /\ layers' = [i \in 1..Len(layers) |->
               IF i <= done + 1 THEN Stepped(layers[i]) ELSE layers[i]]
          /\ Return("update_weights", IF done = Len(layers) THEN "ok" ELSE "threw")
    BY <1>4 DEF UpdateWeights
  <2>2. \A i \in 1..Len(layers) : Stepped(layers[i]) \in Layer
    BY LayerFields DEF Layer, Stepped
  <2>3. \A i \in 1..Len(layers) :
          (IF i <= done + 1 THEN Stepped(layers[i]) ELSE layers[i]) \in Layer
    BY <2>2, LayerFields
  <2>4. layers' \in Seq(Layer) /\ Len(layers') = Len(layers)
    BY <2>1, <2>3, <1>len, FunctionIsSeq
  <2> QED
    BY <1>4, <2>1, <2>4 DEF UpdateWeights, TypeOK, Return
<1>5. CASE UNCHANGED vars
  BY <1>5 DEF vars, TypeOK
<1> QED
  BY <1>1, <1>2, <1>3, <1>4, <1>5 DEF Next

\* All variables keep their types, whatever sequence of calls a client makes
\* (network.hpp:31-71).
THEOREM TypeCorrect ==
  Spec => []TypeOK
BY TypeOKInit, TypeOKStep, PTL DEF Spec

-----------------------------------------------------------------------------
(* The inductive invariant. *)

\* Each cached layer accepted the input it is cached with, put out that input
\* with its own number of columns, and all inputs have the rank of the first.
CachedInputsAccepted ==
  \A i \in 1..Len(cache) :
    /\ CanMatmul(AsMatrix(cache[i].x.shape), WeightShape(layers[i]))
    /\ cache[i].y_raw.shape = WithCols(cache[i].x.shape, layers[i].outF)
    /\ Len(cache[i].x.shape) = Len(cache[1].x.shape)

WeightGradsFit ==
  ~failedBackward =>
    \A i \in 1..Len(layers) : layers[i].grad.shape = WeightShape(layers[i])

IInv ==
  /\ TypeOK
  /\ CacheDescribesLayers
  /\ UncachedLayerBlocks
  /\ CachedInputsAccepted
  /\ WeightGradsFit

\* A layer gets through Linear::backward only with a saved input that its own
\* forward accepts, and then grad_weights has the shape of weights.
LEMMA BackwardNeedsAcceptedInput ==
  ASSUME TypeOK, NEW i \in 1..Len(layers), NEW g \in Shape,
         WeightGradOK(g, layers[i]), BiasGradOK(g, layers[i]), InputGradOK(g, layers[i])
  PROVE  /\ CanMatmul(AsMatrix(layers[i].savedX.shape), WeightShape(layers[i]))
         /\ WeightGradShape(g, layers[i]) = WeightShape(layers[i])
<1> DEFINE l  == layers[i]
           s  == l.savedX.shape
           m  == SavedMatrix(l)
           gm == AsMatrix(g)
<1>l. /\ l.inF \in Dim /\ l.outF \in Dim /\ s \in Shape /\ m \in Shape /\ gm \in Shape
      /\ Len(m) = 2 /\ Len(gm) = 2
      /\ Len(WeightShape(l)) = 2
      /\ WeightShape(l) = <<l.inF, l.outF>>
      /\ WeightShape(l)[1] = l.inF
  BY LayerFields, SavedMatrixShape, AsMatrixShape
     DEF WeightGradOK, CanTranspose, BiasGradOK, WeightShape
<1>g. gm[1] = m[1]
  <2>1. Len(Transposed(m)) = 2 /\ Transposed(m)[2] = m[1]
    BY DEF Transposed
  <2>2. CanMatmul(Transposed(m), gm)
    BY DEF WeightGradOK
  <2> QED
    BY <1>l, <2>1, <2>2, MatrixProduct
<1>o. gm[2] = l.outF
  <2>1. CanMatmul(gm, <<l.outF, l.inF>>)
    BY DEF InputGradOK
  <2> QED
    BY <1>l, <2>1, MatrixProduct
<1>r. CanReshape(<<gm[1], l.inF>>, IF Len(s) = 1 THEN <<l.inF>> ELSE s)
  <2>1. MatmulShape(gm, <<l.outF, l.inF>>) = <<gm[1], l.inF>>
    BY <1>l, MatrixProduct
  <2> QED
    BY <2>1 DEF InputGradOK
<1>d. m[1] \in Dim /\ m[2] \in Dim
  BY <1>l, ElementOfSeq DEF Shape
<1>1. CASE Len(s) = 1
  <2>1. m = <<1, l.inF>> /\ CanReshape(s, <<1, l.inF>>)
    BY <1>1 DEF SavedMatrix, WeightGradOK
  <2>2. s[1] \in Dim /\ s = <<s[1]>>
    BY <1>1, <1>l, ElementOfSeq, ShapeByElements DEF Shape
  <2>3. s[1] = l.inF
    <3>1. CanReshape(<<s[1]>>, <<1, l.inF>>) <=> s[1] = l.inF
      BY <1>l, <2>2, ReshapeVector
    <3> QED
      BY <2>1, <2>2, <3>1
  <2>4. AsMatrix(s) = <<1, l.inF>>
    BY <1>1, <1>l, <2>3, AsMatrixShape
  <2> QED
    BY <1>l, <1>o, <2>1, <2>4, MatrixProduct DEF WeightGradShape, Transposed
<1>2. CASE Len(s) # 1
  <2>1. m = s /\ AsMatrix(s) = s
    BY <1>2, <1>l, AsMatrixShape DEF SavedMatrix
  <2>2. s = <<m[1], m[2]>>
    BY <1>l, <2>1, ShapeByElements
  <2>3. CanReshape(<<m[1], l.inF>>, <<m[1], m[2]>>)
    BY <1>2, <1>r, <1>g, <2>2
  <2>4. m[2] = l.inF
    <3>1. CanReshape(<<m[1], l.inF>>, <<m[1], m[2]>>) <=> l.inF = m[2]
      BY <1>l, <1>d, ReshapeMatrix
    <3> QED
      BY <2>3, <3>1
  <2> QED
    BY <1>l, <1>o, <2>1, <2>4, MatrixProduct DEF WeightGradShape, Transposed
<1> QED
  BY <1>1, <1>2

\* So backward returns only when the cache covers every layer.
LEMMA CompleteBackward ==
  ASSUME IInv, NEW G \in Shape, \A i \in 1..Len(layers) : LayerBackwardOK(G, i)
  PROVE  /\ Len(cache) = Len(layers)
         /\ \A i \in 1..Len(layers) :
              /\ layers[i].savedX.pass = pass
              /\ WeightGradShape(GradInput(G, i), layers[i]) = WeightShape(layers[i])
<1>1. ASSUME NEW i \in 1..Len(layers)
      PROVE  /\ CanMatmul(AsMatrix(layers[i].savedX.shape), WeightShape(layers[i]))
             /\ WeightGradShape(GradInput(G, i), layers[i]) = WeightShape(layers[i])
  BY GradInputShape, BackwardNeedsAcceptedInput DEF IInv, LayerBackwardOK
<1>2. Len(cache) = Len(layers)
  <2>1. Len(cache) \in Nat /\ Len(layers) \in Nat /\ Len(cache) <= Len(layers)
    BY LenProperties DEF IInv, TypeOK
  <2>2. ~(Len(cache) < Len(layers))
    BY <1>1, <2>1 DEF IInv, UncachedLayerBlocks
  <2> QED
    BY <2>1, <2>2
<1>3. \A i \in 1..Len(layers) : layers[i].savedX.pass = pass
  BY <1>2 DEF IInv, CacheDescribesLayers
<1> QED
  BY <1>1, <1>2, <1>3

-----------------------------------------------------------------------------
(* Preservation of the inductive invariant. *)

\* A call that leaves the cache, the saved inputs and the layers' sizes alone
\* preserves what the invariant says of the cache.
LEMMA CacheFrame ==
  ASSUME IInv, UNCHANGED <<cache, pass>>, Len(layers') = Len(layers),
         \A i \in 1..Len(layers) :
           /\ layers'[i].inF = layers[i].inF
           /\ layers'[i].outF = layers[i].outF
           /\ layers'[i].savedX = layers[i].savedX
  PROVE  CacheDescribesLayers' /\ UncachedLayerBlocks' /\ CachedInputsAccepted'
<1>1. Len(cache) \in Nat /\ Len(layers) \in Nat /\ Len(cache) <= Len(layers)
  BY LenProperties DEF IInv, TypeOK
<1>2. \A i \in 1..Len(layers) : WeightShape(layers'[i]) = WeightShape(layers[i])
  BY DEF WeightShape
<1>3. CacheDescribesLayers'
  BY <1>1 DEF IInv, CacheDescribesLayers
<1>4. UncachedLayerBlocks'
  BY <1>1, <1>2 DEF IInv, UncachedLayerBlocks
<1>5. CachedInputsAccepted'
  BY <1>1, <1>2 DEF IInv, CachedInputsAccepted
<1> QED
  BY <1>3, <1>4, <1>5

LEMMA InitInvariant ==
  Init => IInv
<1> SUFFICES ASSUME Init
             PROVE  IInv
  OBVIOUS
<1>1. Len(cache) = 0 /\ Len(layers) = 0
  BY EmptySeq DEF Init
<1>2. CacheDescribesLayers /\ UncachedLayerBlocks /\ CachedInputsAccepted /\ WeightGradsFit
  BY <1>1 DEF CacheDescribesLayers, UncachedLayerBlocks, CachedInputsAccepted, WeightGradsFit
<1> QED
  BY <1>2, TypeOKInit DEF IInv

LEMMA AddLayerInvariant ==
  ASSUME IInv, NEW arg \in LayerArgs, AddLayer(arg)
  PROVE  IInv'
<1>1. TypeOK'
  BY TypeOKStep DEF IInv, Next
<1>2. /\ Len(cache) \in Nat /\ Len(layers) \in Nat /\ Len(cache) <= Len(layers)
      /\ layers \in Seq(Layer)
  BY LenProperties DEF IInv, TypeOK
<1>3. /\ Len(layers') = Len(layers) + 1
      /\ \A i \in 1..Len(layers) : layers'[i] = layers[i]
      /\ layers'[Len(layers) + 1] = Constructed(arg)
      /\ UNCHANGED <<cache, pass, failedBackward>>
  BY <1>2, ConstructedIsLayer, AppendProperties DEF AddLayer
<1>4. CacheDescribesLayers'
  BY <1>2, <1>3 DEF IInv, CacheDescribesLayers
<1>5. CachedInputsAccepted'
  BY <1>2, <1>3 DEF IInv, CachedInputsAccepted
<1>6. UncachedLayerBlocks'
  <2>1. CASE Len(cache) < Len(layers)
    BY <2>1, <1>2, <1>3 DEF IInv, UncachedLayerBlocks
  <2>2. CASE Len(cache) = Len(layers)
    <3>1. Constructed(arg).savedX.shape = <<>>
      BY DEF Constructed, NoTensor
    <3>2. ~CanMatmul(AsMatrix(<<>>), WeightShape(Constructed(arg)))
      BY AsMatrixShape, ShortShapes DEF CanMatmul
    <3> QED
      BY <2>2, <3>1, <3>2, <1>3 DEF UncachedLayerBlocks
  <2> QED
    BY <2>1, <2>2, <1>2
<1>7. WeightGradsFit'
  <2>1. Constructed(arg).grad.shape = WeightShape(Constructed(arg))
    BY DEF Constructed, WeightShape
  <2> QED
    BY <2>1, <1>2, <1>3 DEF IInv, WeightGradsFit
<1> QED
  BY <1>1, <1>4, <1>5, <1>6, <1>7 DEF IInv

LEMMA WithColsTwice ==
  ASSUME NEW s \in Shape, NEW m \in Dim, NEW n \in Dim, Len(s) > 0
  PROVE  WithCols(WithCols(s, m), n) = WithCols(s, n)
<1>1. /\ WithCols(s, m) \in Shape /\ Len(WithCols(s, m)) = Len(s)
      /\ WithCols(s, n) \in Shape /\ Len(WithCols(s, n)) = Len(s)
      /\ WithCols(WithCols(s, m), n) \in Shape
      /\ Len(WithCols(WithCols(s, m), n)) = Len(s)
  BY WithColsShape
<1>2. ASSUME NEW i \in 1..Len(s)
      PROVE  WithCols(WithCols(s, m), n)[i] = WithCols(s, n)[i]
  <2>1. CASE i = Len(s)
    BY <2>1, <1>1, WithColsShape
  <2>2. CASE i # Len(s)
    <3>1. i \in 1..Len(s) - 1
      BY <2>2, ShapeElement
    <3> QED
      BY <3>1, <1>1, WithColsShape
  <2> QED
    BY <2>1, <2>2
<1> QED
  BY <1>1, <1>2, SeqEqual DEF Shape

LEMMA ForwardInvariant ==
  ASSUME IInv, NEW X \in InputShapes, Forward(X)
  PROVE  IInv'
<1>1. TypeOK'
  BY TypeOKStep DEF IInv, Next
<1>2. TypeOK /\ Len(layers) \in Nat /\ X \in Shape
  BY LenProperties, Constants DEF IInv, TypeOK
<1>3. PICK done \in 0..Len(layers) :
        /\ ForwardStops(X, done)
        /\ layers' = [i \in 1..Len(layers) |->
             IF Saves(i, done) THEN [layers[i] EXCEPT !.savedX = Saved(X, i)]
             ELSE layers[i]]
        /\ cache' = NewCache(X, done)
  BY DEF Forward
<1>4. pass' = pass + 1 /\ UNCHANGED failedBackward
  BY DEF Forward
<1>5. /\ Len(layers') = Len(layers)
      /\ \A i \in 1..Len(layers) : WeightShape(layers'[i]) = WeightShape(layers[i])
      /\ \A i \in 1..Len(layers) : layers'[i].outF = layers[i].outF
      /\ \A i \in 1..Len(layers) : layers'[i].grad = layers[i].grad
      /\ \A i \in 1..Len(layers) : i <= done + 1 => layers'[i].savedX = Saved(X, i)
  <2>1. \A i \in 1..Len(layers) :
          (IF Saves(i, done) THEN [layers[i] EXCEPT !.savedX = Saved(X, i)]
           ELSE layers[i]) = layers'[i]
    BY <1>3
  <2>2. layers' \in Seq(Layer) /\ DOMAIN layers' = 1..Len(layers)
    BY <1>1, <1>3 DEF TypeOK
  <2>3. Len(layers') = Len(layers)
    BY <2>2, <1>2, LenProperties
  <2> QED
    BY <1>2, <2>1, <2>3, LayerFields DEF WeightShape, Saves, Layer
<1>6. /\ Len(cache') = done
      /\ \A i \in 1..done : cache'[i] = CachedEntry(X, i)
  <2>1. cache' \in Seq(CacheEntry) /\ DOMAIN cache' = 1..done
    BY <1>1, <1>3 DEF TypeOK, NewCache
  <2>2. Len(cache') = done
    BY <2>1, <1>2, LenProperties
  <2> QED
    BY <2>2, <1>3 DEF NewCache
<1>7. CacheDescribesLayers'
  <2>1. ASSUME NEW i \in 1..done
        PROVE  /\ cache'[i].x = layers'[i].savedX
               /\ cache'[i].x.pass = pass'
    BY <1>4, <1>5, <1>6 DEF CachedEntry, Saved
  <2>2. ASSUME NEW i \in 1..done, i < done
        PROVE  cache'[i + 1].x = cache'[i].y_raw
    <3>1. i + 1 \in 1..done /\ i + 1 # 1 /\ i + 1 - 1 = i
      BY <2>2
    <3>2. LayerInput(X, i + 1) = WithCols(X, layers[i].outF)
      BY <3>1 DEF LayerInput
    <3> QED
      BY <3>1, <3>2, <1>6 DEF CachedEntry, Saved
  <2> QED
    BY <2>1, <2>2, <1>6 DEF CacheDescribesLayers
<1>8. UncachedLayerBlocks'
  <2> SUFFICES ASSUME done < Len(layers)
               PROVE  ~CanMatmul(AsMatrix(layers'[done + 1].savedX.shape),
                                 WeightShape(layers'[done + 1]))
    BY <1>5, <1>6 DEF UncachedLayerBlocks
  <2>1. ~LayerAccepts(X, done + 1) /\ done + 1 \in 1..Len(layers)
    BY <1>3 DEF ForwardStops
  <2>2. layers'[done + 1].savedX = Saved(X, done + 1)
    BY <2>1, <1>2, <1>5
  <2>3. layers'[done + 1].savedX.shape = LayerInput(X, done + 1)
    BY <2>2 DEF Saved
  <2>4. WeightShape(layers'[done + 1]) = WeightShape(layers[done + 1])
    BY <2>1, <1>5
  <2> QED
    BY <2>1, <2>3, <2>4 DEF LayerAccepts
<1>9. CachedInputsAccepted'
  <2>1. ASSUME NEW i \in 1..done
        PROVE  /\ CanMatmul(AsMatrix(LayerInput(X, i)), WeightShape(layers[i]))
               /\ WithCols(X, layers[i].outF) = WithCols(LayerInput(X, i), layers[i].outF)
               /\ Len(LayerInput(X, i)) = Len(X)
    <3>1. LayerAccepts(X, i) /\ Len(X) > 0 /\ i \in 1..Len(layers)
      BY <1>2, <1>3, AcceptedInput DEF ForwardStops
    <3>2. CASE i = 1
      BY <3>1, <3>2 DEF LayerAccepts, LayerInput
    <3>3. CASE i # 1
      <4>1. i - 1 \in 1..Len(layers)
        BY <3>1, <3>3
      <4>2. layers[i - 1].outF \in Dim /\ layers[i].outF \in Dim
        BY <1>2, <3>1, <4>1, LayerFields
      <4> QED
        BY <1>2, <3>1, <3>3, <4>2, WithColsTwice, WithColsShape DEF LayerAccepts, LayerInput
    <3> QED
      BY <3>2, <3>3
  <2>2. \A i \in 1..done :
          /\ cache'[i].x.shape = LayerInput(X, i)
          /\ cache'[i].y_raw.shape = WithCols(X, layers[i].outF)
          /\ layers'[i].outF = layers[i].outF
          /\ WeightShape(layers'[i]) = WeightShape(layers[i])
    BY <1>5, <1>6 DEF CachedEntry, Saved
  <2> QED
    BY <2>1, <2>2, <1>6 DEF CachedInputsAccepted
<1>10. WeightGradsFit'
  BY <1>4, <1>5 DEF IInv, WeightGradsFit
<1> QED
  BY <1>1, <1>7, <1>8, <1>9, <1>10 DEF IInv

LEMMA BackwardInvariant ==
  ASSUME IInv, NEW G \in GradShapes, Backward(G)
  PROVE  IInv'
<1>1. TypeOK'
  BY TypeOKStep DEF IInv, Next
<1>2. TypeOK /\ Len(layers) \in Nat /\ G \in Shape
  BY LenProperties, Constants DEF IInv, TypeOK
<1> DEFINE NewGrad(i) == [shape |-> WeightGradShape(GradInput(G, i), layers[i]),
                          pass  |-> layers[i].savedX.pass]
<1>3. PICK stop \in 0..Len(layers) :
        /\ BackwardStops(G, stop)
        /\ layers' = [i \in 1..Len(layers) |->
             IF StoresWeightGrad(G, stop, i)
             THEN [layers[i] EXCEPT !.grad = NewGrad(i)] ELSE layers[i]]
        /\ failedBackward' = (stop > 0)
  BY DEF Backward
<1>4. UNCHANGED <<cache, pass>>
  BY DEF Backward
<1>5. Len(layers') = Len(layers)
  <2>1. layers' \in Seq(Layer) /\ DOMAIN layers' = 1..Len(layers)
    BY <1>1, <1>3 DEF TypeOK
  <2> QED
    BY <2>1, <1>2, LenProperties
<1>6. ASSUME NEW i \in 1..Len(layers)
      PROVE  /\ layers'[i].inF = layers[i].inF
             /\ layers'[i].outF = layers[i].outF
             /\ layers'[i].savedX = layers[i].savedX
             /\ i > stop => layers'[i].grad = NewGrad(i)
  <2>1. layers[i] \in Layer
    BY <1>2, LayerFields
  <2> HIDE DEF NewGrad
  <2>2. i > stop => StoresWeightGrad(G, stop, i)
    BY DEF StoresWeightGrad
  <2>3. layers'[i] = IF StoresWeightGrad(G, stop, i)
                     THEN [layers[i] EXCEPT !.grad = NewGrad(i)] ELSE layers[i]
    BY <1>3
  <2> QED
    BY <2>1, <2>2, <2>3 DEF Layer
<1>7. CacheDescribesLayers' /\ UncachedLayerBlocks' /\ CachedInputsAccepted'
  BY <1>4, <1>5, <1>6, CacheFrame
<1>8. stop # 0 => failedBackward'
  <2>1. failedBackward' = (stop > 0)
    BY <1>3, Zenon
  <2>2. stop # 0 => stop > 0
    OBVIOUS
  <2> QED
    BY <2>1, <2>2, Zenon
<1>9. WeightGradsFit'
  <2> SUFFICES ASSUME stop = 0
               PROVE  \A i \in 1..Len(layers) : layers'[i].grad.shape = WeightShape(layers'[i])
    BY <1>5, <1>8 DEF WeightGradsFit
  <2>1. \A i \in 1..Len(layers) : LayerBackwardOK(G, i)
    BY <1>3 DEF BackwardStops
  <2>2. \A i \in 1..Len(layers) : NewGrad(i).shape = WeightShape(layers[i])
    BY <1>2, <2>1, CompleteBackward
  <2>3. \A i \in 1..Len(layers) : layers'[i].grad = NewGrad(i)
    BY <1>6
  <2> HIDE DEF NewGrad
  <2> QED
    BY <1>6, <2>2, <2>3 DEF WeightShape
<1> QED
  BY <1>1, <1>7, <1>9 DEF IInv

LEMMA UpdateInvariant ==
  ASSUME IInv, UpdateWeights
  PROVE  IInv'
<1>1. TypeOK'
  BY TypeOKStep DEF IInv, Next
<1>2. TypeOK /\ Len(layers) \in Nat
  BY LenProperties DEF IInv, TypeOK
<1>3. PICK done \in 0..Len(layers) :
        layers' = [i \in 1..Len(layers) |->
                     IF i <= done + 1 THEN Stepped(layers[i]) ELSE layers[i]]
  BY DEF UpdateWeights
<1>4. Len(layers') = Len(layers)
  <2>1. layers' \in Seq(Layer) /\ DOMAIN layers' = 1..Len(layers)
    BY <1>1, <1>3 DEF TypeOK
  <2> QED
    BY <2>1, <1>2, LenProperties
<1>5. ASSUME NEW i \in 1..Len(layers)
      PROVE  /\ layers'[i].inF = layers[i].inF
             /\ layers'[i].outF = layers[i].outF
             /\ layers'[i].savedX = layers[i].savedX
             /\ layers'[i].grad = layers[i].grad
  BY <1>2, <1>3, LayerFields DEF Stepped, Layer
<1>6. UNCHANGED <<cache, pass, failedBackward>>
  BY DEF UpdateWeights
<1>7. CacheDescribesLayers' /\ UncachedLayerBlocks' /\ CachedInputsAccepted'
  BY <1>4, <1>5, <1>6, CacheFrame
<1>8. WeightGradsFit'
  BY <1>4, <1>5, <1>6 DEF IInv, WeightGradsFit, WeightShape
<1> QED
  BY <1>1, <1>7, <1>8 DEF IInv

LEMMA StutterInvariant ==
  ASSUME IInv, UNCHANGED vars
  PROVE  IInv'
<1>1. TypeOK'
  BY TypeOKStep DEF IInv
<1>2. CacheDescribesLayers' /\ UncachedLayerBlocks' /\ CachedInputsAccepted'
  BY CacheFrame DEF vars
<1>3. WeightGradsFit'
  BY DEF vars, IInv, WeightGradsFit
<1> QED
  BY <1>1, <1>2, <1>3 DEF IInv

LEMMA Inductive ==
  IInv /\ [Next]_vars => IInv'
BY AddLayerInvariant, ForwardInvariant, BackwardInvariant, UpdateInvariant,
   StutterInvariant DEF Next

THEOREM Invariant ==
  Spec => []IInv
BY InitInvariant, Inductive, PTL DEF Spec

-----------------------------------------------------------------------------
(* What a client can rely on. *)

\* The cache always mirrors what the layers saved in the latest forward call.
THEOREM CacheCorrect ==
  Spec => []CacheDescribesLayers
<1>1. IInv => CacheDescribesLayers
  BY DEF IInv
<1> QED
  BY <1>1, Invariant, PTL

\* The first layer the latest forward call did not get through always holds an
\* input that its weights do not accept.
THEOREM UncachedLayerAlwaysBlocks ==
  Spec => []UncachedLayerBlocks
<1>1. IInv => UncachedLayerBlocks
  BY DEF IInv
<1> QED
  BY <1>1, Invariant, PTL

\* When backward returns normally, every layer has a weight gradient of the
\* shape of its weights, computed from the inputs of the latest forward call.
THEOREM BackwardOfOneForward ==
  Spec => []BackwardUsesOneForward
<1>1. Init => BackwardUsesOneForward
  BY DEF Init, BackwardUsesOneForward
<1>2. IInv /\ BackwardUsesOneForward /\ [Next]_vars => BackwardUsesOneForward'
  <2> SUFFICES ASSUME IInv, BackwardUsesOneForward, [Next]_vars,
                      call' = [op |-> "backward", result |-> "ok"]
               PROVE  \A i \in 1..Len(layers)' :
                        layers'[i].grad = [shape |-> WeightShape(layers'[i]), pass |-> pass']
    BY DEF BackwardUsesOneForward
  <2>1. CASE UNCHANGED vars
    BY <2>1 DEF vars, BackwardUsesOneForward, WeightShape
  <2>2. CASE \E G \in GradShapes : Backward(G)
    <3>1. PICK G \in GradShapes : Backward(G)
      BY <2>2
    <3> DEFINE NewGrad(i) == [shape |-> WeightGradShape(GradInput(G, i), layers[i]),
                              pass  |-> layers[i].savedX.pass]
    <3>2. PICK stop \in 0..Len(layers) :
            /\ BackwardStops(G, stop)
            /\ layers' = [i \in 1..Len(layers) |->
                 IF StoresWeightGrad(G, stop, i)
                 THEN [layers[i] EXCEPT !.grad = NewGrad(i)] ELSE layers[i]]
            /\ Return("backward", IF stop = 0 THEN "ok"
                                  ELSE IF UndefinedRead(G, stop) THEN "ub" ELSE "threw")
      BY <3>1 DEF Backward
    <3>3. stop = 0
      BY <3>2 DEF Return
    <3>4. G \in Shape /\ TypeOK /\ Len(layers) \in Nat /\ TypeOK' /\ pass' = pass
      BY <3>1, Constants, TypeOKStep, LenProperties DEF IInv, TypeOK, Backward
    <3>5. \A i \in 1..Len(layers) : LayerBackwardOK(G, i)
      BY <3>2, <3>3 DEF BackwardStops
    <3>6. \A i \in 1..Len(layers) :
            NewGrad(i) = [shape |-> WeightShape(layers[i]), pass |-> pass]
      BY <3>4, <3>5, CompleteBackward
    <3> HIDE DEF NewGrad
    <3>7. Len(layers') = Len(layers)
      <4>1. layers' \in Seq(Layer) /\ DOMAIN layers' = 1..Len(layers)
        BY <3>2, <3>4 DEF TypeOK
      <4> QED
        BY <4>1, <3>4, LenProperties
    <3>8. ASSUME NEW i \in 1..Len(layers)
          PROVE  /\ layers'[i].grad = NewGrad(i)
                 /\ WeightShape(layers'[i]) = WeightShape(layers[i])
      <4>1. StoresWeightGrad(G, stop, i)
        BY <3>3 DEF StoresWeightGrad
      <4>2. layers'[i] = [layers[i] EXCEPT !.grad = NewGrad(i)]
        BY <3>2, <4>1
      <4>3. layers[i] \in Layer
        BY <3>4, LayerFields
      <4> QED
        BY <4>2, <4>3 DEF Layer, WeightShape
    <3> QED
      BY <3>4, <3>6, <3>7, <3>8
  <2>3. CASE Next /\ ~(\E G \in GradShapes : Backward(G))
    <3>1. call'.op \in {"add_layer", "forward", "update_weights"}
      BY <2>3 DEF Next, AddLayer, Forward, UpdateWeights, Return
    <3> QED
      BY <3>1
  <2> QED
    BY <2>1, <2>2, <2>3
<1> QED
  BY <1>1, <1>2, Invariant, PTL DEF Spec

\* Unless a backward call has failed, update_weights applies to every layer a
\* gradient of the shape of its weights, and does not throw half way.
THEOREM UpdateIsWhole ==
  Spec => UpdateIsWholeUnlessBackwardFailed
<1>1. IInv /\ [Next]_vars =>
        [UpdateWeights /\ ~failedBackward =>
           /\ call'.result = "ok"
           /\ \A i \in 1..Len(layers) : layers'[i].torn = layers[i].torn]_vars
  <2> SUFFICES ASSUME IInv, UpdateWeights, ~failedBackward
               PROVE  /\ call'.result = "ok"
                      /\ \A i \in 1..Len(layers) : layers'[i].torn = layers[i].torn
    OBVIOUS
  <2>1. TypeOK /\ Len(layers) \in Nat
    BY LenProperties DEF IInv, TypeOK
  <2>2. ASSUME NEW i \in 1..Len(layers)
        PROVE  /\ StepOK(layers[i])
               /\ layers[i].torn \in BOOLEAN
               /\ Stepped(layers[i]).torn = layers[i].torn
    <3>1. layers[i] \in Layer /\ layers[i].inF \in Dim /\ layers[i].outF \in Dim
          /\ layers[i].torn \in BOOLEAN
      BY <2>1, LayerFields
    <3>2. layers[i].grad.shape = <<layers[i].inF, layers[i].outF>>
      BY DEF IInv, WeightGradsFit, WeightShape
    <3>3. StepOK(layers[i])
      BY <3>1, <3>2 DEF StepOK, Dim
    <3>4. Stepped(layers[i]).torn = layers[i].torn
      BY <3>1, <3>2 DEF Stepped, WeightShape, Layer
    <3> QED
      BY <3>1, <3>3, <3>4
  <2>3. PICK done \in 0..Len(layers) :
          /\ done < Len(layers) => ~StepOK(layers[done + 1])
          /\ layers' = [i \in 1..Len(layers) |->
               IF i <= done + 1 THEN Stepped(layers[i]) ELSE layers[i]]
          /\ Return("update_weights", IF done = Len(layers) THEN "ok" ELSE "threw")
    BY DEF UpdateWeights
  <2>4. done = Len(layers)
    BY <2>1, <2>2, <2>3
  <2> QED
    BY <2>2, <2>3, <2>4 DEF Return
<1> QED
  BY <1>1, Invariant, PTL DEF Spec, UpdateIsWholeUnlessBackwardFailed

\* A layer that accepted a vector or a matrix gets through Linear::backward with
\* any gradient of the shape of what it put out.
LEMMA AcceptedLayerTrains ==
  ASSUME TypeOK, NEW i \in 1..Len(layers),
         Len(layers[i].savedX.shape) <= 2,
         CanMatmul(AsMatrix(layers[i].savedX.shape), WeightShape(layers[i])),
         NEW g, g = WithCols(layers[i].savedX.shape, layers[i].outF)
  PROVE  /\ DataSize(g) \in Nat
         /\ WeightGradOK(g, layers[i])
         /\ BiasGradOK(g, layers[i])
         /\ InputGradOK(g, layers[i])
<1> DEFINE l == layers[i]
           s == l.savedX.shape
<1>1. /\ l.inF \in Dim /\ l.outF \in Dim /\ 1 \in Dim
      /\ s \in Shape /\ Len(s) \in Nat
      /\ WeightShape(l) = <<l.inF, l.outF>>
  BY LayerFields, ShapeElement DEF WeightShape, Dim
<1>2. Len(s) > 0 /\ (Len(s) = 1 \/ Len(s) = 2)
  <2>1. Len(s) # 0
    BY <1>1, AsMatrixShape DEF CanMatmul
  <2>2. Len(s) <= 2
    OBVIOUS
  <2>3. Len(s) \in Nat
    BY <1>1
  <2>4. \A n \in Nat : n # 0 /\ n <= 2 => n > 0 /\ (n = 1 \/ n = 2)
    OBVIOUS
  <2> QED
    BY <2>1, <2>2, <2>3, <2>4, Zenon
<1>3. g \in Shape /\ Len(g) = Len(s) /\ g[Len(s)] = l.outF
      /\ \A j \in 1..Len(s) - 1 : g[j] = s[j]
  <2>1. g = WithCols(s, l.outF)
    OBVIOUS
  <2> HIDE DEF l, s
  <2>2. /\ WithCols(s, l.outF) \in Shape
        /\ Len(WithCols(s, l.outF)) = Len(s)
        /\ WithCols(s, l.outF)[Len(s)] = l.outF
        /\ \A j \in 1..Len(s) - 1 : WithCols(s, l.outF)[j] = s[j]
    BY <1>1, <1>2, WithColsShape
  <2> QED
    BY <2>1, <2>2
<1>4. CASE Len(s) = 1
  <2>1. s = <<l.inF>>
    <3>1. s = <<s[1]>> /\ AsMatrix(s) = <<1, s[1]>>
      BY <1>1, <1>4, ShapeByElements, AsMatrixShape
    <3> QED
      BY <1>1, <3>1, MatrixProduct
  <2>2. g = <<l.outF>> /\ AsMatrix(g) = <<1, l.outF>> /\ DataSize(g) = l.outF
    BY <1>3, <1>4, ShapeByElements, AsMatrixShape DEF DataSize
  <2>3. SavedMatrix(l) = <<1, l.inF>> /\ Transposed(SavedMatrix(l)) = <<l.inF, 1>>
    BY <1>4 DEF SavedMatrix, Transposed
  <2>4. WeightGradOK(g, l)
    <3>1. CanReshape(s, <<1, l.inF>>)
      BY <1>1, <2>1, ReshapeVector
    <3>2. CanTranspose(<<1, l.inF>>) /\ CanMatmul(<<l.inF, 1>>, <<1, l.outF>>)
      BY MatrixProduct DEF CanTranspose
    <3> QED
      BY <2>2, <2>3, <3>1, <3>2 DEF WeightGradOK
  <2>5. BiasGradOK(g, l)
    <3>1. Len(AsMatrix(g)) = 2 /\ Cols(AsMatrix(g)) = l.outF
      <4>1. Len(<<1, l.outF>>) = 2 /\ Cols(<<1, l.outF>>) = l.outF
        BY RowVector
      <4> HIDE DEF l
      <4> QED
        BY <2>2, <4>1, Zenon
    <3> QED
      BY <1>1, <3>1 DEF BiasGradOK, Dim
  <2>6. InputGradOK(g, l)
    <3>1. CanMatmul(<<1, l.outF>>, <<l.outF, l.inF>>)
          /\ MatmulShape(<<1, l.outF>>, <<l.outF, l.inF>>) = <<1, l.inF>>
      BY MatrixProduct
    <3>2. CanReshape(<<1, l.inF>>, <<l.inF>>)
      BY <1>1, ReshapeVector
    <3> QED
      BY <1>4, <2>2, <3>1, <3>2 DEF InputGradOK
  <2> QED
    BY <1>1, <2>2, <2>4, <2>5, <2>6 DEF Dim
<1>5. CASE Len(s) = 2
  <2> DEFINE r == s[1]
  <2>1. s = <<r, l.inF>> /\ r \in Dim
    <3>1. s = <<s[1], s[2]>> /\ AsMatrix(s) = s /\ s[1] \in Dim
      BY <1>1, <1>5, ShapeByElements, AsMatrixShape, ElementOfSeq DEF Shape
    <3>2. s[2] = l.inF
      BY <1>1, <1>5, <3>1, MatrixProduct
    <3> QED
      BY <3>1, <3>2
  <2>2. g = <<r, l.outF>> /\ AsMatrix(g) = g
    BY <1>3, <1>5, ShapeByElements, AsMatrixShape
  <2>3. SavedMatrix(l) = <<r, l.inF>> /\ Transposed(<<r, l.inF>>) = <<l.inF, r>>
    BY <1>5, <2>1 DEF SavedMatrix, Transposed
  <2>4. WeightGradOK(g, l)
    <3>1. CanTranspose(<<r, l.inF>>) /\ CanMatmul(<<l.inF, r>>, <<r, l.outF>>)
      BY MatrixProduct DEF CanTranspose
    <3> QED
      BY <1>5, <2>2, <2>3, <3>1 DEF WeightGradOK
  <2>5. BiasGradOK(g, l)
    <3>1. Len(AsMatrix(g)) = 2 /\ AsMatrix(g)[2] = l.outF
      BY <1>5, <1>3, <2>2
    <3>2. Cols(AsMatrix(g)) = l.outF
      BY <3>1 DEF Cols
    <3> QED
      BY <1>1, <3>1, <3>2 DEF BiasGradOK, Dim
  <2>6. InputGradOK(g, l)
    <3>1. CanMatmul(<<r, l.outF>>, <<l.outF, l.inF>>)
          /\ MatmulShape(<<r, l.outF>>, <<l.outF, l.inF>>) = <<r, l.inF>>
      BY MatrixProduct
    <3>2. CanReshape(<<r, l.inF>>, s)
      BY <1>1, <2>1, ReshapeMatrix
    <3> QED
      BY <1>5, <2>2, <3>1, <3>2 DEF InputGradOK
  <2>7. DataSize(g) = r * l.outF
    BY <2>2 DEF DataSize
  <2>8. r * l.outF \in Nat
    BY <1>1, <2>1, SMT DEF Dim
  <2> QED
    BY <2>4, <2>5, <2>6, <2>7, <2>8
<1> QED
  BY <1>1, <1>2, <1>4, <1>5

\* After a completed forward call on a vector or a matrix, backward gets through
\* every layer with the gradient of the loss.
THEOREM CompletedForwardTrains ==
  Spec => []CompletedForwardIsTrainable
<1>1. IInv => CompletedForwardIsTrainable
  <2> SUFFICES ASSUME IInv, Len(cache) > 0, Len(cache) = Len(layers),
                      Len(cache[1].x.shape) <= 2, NEW i \in 1..Len(layers)
               PROVE  LayerBackwardOK(LossGradShape, i)
    BY DEF CompletedForwardIsTrainable
  <2> DEFINE s == layers[i].savedX.shape
             g == GradInput(LossGradShape, i)
  <2>1. TypeOK /\ Len(layers) \in Nat
    BY LenProperties DEF IInv, TypeOK
  <2>2. /\ s = cache[i].x.shape
        /\ Len(s) <= 2
        /\ CanMatmul(AsMatrix(s), WeightShape(layers[i]))
        /\ cache[i].y_raw.shape = WithCols(s, layers[i].outF)
    BY DEF IInv, CacheDescribesLayers, CachedInputsAccepted
  <2>3. g = cache[i].y_raw.shape
    <3>1. CASE i = Len(layers)
      BY <3>1 DEF GradInput, LossGradShape
    <3>2. CASE i # Len(layers)
      <4>1. i + 1 \in 1..Len(layers) /\ i < Len(cache)
        BY <2>1, <3>2
      <4> QED
        BY <3>2, <4>1 DEF GradInput, IInv, CacheDescribesLayers
    <3> QED
      BY <3>1, <3>2
  <2>4. /\ DataSize(g) \in Nat
        /\ WeightGradOK(g, layers[i])
        /\ BiasGradOK(g, layers[i])
        /\ InputGradOK(g, layers[i])
    BY <2>1, <2>2, <2>3, AcceptedLayerTrains
  <2>5. ~UndefinedRead(LossGradShape, i)
    BY <2>1, <2>3, <2>4 DEF UndefinedRead
  <2> QED
    BY <2>4, <2>5 DEF LayerBackwardOK
<1> QED
  BY <1>1, Invariant, PTL

-----------------------------------------------------------------------------
(* Where backward reads the cache. *)

LEMMA SizeIsNumber ==
  ASSUME NEW s \in Shape
  PROVE  DataSize(s) \in Nat
<1>1. s \in Seq(Nat \ {0})
  BY DEF Shape, Dim
<1>2. s \in Seq(Nat)
  BY <1>1, TailSizesPositive
<1>3. Len(s) \in Nat /\ TailSize(s, 0) = DataSize(s)
  BY <1>2, TailSizes
<1>4. \A i \in 0..Len(s) : TailSize(s, i) \in Nat
  BY <1>2, TailSizes
<1> QED
  BY <1>3, <1>4

\* backward gets down to a cached layer only when the latest forward call cached
\* every layer: the first layer that is not cached makes Linear::backward throw.
\* Then the gradient a layer computed has the size of the tensor the layer before
\* it cached, so only the client's own can be too large (network.hpp:48-57,
\* actfuncs.hpp:67-71).
THEOREM CachedReadsAreInside ==
  Spec => []CachedLayersAreReadInside
<1>1. ASSUME IInv PROVE CachedLayersAreReadInside
  <2> SUFFICES ASSUME NEW G \in GradShapes, NEW stop \in 0..Len(layers),
                      BackwardStops(G, stop), stop <= Len(cache)
               PROVE  /\ Len(cache) = Len(layers)
                      /\ stop > 0 /\ UndefinedRead(G, stop) =>
                           stop = Len(layers) /\ DataSize(G) > DataSize(LossGradShape)
    BY DEF CachedLayersAreReadInside
  <2>1. /\ TypeOK /\ G \in Shape
        /\ Len(cache) \in Nat /\ Len(layers) \in Nat /\ Len(cache) <= Len(layers)
    BY <1>1, Constants, LenProperties DEF IInv, TypeOK
  <2>2. Len(cache) = Len(layers)
    <3> SUFFICES ASSUME Len(cache) < Len(layers) PROVE FALSE
      BY <2>1
    <3> DEFINE i == Len(cache) + 1
    <3>1. i \in 1..Len(layers) /\ i \in (stop + 1)..Len(layers)
      BY <2>1
    <3>2. LayerBackwardOK(G, i)
      BY <3>1 DEF BackwardStops
    <3>3. CanMatmul(AsMatrix(layers[i].savedX.shape), WeightShape(layers[i]))
      BY <2>1, <3>1, <3>2, GradInputShape, BackwardNeedsAcceptedInput DEF LayerBackwardOK
    <3> QED
      BY <1>1, <3>3 DEF IInv, UncachedLayerBlocks
  <2>3. ASSUME stop > 0, UndefinedRead(G, stop)
        PROVE  stop = Len(layers) /\ DataSize(G) > DataSize(LossGradShape)
    <3>1. DataSize(GradInput(G, stop)) > DataSize(cache[stop].y_raw.shape)
      BY <2>1, <2>2, <2>3 DEF UndefinedRead
    <3>2. CASE stop = Len(layers)
      BY <2>2, <3>1, <3>2 DEF GradInput, LossGradShape
    <3>3. CASE stop # Len(layers)
      <4>1. stop \in 1..Len(cache) /\ stop + 1 \in 1..Len(cache) /\ stop < Len(cache)
        BY <2>1, <2>2, <2>3, <3>3
      <4>2. cache[stop + 1].x = layers[stop + 1].savedX /\ cache[stop + 1].x = cache[stop].y_raw
        BY <1>1, <4>1 DEF IInv, CacheDescribesLayers
      <4>3. GradInput(G, stop) = cache[stop].y_raw.shape
        BY <3>3, <4>2 DEF GradInput
      <4>4. cache[stop] \in CacheEntry
        BY <2>1, <4>1, ElementOfSeq DEF TypeOK
      <4>5. DataSize(cache[stop].y_raw.shape) \in Nat
        BY <4>4, SizeIsNumber DEF CacheEntry, Tensor
      <4> QED
        BY <3>1, <4>3, <4>5
    <3> QED
      BY <3>2, <3>3
  <2> QED
    BY <2>2, <2>3
<1> QED
  BY <1>1, Invariant, PTL
=============================================================================
