--------------------------- MODULE LinearNetwork ---------------------------
(***************************************************************************)
(* nn::LinearNetwork (network.hpp) with the layers, activations and the    *)
(* optimizer it calls (layer.hpp, actfuncs.hpp, optimizer.hpp), under a    *)
(* client that may issue the public calls in any order, with tensors of    *)
(* any of the given shapes, and that carries on after catching an          *)
(* exception.                                                              *)
(*                                                                         *)
(* A call is one action.  The loops over the layers stop at the first      *)
(* layer that throws, and what they have stored by then stays stored.      *)
(* A tensor is its shape and `pass', the number of the forward call that   *)
(* produced it (or, for a gradient, whose saved input it was computed      *)
(* from); 0 marks a tensor that no call has written yet.                   *)
(***************************************************************************)
EXTENDS TensorShape

CONSTANTS
  LayerArgs,    \* constructor arguments: a set of [inF, outF, act] records
  InputShapes,  \* shapes a client passes to forward
  GradShapes,   \* shapes a client passes to backward
  MaxLayers,    \* bound on the number of layers
  MaxPasses     \* bound on the number of forward calls

LayerArg == [inF : Dim, outF : Dim, act : BOOLEAN]

ASSUME ShapeAssumption ==
  /\ LayerArgs \subseteq LayerArg
  /\ InputShapes \subseteq Shape
  /\ GradShapes \subseteq Shape

ASSUME BoundAssumption == MaxLayers \in Nat /\ MaxPasses \in Nat

VARIABLES
  layers,          \* LinearNetwork::layers, a sequence of layer states
  cache,           \* LinearNetwork::cache, what forward kept per layer
  pass,            \* number of forward calls so far
  call,            \* the last call and how it ended
  failedBackward   \* the last backward call did not return normally

vars == <<layers, cache, pass, call, failedBackward>>

Tensor == [shape : Shape, pass : Nat]
NoTensor == [shape |-> <<>>, pass |-> 0]

\* inF, outF: in_feats, out_feats.  act: an activation is attached.
\* savedX: saved_X.  grad: grad_weights.  torn: weights have been changed by
\* part of a gradient, or by a gradient of another shape than theirs.
Layer == [inF : Dim, outF : Dim, act : BOOLEAN,
          savedX : Tensor, grad : Tensor, torn : BOOLEAN]

CacheEntry == [x : Tensor, y_raw : Tensor]

Calls == [op : {"create", "add_layer", "forward", "backward", "update_weights"},
          result : {"ok", "threw", "ub"}]

WeightShape(l) == <<l.inF, l.outF>>

-----------------------------------------------------------------------------
Init ==
  /\ layers = <<>>
  /\ cache = <<>>
  /\ pass = 0
  /\ call = [op |-> "create", result |-> "ok"]
  /\ failedBackward = FALSE

\* After undefined behaviour nothing is known of the program.
Defined == call.result # "ub"

Return(op, result) == call' = [op |-> op, result |-> result]

\* A constructor that leaves grad_weights default-constructed.
ConstructedWithoutGrad(arg) ==
  [inF |-> arg.inF, outF |-> arg.outF, act |-> arg.act, savedX |-> NoTensor,
   grad |-> NoTensor, torn |-> FALSE]

\* The state of a layer right after construction.
Constructed(arg) ==
  [inF |-> arg.inF, outF |-> arg.outF, act |-> arg.act, savedX |-> NoTensor,
   grad |-> [shape |-> <<arg.inF, arg.outF>>, pass |-> 0], torn |-> FALSE]

AddLayer(arg) ==
  /\ Defined
  /\ Len(layers) < MaxLayers
  /\ layers' = Append(layers, Constructed(arg))
  /\ Return("add_layer", "ok")
  /\ UNCHANGED <<cache, pass, failedBackward>>

-----------------------------------------------------------------------------
\* A one-dimensional tensor is taken as a matrix of one row.
AsMatrix(s) == IF Len(s) = 1 THEN <<1, s[1]>> ELSE s

\* Shape of X * W for the two-dimensional W: only the last dimension changes.
WithCols(s, n) == [s EXCEPT ![Len(s)] = n]

\* Shape of what reaches layer i when forward is called with X.
LayerInput(X, i) == IF i = 1 THEN X ELSE WithCols(X, layers[i - 1].outF)

LayerAccepts(X, i) ==
  CanMatmul(AsMatrix(LayerInput(X, i)), WeightShape(layers[i]))

\* What layer i stores as saved_X, before its matmul can throw.
Saved(X, i) == [shape |-> LayerInput(X, i), pass |-> pass + 1]

\* A layer that keeps saved_X only when matmul has returned.
SavesIfAccepted(i, done) == i <= done
Saves(i, done) == i <= done + 1

\* A cache entry with the layer's input in both fields.
InputTwice(X, i) == [x |-> Saved(X, i), y_raw |-> Saved(X, i)]
CachedEntry(X, i) ==
  [x     |-> Saved(X, i),
   y_raw |-> [shape |-> WithCols(X, layers[i].outF), pass |-> pass + 1]]

\* Without cache.clear(), and with a new cache that replaces the old one only
\* when forward returns.
NotCleared(X, done) == cache \o [i \in 1..done |-> CachedEntry(X, i)]
ReplacedOnReturn(X, done) ==
  IF done = Len(layers) THEN [i \in 1..done |-> CachedEntry(X, i)] ELSE cache
NewCache(X, done) == [i \in 1..done |-> CachedEntry(X, i)]

\* `done' layers accept their input and are cached; the next one, if there is
\* one, has stored its saved_X when matmul throws.
ForwardStops(X, done) ==
  /\ \A i \in 1..done : LayerAccepts(X, i)
  /\ done < Len(layers) => ~LayerAccepts(X, done + 1)

Forward(X) ==
  /\ Defined
  /\ pass < MaxPasses
  /\ pass' = pass + 1
  /\ \E done \in 0..Len(layers) :
       /\ ForwardStops(X, done)
       /\ layers' = [i \in 1..Len(layers) |->
            IF Saves(i, done) THEN [layers[i] EXCEPT !.savedX = Saved(X, i)]
            ELSE layers[i]]
       /\ cache' = NewCache(X, done)
       /\ Return("forward", IF done = Len(layers) THEN "ok" ELSE "threw")
  /\ UNCHANGED failedBackward

-----------------------------------------------------------------------------
\* Shape of the gradient that reaches layer i when backward is called with G:
\* layer i + 1 returned it in the shape of its own saved_X.
GradInput(G, i) == IF i = Len(layers) THEN G ELSE layers[i + 1].savedX.shape

\* The derivative indexes cache[i].y_raw.data with the indices of the gradient.
UndefinedRead(G, i) ==
  /\ layers[i].act
  /\ \/ i > Len(cache)
     \/ DataSize(GradInput(G, i)) > DataSize(cache[i].y_raw.shape)

\* saved_X transposed as it is, of one dimension or two.
SavedAsIs(l) == l.savedX.shape

\* saved_X as the matrix backward transposes, when it can be made one.
SavedMatrix(l) == IF Len(l.savedX.shape) = 1 THEN <<1, l.inF>> ELSE l.savedX.shape

WeightGradOK(g, l) ==
  /\ Len(l.savedX.shape) = 1 => CanReshape(l.savedX.shape, SavedMatrix(l))
  /\ CanTranspose(SavedMatrix(l))
  /\ CanMatmul(Transposed(SavedMatrix(l)), AsMatrix(g))

WeightGradShape(g, l) == MatmulShape(Transposed(SavedMatrix(l)), AsMatrix(g))

\* grad_2d(i, j) for every row i and every j < out_feats.
BiasGradOK(g, l) == Len(AsMatrix(g)) = 2 /\ Cols(AsMatrix(g)) >= l.outF

\* The gradient of the input returned in whatever shape the product has.
InputGradNotReshaped(g, l) == CanMatmul(AsMatrix(g), <<l.outF, l.inF>>)

InputGradOK(g, l) ==
  LET back == <<l.outF, l.inF>>
  IN  /\ CanMatmul(AsMatrix(g), back)
      /\ CanReshape(MatmulShape(AsMatrix(g), back),
                    IF Len(l.savedX.shape) = 1 THEN <<l.inF>> ELSE l.savedX.shape)

LayerBackwardOK(G, i) ==
  LET g == GradInput(G, i)
      l == layers[i]
  IN  ~UndefinedRead(G, i) /\ WeightGradOK(g, l) /\ BiasGradOK(g, l) /\ InputGradOK(g, l)

\* The loop runs from the last layer down and stops at layer `stop', or
\* after the first layer when stop = 0.
BackwardStops(G, stop) ==
  /\ \A i \in (stop + 1)..Len(layers) : LayerBackwardOK(G, i)
  /\ stop > 0 => ~LayerBackwardOK(G, stop)

\* grad_weights is assigned before the rest of Linear::backward can throw.
StoresWeightGrad(G, stop, i) ==
  \/ i > stop
  \/ i = stop /\ ~UndefinedRead(G, i) /\ WeightGradOK(GradInput(G, i), layers[i])

Backward(G) ==
  /\ Defined
  /\ \E stop \in 0..Len(layers) :
       /\ BackwardStops(G, stop)
       /\ layers' = [i \in 1..Len(layers) |->
            IF StoresWeightGrad(G, stop, i)
            THEN [layers[i] EXCEPT !.grad =
                   [shape |-> WeightGradShape(GradInput(G, i), layers[i]),
                    pass  |-> layers[i].savedX.pass]]
            ELSE layers[i]]
       /\ Return("backward", IF stop = 0 THEN "ok"
                             ELSE IF UndefinedRead(G, stop) THEN "ub" ELSE "threw")
       /\ failedBackward' = (stop > 0)
  /\ UNCHANGED <<cache, pass>>

-----------------------------------------------------------------------------
\* SGD::step reads grad_weights at every index of weights; operator() throws
\* on a wrong rank or an index out of range.
StepOK(l) ==
  /\ Len(l.grad.shape) = 2
  /\ l.grad.shape[1] >= l.inF
  /\ l.grad.shape[2] >= l.outF

\* What a step leaves in the weights of a layer, thrown out of or not: with
\* two dimensions at least element (0, 0) is updated.
Stepped(l) ==
  [l EXCEPT !.torn = @ \/ (Len(l.grad.shape) = 2 /\ l.grad.shape # WeightShape(l))]

UpdateWeights ==
  /\ Defined
  /\ \E done \in 0..Len(layers) :
       /\ \A i \in 1..done : StepOK(layers[i])
       /\ done < Len(layers) => ~StepOK(layers[done + 1])
       /\ layers' = [i \in 1..Len(layers) |->
            IF i <= done + 1 THEN Stepped(layers[i]) ELSE layers[i]]
       /\ Return("update_weights", IF done = Len(layers) THEN "ok" ELSE "threw")
  /\ UNCHANGED <<cache, pass, failedBackward>>

-----------------------------------------------------------------------------
Next ==
  \/ \E arg \in LayerArgs : AddLayer(arg)
  \/ \E X \in InputShapes : Forward(X)
  \/ \E G \in GradShapes : Backward(G)
  \/ UpdateWeights

Spec == Init /\ [][Next]_vars

-----------------------------------------------------------------------------
\* Every variable keeps its type; the cache is never longer than the network.
TypeOK ==
  /\ layers \in Seq(Layer)
  /\ cache \in Seq(CacheEntry)
  /\ Len(cache) <= Len(layers)
  /\ pass \in Nat
  /\ call \in Calls
  /\ failedBackward \in BOOLEAN

\* Shape of the prediction, and so of the gradient MSE::backward returns for it.
LossGradShape == cache[Len(cache)].y_raw.shape

\* Whatever was called, each cached entry is what the same layer still holds as
\* saved_X, all entries are of the latest forward call, and the entries chain:
\* what one layer put out is what the next took in (network.hpp:31-46).
CacheDescribesLayers ==
  \A i \in 1..Len(cache) :
    /\ cache[i].x = layers[i].savedX
    /\ cache[i].x.pass = pass
    /\ i < Len(cache) => cache[i + 1].x = cache[i].y_raw

\* The first layer that the latest forward call did not get through (it threw
\* there, or the layer was added later) holds a saved_X that its own weights do
\* not accept, or none.  Linear::backward throws there, whatever gradient it is
\* given; when the layer has an activation, its derivative has read cache past
\* the end before (network.hpp:53).
UncachedLayerBlocks ==
  Len(cache) < Len(layers) =>
    LET l == layers[Len(cache) + 1]
    IN  ~CanMatmul(AsMatrix(l.savedX.shape), WeightShape(l))

\* backward has no check that forward came first or succeeded.  Still, when it
\* returns normally, all layers were given weight gradients of the shape of
\* their weights, and all from the inputs of one completed forward call, the
\* latest: the inputs a failed or missing forward leaves behind always make
\* Linear::backward throw (network.hpp:48-57, layer.hpp:50-79).
BackwardUsesOneForward ==
  call = [op |-> "backward", result |-> "ok"] =>
    \A i \in 1..Len(layers) :
      layers[i].grad = [shape |-> WeightShape(layers[i]), pass |-> pass]

\* Once forward has completed on an input of one or two dimensions, the loss
\* gradient can be propagated through every layer, whatever was updated or
\* backpropagated in between, until the next forward or added layer.
CompletedForwardIsTrainable ==
  /\ Len(cache) > 0
  /\ Len(cache) = Len(layers)
  /\ Len(cache[1].x.shape) <= 2
  => \A i \in 1..Len(layers) : LayerBackwardOK(LossGradShape, i)

\* backward gets down to a layer that the latest forward call cached only when
\* that call cached all of them, and then it reads outside a cached tensor only in
\* the last layer, for a gradient of the client's larger than the prediction.
\* What the code leaves open is reading past the end of the cache, in a layer
\* above the cached ones that has an activation (network.hpp:53): when forward was
\* not called for it, and also after a forward that threw, where the gradient may
\* be one the layer above computed from the input an earlier call left in it.
CachedLayersAreReadInside ==
  \A G \in GradShapes, stop \in 0..Len(layers) :
    BackwardStops(G, stop) /\ stop <= Len(cache) =>
      /\ Len(cache) = Len(layers)
      /\ stop > 0 /\ UndefinedRead(G, stop) =>
           stop = Len(layers) /\ DataSize(G) > DataSize(LossGradShape)

\* update_weights applies to every layer a whole gradient of the shape of its
\* weights, and does not throw, unless the last backward call failed and left
\* grad_weights of another shape behind (optimizer.hpp:20-27).
UpdateIsWholeUnlessBackwardFailed ==
  [][UpdateWeights /\ ~failedBackward =>
       /\ call'.result = "ok"
       /\ \A i \in 1..Len(layers) : layers'[i].torn = layers[i].torn]_vars

=============================================================================
