----------------------------- MODULE LinearGrad -----------------------------
(***************************************************************************)
(* The values a network of linear layers computes (layer.hpp, actfuncs.hpp,*)
(* network.hpp, lossfs.hpp, and the two-dimensional matmul of tensor.hpp)  *)
(* over the integers, so that derivatives can be compared exactly.         *)
(* Losses and gradients are taken times the number of predictions, which   *)
(* MSE divides by; its loops are those of MseLoss.                         *)
(***************************************************************************)
EXTENDS MseLoss, Sequences, SequencesExt

CONSTANT
  Cases  \* <<network, batch, true outputs>>; a network is a sequence of layers
         \* [weights, bias, act], where act may be "none"

\* A matrix is a sequence of rows; the weights of a layer have a row for each
\* input feature.
MatrixOf(rows, columns) == [1..rows -> [1..columns -> Int]]
LayerOf(ins, outs) ==
  [weights : MatrixOf(ins, outs), bias : [1..outs -> Int], act : {"none", "relu", "sigmoid"}]

Layer == [weights : Seq(Seq(Int)), bias : Seq(Int), act : {"none", "relu", "sigmoid"}]

\* The features a layer takes in, and those the layers put out.
Width(layers, l) == IF l = 0 THEN Len(layers[1].weights) ELSE Len(layers[l].bias)

\* Batches and layers that fit, as the constructor of Linear makes them and forward
\* accepts them, and no dimension of 0.
ASSUME CasesAssumption ==
  \A case \in Cases : LET layers == case[1] batch == case[2] outputs == case[3] IN
    /\ layers \in Seq(Layer) \ {<<>>}
    /\ {batch, outputs} \subseteq Seq(Seq(Int)) \ {<<>>}
    /\ \A l \in 0..Len(layers) : Width(layers, l) > 0
    /\ \A l \in 1..Len(layers) : layers[l] \in LayerOf(Width(layers, l - 1), Width(layers, l))
    /\ batch \in MatrixOf(Len(batch), Width(layers, 0))
    /\ outputs[1] # <<>> /\ outputs \in MatrixOf(Len(outputs), Len(outputs[1]))

VARIABLES
  net,      \* LinearNetwork::layers
  y_true,
  x,        \* what forward carries
  saved,    \* Linear::saved_X of the layers reached
  y_raw,    \* LayerCache::y_raw of the layers reached
  loss,     \* MSE::forward, so far
  grad,     \* what backward carries
  grads     \* grad_weights and grad_bias, from the last layer down

vars == <<net, y_true, x, saved, y_raw, loss, grad, grads, lossVars>>

Total(f) == FoldLeft(+, 0, f)

Matmul(a, b) ==
  [r \in DOMAIN a |-> [c \in DOMAIN b[1] |-> Total([k \in DOMAIN b |-> a[r][k] * b[k][c]])]]
TransposeOf(m) == [c \in DOMAIN m[1] |-> [r \in DOMAIN m |-> m[r][c]]]
Map(f(_), m) == [r \in DOMAIN m |-> [c \in DOMAIN m[r] |-> f(m[r][c])]]

\* ReLU::forward and Sigmoid::forward, element by element.
ReLU(v) == IF v > 0 THEN v ELSE 0
Sigmoid(v) == IF v > 0 THEN v ELSE 0

Activated(l, m) ==
  CASE l.act = "relu" -> Map(ReLU, m) [] l.act = "sigmoid" -> Map(Sigmoid, m) [] OTHER -> m

\* Linear::forward.
Forward(l, m) ==
  LET y == Matmul(m, l.weights)
  IN  [r \in DOMAIN y |-> [c \in DOMAIN y[r] |-> y[r][c] + l.bias[c]]]

\* The elements of a matrix, as they lie in memory, from 0 on.
Elements(m) == Len(m) * Len(m[1])
Row(m, k) == (k \div Len(m[1])) + 1
Column(m, k) == (k % Len(m[1])) + 1
Element(m, k) == m[Row(m, k)][Column(m, k)]

\* One step of MSE::forward and of MSE::backward.
Difference(y, k) == Element(y, k) - Element(y_true, k)
LossTerm(y, k) == Difference(y, k) * Difference(y, k)
LossGradient(y, k) == 2 * Difference(y, k)

\* ReLU::derivative, which Sigmoid::derivative repeats, and one that looks at the
\* sign of the gradient.
DerivativeOfGradient(g, y) ==
  [r \in DOMAIN g |-> [c \in DOMAIN g[r] |-> IF g[r][c] > 0 THEN g[r][c] ELSE 0]]
Derivative(g, y) ==
  [r \in DOMAIN g |-> [c \in DOMAIN g[r] |-> IF y[r][c] > 0 THEN g[r][c] ELSE 0]]

\* Linear::backward.
GradWeights(m, g) == Matmul(TransposeOf(m), g)
GradBias(g) == [c \in DOMAIN g[1] |-> Total([r \in DOMAIN g |-> g[r][c]])]
GradInput(l, g) == Matmul(g, TransposeOf(l.weights))

-----------------------------------------------------------------------------
Init ==
  /\ LossInit
  /\ \E case \in Cases : net = case[1] /\ x = case[2] /\ y_true = case[3]
  /\ saved = <<>> /\ y_raw = <<>> /\ grads = <<>>
  /\ loss = 0 /\ grad = <<>>

Predicted == Len(saved) = Len(net)

ForwardLayer ==
  /\ ~Predicted
  /\ LET l == net[Len(saved) + 1]
         y == Forward(l, x)
     IN  /\ saved' = Append(saved, x)
         /\ y_raw' = Append(y_raw, y)
         /\ x' = Activated(l, y)
  /\ UNCHANGED <<net, y_true, loss, grad, grads, lossVars>>

\* The calls of MSE, for tensors of at most Largest elements: first forward, and
\* then backward, into a tensor of zeros.
CallForward ==
  /\ Predicted /\ pc = "idle"
  /\ {Elements(x), Elements(y_true)} \subseteq 0..Largest
  /\ Call("forward", Elements(x), Elements(y_true))
  /\ UNCHANGED <<net, y_true, x, saved, y_raw, loss, grad, grads>>

CallBackward ==
  /\ pc = "returned" /\ op = "forward"
  /\ {Elements(x), Elements(y_true)} \subseteq 0..Largest
  /\ Call("backward", Elements(x), Elements(y_true))
  /\ grad' = [r \in DOMAIN x |-> [c \in DOMAIN x[r] |-> 0]]
  /\ UNCHANGED <<net, y_true, x, saved, y_raw, loss, grads>>

IterateLoss ==
  /\ Iterate
  /\ \/ /\ op = "forward"
        /\ loss' = loss + LossTerm(x, at)
        /\ UNCHANGED grad
     \/ /\ op = "backward"
        /\ grad' = [grad EXCEPT ![Row(x, at)][Column(x, at)] = LossGradient(x, at)]
        /\ UNCHANGED loss
  /\ UNCHANGED <<net, y_true, x, saved, y_raw, grads>>

ReturnLoss == Return /\ UNCHANGED <<net, y_true, x, saved, y_raw, loss, grad, grads>>

BackwardLayer ==
  /\ pc = "returned" /\ op = "backward" /\ Len(grads) < Len(net)
  /\ LET l == Len(net) - Len(grads)
         g == IF net[l].act # "none" THEN Derivative(grad, y_raw[l]) ELSE grad
     IN  /\ grads' = Append(grads, [weights |-> GradWeights(saved[l], g), bias |-> GradBias(g)])
         /\ grad' = GradInput(net[l], g)
  /\ UNCHANGED <<net, y_true, x, saved, y_raw, loss, lossVars>>

Next ==
  \/ ForwardLayer \/ BackwardLayer
  \/ CallForward \/ CallBackward \/ IterateLoss \/ ReturnLoss

Spec == Init /\ [][Next]_vars

-----------------------------------------------------------------------------
\* The tensors y_raw of all layers of a network, and its prediction.
Raw(layers, m) ==
  LET step(acc, l) ==
        [out |-> Activated(l, Forward(l, acc.out)), raw |-> Append(acc.raw, Forward(l, acc.out))]
  IN  FoldLeft(step, [out |-> m, raw |-> <<>>], layers)

\* The loss over the elements MSE has reached.
Loss(y) == Total([k \in 1..at |-> LossTerm(y, k - 1)])

SameSigns(a, b) ==
  \A l \in DOMAIN a : \A r \in DOMAIN a[l] : \A c \in DOMAIN a[l][r] :
    (a[l][r][c] > 0) = (b[l][r][c] > 0)

\* The loss is quadratic in one number as long as no ReLU changes over, so half
\* the difference one step up and one step down is its derivative; it is asked of
\* every layer that no output changes sign, also of those without activation.
\* Inputs and networks are given one step up and one step down.
IsDerivative(d, upNet, downNet, upIn, downIn) ==
  LET up == Raw(upNet, upIn)
      down == Raw(downNet, downIn)
  IN  SameSigns(up.raw, y_raw) /\ SameSigns(down.raw, y_raw) =>
        2 * d = Loss(up.out) - Loss(down.out)

Done == Len(grads) = Len(net)
GradsOf(l) == grads[Len(net) - l + 1]
Moved(l, r, c, by) == [net EXCEPT ![l].weights[r][c] = @ + by]
Shifted(l, c, by) == [net EXCEPT ![l].bias[c] = @ + by]

\* After backward every gradient is the partial derivative, by its weight or
\* bias, of the loss forward returned, and what backward carries out of the first
\* layer is the derivative by the input (layer.hpp:24-79, network.hpp:48-57,
\* lossfs.hpp:19-46, actfuncs.hpp:67-71, 113-117).
GradientsAreDerivatives ==
  Done =>
    /\ loss = Loss(Raw(net, saved[1]).out)
    /\ \A l \in DOMAIN net : \A c \in DOMAIN net[l].bias :
         /\ IsDerivative(GradsOf(l).bias[c], Shifted(l, c, 1), Shifted(l, c, -1), saved[1], saved[1])
         /\ \A r \in DOMAIN net[l].weights :
              IsDerivative(GradsOf(l).weights[r][c], Moved(l, r, c, 1), Moved(l, r, c, -1),
                           saved[1], saved[1])
    /\ \A r \in DOMAIN grad : \A c \in DOMAIN grad[r] :
         IsDerivative(grad[r][c], net, net,
                      [saved[1] EXCEPT ![r][c] = @ + 1], [saved[1] EXCEPT ![r][c] = @ - 1])
=============================================================================
