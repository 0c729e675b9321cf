---------------------------- MODULE TrainingLoop ----------------------------
(***************************************************************************)
(* The training loop of .tests/network.cpp and the README over Dataset,    *)
(* LinearNetwork, MSE and SGD, after a client has collected a dataset.     *)
(* forward, backward and update_weights are taken layer by layer, with     *)
(* what each call keeps for the next.  Values are abstracted to what they  *)
(* were computed from.                                                     *)
(***************************************************************************)
EXTENDS Integers, Sequences, SequencesExt

CONSTANTS
  Dims, Asked, MaxEntries,  \* of Dataset
  Depth,                    \* number of layers
  Activated,                \* layers with an activation function
  InFeatures, OutFeatures,  \* of the network
  MaxEpochs                 \* bound on the number of epochs

ASSUME LoopAssumption ==
  /\ Dims \subseteq Nat \ {0} /\ Asked \subseteq Nat /\ MaxEntries \in Nat
  /\ Depth \in Nat \ {0} /\ Activated \subseteq 1..Depth /\ MaxEpochs \in Nat
  /\ {InFeatures, OutFeatures} \subseteq Nat \ {0}

VARIABLES
  data, capacity, batch, held, fault,  \* of Dataset
  pc,       \* the next statement of the loop; "client" before it
  epoch,    \* epochs completed
  layer,    \* the layer it is at
  tested,   \* entries tested after training
  x,        \* what forward carries from layer to layer; at last y_pred
  g,        \* what backward carries
  saved,    \* Linear::saved_X
  cache,    \* LayerCache::y_raw
  grad,     \* Linear::grad_weights and grad_bias
  applied,  \* history: the gradients each layer's weights have moved by
  outcome   \* of training: "running", "done" or "failed", by exception

dataset == <<data, capacity, batch, held, fault>>
net == <<saved, cache, grad, applied>>
loop == <<pc, epoch, layer, tested, x, g, net, outcome>>
vars == <<dataset, loop>>

Data == INSTANCE Dataset

\* A tensor: the entries each row comes from, and the weights it depends on, each
\* a layer and the number of gradients applied to it.  A gradient is a sum with
\* a term, the entries it comes from, for every row.
NoTensor == [rows |-> <<>>, uses |-> {}]
NoGradient == [terms |-> {}, uses |-> {}]

Weights(l) == {<<l, Len(applied[l])>>}

Init ==
  /\ Data!Init
  /\ pc = "client" /\ epoch = 0 /\ layer = 1 /\ tested = 0
  /\ x = NoTensor /\ g = NoTensor
  /\ saved = [l \in 1..Depth |-> NoTensor]
  /\ cache = [l \in 1..Depth |-> NoTensor]
  /\ grad = [l \in 1..Depth |-> NoGradient]
  /\ applied = [l \in 1..Depth |-> <<>>]
  /\ outcome = "running"

\* Any use of the dataset.
Client == pc = "client" /\ Data!Next /\ UNCHANGED loop

\* The program trains when it has added its entries, made by create.
Start ==
  /\ pc = "client" /\ batch = Data!NoBatch /\ held = Data!NotHeld /\ fault = "none"
  /\ \A e \in DOMAIN data, k \in 1..2 : data[e].tensors[k].elements > 0
  /\ pc' = "batch"
  /\ UNCHANGED <<dataset, epoch, layer, tested, x, g, net, outcome>>

Trained == pc' = "test" /\ outcome' = "done"
Throw == pc' = "end" /\ outcome' = IF outcome = "running" THEN "failed" ELSE outcome

-----------------------------------------------------------------------------
\* Row i of the input (k = 1) and of the true output (k = 2) of a batch.
RowsOf(k) ==
  [i \in 1..batch.rows |-> {Data!Cell(k, i, j)[1] : j \in 0..(batch.sized[k].dims - 1)}]

\* A loop that goes on trying when the dataset is empty.
BatchRetried ==
  /\ pc = "batch" /\ epoch < MaxEpochs
  /\ Data!Batch(0, TRUE) /\ fault' = "none"
  /\ pc' = "forward" /\ layer' = 1 /\ x' = [rows |-> RowsOf(1)', uses |-> {}]
  /\ UNCHANGED <<epoch, tested, g, net, outcome>>

\* ds.batch(0, true).  When it reads outside an entry nothing is known of what
\* follows.
Batch ==
  /\ pc = "batch" /\ epoch < MaxEpochs
  /\ \/ data = <<>> /\ Throw /\ UNCHANGED <<dataset, layer, x>>
     \/ /\ Data!Batch(0, TRUE)
        /\ IF fault' # "none" THEN Throw /\ UNCHANGED <<layer, x>>
           ELSE /\ pc' = "forward" /\ layer' = 1 /\ x' = [rows |-> RowsOf(1)', uses |-> {}]
                /\ UNCHANGED outcome
  /\ UNCHANGED <<epoch, tested, g, net>>

\* One layer of forward.
Through(l, t) == [t EXCEPT !.uses = @ \cup Weights(l)]

\* Only the first layer may not take its input.
ForwardLayer ==
  /\ pc = "forward"
  /\ IF layer = 1 /\ batch.sized[1].dims # InFeatures
     THEN Throw /\ UNCHANGED <<layer, x, saved, cache>>
     ELSE /\ saved' = [saved EXCEPT ![layer] = x]
          /\ x' = Through(layer, x)
          /\ cache' = [cache EXCEPT ![layer] = x']
          /\ IF layer < Depth THEN layer' = layer + 1 /\ UNCHANGED pc
             ELSE pc' = "loss" /\ UNCHANGED layer
          /\ UNCHANGED outcome
  /\ UNCHANGED <<dataset, epoch, tested, g, grad, applied>>

\* loss_fn.forward, and the break when the loss is low enough.
Loss ==
  /\ pc = "loss"
  /\ IF batch.sized[2].dims # OutFeatures THEN Throw
     ELSE \/ pc' = "gradient" /\ UNCHANGED outcome
          \/ Trained
  /\ UNCHANGED <<dataset, epoch, layer, tested, x, g, net>>

\* loss_fn.backward: each row meets the row of the true output.
LossBackward ==
  /\ pc = "gradient"
  /\ g' = [rows |-> [i \in DOMAIN x.rows |-> x.rows[i] \cup RowsOf(2)[i]], uses |-> x.uses]
  /\ pc' = "backward" /\ layer' = Depth
  /\ UNCHANGED <<dataset, epoch, tested, x, net, outcome>>

\* What reaches Linear::backward, behind the derivative.
RawGradient(l) ==
  IF l \notin Activated THEN g
  ELSE [rows |-> [i \in DOMAIN g.rows |-> g.rows[i] \cup cache[l].rows[i]],
        uses |-> g.uses \cup cache[l].uses]

WeightGradient(l) ==
  [terms |-> {RawGradient(l).rows[i] \cup saved[l].rows[i] : i \in DOMAIN g.rows},
   uses  |-> RawGradient(l).uses \cup saved[l].uses]

\* A backward that adds to the gradients there are.
GradientAccumulated(l) ==
  [terms |-> grad[l].terms \cup WeightGradient(l).terms,
   uses  |-> grad[l].uses \cup WeightGradient(l).uses]
GradientOf(l) == WeightGradient(l)

BackwardLayer ==
  /\ pc = "backward"
  /\ grad' = [grad EXCEPT ![layer] = GradientOf(layer)]
  /\ g' = Through(layer, RawGradient(layer))
  /\ IF layer > 1 THEN layer' = layer - 1 /\ UNCHANGED pc
     ELSE pc' = "update" /\ UNCHANGED layer
  /\ UNCHANGED <<dataset, epoch, tested, x, saved, cache, applied, outcome>>

\* One layer of update_weights.
UpdateLayer ==
  /\ pc = "update"
  /\ applied' = [applied EXCEPT ![layer] = Append(@, grad[layer])]
  /\ IF layer < Depth THEN layer' = layer + 1 /\ UNCHANGED <<pc, epoch>>
     ELSE pc' = "batch" /\ epoch' = epoch + 1 /\ UNCHANGED layer
  /\ UNCHANGED <<dataset, tested, x, g, saved, cache, grad, outcome>>

EpochsOver ==
  /\ pc = "batch" /\ epoch = MaxEpochs /\ Trained
  /\ UNCHANGED <<dataset, epoch, layer, tested, x, g, net>>

\* The prediction for one entry after the other, which overwrites what the layers
\* saved.  An entry longer than the first was cut off in the batches, but throws
\* here.
Evaluate ==
  /\ pc = "test" /\ tested < Len(data)
  /\ LET e == data[tested + 1]
         into(l) == [rows |-> << {e.name} >>, uses |-> UNION {Weights(k) : k \in 1..(l - 1)}]
     IN  IF e.tensors[1].dims # InFeatures THEN Throw /\ UNCHANGED <<tested, x, saved, cache>>
         ELSE /\ saved' = [l \in 1..Depth |-> into(l)]
              /\ cache' = [l \in 1..Depth |-> into(l + 1)]
              /\ x' = into(Depth + 1)
              /\ tested' = tested + 1
              /\ UNCHANGED <<pc, outcome>>
  /\ UNCHANGED <<dataset, epoch, layer, g, grad, applied>>

Finish ==
  /\ pc = "test" /\ tested = Len(data)
  /\ pc' = "end"
  /\ UNCHANGED <<dataset, epoch, layer, tested, x, g, net, outcome>>

Step ==
  \/ Batch \/ ForwardLayer \/ Loss \/ LossBackward \/ BackwardLayer \/ UpdateLayer
  \/ EpochsOver \/ Evaluate \/ Finish

Next == Client \/ Start \/ Step

Spec == Init /\ [][Next]_vars

\* The loop is one thread that never blocks.
FairSpec == Spec /\ WF_vars(Step)

-----------------------------------------------------------------------------
\* What the weights are between two updates: an update that has not reached the
\* last layer has not happened yet.
Shown ==
  [l \in 1..Depth |->
     IF pc = "update" /\ l < layer THEN Front(applied[l]) ELSE applied[l]]

Ideal == INSTANCE GradientDescent WITH
  Entries <- 1..MaxEntries,
  entries <- {data[e].name : e \in DOMAIN data},
  applied <- Shown

\* The loop is gradient descent: through the layers, the permutations of the
\* batches, entries of differing sizes and the tensors kept from call to call,
\* every epoch moves all layers by the gradient of the whole dataset at the
\* weights the epoch started with, each entry against its own output; training
\* that throws has moved nothing (network.cpp:34-52, optimizer.hpp:20-28,
\* layer.hpp:24-79, dataset.hpp:30-77).
DescendsTheGradient == Ideal!Spec

\* A program that begins to train comes to its end, whatever the dataset
\* (network.cpp:34-59).
TrainingEnds == pc = "batch" ~> pc = "end"

\* Row i of a batch is the input of one entry beside the true output of the same
\* entry, as far as the first entry's tensors go, and no entry is in two rows
\* (dataset.hpp:30-76).
BatchHoldsEntries == Data!BatchHoldsEntries

\* The reference random returned refers to the entry that was drawn, at least
\* until an entry is added (dataset.hpp:79-88).
ReferenceKeepsItsEntry == Data!ReferenceKeepsItsEntry
=============================================================================
