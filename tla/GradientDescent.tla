-------------------------- MODULE GradientDescent --------------------------
(***************************************************************************)
(* What training promises: once a dataset is collected, every epoch        *)
(* applies to all layers at once the gradient of the loss over the whole   *)
(* dataset at the present weights.  Training that fails has changed        *)
(* nothing.                                                                *)
(***************************************************************************)
EXTENDS Integers, Sequences

CONSTANTS
  Depth,     \* number of layers
  Entries,   \* entries there may be in the dataset
  MaxEpochs  \* bound on the number of epochs

VARIABLES
  entries,  \* the dataset
  applied,  \* per layer, the gradients its weights have moved by
  outcome   \* "running", "done" or "failed"

vars == <<entries, applied, outcome>>

\* A gradient is a sum with a term for every row of a batch, and depends on some
\* weights.  A term is the set of the entries it was computed from; weights are
\* a layer and the number of gradients applied to it.
Gradient(n) == [terms |-> {{e} : e \in entries}, uses |-> (1..Depth) \X {n}]

Init ==
  /\ entries = {}
  /\ applied = [l \in 1..Depth |-> <<>>]
  /\ outcome = "running"

Untrained == \A l \in 1..Depth : applied[l] = <<>>

Collect ==
  /\ outcome = "running" /\ Untrained
  /\ \E e \in Entries : entries' = entries \cup {e}
  /\ UNCHANGED <<applied, outcome>>

Descend ==
  /\ outcome = "running"
  /\ \E n \in 0..(MaxEpochs - 1) :
       /\ \A l \in 1..Depth : Len(applied[l]) = n
       /\ applied' = [l \in 1..Depth |-> Append(applied[l], Gradient(n))]
  /\ UNCHANGED <<entries, outcome>>

Finish == outcome = "running" /\ outcome' = "done" /\ UNCHANGED <<entries, applied>>

Fail ==
  /\ outcome = "running" /\ Untrained
  /\ outcome' = "failed"
  /\ UNCHANGED <<entries, applied>>

Next == Collect \/ Descend \/ Finish \/ Fail

Spec == Init /\ [][Next]_vars
=============================================================================
