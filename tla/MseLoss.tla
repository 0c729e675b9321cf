------------------------------ MODULE MseLoss ------------------------------
(***************************************************************************)
(* The loops of nn::loss::MSE (lossfs.hpp): `i < n' compares a size_t with *)
(* the number of elements as a T, so both are rounded to what a T holds.   *)
(* What is followed here is which elements take part; LinearGrad computes  *)
(* with them.                                                              *)
(***************************************************************************)
EXTENDS Integers

CONSTANTS
  Largest,  \* bound on the number of elements
  Exact,    \* a T represents the integers up to here
  Approx    \* what an integer becomes as a T

ASSUME RoundingAssumption ==
  /\ Largest \in Nat /\ Exact \in Nat
  /\ Approx \in [0..Largest -> Nat]
  /\ \A j, k \in 0..Largest : j <= k => Approx[j] <= Approx[k]
  /\ \A k \in 0..Largest : k <= Exact => Approx[k] = k

VARIABLES
  pc,     \* "idle", "loop", "returned" or "threw"
  op,     \* "forward" or "backward"
  preds,  \* number of elements of y_pred
  trues,  \* number of elements of y_true
  limit,  \* the loop bound n, a T
  at      \* the loop variable i

lossVars == <<pc, op, preds, trues, limit, at>>

LossInit ==
  /\ pc = "idle" /\ op = "forward"
  /\ preds = 0 /\ trues = 0 /\ limit = 0 /\ at = 0

Call(f, p, q) ==
  /\ pc # "loop"
  /\ op' = f /\ preds' = p /\ trues' = q
  /\ at' = 0 /\ limit' = Approx[p]
  /\ pc' = IF p = q THEN "loop" ELSE "threw"

\* A loop that goes one element too far, and one that stops one early.
GoesOnToEnd == Approx[at] <= limit
GoesOnShort == at + 1 < limit
GoesOn == Approx[at] < limit

Iterate ==
  /\ pc = "loop" /\ GoesOn
  /\ at' = at + 1
  /\ UNCHANGED <<pc, op, preds, trues, limit>>

Return ==
  /\ pc = "loop" /\ ~GoesOn
  /\ pc' = "returned"
  /\ UNCHANGED <<op, preds, trues, limit, at>>

LossNext ==
  \/ \E f \in {"forward", "backward"}, p, q \in 0..Largest : Call(f, p, q)
  \/ Iterate \/ Return

LossSpec == LossInit /\ [][LossNext]_lossVars

-----------------------------------------------------------------------------
\* No element is read or written past the end of either tensor, although the
\* bound may be rounded up (lossfs.hpp:27, 42).
StaysInTensors ==
  pc = "loop" /\ GoesOn => at < preds /\ at < trues

\* Every element takes part in the loss and gets its gradient, except the last
\* few of a tensor so large that they are rounded to its size (lossfs.hpp:25-31,
\* 39-45).
OnlyRoundingSkips ==
  pc = "returned" =>
    /\ \A j \in at..(preds - 1) : Approx[j] = limit
    /\ preds <= Exact => at = preds
=============================================================================
