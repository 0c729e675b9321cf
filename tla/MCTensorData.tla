---------------------------- MODULE MCTensorData ----------------------------
(* All shapes of up to two dimensions of up to two, and some more; vectors   *)
(* of up to two elements, and all lists of up to two of them as rows.        *)
EXTENDS TensorData

MCShapes == {<<n>> : n \in 0..2} \cup {<<m, n>> : m \in 0..2, n \in 0..2}
              \cup {<<4>>, <<1, 1, 1>>, <<2, 1, 2>>}
MCVectors == {<<>>, <<1>>, <<0, 1>>, <<1, 1>>}
MCMatrices == BoundedSeq(MCVectors, 2)
=============================================================================
