--------------------------- MODULE MCMatmulKernel ---------------------------
(* MatmulKernel on all shapes of up to MaxRank dimensions of size 1 or 2.    *)
(* The shape of six dimensions adds a batch rank above the rank of some of   *)
(* the others, so that their strides are read past the end; up to a MaxRank  *)
(* of 4 no batch rank is above the rank of a matrix, and strides suffice.    *)
EXTENDS MatmulKernel

CONSTANT MaxRank

MCShapes == UNION {[1..n -> 1..2] : n \in 1..MaxRank}

MCShapesAndLong == MCShapes \cup {<<2, 1, 1, 2, 1, 1>>}
=============================================================================
