-------------------------- MODULE MCLinearNetwork --------------------------
(* LinearNetwork with layers of one or two features.  The shapes hold the    *)
(* empty tensor, vectors, batches of one and two rows that fit and do not    *)
(* fit the layers, and a three-dimensional batch.                            *)
EXTENDS LinearNetwork

MCLayerArgs == [inF : 1..2, outF : 1..2, act : BOOLEAN]

MCInputShapes == {<<>>, <<1>>, <<2>>, <<1, 2>>, <<2, 1>>, <<2, 2>>, <<1, 2, 1>>}

MCGradShapes == {<<>>, <<1>>, <<2>>, <<1, 2>>, <<2, 1>>, <<2, 2>>, <<2, 2, 2>>}
=============================================================================
