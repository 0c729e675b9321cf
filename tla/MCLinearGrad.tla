---------------------------- MODULE MCLinearGrad ----------------------------
(* Networks 2 -> 2 -> 1 and 2 -> 1 on a batch of two rows, and 1 -> 1 on batches *)
(* that reach the sizes a T rounds, also with true outputs of another size.  A T *)
(* has a significand of three bits, and rounds half to even.                     *)
EXTENDS LinearGrad

Weight == {-4, 1, 3}
Bias == {<<2, 0>>, <<-1, 5>>}
Hidden == {[weights |-> << <<a, b>>, <<c, d>> >>, bias |-> e, act |-> "relu"] :
             a, b, c, d \in Weight, e \in Bias}
Final == {[weights |-> << <<a>>, <<b>> >>, bias |-> <<1>>, act |-> f] :
            a, b \in {-2, 3}, f \in {"none", "relu", "sigmoid"}}
Small == {<<h, f>> : h \in Hidden, f \in Final} \cup {<<f>> : f \in Final}

Narrow == <<[weights |-> << <<3>> >>, bias |-> <<-1>>, act |-> "relu"]>>
Column1(rows) == [r \in 1..rows |-> <<(r % 5) - 1>>]

MCCases ==
  (Small \X {<< <<2, 1>>, <<-1, 3>> >>} \X {<< <<7>>, <<-2>> >>})
    \cup ({Narrow} \X {Column1(k) : k \in 1..24} \X {Column1(k) : k \in 1..24})

Unit(k) == CHOOSE u \in {1, 2, 4} : k < 8 * u /\ (u = 1 \/ k >= 4 * u)
RoundedDown(k) == (k \div Unit(k)) * Unit(k)
RoundsDown(k) ==
  LET r == 2 * (k % Unit(k))
  IN  r < Unit(k) \/ (r = Unit(k) /\ (k \div Unit(k)) % 2 = 0)

MCApprox ==
  [k \in 0..24 |-> IF RoundsDown(k) THEN RoundedDown(k) ELSE RoundedDown(k) + Unit(k)]
=============================================================================
