-------------------------- MODULE MCComputeSession --------------------------
(* A pipeline with both kinds of staging; the same one with other staging    *)
(* buffers and its bindings in the other order; and a pipeline that goes on  *)
(* with the result of these, given a buffer that is no staging buffer.       *)
EXTENDS ComputeSession

CONSTANTS gi, mid, go, s1, s2, r1, r2

Arg(id, gpu, staging) == [id |-> id, gpu |-> gpu, staging |-> staging]

MCShaders ==
  {<<Arg(0, gi, s1), Arg(1, go, r1)>>, <<Arg(1, go, r2), Arg(0, gi, s2)>>,
   <<Arg(0, go, Null), Arg(1, mid, gi)>>}
=============================================================================
