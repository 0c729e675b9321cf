---------------------------- MODULE ComputeJobs ----------------------------
(***************************************************************************)
(* What submitting compute work promises to a client that waits before it  *)
(* touches what the device uses: every submission takes effect as a whole, *)
(* in the order of the submissions, with the inputs staged and the push    *)
(* constants recorded for it.                                              *)
(***************************************************************************)
EXTENDS Sequences

CONSTANTS
  Buffers,   \* all buffers, on the device and staging
  Fillable,  \* the buffers the client writes
  Values,    \* what the client writes
  Jobs,      \* what can be submitted
  Unset      \* contents of a buffer nobody wrote

VARIABLES
  contents,  \* what each buffer holds
  jobs       \* submitted, not yet done

vars == <<contents, jobs>>

\* A job is a record of the copies <<from, to>> before and after, `load' and
\* `store', of what the shader reads and writes, `in' and `out', and of its push
\* constants, `const'.  What the shader computes is a term.
Compute(x, c) == <<x, c>>

Copied(pairs, c) ==
  [b \in DOMAIN c |->
     IF \E p \in pairs : p[2] = b THEN c[(CHOOSE p \in pairs : p[2] = b)[1]] ELSE c[b]]

Effect(job, c) ==
  LET loaded == Copied(job.load, c)
  IN  Copied(job.store, [loaded EXCEPT ![job.out] = Compute(loaded[job.in], job.const)])

Init ==
  /\ contents = [b \in Buffers |-> Unset]
  /\ jobs = <<>>

Fill(b, v) ==
  /\ contents' = [contents EXCEPT ![b] = v]
  /\ UNCHANGED jobs

Submit(job) ==
  /\ jobs' = Append(jobs, job)
  /\ UNCHANGED contents

Complete ==
  /\ jobs # <<>>
  /\ contents' = Effect(Head(jobs), contents)
  /\ jobs' = Tail(jobs)

Next ==
  \/ \E b \in Fillable, v \in Values : Fill(b, v)
  \/ \E job \in Jobs : Submit(job)
  \/ Complete

Spec == Init /\ [][Next]_vars
=============================================================================
