------------------------------ MODULE Dispatch ------------------------------
(***************************************************************************)
(* How many elements a recorded pipeline computes and hands back: the      *)
(* local size ComputeShader remembers (compute.cpp), the VkPipeline build  *)
(* makes of the shader (pipeline.cpp), the group count record derives in   *)
(* 32 bits (pipeline.hpp), the sizes of the buffers on the way             *)
(* (buffer.hpp, compute.hpp) and the bounds check of the shader            *)
(* (assets/compute.comp).  One dimension; Y and Z are computed alike.      *)
(* What is counted is elements, not their values.                          *)
(***************************************************************************)
EXTENDS Integers

CONSTANTS
  Word,        \* 2^32: the number of values of a uint32_t
  LocalSizes,  \* the local sizes shaders declare
  Counts       \* element counts: of buffers, of a fill, of a record

ASSUME DispatchAssumption ==
  /\ Word \in Nat \ {0}
  /\ LocalSizes \subseteq 1..(Word - 1)
  /\ Counts \subseteq 0..(Word - 1)

VARIABLES
  size,     \* elements of the buffers: stagingIn, gpuIn, gpuOut, stagingOut
  shader,   \* the shader of the pipeline: local size its SPIR-V declares, and
            \* the one it remembers, ComputeShader::localX
  built,    \* local size of the VkPipeline of the latest build, 0 without one
  filled,   \* stagingIn holds data in the elements below this
  work      \* the latest record: elements asked for, groups dispatched, the
            \* local size they were computed from, and that of the VkPipeline

dispatchVars == <<size, shader, built, filled, work>>

Names == {"stagingIn", "gpuIn", "gpuOut", "stagingOut"}
NoShader == [spv |-> 0, localX |-> 0]
NoWork == [elements |-> 0, groups |-> 0, local |-> 0, actual |-> 0]

AtLeastOne(n) == IF n = 0 THEN 1 ELSE n
Smaller(m, n) == IF m < n THEN m ELSE n

DispatchInit ==
  /\ size \in [Names -> Counts]
  /\ shader = NoShader /\ built = 0
  /\ filled = 0
  /\ work = NoWork

-----------------------------------------------------------------------------
\* What reflection says of a shader whose local size is s: s itself, 0xFFFFFFFF
\* when s comes from a specialization constant, 0 when it finds no entry.
Unspecialized == Word - 1
Reflected(s) == {s, Unspecialized, 0}

\* What load leaves in localX: when reflection fails, what an earlier load of
\* another shader left there.
Loaded(s) == Reflected(s) \cup LocalSizes

\* set_shader with a shader of the client: what was recorded stays.
SetShader(s) ==
  /\ \E x \in Loaded(s) : shader' = [spv |-> s, localX |-> x]
  /\ UNCHANGED <<size, built, filled, work>>

\* build makes a VkPipeline of the shader there is, and a new command buffer.
BuildPipeline ==
  /\ shader # NoShader
  /\ built' = shader.spv
  /\ work' = NoWork
  /\ UNCHANGED <<size, shader, filled>>

\* fill with n elements, which fit.
Fill(n) ==
  /\ n <= size["stagingIn"]
  /\ filled' = IF n > filled THEN n ELSE filled
  /\ UNCHANGED <<size, shader, built, work>>

\* Rounded down.
GroupsDown(n, l) == AtLeastOne(n \div l)

\* Rounded up, without at least one group.
GroupsMayBeZero(n, l) == ((n + l - 1) % Word) \div l

\* The group count of record: the sum wraps.
Groups(n, l) == AtLeastOne(((n + l - 1) % Word) \div l)

\* record takes the local size of the shader and the VkPipeline of the latest
\* build.  Without a local size it throws, after the reset of the command buffer.
Record(n) ==
  /\ built # 0
  /\ \/ /\ shader.localX # 0
        /\ work' = [elements |-> n, groups |-> Groups(n, shader.localX),
                    local |-> shader.localX, actual |-> built]
     \/ shader.localX = 0 /\ work' = NoWork
  /\ UNCHANGED <<size, shader, built, filled>>

DispatchNext ==
  \/ \E s \in LocalSizes : SetShader(s)
  \/ BuildPipeline
  \/ \E n \in Counts : Fill(n) \/ Record(n)

DispatchSpec == DispatchInit /\ [][DispatchNext]_dispatchVars

-----------------------------------------------------------------------------
\* Elements the two copies move: byteSize is the size of the device buffer.
CopiedIn == size["gpuIn"]
CopiedOut == size["gpuOut"]

\* The invocations, and how many pass the check of the shader: it looks at the
\* input buffer.
Invocations == work.groups * work.actual
PassingButLast == Smaller(Invocations, size["gpuIn"] - 1)
Passing == Smaller(Invocations, size["gpuIn"])

\* No copy and no shader write goes past the end of a buffer.
Fits ==
  /\ CopiedIn <= size["stagingIn"]
  /\ CopiedOut <= size["stagingOut"]
  /\ Passing <= size["gpuOut"]

\* Element i of what fetch returns was computed by this work from element i of
\* a fill.
IsResult(i) == i < filled /\ i < CopiedIn /\ i < Passing /\ i < CopiedOut

-----------------------------------------------------------------------------
DispatchTypeOK ==
  /\ size \in [Names -> Counts]
  /\ shader \in [spv : LocalSizes \cup {0}, localX : 0..(Word - 1)]
  /\ built \in LocalSizes \cup {0}
  /\ filled \in 0..(Word - 1)
  /\ work \in [elements : Counts \cup {0}, groups : 0..(Word - 1),
              local : 0..(Word - 1), actual : LocalSizes \cup {0}]

\* The sum of pipeline.hpp:63 wraps.
Wraps == work.elements + work.local - 1 >= Word

\* When the sum does not wrap, the groups cover the elements asked for unless the
\* remembered local size is larger than that of the VkPipeline, and none is
\* superfluous unless it is smaller: whatever shaders were set, and whenever the
\* pipeline was built (compute.cpp:15, pipeline.cpp:14-21, pipeline.hpp:56-65).
GroupsAreExact ==
  work # NoWork /\ ~Wraps =>
    /\ work.local <= work.actual => Invocations >= work.elements
    /\ work.local >= work.actual => (work.groups - 1) * work.actual < AtLeastOne(work.elements)

\* Buffers may differ in size as long as no device buffer is larger than its
\* staging buffer, nor the input larger than the output: then nothing is overrun,
\* and each element filled comes back as a result that fits in the input and was
\* asked for (compute.hpp:41, pipeline.hpp:40, 63, 72, compute.comp:18).
WholeBufferIsComputed ==
  /\ work # NoWork /\ ~Wraps /\ work.local <= work.actual
  /\ size["gpuIn"] <= size["stagingIn"] /\ size["gpuIn"] <= size["gpuOut"]
  /\ size["gpuOut"] <= size["stagingOut"]
  => /\ Fits
     /\ \A i \in 0..(filled - 1) : i < work.elements /\ i < size["gpuIn"] => IsResult(i)

\* Where the sum wraps, or the local size is left to a specialization constant,
\* one group is dispatched, however many elements there are: never a group count
\* of 0, and never one too large (pipeline.hpp:60-65).
WrappingMakesOneGroup ==
  work # NoWork /\ (Wraps \/ work.local = Unspecialized) => work.groups = 1
=============================================================================
