------------------------ MODULE ComputePipelineProofs ------------------------
(***************************************************************************)
(* Proofs about ComputePipeline, for any number of pipelines, devices and  *)
(* builds: who owns which object, who can submit which command buffer, and *)
(* which calls can make something wrong with a pipeline: put it and its    *)
(* objects on different devices, leave an object that nobody holds, or     *)
(* make isRecorded wrong.                                                  *)
(***************************************************************************)
EXTENDS ComputePipeline, SequenceTheorems, TLAPS

-----------------------------------------------------------------------------
(* The records of the pipelines. *)

LEMMA Fields ==
  ASSUME NEW r \in Pipeline
  PROVE  /\ r.gpu \in Devices \cup {NoDevice}
         /\ r.ready \in BOOLEAN /\ r.sized \in BOOLEAN
         /\ r.isRecorded \in BOOLEAN /\ r.submitted \in BOOLEAN
         /\ r.cmd \in Handle \cup {Null}
         /\ r.pool \in Handle \cup {Null}
         /\ r.fence \in Handle \cup {Null}
BY DEF Pipeline

LEMMA HandleIsPositive ==
  \A h \in Handle : h \in Nat /\ h > 0 /\ h # Null
BY PipelineAssumption DEF Handle, Null

LEMMA DefaultType ==
  Default \in Pipeline
BY DEF Default, Pipeline

LEMMA GpuUpdate ==
  ASSUME NEW r \in Pipeline, NEW d \in Devices \cup {NoDevice}
  PROVE  [r EXCEPT !.gpu = d] \in Pipeline
BY DEF Pipeline

LEMMA FlagUpdate ==
  ASSUME NEW r \in Pipeline, NEW b \in BOOLEAN
  PROVE  /\ [r EXCEPT !.ready = b] \in Pipeline
         /\ [r EXCEPT !.sized = b] \in Pipeline
         /\ [r EXCEPT !.isRecorded = b] \in Pipeline
         /\ [r EXCEPT !.submitted = b] \in Pipeline
BY DEF Pipeline

LEMMA BuildUpdate ==
  ASSUME NEW r \in Pipeline, NEW b \in BOOLEAN, NEW c \in Handle \cup {Null},
         NEW h \in Handle, NEW f \in Handle \cup {Null}, NEW s \in BOOLEAN
  PROVE  [r EXCEPT !.ready = b, !.cmd = c, !.pool = h, !.fence = f, !.submitted = s] \in Pipeline
BY DEF Pipeline

LEMMA TypeOKInit ==
  Init => TypeOK
BY PipelineAssumption, DefaultType DEF Init, TypeOK, CmdState, Host, Run

LEMMA MisuseType ==
  ASSUME TypeOK, Misuse
  PROVE  TypeOK'
BY DEF TypeOK, Misuse, objects, Host, Undefined

\* A step that changes one pipeline and nothing else.
LEMMA PipeOnly ==
  ASSUME TypeOK, NEW p \in Pipelines, NEW r \in Pipeline, pipe' = [pipe EXCEPT ![p] = r],
         UNCHANGED <<objects, host>>
  PROVE  TypeOK'
BY DEF TypeOK, objects

LEMMA SettersType ==
  ASSUME TypeOK, NEW p \in Pipelines,
         \/ \E d \in Devices \cup {NoDevice} : SetGpu(p, d)
         \/ \E sized \in BOOLEAN : SetShader(p, sized)
  PROVE  TypeOK'
<1>1. pipe[p] \in Pipeline
  BY DEF TypeOK
<1>2. ASSUME NEW d \in Devices \cup {NoDevice}, SetGpu(p, d) PROVE TypeOK'
  <2>1. pipe' = [pipe EXCEPT ![p] = [pipe[p] EXCEPT !.gpu = d]]
    BY <1>2 DEF SetGpu
  <2> QED
    BY <1>1, <1>2, <2>1, GpuUpdate, PipeOnly DEF SetGpu
<1>3. ASSUME NEW b \in BOOLEAN, SetShader(p, b) PROVE TypeOK'
  <2>1. pipe' = [pipe EXCEPT ![p] = [pipe[p] EXCEPT !.sized = b]]
    BY <1>3 DEF SetShader
  <2> QED
    BY <1>1, <1>3, <2>1, FlagUpdate, PipeOnly DEF SetShader
<1> QED
  BY <1>2, <1>3

\* What the deletion of recorded objects makes of the state of buffers.
LEMMA InvalidatedType ==
  ASSUME TypeOK, NEW p \in Pipelines
  PROVE  /\ Invalidated(p) \in [Handle -> CmdState]
         /\ \A c \in Handle : c # pipe[p].cmd \/ ~pipe[p].ready => Invalidated(p)[c] = cmds[c]
<1>1. cmds \in [Handle -> CmdState] /\ "invalid" \in CmdState
  BY DEF TypeOK, CmdState
<1> QED
  BY <1>1 DEF Invalidated

LEMMA BuildType ==
  ASSUME TypeOK, NEW p \in Pipelines, Build(p)
  PROVE  TypeOK'
<1>1. pipe[p] \in Pipeline
  BY DEF TypeOK
<1>2. CASE Misuse
  BY <1>2, MisuseType
<1>3. CASE BuildFailsEarly(p)
  <2>1. PICK b \in BOOLEAN : pipe' = [pipe EXCEPT ![p].ready = @ /\ ~b]
    BY <1>3 DEF BuildFailsEarly
  <2>2. pipe' = [pipe EXCEPT ![p] = [pipe[p] EXCEPT !.ready = @ /\ ~b]]
    BY <2>1
  <2>3. (pipe[p].ready /\ ~b) \in BOOLEAN
    OBVIOUS
  <2>4. [pipe[p] EXCEPT !.ready = pipe[p].ready /\ ~b] \in Pipeline
    BY <1>1, <2>3, FlagUpdate
  <2> QED
    <3>1. pipe' \in [Pipelines -> Pipeline]
      BY <2>2, <2>4 DEF TypeOK
    <3>2. cmds' \in {cmds, Invalidated(p)} /\ UNCHANGED <<pools, fences, signalled, queue, builds, host>>
      BY <1>3 DEF BuildFailsEarly
    <3>3. cmds' \in [Handle -> CmdState]
      BY <3>2, InvalidatedType DEF TypeOK
    <3> QED
      BY <3>1, <3>2, <3>3 DEF TypeOK
<1>4. CASE BuildGetsPool(p)
  <2> DEFINE h == builds + 1
             d == pipe[p].gpu
  <2>1. /\ h \in Handle
        /\ builds' = h
        /\ pools' = [pools EXCEPT ![h] = d]
        /\ UNCHANGED <<signalled, queue, host>>
    BY <1>4 DEF BuildGetsPool
  <2>2. PICK cmdOK, fenceOK, bgOK \in BOOLEAN :
          /\ cmds' = IF cmdOK THEN [Invalidated(p) EXCEPT ![h] = "initial"] ELSE Invalidated(p)
          /\ fences' = IF fenceOK THEN [fences EXCEPT ![h] = d] ELSE fences
          /\ pipe' = [pipe EXCEPT
               ![p].ready = bgOK,
               ![p].cmd   = IF cmdOK THEN h ELSE Null,
               ![p].pool  = h,
               ![p].fence = IF fenceOK THEN h ELSE @,
               ![p].submitted = @ /\ ~fenceOK]
    BY <1>4 DEF BuildGetsPool
  <2>3. d \in Devices \cup {NoDevice} /\ pipe[p].fence \in Handle \cup {Null}
    BY <1>1, Fields
  <2>4. pipe' \in [Pipelines -> Pipeline]
    <3> DEFINE c == IF cmdOK THEN h ELSE Null
               f == IF fenceOK THEN h ELSE pipe[p].fence
               s == pipe[p].submitted /\ ~fenceOK
               r == [pipe[p] EXCEPT !.ready = bgOK, !.cmd = c, !.pool = h, !.fence = f,
                                    !.submitted = s]
    <3>1. c \in Handle \cup {Null} /\ f \in Handle \cup {Null}
      BY <2>1, <2>3
    <3>2. s \in BOOLEAN
      OBVIOUS
    <3>3. pipe' = [pipe EXCEPT ![p] = r]
      BY <2>2
    <3>4. r \in Pipeline
      <4> HIDE DEF c, f, s, h
      <4> QED
        BY <1>1, <2>1, <3>1, <3>2, BuildUpdate
    <3> HIDE DEF r
    <3> QED
      BY <3>3, <3>4 DEF TypeOK
  <2>5. pools' \in [Handle -> Devices \cup {NoDevice}] /\ fences' \in [Handle -> Devices \cup {NoDevice}]
    BY <2>1, <2>2, <2>3 DEF TypeOK
  <2>6. cmds' \in [Handle -> CmdState]
    BY <2>1, <2>2, InvalidatedType DEF TypeOK, CmdState
  <2>7. builds' \in 0..MaxBuilds
    BY <2>1, PipelineAssumption DEF Handle
  <2> QED
    BY <2>1, <2>4, <2>5, <2>6, <2>7 DEF TypeOK
<1> QED
  BY <1>2, <1>3, <1>4 DEF Build

LEMMA RecordType ==
  ASSUME TypeOK, NEW p \in Pipelines, Record(p)
  PROVE  TypeOK'
<1>1. pipe[p] \in Pipeline
  BY DEF TypeOK
<1>2. CASE Misuse
  BY <1>2, MisuseType
<1>3. CASE CanRecord(p) /\ ~Misuse
  <2>1. /\ RecordEnds(p) \/ RecordThrows(p)
        /\ UNCHANGED <<pools, fences, signalled, queue, builds, host>>
    BY <1>3 DEF Record
  <2>2. cmds' \in [Handle -> CmdState]
    BY <2>1 DEF TypeOK, CmdState, RecordEnds, RecordThrows
  <2>3. pipe' \in [Pipelines -> Pipeline]
    <3>1. CASE RecordEnds(p)
      <4>1. pipe' = [pipe EXCEPT ![p] = [pipe[p] EXCEPT !.isRecorded = TRUE]]
        BY <3>1 DEF RecordEnds
      <4> QED
        BY <1>1, <4>1, FlagUpdate DEF TypeOK
    <3>2. CASE RecordThrows(p)
      BY <3>2 DEF RecordThrows, TypeOK
    <3> QED
      BY <2>1, <3>1, <3>2
  <2> QED
    BY <2>1, <2>2, <2>3 DEF TypeOK
<1> QED
  BY <1>2, <1>3 DEF Record

LEMMA SubmitType ==
  ASSUME TypeOK, NEW p \in Pipelines, SubmitAsync(p)
  PROVE  TypeOK'
<1>1. pipe[p] \in Pipeline
  BY DEF TypeOK
<1>2. CASE Misuse
  BY <1>2, MisuseType
<1>3. CASE CanSubmit(p) /\ ~Misuse
  <2>1. /\ signalled' = signalled \ {pipe[p].fence}
        /\ SubmitSucceeds(p) \/ SubmitFails(p)
        /\ UNCHANGED <<pools, fences, builds, host>>
    BY <1>3 DEF SubmitAsync
  <2>2. pipe[p].cmd \in Handle /\ pipe[p].fence \in Handle /\ pipe[p].gpu \in Devices
    BY <1>1, <1>3, Fields DEF CanSubmit, StateOf
  <2>3. CASE SubmitSucceeds(p)
    <3>1. pipe' = [pipe EXCEPT ![p] = [pipe[p] EXCEPT !.submitted = TRUE]]
      BY <2>3 DEF SubmitSucceeds
    <3>2. pipe' \in [Pipelines -> Pipeline]
      BY <1>1, <3>1, FlagUpdate DEF TypeOK
    <3>3. cmds' \in [Handle -> CmdState]
      BY <2>2, <2>3 DEF SubmitSucceeds, TypeOK, CmdState
    <3>4. queue' \in [Devices -> Seq([cmd : Handle, fence : Handle])]
      <4> DEFINE S == [cmd : Handle, fence : Handle]
                 s == [cmd |-> pipe[p].cmd, fence |-> pipe[p].fence]
                 d == pipe[p].gpu
      <4>1. s \in S
        BY <2>2
      <4>2. queue' = [queue EXCEPT ![d] = Append(queue[d], s)]
        BY <2>3 DEF SubmitSucceeds
      <4>3. queue \in [Devices -> Seq(S)] /\ d \in Devices
        BY <2>2 DEF TypeOK
      <4> HIDE DEF s, S, d
      <4>4. Append(queue[d], s) \in Seq(S)
        BY <4>1, <4>3
      <4> QED
        BY <4>2, <4>3, <4>4 DEF S
    <3> QED
      BY <2>1, <3>2, <3>3, <3>4 DEF TypeOK
  <2>4. CASE SubmitFails(p)
    <3>1. pipe' = [pipe EXCEPT ![p] = [pipe[p] EXCEPT !.submitted = FALSE]]
      BY <2>4 DEF SubmitFails
    <3>2. pipe' \in [Pipelines -> Pipeline]
      BY <1>1, <3>1, FlagUpdate DEF TypeOK
    <3> QED
      BY <2>1, <2>4, <3>2 DEF SubmitFails, TypeOK
  <2> QED
    BY <2>1, <2>3, <2>4
<1> QED
  BY <1>2, <1>3 DEF SubmitAsync

LEMMA ExecuteType ==
  ASSUME TypeOK, NEW d \in Devices, Execute(d)
  PROVE  TypeOK'
<1> DEFINE S == [cmd : Handle, fence : Handle]
           s == Head(queue[d])
<1>1. queue \in [Devices -> Seq(S)] /\ queue[d] # <<>>
  BY DEF TypeOK, Execute
<1>2. queue' = [queue EXCEPT ![d] = Tail(queue[d])]
  BY DEF Execute
<1>3. cmds' = [cmds EXCEPT ![s.cmd] = "executable"] /\ signalled' = signalled \cup {s.fence}
  BY DEF Execute
<1>4. s \in S /\ Tail(queue[d]) \in Seq(S)
  <2> HIDE DEF S
  <2> QED
    BY <1>1
<1>5. s.cmd \in Handle /\ s.fence \in Handle
  BY <1>4
<1> HIDE DEF s
<1>6. queue' \in [Devices -> Seq(S)]
  <2> HIDE DEF S
  <2> QED
    BY <1>1, <1>2, <1>4
<1>7. cmds' \in [Handle -> CmdState] /\ signalled' \subseteq Handle
  BY <1>3, <1>5 DEF TypeOK, CmdState
<1>8. UNCHANGED <<pipe, pools, fences, builds, host>>
  BY DEF Execute
<1> QED
  BY <1>6, <1>7, <1>8 DEF TypeOK

LEMMA WaitType ==
  ASSUME TypeOK, NEW p \in Pipelines,
         Wait(p) \/ WaitReturns(p) \/ WaitIdle(p) \/ WaitIdleReturns(p)
  PROVE  TypeOK'
<1>1. CASE Misuse
  BY <1>1, MisuseType
<1>2. CASE ~Misuse
  <2>1. UNCHANGED <<pipe, objects>>
    BY <1>2 DEF Wait, WaitReturns, WaitIdle, WaitIdleReturns
  <2>2. host' \in Host
    BY <1>2 DEF Wait, WaitReturns, WaitIdle, WaitIdleReturns, Host, Run
  <2> QED
    BY <2>1, <2>2 DEF TypeOK, objects
<1> QED
  BY <1>1, <1>2

\* What destroy() frees keeps everything but the pipelines well typed.
LEMMA FreeType ==
  ASSUME TypeOK, NEW p \in Pipelines, FreeObjects(p), pipe' \in [Pipelines -> Pipeline]
  PROVE  TypeOK'
<1>1. cmds' \in [Handle -> CmdState]
  BY DEF FreeObjects, TypeOK, CmdState
<1>2. /\ pools' \in [Handle -> Devices \cup {NoDevice}]
      /\ fences' \in [Handle -> Devices \cup {NoDevice}]
  BY DEF FreeObjects, TypeOK
<1>3. UNCHANGED <<signalled, queue, builds, host>>
  BY DEF FreeObjects
<1> QED
  BY <1>1, <1>2, <1>3 DEF TypeOK

LEMMA DestroyedType ==
  ASSUME TypeOK, NEW p \in Pipelines
  PROVE  Destroyed(p) \in Pipeline
<1>1. pipe[p] \in Pipeline
  BY DEF TypeOK
<1> QED
  BY <1>1 DEF Destroyed, Pipeline

LEMMA MovedFromType ==
  ASSUME TypeOK, NEW q \in Pipelines
  PROVE  MovedFrom(q) \in Pipeline /\ pipe[q] \in Pipeline
<1>1. pipe[q] \in Pipeline
  BY DEF TypeOK
<1> QED
  BY <1>1 DEF MovedFrom, Pipeline

LEMMA ReleaseType ==
  ASSUME TypeOK, NEW p \in Pipelines,
         Destroy(p) \/ Destruct(p) \/ \E q \in Pipelines : MoveAssign(p, q)
  PROVE  TypeOK'
<1>1. CASE Misuse
  BY <1>1, MisuseType
<1>2. CASE ~Misuse
  <2>1. FreeObjects(p)
    BY <1>2 DEF Destroy, Destruct, MoveAssign
  <2>2. pipe' \in [Pipelines -> Pipeline]
    <3>1. CASE Destroy(p)
      BY <1>2, <3>1, DestroyedType DEF Destroy, TypeOK
    <3>2. CASE Destruct(p)
      BY <1>2, <3>2, DefaultType DEF Destruct, TypeOK
    <3>3. ASSUME NEW q \in Pipelines, MoveAssign(p, q) PROVE pipe' \in [Pipelines -> Pipeline]
      BY <1>2, <3>3, MovedFromType DEF MoveAssign, Taken, TypeOK
    <3> QED
      BY <3>1, <3>2, <3>3
  <2> QED
    BY <2>1, <2>2, FreeType
<1> QED
  BY <1>1, <1>2

LEMMA TypeOKStep ==
  TypeOK /\ [Next]_vars => TypeOK'
<1> SUFFICES ASSUME TypeOK, [Next]_vars PROVE TypeOK'
  OBVIOUS
<1>1. ASSUME NEW p \in Pipelines,
             \/ \E d \in Devices \cup {NoDevice} : SetGpu(p, d)
             \/ \E sized \in BOOLEAN : SetShader(p, sized)
      PROVE  TypeOK'
  BY <1>1, SettersType
<1>2. ASSUME NEW p \in Pipelines, Build(p) PROVE TypeOK'
  BY <1>2, BuildType
<1>3. ASSUME NEW p \in Pipelines, Record(p) PROVE TypeOK'
  BY <1>3, RecordType
<1>4. ASSUME NEW p \in Pipelines, SubmitAsync(p) PROVE TypeOK'
  BY <1>4, SubmitType
<1>5. ASSUME NEW p \in Pipelines, Wait(p) \/ WaitReturns(p) \/ WaitIdle(p) \/ WaitIdleReturns(p)
      PROVE  TypeOK'
  BY <1>5, WaitType
<1>6. ASSUME NEW p \in Pipelines, Destroy(p) \/ Destruct(p) \/ \E q \in Pipelines : MoveAssign(p, q)
      PROVE  TypeOK'
  BY <1>6, ReleaseType
<1>7. ASSUME NEW d \in Devices, Execute(d) PROVE TypeOK'
  BY <1>7, ExecuteType
<1>8. CASE UNCHANGED vars
  BY <1>8 DEF TypeOK, vars
<1> QED
  BY <1>1, <1>2, <1>3, <1>4, <1>5, <1>6, <1>7, <1>8 DEF Next

\* Every reachable state is well typed; in particular what is submitted always
\* has a command buffer and a fence (pipeline.cpp:54-68).
THEOREM TypeCorrect == Spec => []TypeOK
<1> QED
  BY TypeOKInit, TypeOKStep, PTL DEF Spec

-----------------------------------------------------------------------------
(* Ownership. *)

\* No pipeline holds an object that has not been created yet.
CreatedBefore ==
  \A p \in Pipelines : pipe[p].cmd <= builds /\ pipe[p].pool <= builds /\ pipe[p].fence <= builds

\* Of two pipelines with the same command buffer only one can be recorded into
\* or has been.
Active(p) == pipe[p].ready \/ pipe[p].isRecorded
OneRecorder ==
  \A p, q \in Pipelines :
    p # q /\ pipe[p].cmd = pipe[q].cmd /\ pipe[p].cmd # Null => ~(Active(p) /\ Active(q))

Ownership == HandlesOwnedOnce /\ CreatedBefore /\ OneRecorder
IInv == TypeOK /\ Ownership

\* What the fields of two pipelines satisfy when the invariant holds.
LEMMA Own ==
  ASSUME TypeOK, HandlesOwnedOnce, NEW p \in Pipelines
  PROVE  /\ pipe[p].pool # Null => pools[pipe[p].pool] # NoDevice
         /\ pipe[p].fence # Null => fences[pipe[p].fence] # NoDevice
         /\ \A q \in Pipelines : q # p =>
              /\ pipe[p].pool # Null => pipe[q].pool # pipe[p].pool
              /\ pipe[p].fence # Null => pipe[q].fence # pipe[p].fence
BY DEF HandlesOwnedOnce

\* Steps that create and free nothing, hand on no handle and activate no
\* pipeline.
LEMMA FrameOwnership ==
  ASSUME IInv, TypeOK', UNCHANGED <<pools, fences, builds>>,
         \A p \in Pipelines :
           /\ pipe'[p].cmd = pipe[p].cmd
           /\ pipe'[p].pool = pipe[p].pool
           /\ pipe'[p].fence = pipe[p].fence
           /\ Active(p)' => Active(p)
  PROVE  IInv'
<1>1. HandlesOwnedOnce'
  BY DEF IInv, Ownership, HandlesOwnedOnce
<1>2. CreatedBefore'
  BY DEF IInv, Ownership, CreatedBefore
<1>3. OneRecorder'
  BY DEF IInv, Ownership, OneRecorder
<1> QED
  BY <1>1, <1>2, <1>3 DEF IInv, Ownership

\* The same, for a step that changes no field of that kind of any pipeline.
SameHandles(r, s) ==
  /\ r.cmd = s.cmd /\ r.pool = s.pool /\ r.fence = s.fence
  /\ r.ready = s.ready /\ r.isRecorded = s.isRecorded

LEMMA SameHandlesUpdate ==
  ASSUME NEW r \in Pipeline, NEW v
  PROVE  /\ SameHandles([r EXCEPT !.gpu = v], r)
         /\ SameHandles([r EXCEPT !.sized = v], r)
         /\ SameHandles([r EXCEPT !.submitted = v], r)
BY DEF Pipeline, SameHandles

LEMMA HandlesKept ==
  ASSUME IInv, TypeOK', UNCHANGED <<pools, fences, builds>>, NEW p \in Pipelines, NEW r,
         pipe' = [pipe EXCEPT ![p] = r], SameHandles(r, pipe[p])
  PROVE  IInv'
<1>1. \A x \in Pipelines : pipe'[x] = IF x = p THEN r ELSE pipe[x]
  BY DEF IInv, TypeOK
<1>2. ASSUME NEW x \in Pipelines
      PROVE  /\ pipe'[x].cmd = pipe[x].cmd
             /\ pipe'[x].pool = pipe[x].pool
             /\ pipe'[x].fence = pipe[x].fence
             /\ pipe'[x].ready = pipe[x].ready
             /\ pipe'[x].isRecorded = pipe[x].isRecorded
  BY <1>1, Zenon DEF SameHandles
<1>3. \A x \in Pipelines : Active(x)' => Active(x)
  BY <1>2, Zenon DEF Active
<1> QED
  BY <1>2, <1>3, FrameOwnership

LEMMA MisuseOwnership ==
  ASSUME IInv, Misuse
  PROVE  IInv'
<1>1. TypeOK'
  BY MisuseType DEF IInv
<1> QED
  BY <1>1, FrameOwnership DEF Misuse, objects, Active

LEMMA SettersOwnership ==
  ASSUME IInv, NEW p \in Pipelines,
         \/ \E d \in Devices \cup {NoDevice} : SetGpu(p, d)
         \/ \E sized \in BOOLEAN : SetShader(p, sized)
  PROVE  IInv'
<1>1. TypeOK' /\ pipe[p] \in Pipeline
  BY SettersType DEF IInv, TypeOK
<1>2. ASSUME NEW d \in Devices \cup {NoDevice}, SetGpu(p, d) PROVE IInv'
  <2>1. pipe' = [pipe EXCEPT ![p] = [pipe[p] EXCEPT !.gpu = d]]
    BY <1>2 DEF SetGpu
  <2> QED
    BY <1>1, <1>2, <2>1, SameHandlesUpdate, HandlesKept DEF SetGpu, objects
<1>3. ASSUME NEW b \in BOOLEAN, SetShader(p, b) PROVE IInv'
  <2>1. pipe' = [pipe EXCEPT ![p] = [pipe[p] EXCEPT !.sized = b]]
    BY <1>3 DEF SetShader
  <2> QED
    BY <1>1, <1>3, <2>1, SameHandlesUpdate, HandlesKept DEF SetShader, objects
<1> QED
  BY <1>2, <1>3

LEMMA RecordOwnership ==
  ASSUME IInv, NEW p \in Pipelines, Record(p)
  PROVE  IInv'
<1>1. CASE Misuse
  BY <1>1, MisuseOwnership
<1>2. CASE ~Misuse
  <2>1. TypeOK'
    BY RecordType DEF IInv
  <2>2. UNCHANGED <<pools, fences, builds>> /\ pipe[p].ready
    BY <1>2 DEF Record, CanRecord
  <2>3. UNCHANGED pipe \/ pipe' = [pipe EXCEPT ![p].isRecorded = TRUE]
    BY <1>2 DEF Record, RecordEnds, RecordThrows
  <2>4. ASSUME NEW x \in Pipelines
        PROVE  /\ pipe'[x].cmd = pipe[x].cmd
               /\ pipe'[x].pool = pipe[x].pool
               /\ pipe'[x].fence = pipe[x].fence
               /\ Active(x)' => Active(x)
    BY <2>2, <2>3 DEF IInv, TypeOK, Pipeline, Active
  <2> QED
    BY <2>1, <2>2, <2>4, FrameOwnership
<1> QED
  BY <1>1, <1>2

LEMMA SubmitOwnership ==
  ASSUME IInv, NEW p \in Pipelines, SubmitAsync(p)
  PROVE  IInv'
<1>1. CASE Misuse
  BY <1>1, MisuseOwnership
<1>2. CASE ~Misuse
  <2>1. TypeOK' /\ pipe[p] \in Pipeline
    BY SubmitType DEF IInv, TypeOK
  <2>2. UNCHANGED <<pools, fences, builds>>
    BY <1>2 DEF SubmitAsync
  <2>3. \/ pipe' = [pipe EXCEPT ![p] = [pipe[p] EXCEPT !.submitted = TRUE]]
        \/ pipe' = [pipe EXCEPT ![p] = [pipe[p] EXCEPT !.submitted = FALSE]]
    BY <1>2 DEF SubmitAsync, SubmitSucceeds, SubmitFails
  <2> QED
    BY <2>1, <2>2, <2>3, SameHandlesUpdate, HandlesKept
<1> QED
  BY <1>1, <1>2

\* Waiting and execution leave the pipelines alone.
LEMMA WaitOwnership ==
  ASSUME IInv, TypeOK', UNCHANGED <<pipe, pools, fences, builds>>
  PROVE  IInv'
BY FrameOwnership DEF Active

\* A new pool and a new fence are held by no other pipeline, and nobody else
\* has the new command buffer.
LEMMA BuildOwnership ==
  ASSUME IInv, NEW p \in Pipelines, Build(p)
  PROVE  IInv'
<1> USE DEF IInv
<1>1. TypeOK'
  BY BuildType
<1>2. CASE Misuse
  BY <1>2, MisuseOwnership
<1>3. CASE BuildFailsEarly(p)
  <2>1. PICK b \in BOOLEAN : pipe' = [pipe EXCEPT ![p].ready = @ /\ ~b]
    BY <1>3 DEF BuildFailsEarly
  <2>2. ASSUME NEW x \in Pipelines
        PROVE  /\ pipe'[x].cmd = pipe[x].cmd
               /\ pipe'[x].pool = pipe[x].pool
               /\ pipe'[x].fence = pipe[x].fence
               /\ Active(x)' => Active(x)
    BY <2>1 DEF TypeOK, Pipeline, Active
  <2> QED
    BY <1>1, <1>3, <2>2, FrameOwnership DEF BuildFailsEarly
<1>4. CASE BuildGetsPool(p) /\ pipe[p].gpu # NoDevice
  <2> DEFINE h == builds + 1
             d == pipe[p].gpu
  <2>1. /\ h \in Handle /\ builds \in Nat
        /\ builds' = h
        /\ pools' = [pools EXCEPT ![h] = d]
    BY <1>4 DEF BuildGetsPool, TypeOK
  <2>2. PICK cmdOK, fenceOK, bgOK \in BOOLEAN :
          /\ cmds' = IF cmdOK THEN [Invalidated(p) EXCEPT ![h] = "initial"] ELSE Invalidated(p)
          /\ fences' = IF fenceOK THEN [fences EXCEPT ![h] = d] ELSE fences
          /\ pipe' = [pipe EXCEPT
               ![p].ready = bgOK,
               ![p].cmd   = IF cmdOK THEN h ELSE Null,
               ![p].pool  = h,
               ![p].fence = IF fenceOK THEN h ELSE @,
               ![p].submitted = @ /\ ~fenceOK]
    BY <1>4 DEF BuildGetsPool
  <2>3. /\ pipe'[p].cmd \in {h, Null} /\ pipe'[p].pool = h
        /\ pipe'[p].fence = IF fenceOK THEN h ELSE pipe[p].fence
        /\ \A x \in Pipelines : x # p => pipe'[x] = pipe[x]
    BY <2>2 DEF TypeOK, Pipeline
  <2>4. \A x \in Pipelines :
          /\ pipe[x].cmd \in Handle \cup {Null} /\ pipe[x].pool \in Handle \cup {Null}
          /\ pipe[x].fence \in Handle \cup {Null}
          /\ pipe[x].cmd <= builds /\ pipe[x].pool <= builds /\ pipe[x].fence <= builds
    BY Fields DEF TypeOK, Ownership, CreatedBefore
  <2>5. \A x \in Pipelines : pipe[x].cmd # h /\ pipe[x].pool # h /\ pipe[x].fence # h
    BY <2>1, <2>4, HandleIsPositive DEF Null
  <2>6. h # Null /\ d # NoDevice
    BY <1>4, <2>1, HandleIsPositive
  <2>7. /\ \A g \in Handle : pools'[g] = IF g = h THEN d ELSE pools[g]
        /\ \A g \in Handle : fences'[g] = IF fenceOK /\ g = h THEN d ELSE fences[g]
    BY <2>1, <2>2 DEF TypeOK
  <2> HIDE DEF h, d
  <2>8. HandlesOwnedOnce'
    <3> SUFFICES ASSUME NEW x \in Pipelines
                 PROVE  /\ pipe'[x].pool # Null => pools'[pipe'[x].pool] # NoDevice
                        /\ pipe'[x].fence # Null => fences'[pipe'[x].fence] # NoDevice
                        /\ \A y \in Pipelines \ {x} :
                             /\ pipe'[x].pool # Null => pipe'[y].pool # pipe'[x].pool
                             /\ pipe'[x].fence # Null => pipe'[y].fence # pipe'[x].fence
      BY DEF HandlesOwnedOnce
    <3>1. pipe'[x].pool # Null => pools'[pipe'[x].pool] # NoDevice
      BY <2>1, <2>3, <2>4, <2>6, <2>7 DEF Ownership, HandlesOwnedOnce
    <3>2. pipe'[x].fence # Null => fences'[pipe'[x].fence] # NoDevice
      BY <2>1, <2>3, <2>4, <2>6, <2>7 DEF Ownership, HandlesOwnedOnce
    <3>3. \A y \in Pipelines \ {x} : pipe'[x].pool # Null => pipe'[y].pool # pipe'[x].pool
      BY <2>3, <2>5 DEF Ownership, HandlesOwnedOnce
    <3>4. \A y \in Pipelines \ {x} : pipe'[x].fence # Null => pipe'[y].fence # pipe'[x].fence
      BY <2>3, <2>5 DEF Ownership, HandlesOwnedOnce
    <3> QED
      BY <3>1, <3>2, <3>3, <3>4
  <2>9. CreatedBefore'
    <3>1. h = builds + 1
      BY DEF h
    <3>2. \A x \in Pipelines :
            pipe'[x].cmd \in {pipe[x].cmd, h, Null} /\ pipe'[x].pool \in {pipe[x].pool, h}
            /\ pipe'[x].fence \in {pipe[x].fence, h}
      BY <2>3
    <3>3. \A g \in Handle \cup {Null} : g <= builds => g <= h
      BY <2>1, <3>1, HandleIsPositive DEF Null
    <3>4. h <= h /\ Null <= h
      BY <2>1, HandleIsPositive DEF Null
    <3> QED
      BY <2>1, <2>4, <3>2, <3>3, <3>4 DEF CreatedBefore
  <2>10. OneRecorder'
    <3> SUFFICES ASSUME NEW x \in Pipelines, NEW y \in Pipelines, x # y,
                        pipe'[x].cmd = pipe'[y].cmd, pipe'[x].cmd # Null
                 PROVE  ~(Active(x)' /\ Active(y)')
      BY DEF OneRecorder
    <3>1. x # p /\ y # p
      BY <2>3, <2>5
    <3>2. pipe'[x] = pipe[x] /\ pipe'[y] = pipe[y]
      BY <2>3, <3>1
    <3> QED
      BY <3>2 DEF Ownership, OneRecorder, Active
  <2> QED
    BY <1>1, <2>8, <2>9, <2>10 DEF Ownership
<1> QED
  BY <1>2, <1>3, <1>4 DEF Build

\* destroy() frees what p holds; nothing another pipeline holds is touched.
LEMMA FreeKeepsOthers ==
  ASSUME IInv, NEW p \in Pipelines, FreeObjects(p), NEW x \in Pipelines, x # p
  PROVE  /\ pipe[x].pool # Null => pools'[pipe[x].pool] # NoDevice
         /\ pipe[x].fence # Null => fences'[pipe[x].fence] # NoDevice
<1>1. pipe[x] \in Pipeline /\ pipe[p] \in Pipeline
  BY DEF IInv, TypeOK
<1>2. /\ pipe[x].pool \in Handle \cup {Null}
      /\ pipe[x].fence \in Handle \cup {Null}
  BY <1>1, Fields
<1>3. /\ FreedPool(p) \in {pipe[p].pool, Null}
      /\ FreedFence(p) \in {pipe[p].fence, Null}
  BY DEF FreedPool, FreedFence
<1>4. /\ pipe[x].pool # Null => pipe[p].pool # pipe[x].pool /\ pools[pipe[x].pool] # NoDevice
      /\ pipe[x].fence # Null => pipe[p].fence # pipe[x].fence /\ fences[pipe[x].fence] # NoDevice
  BY DEF IInv, Ownership, HandlesOwnedOnce
<1>5. /\ \A h \in Handle : h # FreedPool(p) => pools'[h] = pools[h]
      /\ \A h \in Handle : h # FreedFence(p) => fences'[h] = fences[h]
  BY DEF FreeObjects
<1> QED
  BY <1>2, <1>3, <1>4, <1>5

LEMMA Apart ==
  ASSUME IInv, NEW x \in Pipelines, NEW y \in Pipelines, x # y
  PROVE  /\ pipe[x].pool # Null => pipe[y].pool # pipe[x].pool
         /\ pipe[x].fence # Null => pipe[y].fence # pipe[x].fence
<1>1. y \in Pipelines \ {x}
  OBVIOUS
<1> QED
  BY <1>1 DEF IInv, Ownership, HandlesOwnedOnce

\* destroy() leaves its pipeline with the handles it did not free, or with none.
LEMMA DestroyOwnership ==
  ASSUME IInv, NEW p \in Pipelines, Destroy(p)
  PROVE  IInv'
<1>1. CASE Misuse
  BY <1>1, MisuseOwnership
<1>2. CASE ~Misuse
  <2>1. TypeOK' /\ TypeOK
    BY ReleaseType DEF IInv
  <2>2. FreeObjects(p) /\ pipe' = [pipe EXCEPT ![p] = Destroyed(p)] /\ builds' = builds
    BY <1>2 DEF Destroy, FreeObjects
  <2>3. CASE pipe[p].gpu = NoDevice
    <3>1. pipe' = pipe
      BY <2>1, <2>2, <2>3 DEF Destroyed, TypeOK
    <3>2. FreedPool(p) = Null /\ FreedFence(p) = Null
      BY <2>3 DEF FreedPool, FreedFence
    <3>3. pools' = pools /\ fences' = fences
      BY <2>1, <2>2, <3>2, HandleIsPositive DEF FreeObjects, TypeOK
    <3> QED
      BY <2>1, <2>2, <3>1, <3>3, WaitOwnership
  <2>4. CASE pipe[p].gpu # NoDevice
    <3> DEFINE r == Destroyed(p)
    <3>1. /\ r.pool = Null /\ r.fence = Null /\ r.cmd = pipe[p].cmd
          /\ r.ready = pipe[p].ready /\ r.isRecorded = pipe[p].isRecorded
      BY <2>1, <2>4 DEF Destroyed, TypeOK, Pipeline
    <3>2. \A x \in Pipelines : pipe'[x] = IF x = p THEN r ELSE pipe[x]
      BY <2>1, <2>2 DEF TypeOK
    <3> HIDE DEF r
    <3>3. HandlesOwnedOnce'
      <4>1. ASSUME NEW x \in Pipelines
            PROVE  /\ pipe'[x].pool # Null => pools'[pipe'[x].pool] # NoDevice
                   /\ pipe'[x].fence # Null => fences'[pipe'[x].fence] # NoDevice
        BY <2>2, <3>1, <3>2, FreeKeepsOthers
      <4>2. ASSUME NEW x \in Pipelines, NEW y \in Pipelines, x # y
            PROVE  /\ pipe'[x].pool # Null => pipe'[y].pool # pipe'[x].pool
                   /\ pipe'[x].fence # Null => pipe'[y].fence # pipe'[x].fence
        BY <3>1, <3>2, <4>2, Apart
      <4> QED
        BY <4>1, <4>2 DEF HandlesOwnedOnce
    <3>4. CreatedBefore'
      <4>1. 0 <= builds
        BY <2>1, PipelineAssumption DEF TypeOK
      <4> QED
        BY <2>2, <3>1, <3>2, <4>1 DEF IInv, Ownership, CreatedBefore, Null
    <3>5. OneRecorder'
      <4>1. \A x \in Pipelines : /\ pipe'[x].cmd = pipe[x].cmd
                                 /\ pipe'[x].ready = pipe[x].ready
                                 /\ pipe'[x].isRecorded = pipe[x].isRecorded
        BY <3>1, <3>2
      <4>2. \A x \in Pipelines : Active(x)' = Active(x)
        BY <4>1, Zenon DEF Active
      <4> QED
        BY <4>1, <4>2 DEF IInv, Ownership, OneRecorder
    <3> QED
      BY <2>1, <3>3, <3>4, <3>5 DEF IInv, Ownership
  <2> QED
    BY <2>3, <2>4
<1> QED
  BY <1>1, <1>2

\* A pipeline that ends holds nothing any more.
LEMMA DestructOwnership ==
  ASSUME IInv, NEW p \in Pipelines, Destruct(p)
  PROVE  IInv'
<1>1. CASE Misuse
  BY <1>1, MisuseOwnership
<1>2. CASE ~Misuse
  <2>1. TypeOK' /\ TypeOK
    BY ReleaseType DEF IInv
  <2>2. FreeObjects(p) /\ pipe' = [pipe EXCEPT ![p] = Default] /\ builds' = builds
    BY <1>2 DEF Destruct, FreeObjects
  <2>3. \A x \in Pipelines : pipe'[x] = IF x = p THEN Default ELSE pipe[x]
    BY <2>1, <2>2 DEF TypeOK
  <2>4. Default.pool = Null /\ Default.fence = Null /\ Default.cmd = Null
    BY DEF Default
  <2>5. HandlesOwnedOnce'
    <3>1. ASSUME NEW x \in Pipelines
          PROVE  /\ pipe'[x].pool # Null => pools'[pipe'[x].pool] # NoDevice
                 /\ pipe'[x].fence # Null => fences'[pipe'[x].fence] # NoDevice
      BY <2>2, <2>3, <2>4, FreeKeepsOthers
    <3>2. ASSUME NEW x \in Pipelines, NEW y \in Pipelines, x # y
          PROVE  /\ pipe'[x].pool # Null => pipe'[y].pool # pipe'[x].pool
                 /\ pipe'[x].fence # Null => pipe'[y].fence # pipe'[x].fence
      BY <2>3, <2>4, <3>2, Apart
    <3> QED
      BY <3>1, <3>2 DEF HandlesOwnedOnce
  <2>6. CreatedBefore'
    <3>1. 0 <= builds
      BY <2>1, PipelineAssumption DEF TypeOK
    <3> QED
      BY <2>2, <2>3, <2>4, <3>1 DEF IInv, Ownership, CreatedBefore, Null
  <2>7. OneRecorder'
    <3> SUFFICES ASSUME NEW x \in Pipelines, NEW y \in Pipelines, x # y,
                        pipe'[x].cmd = pipe'[y].cmd, pipe'[x].cmd # Null
                 PROVE  ~(Active(x)' /\ Active(y)')
      BY DEF OneRecorder
    <3>1. pipe'[x] = pipe[x] /\ pipe'[y] = pipe[y]
      BY <2>3, <2>4
    <3> QED
      BY <3>1 DEF IInv, Ownership, OneRecorder, Active
  <2> QED
    BY <2>1, <2>5, <2>6, <2>7 DEF IInv, Ownership
<1> QED
  BY <1>1, <1>2

\* The handles go from q to p, and q can neither be recorded into nor submitted.
LEMMA MoveOwnership ==
  ASSUME IInv, NEW p \in Pipelines, NEW q \in Pipelines, MoveAssign(p, q)
  PROVE  IInv'
<1>1. CASE Misuse
  BY <1>1, MisuseOwnership
<1>2. CASE ~Misuse
  <2> DEFINE r == MovedFrom(q)
  <2>1. TypeOK' /\ TypeOK
    BY ReleaseType DEF IInv
  <2>2. /\ FreeObjects(p) /\ p # q /\ builds' = builds
        /\ pipe' = [pipe EXCEPT ![p] = pipe[q], ![q] = r]
    BY <1>2 DEF MoveAssign, FreeObjects, Taken
  <2>3. \A x \in Pipelines : pipe'[x] = IF x = q THEN r ELSE IF x = p THEN pipe[q] ELSE pipe[x]
    <3> HIDE DEF r
    <3> QED
      BY <2>1, <2>2 DEF TypeOK
  <2>4. /\ r.pool = Null /\ r.fence = Null /\ r.cmd = pipe[q].cmd
        /\ r.ready = FALSE /\ r.isRecorded = FALSE
    BY <2>1 DEF MovedFrom, TypeOK, Pipeline
  <2> HIDE DEF r
  <2>5. HandlesOwnedOnce'
    <3>1. ASSUME NEW x \in Pipelines
          PROVE  /\ pipe'[x].pool # Null => pools'[pipe'[x].pool] # NoDevice
                 /\ pipe'[x].fence # Null => fences'[pipe'[x].fence] # NoDevice
      BY <2>2, <2>3, <2>4, FreeKeepsOthers
    <3>2. ASSUME NEW x \in Pipelines, NEW y \in Pipelines, x # y
          PROVE  /\ pipe'[x].pool # Null => pipe'[y].pool # pipe'[x].pool
                 /\ pipe'[x].fence # Null => pipe'[y].fence # pipe'[x].fence
      <4> DEFINE From(z) == IF z = p THEN q ELSE z
      <4>1. CASE x = q \/ y = q
        BY <2>3, <2>4, <4>1, <3>2
      <4>2. CASE x # q /\ y # q
        <5>1. pipe'[x] = pipe[From(x)] /\ pipe'[y] = pipe[From(y)]
          BY <2>3, <4>2
        <5>2. From(x) # From(y) /\ From(x) \in Pipelines /\ From(y) \in Pipelines
          BY <3>2, <4>2
        <5> HIDE DEF From
        <5> QED
          BY <5>1, <5>2, Apart
      <4> QED
        BY <4>1, <4>2
    <3> QED
      BY <3>1, <3>2 DEF HandlesOwnedOnce
  <2>6. CreatedBefore'
    <3>1. 0 <= builds
      BY <2>1, PipelineAssumption DEF TypeOK
    <3> QED
      BY <2>2, <2>3, <2>4, <3>1 DEF IInv, Ownership, CreatedBefore, Null
  <2>7. OneRecorder'
    <3> SUFFICES ASSUME NEW x \in Pipelines, NEW y \in Pipelines, x # y,
                        pipe'[x].cmd = pipe'[y].cmd, pipe'[x].cmd # Null,
                        Active(x)', Active(y)'
                 PROVE  FALSE
      BY DEF OneRecorder
    <3> DEFINE From(z) == IF z = p THEN q ELSE z
    <3>1. x # q /\ y # q
      BY <2>3, <2>4 DEF Active
    <3>2. pipe'[x] = pipe[From(x)] /\ pipe'[y] = pipe[From(y)]
      BY <2>3, <3>1
    <3>3. From(x) # From(y) /\ From(x) \in Pipelines /\ From(y) \in Pipelines
      BY <3>1
    <3>4. Active(From(x)) /\ Active(From(y))
      BY <3>2, Zenon DEF Active
    <3> HIDE DEF From
    <3> QED
      BY <3>2, <3>3, <3>4 DEF IInv, Ownership, OneRecorder
  <2> QED
    BY <2>1, <2>5, <2>6, <2>7 DEF IInv, Ownership
<1> QED
  BY <1>1, <1>2

LEMMA InitInvariant ==
  Init => IInv
<1> SUFFICES ASSUME Init PROVE IInv
  OBVIOUS
<1>1. TypeOK
  BY TypeOKInit
<1>2. /\ builds = 0
      /\ \A p \in Pipelines : pipe[p].cmd = Null /\ pipe[p].pool = Null /\ pipe[p].fence = Null
  BY DEF Init, Default
<1> QED
  BY <1>1, <1>2 DEF IInv, Ownership, HandlesOwnedOnce, CreatedBefore, OneRecorder, Null

LEMMA Inductive ==
  IInv /\ [Next]_vars => IInv'
<1> SUFFICES ASSUME IInv, [Next]_vars PROVE IInv'
  OBVIOUS
<1>1. TypeOK'
  BY TypeOKStep DEF IInv
<1>2. ASSUME NEW p \in Pipelines,
             \/ \E d \in Devices \cup {NoDevice} : SetGpu(p, d)
             \/ \E sized \in BOOLEAN : SetShader(p, sized)
      PROVE  IInv'
  BY <1>2, SettersOwnership
<1>3. ASSUME NEW p \in Pipelines, Build(p) PROVE IInv'
  BY <1>3, BuildOwnership
<1>4. ASSUME NEW p \in Pipelines, Record(p) PROVE IInv'
  BY <1>4, RecordOwnership
<1>5. ASSUME NEW p \in Pipelines, SubmitAsync(p) PROVE IInv'
  BY <1>5, SubmitOwnership
<1>6. ASSUME NEW p \in Pipelines, Wait(p) \/ WaitReturns(p) \/ WaitIdle(p) \/ WaitIdleReturns(p)
      PROVE  IInv'
  <2>1. UNCHANGED <<pipe, pools, fences, builds>>
    BY <1>6 DEF Wait, WaitReturns, WaitIdle, WaitIdleReturns, Misuse, objects
  <2> QED
    BY <1>1, <2>1, WaitOwnership
<1>7. ASSUME NEW p \in Pipelines, Destroy(p) PROVE IInv'
  BY <1>7, DestroyOwnership
<1>8. ASSUME NEW p \in Pipelines, Destruct(p) PROVE IInv'
  BY <1>8, DestructOwnership
<1>9. ASSUME NEW p \in Pipelines, NEW q \in Pipelines, MoveAssign(p, q) PROVE IInv'
  BY <1>9, MoveOwnership
<1>10. ASSUME NEW d \in Devices, Execute(d) PROVE IInv'
  <2>1. UNCHANGED <<pipe, pools, fences, builds>>
    BY <1>10 DEF Execute
  <2> QED
    BY <1>1, <2>1, WaitOwnership
<1>11. CASE UNCHANGED vars
  BY <1>1, <1>11, WaitOwnership DEF vars
<1> QED
  BY <1>2, <1>3, <1>4, <1>5, <1>6, <1>7, <1>8, <1>9, <1>10, <1>11 DEF Next

-----------------------------------------------------------------------------
\* The inductive invariant of ownership holds in every reachable state.
THEOREM Invariant == Spec => []IInv
<1> QED
  BY InitInvariant, Inductive, PTL DEF Spec

\* For any number of pipelines, devices and builds: what a pipeline holds is
\* alive and is held by it alone (pipeline.cpp:101-137).
THEOREM OwnedOnce == Spec => []HandlesOwnedOnce
<1>1. IInv => HandlesOwnedOnce
  BY DEF IInv, Ownership
<1> QED
  BY <1>1, Invariant, PTL

\* Two pipelines that a move left with the same command buffer never both pass
\* the guard of submit_async (pipeline.cpp:54-68, 101-123).
THEOREM SubmittedByOne == Spec => []SharedBufferSubmittedByOne
<1>1. IInv => SharedBufferSubmittedByOne
  BY DEF IInv, Ownership, OneRecorder, Active, SharedBufferSubmittedByOne
<1> QED
  BY <1>1, Invariant, PTL

-----------------------------------------------------------------------------
(* Only set_gpu puts a pipeline and what it holds on different devices. *)


\* Steps that leave pools, fences and the fields in question alone.
LEMMA SameDevices ==
  ASSUME AllOnOwnDevice, UNCHANGED <<pools, fences>>,
         \A x \in Pipelines : /\ pipe'[x].gpu = pipe[x].gpu
                              /\ pipe'[x].pool = pipe[x].pool
                              /\ pipe'[x].fence = pipe[x].fence
  PROVE  AllOnOwnDevice'
BY DEF AllOnOwnDevice, OnOwnDevice

LEMMA FlagStep ==
  ASSUME IInv, AllOnOwnDevice, UNCHANGED <<pools, fences>>, NEW p \in Pipelines, NEW r,
         pipe' = [pipe EXCEPT ![p] = r],
         r.gpu = pipe[p].gpu, r.pool = pipe[p].pool, r.fence = pipe[p].fence
  PROVE  AllOnOwnDevice'
<1>1. \A x \in Pipelines : pipe'[x] = IF x = p THEN r ELSE pipe[x]
  BY DEF IInv, TypeOK
<1> QED
  BY <1>1, SameDevices

LEMMA FlagFields ==
  ASSUME NEW r \in Pipeline, NEW v, NEW w
  PROVE  /\ [r EXCEPT !.sized = v].gpu = r.gpu
         /\ [r EXCEPT !.sized = v].pool = r.pool
         /\ [r EXCEPT !.sized = v].fence = r.fence
         /\ [r EXCEPT !.ready = v].gpu = r.gpu
         /\ [r EXCEPT !.ready = v].pool = r.pool
         /\ [r EXCEPT !.ready = v].fence = r.fence
         /\ [r EXCEPT !.isRecorded = v].gpu = r.gpu
         /\ [r EXCEPT !.isRecorded = v].pool = r.pool
         /\ [r EXCEPT !.isRecorded = v].fence = r.fence
         /\ [r EXCEPT !.submitted = v].gpu = r.gpu
         /\ [r EXCEPT !.submitted = v].pool = r.pool
         /\ [r EXCEPT !.submitted = v].fence = r.fence
BY DEF Pipeline

LEMMA MisuseDevices ==
  ASSUME AllOnOwnDevice, Misuse
  PROVE  AllOnOwnDevice'
BY SameDevices DEF Misuse, objects

\* set_shader, record and submit_async.
LEMMA FlagDevices ==
  ASSUME IInv, AllOnOwnDevice, NEW p \in Pipelines,
         \/ \E sized \in BOOLEAN : SetShader(p, sized)
         \/ Record(p)
         \/ SubmitAsync(p)
  PROVE  AllOnOwnDevice'
<1>1. pipe[p] \in Pipeline
  BY DEF IInv, TypeOK
<1>2. ASSUME NEW b \in BOOLEAN, SetShader(p, b) PROVE AllOnOwnDevice'
  <2>1. pipe' = [pipe EXCEPT ![p] = [pipe[p] EXCEPT !.sized = b]] /\ UNCHANGED <<pools, fences>>
    BY <1>2 DEF SetShader, objects
  <2> QED
    BY <1>1, <2>1, FlagFields, FlagStep
<1>3. CASE Record(p) /\ ~Misuse
  <2>1. UNCHANGED <<pools, fences>> /\ (RecordEnds(p) \/ RecordThrows(p))
    BY <1>3 DEF Record
  <2>2. CASE RecordEnds(p)
    <3>1. pipe' = [pipe EXCEPT ![p] = [pipe[p] EXCEPT !.isRecorded = TRUE]]
      BY <2>2 DEF RecordEnds
    <3> QED
      BY <1>1, <2>1, <3>1, FlagFields, FlagStep
  <2>3. CASE RecordThrows(p)
    BY <2>1, <2>3, SameDevices DEF RecordThrows
  <2> QED
    BY <2>1, <2>2, <2>3
<1>4. CASE SubmitAsync(p) /\ ~Misuse
  <2>1. UNCHANGED <<pools, fences>> /\ (SubmitSucceeds(p) \/ SubmitFails(p))
    BY <1>4 DEF SubmitAsync
  <2>2. \E b \in BOOLEAN : pipe' = [pipe EXCEPT ![p] = [pipe[p] EXCEPT !.submitted = b]]
    BY <2>1 DEF SubmitSucceeds, SubmitFails
  <2> QED
    BY <1>1, <2>1, <2>2, FlagFields, FlagStep
<1> QED
  BY <1>2, <1>3, <1>4, MisuseDevices

\* A build takes its new objects from the device it points to; no other pipeline
\* holds an object of that number.
LEMMA BuildDevices ==
  ASSUME IInv, AllOnOwnDevice, NEW p \in Pipelines, Build(p)
  PROVE  AllOnOwnDevice'
<1>1. pipe[p] \in Pipeline /\ TypeOK
  BY DEF IInv, TypeOK
<1>2. CASE Misuse
  BY <1>2, MisuseDevices
<1>3. CASE BuildFailsEarly(p)
  <2>1. PICK b \in BOOLEAN : pipe' = [pipe EXCEPT ![p].ready = @ /\ ~b]
    BY <1>3 DEF BuildFailsEarly
  <2> DEFINE v == pipe[p].ready /\ ~b
             r == [pipe[p] EXCEPT !.ready = v]
  <2>2. UNCHANGED <<pools, fences>>
    BY <1>3 DEF BuildFailsEarly
  <2>3. pipe' = [pipe EXCEPT ![p] = r]
    BY <2>1
  <2>4. r.gpu = pipe[p].gpu /\ r.pool = pipe[p].pool /\ r.fence = pipe[p].fence
    <3> HIDE DEF v
    <3> QED
      BY <1>1, FlagFields
  <2> HIDE DEF r
  <2> QED
    BY <2>2, <2>3, <2>4, FlagStep
<1>4. CASE BuildGetsPool(p)
  <2> DEFINE h == builds + 1
             d == pipe[p].gpu
  <2>1. h \in Handle /\ pools' = [pools EXCEPT ![h] = d]
    BY <1>4 DEF BuildGetsPool
  <2>2. PICK cmdOK, fenceOK, bgOK \in BOOLEAN :
          /\ cmds' = IF cmdOK THEN [Invalidated(p) EXCEPT ![h] = "initial"] ELSE Invalidated(p)
          /\ fences' = IF fenceOK THEN [fences EXCEPT ![h] = d] ELSE fences
          /\ pipe' = [pipe EXCEPT
               ![p].ready = bgOK,
               ![p].cmd   = IF cmdOK THEN h ELSE Null,
               ![p].pool  = h,
               ![p].fence = IF fenceOK THEN h ELSE @,
               ![p].submitted = @ /\ ~fenceOK]
    BY <1>4 DEF BuildGetsPool
  <2>3. /\ pipe'[p].gpu = d /\ pipe'[p].pool = h
        /\ pipe'[p].fence = IF fenceOK THEN h ELSE pipe[p].fence
        /\ \A x \in Pipelines : x # p => pipe'[x] = pipe[x]
    BY <1>1, <2>2 DEF TypeOK, Pipeline
  <2>4. \A x \in Pipelines : /\ pipe[x].pool \in Handle \cup {Null} /\ pipe[x].pool # h
                             /\ pipe[x].fence \in Handle \cup {Null} /\ pipe[x].fence # h
    <3>1. ASSUME NEW x \in Pipelines
          PROVE  /\ pipe[x].pool \in Handle \cup {Null} /\ pipe[x].pool <= builds
                 /\ pipe[x].fence \in Handle \cup {Null} /\ pipe[x].fence <= builds
      BY <1>1, Fields DEF TypeOK, IInv, Ownership, CreatedBefore
    <3>2. builds \in Nat
      BY <1>1, PipelineAssumption DEF TypeOK
    <3>3. \A g \in Handle \cup {Null} : g <= builds => g # h
      BY <3>2, HandleIsPositive DEF Null
    <3> QED
      BY <3>1, <3>3
  <2>5. /\ \A g \in Handle : pools'[g] = IF g = h THEN d ELSE pools[g]
        /\ \A g \in Handle : fences'[g] = IF fenceOK /\ g = h THEN d ELSE fences[g]
    BY <1>1, <2>1, <2>2 DEF TypeOK
  <2> HIDE DEF h
  <2>6. ASSUME NEW x \in Pipelines PROVE OnOwnDevice(x)'
    <3>1. CASE x = p
      BY <2>1, <2>3, <2>4, <2>5, <3>1 DEF AllOnOwnDevice, OnOwnDevice
    <3>2. CASE x # p
      BY <2>3, <2>4, <2>5, <3>2 DEF AllOnOwnDevice, OnOwnDevice
    <3> QED
      BY <3>1, <3>2
  <2> QED
    BY <2>6 DEF AllOnOwnDevice
<1> QED
  BY <1>2, <1>3, <1>4 DEF Build

\* What another pipeline holds stays on its device when p frees its objects.
LEMMA FreedApart ==
  ASSUME IInv, NEW p \in Pipelines, FreeObjects(p), NEW x \in Pipelines, x # p
  PROVE  /\ pipe[x].pool # Null => pools'[pipe[x].pool] = pools[pipe[x].pool]
         /\ pipe[x].fence # Null => fences'[pipe[x].fence] = fences[pipe[x].fence]
<1>1. pipe[x].pool \in Handle \cup {Null} /\ pipe[x].fence \in Handle \cup {Null}
  BY Fields DEF IInv, TypeOK
<1>2. FreedPool(p) \in {pipe[p].pool, Null} /\ FreedFence(p) \in {pipe[p].fence, Null}
  BY DEF FreedPool, FreedFence
<1>3. /\ pipe[x].pool # Null => pipe[p].pool # pipe[x].pool
      /\ pipe[x].fence # Null => pipe[p].fence # pipe[x].fence
  BY Apart
<1>4. /\ \A h \in Handle : h # FreedPool(p) => pools'[h] = pools[h]
      /\ \A h \in Handle : h # FreedFence(p) => fences'[h] = fences[h]
  BY DEF FreeObjects
<1> QED
  BY <1>1, <1>2, <1>3, <1>4

LEMMA DestroyDevices ==
  ASSUME IInv, AllOnOwnDevice, NEW p \in Pipelines, Destroy(p)
  PROVE  AllOnOwnDevice'
<1>1. CASE Misuse
  BY <1>1, MisuseDevices
<1>2. CASE ~Misuse
  <2>1. FreeObjects(p) /\ pipe' = [pipe EXCEPT ![p] = Destroyed(p)] /\ TypeOK
    BY <1>2 DEF Destroy, IInv
  <2>2. CASE pipe[p].gpu = NoDevice
    <3>1. pipe' = pipe /\ FreedPool(p) = Null /\ FreedFence(p) = Null
      BY <2>1, <2>2 DEF Destroyed, TypeOK, FreedPool, FreedFence
    <3>2. pools' = pools /\ fences' = fences
      BY <2>1, <3>1, HandleIsPositive DEF FreeObjects, TypeOK
    <3> QED
      BY <3>1, <3>2, SameDevices
  <2>3. CASE pipe[p].gpu # NoDevice
    <3>1. Destroyed(p).pool = Null /\ Destroyed(p).fence = Null
      BY <2>1, <2>3 DEF Destroyed, TypeOK, Pipeline
    <3>2. \A x \in Pipelines : pipe'[x] = IF x = p THEN Destroyed(p) ELSE pipe[x]
      BY <2>1 DEF TypeOK
    <3>3. ASSUME NEW x \in Pipelines PROVE OnOwnDevice(x)'
      <4>1. CASE x = p
        BY <3>1, <3>2, <4>1 DEF OnOwnDevice
      <4>2. CASE x # p
        BY <2>1, <3>2, <4>2, FreedApart DEF AllOnOwnDevice, OnOwnDevice
      <4> QED
        BY <4>1, <4>2
    <3> QED
      BY <3>3 DEF AllOnOwnDevice
  <2> QED
    BY <2>2, <2>3
<1> QED
  BY <1>1, <1>2

LEMMA DestructDevices ==
  ASSUME IInv, AllOnOwnDevice, NEW p \in Pipelines, Destruct(p)
  PROVE  AllOnOwnDevice'
<1>1. CASE Misuse
  BY <1>1, MisuseDevices
<1>2. CASE ~Misuse
  <2>1. FreeObjects(p) /\ pipe' = [pipe EXCEPT ![p] = Default] /\ TypeOK
    BY <1>2 DEF Destruct, IInv
  <2>2. \A x \in Pipelines : pipe'[x] = IF x = p THEN Default ELSE pipe[x]
    BY <2>1 DEF TypeOK
  <2>3. ASSUME NEW x \in Pipelines PROVE OnOwnDevice(x)'
    <3>1. CASE x = p
      BY <2>2, <3>1 DEF OnOwnDevice, Default
    <3>2. CASE x # p
      BY <2>1, <2>2, <3>2, FreedApart DEF AllOnOwnDevice, OnOwnDevice
    <3> QED
      BY <3>1, <3>2
  <2> QED
    BY <2>3 DEF AllOnOwnDevice
<1> QED
  BY <1>1, <1>2

\* A move carries the device pointer along with the objects.
LEMMA MoveDevices ==
  ASSUME IInv, AllOnOwnDevice, NEW p \in Pipelines, NEW q \in Pipelines, MoveAssign(p, q)
  PROVE  AllOnOwnDevice'
<1>1. CASE Misuse
  BY <1>1, MisuseDevices
<1>2. CASE ~Misuse
  <2> DEFINE r == MovedFrom(q)
  <2>1. /\ FreeObjects(p) /\ p # q /\ TypeOK
        /\ pipe' = [pipe EXCEPT ![p] = pipe[q], ![q] = r]
    BY <1>2 DEF MoveAssign, Taken, IInv
  <2>2. r.pool = Null /\ r.fence = Null
    BY <2>1 DEF MovedFrom, TypeOK, Pipeline
  <2> HIDE DEF r
  <2>3. \A x \in Pipelines : pipe'[x] = IF x = q THEN r ELSE IF x = p THEN pipe[q] ELSE pipe[x]
    BY <2>1 DEF TypeOK
  <2>4. ASSUME NEW x \in Pipelines PROVE OnOwnDevice(x)'
    <3>1. CASE x = q
      BY <2>2, <2>3, <3>1 DEF OnOwnDevice
    <3>2. CASE x # q
      <4> DEFINE y == IF x = p THEN q ELSE x
      <4>1. y \in Pipelines /\ y # p /\ pipe'[x] = pipe[y]
        BY <2>1, <2>3, <3>2
      <4> HIDE DEF y
      <4>2. /\ pipe[y].pool # Null => pools'[pipe[y].pool] = pools[pipe[y].pool]
            /\ pipe[y].fence # Null => fences'[pipe[y].fence] = fences[pipe[y].fence]
        BY <2>1, <4>1, FreedApart
      <4>3. OnOwnDevice(y)
        BY <4>1 DEF AllOnOwnDevice
      <4> QED
        BY <4>1, <4>2, <4>3 DEF OnOwnDevice
    <3> QED
      BY <3>1, <3>2
  <2> QED
    BY <2>4 DEF AllOnOwnDevice
<1> QED
  BY <1>1, <1>2

LEMMA OnlySetGpu ==
  ASSUME IInv, [Next]_vars, AllOnOwnDevice, ~AllOnOwnDevice'
  PROVE  \E p \in Pipelines, d \in Devices \cup {NoDevice} : SetGpu(p, d)
<1>1. ASSUME NEW p \in Pipelines,
             (\E b \in BOOLEAN : SetShader(p, b)) \/ Record(p) \/ SubmitAsync(p)
      PROVE  FALSE
  BY <1>1, FlagDevices
<1>2. ASSUME NEW p \in Pipelines, Build(p) PROVE FALSE
  BY <1>2, BuildDevices
<1>3. ASSUME NEW p \in Pipelines, Wait(p) \/ WaitReturns(p) \/ WaitIdle(p) \/ WaitIdleReturns(p)
      PROVE  FALSE
  <2>1. UNCHANGED <<pipe, pools, fences>>
    BY <1>3 DEF Wait, WaitReturns, WaitIdle, WaitIdleReturns, Misuse, objects
  <2> QED
    BY <2>1, SameDevices
<1>4. ASSUME NEW p \in Pipelines, Destroy(p) PROVE FALSE
  BY <1>4, DestroyDevices
<1>5. ASSUME NEW p \in Pipelines, Destruct(p) PROVE FALSE
  BY <1>5, DestructDevices
<1>6. ASSUME NEW p \in Pipelines, NEW q \in Pipelines, MoveAssign(p, q) PROVE FALSE
  BY <1>6, MoveDevices
<1>7. ASSUME NEW d \in Devices, Execute(d) PROVE FALSE
  <2>1. UNCHANGED <<pipe, pools, fences>>
    BY <1>7 DEF Execute
  <2> QED
    BY <2>1, SameDevices
<1>8. CASE UNCHANGED vars
  <2>1. UNCHANGED <<pipe, pools, fences>>
    BY <1>8 DEF vars
  <2> QED
    BY <2>1, SameDevices
<1> QED
  BY <1>1, <1>2, <1>3, <1>4, <1>5, <1>6, <1>7, <1>8 DEF Next

\* For any number of pipelines, devices and builds: a pipeline frees, records and
\* submits on the device its objects live on until set_gpu is called
\* (pipeline.cpp:85-89, 101-137).
THEOREM WrongDevice == Spec => WrongDeviceOnlyBySetGpu
<1>1. IInv /\ [Next]_vars =>
        [AllOnOwnDevice /\ ~AllOnOwnDevice' =>
           \E p \in Pipelines, d \in Devices \cup {NoDevice} : SetGpu(p, d)]_vars
  BY OnlySetGpu
<1> QED
  BY <1>1, Invariant, PTL DEF Spec, WrongDeviceOnlyBySetGpu

-----------------------------------------------------------------------------
(* Objects that nobody holds. *)

LEMMA LostMeans ==
  NothingLost <=>
    \A h \in Handle : /\ pools[h] # NoDevice => \E p \in Pipelines : pipe[p].pool = h
                      /\ fences[h] # NoDevice => \E p \in Pipelines : pipe[p].fence = h
BY DEF NothingLost, Held

\* Every object alive after the step was alive before, and its holder, or the
\* one that took over from it, has it.
LEMMA NoneLost ==
  ASSUME NothingLost,
         \A h \in Handle : /\ pools'[h] # NoDevice => pools[h] # NoDevice
                           /\ fences'[h] # NoDevice => fences[h] # NoDevice,
         \A x \in Pipelines :
           /\ pipe[x].pool \in Handle /\ pools'[pipe[x].pool] # NoDevice =>
                \E y \in Pipelines : pipe'[y].pool = pipe[x].pool
           /\ pipe[x].fence \in Handle /\ fences'[pipe[x].fence] # NoDevice =>
                \E y \in Pipelines : pipe'[y].fence = pipe[x].fence
  PROVE  NothingLost'
<1>1. ASSUME NEW h \in Handle, pools'[h] # NoDevice
      PROVE  \E y \in Pipelines : pipe'[y].pool = h
  <2>1. PICK x \in Pipelines : pipe[x].pool = h
    BY <1>1, LostMeans
  <2> QED
    BY <1>1, <2>1
<1>2. ASSUME NEW h \in Handle, fences'[h] # NoDevice
      PROVE  \E y \in Pipelines : pipe'[y].fence = h
  <2>1. PICK x \in Pipelines : pipe[x].fence = h
    BY <1>2, LostMeans
  <2> QED
    BY <1>2, <2>1
<1> QED
  BY <1>1, <1>2 DEF NothingLost, Held

LEMMA SameHeld ==
  ASSUME NothingLost, UNCHANGED <<pools, fences>>,
         \A x \in Pipelines : pipe'[x].pool = pipe[x].pool /\ pipe'[x].fence = pipe[x].fence
  PROVE  NothingLost'
BY NoneLost

LEMMA CallLosesNothing ==
  ASSUME IInv, NothingLost, NEW p \in Pipelines,
         \/ \E d \in Devices \cup {NoDevice} : SetGpu(p, d)
         \/ \E sized \in BOOLEAN : SetShader(p, sized)
         \/ Record(p)
         \/ SubmitAsync(p)
  PROVE  NothingLost'
<1>1. TypeOK /\ pipe[p] \in Pipeline
  BY DEF IInv, TypeOK
<1>2. UNCHANGED <<pools, fences>>
  BY DEF SetGpu, SetShader, Record, SubmitAsync, Misuse, objects
<1>3. CASE UNCHANGED pipe
  BY <1>2, <1>3, SameHeld
<1>4. ASSUME NEW v, \/ pipe' = [pipe EXCEPT ![p] = [pipe[p] EXCEPT !.gpu = v]]
                    \/ pipe' = [pipe EXCEPT ![p] = [pipe[p] EXCEPT !.sized = v]]
                    \/ pipe' = [pipe EXCEPT ![p] = [pipe[p] EXCEPT !.isRecorded = v]]
                    \/ pipe' = [pipe EXCEPT ![p] = [pipe[p] EXCEPT !.submitted = v]]
      PROVE  NothingLost'
  <2>1. PICK r \in {[pipe[p] EXCEPT !.gpu = v], [pipe[p] EXCEPT !.sized = v],
                    [pipe[p] EXCEPT !.isRecorded = v], [pipe[p] EXCEPT !.submitted = v]} :
          pipe' = [pipe EXCEPT ![p] = r]
    BY <1>4
  <2>2. r.pool = pipe[p].pool /\ r.fence = pipe[p].fence
    BY <1>1 DEF Pipeline
  <2>3. \A x \in Pipelines : pipe'[x] = IF x = p THEN r ELSE pipe[x]
    BY <1>1, <2>1 DEF TypeOK
  <2> QED
    BY <1>2, <2>2, <2>3, SameHeld
<1>5. ASSUME NEW d \in Devices \cup {NoDevice}, SetGpu(p, d) PROVE NothingLost'
  BY <1>4, <1>5 DEF SetGpu
<1>6. ASSUME NEW b \in BOOLEAN, SetShader(p, b) PROVE NothingLost'
  BY <1>4, <1>6 DEF SetShader
<1>7. CASE Record(p)
  BY <1>3, <1>4, <1>7 DEF Record, Misuse, RecordEnds, RecordThrows
<1>8. CASE SubmitAsync(p)
  BY <1>3, <1>4, <1>8 DEF SubmitAsync, Misuse, SubmitSucceeds, SubmitFails
<1> QED
  BY <1>5, <1>6, <1>7, <1>8

\* A pipeline that holds nothing yet is built.
LEMMA FirstBuildLosesNothing ==
  ASSUME IInv, NothingLost, NEW p \in Pipelines, Build(p), ~HoldsObjects(p)
  PROVE  NothingLost'
<1>1. TypeOK /\ pipe[p] \in Pipeline
  BY DEF IInv, TypeOK
<1>2. CASE Misuse
  BY <1>2, SameHeld DEF Misuse, objects
<1>3. CASE BuildFailsEarly(p)
  <2>1. UNCHANGED <<pools, fences>>
    BY <1>3 DEF BuildFailsEarly
  <2>2. PICK b \in BOOLEAN : pipe' = [pipe EXCEPT ![p].ready = @ /\ ~b]
    BY <1>3 DEF BuildFailsEarly
  <2>3. \A x \in Pipelines : pipe'[x].pool = pipe[x].pool /\ pipe'[x].fence = pipe[x].fence
    BY <1>1, <2>2 DEF TypeOK, Pipeline
  <2> QED
    BY <2>1, <2>3, SameHeld
<1>4. CASE BuildGetsPool(p)
  <2> DEFINE h == builds + 1
             d == pipe[p].gpu
  <2>1. h \in Handle /\ pools' = [pools EXCEPT ![h] = d]
    BY <1>4 DEF BuildGetsPool
  <2>2. PICK cmdOK, fenceOK, bgOK \in BOOLEAN :
          /\ cmds' = IF cmdOK THEN [Invalidated(p) EXCEPT ![h] = "initial"] ELSE Invalidated(p)
          /\ fences' = IF fenceOK THEN [fences EXCEPT ![h] = d] ELSE fences
          /\ pipe' = [pipe EXCEPT
               ![p].ready = bgOK,
               ![p].cmd   = IF cmdOK THEN h ELSE Null,
               ![p].pool  = h,
               ![p].fence = IF fenceOK THEN h ELSE @,
               ![p].submitted = @ /\ ~fenceOK]
    BY <1>4 DEF BuildGetsPool
  <2>3. /\ pipe'[p].pool = h
        /\ fenceOK => pipe'[p].fence = h
        /\ \A x \in Pipelines : x # p => pipe'[x] = pipe[x]
    BY <1>1, <2>2 DEF TypeOK, Pipeline
  <2>4. /\ \A g \in Handle : g # h => pools'[g] = pools[g]
        /\ \A g \in Handle : g # h \/ ~fenceOK => fences'[g] = fences[g]
    BY <1>1, <2>1, <2>2 DEF TypeOK
  <2>5. pipe[p].pool = Null /\ pipe[p].fence = Null
    BY DEF HoldsObjects
  <2> HIDE DEF h
  <2>6. ASSUME NEW g \in Handle, pools'[g] # NoDevice
        PROVE  \E y \in Pipelines : pipe'[y].pool = g
    <3>1. CASE g = h
      BY <2>3, <3>1
    <3>2. CASE g # h
      <4>1. PICK x \in Pipelines : pipe[x].pool = g
        BY <2>4, <2>6, <3>2, LostMeans
      <4> QED
        BY <2>3, <2>5, <4>1, HandleIsPositive
    <3> QED
      BY <3>1, <3>2
  <2>7. ASSUME NEW g \in Handle, fences'[g] # NoDevice
        PROVE  \E y \in Pipelines : pipe'[y].fence = g
    <3>1. CASE g = h /\ fenceOK
      BY <2>3, <3>1
    <3>2. CASE g # h \/ ~fenceOK
      <4>1. PICK x \in Pipelines : pipe[x].fence = g
        BY <2>4, <2>7, <3>2, LostMeans
      <4> QED
        BY <2>3, <2>5, <4>1, HandleIsPositive
    <3> QED
      BY <3>1, <3>2
  <2> QED
    BY <2>6, <2>7 DEF NothingLost, Held
<1> QED
  BY <1>2, <1>3, <1>4 DEF Build

\* What p frees is all it holds, if it has a device or holds nothing.
LEMMA FreesAll ==
  ASSUME IInv, NEW p \in Pipelines, FreeObjects(p), pipe[p].gpu # NoDevice \/ ~HoldsObjects(p)
  PROVE  /\ \A h \in Handle : /\ pools'[h] # NoDevice => pools[h] # NoDevice
                              /\ fences'[h] # NoDevice => fences[h] # NoDevice
         /\ pipe[p].pool \in Handle => pools'[pipe[p].pool] = NoDevice
         /\ pipe[p].fence \in Handle => fences'[pipe[p].fence] = NoDevice
<1>1. /\ pools' = [h \in Handle |-> IF h = FreedPool(p) THEN NoDevice ELSE pools[h]]
      /\ fences' = [h \in Handle |-> IF h = FreedFence(p) THEN NoDevice ELSE fences[h]]
  BY DEF FreeObjects
<1>2. pipe[p].pool \in Handle => FreedPool(p) = pipe[p].pool
  BY HandleIsPositive DEF FreedPool, HoldsObjects
<1>3. pipe[p].fence \in Handle => FreedFence(p) = pipe[p].fence
  BY HandleIsPositive DEF FreedFence, HoldsObjects
<1> QED
  BY <1>1, <1>2, <1>3

\* destroy() without a device does nothing, with one it frees all.
LEMMA DestroyLosesNothing ==
  ASSUME IInv, NothingLost, NEW p \in Pipelines, Destroy(p)
  PROVE  NothingLost'
<1>1. TypeOK
  BY DEF IInv
<1>2. CASE Misuse
  BY <1>2, SameHeld DEF Misuse, objects
<1>3. CASE ~Misuse
  <2>1. FreeObjects(p) /\ pipe' = [pipe EXCEPT ![p] = Destroyed(p)]
    BY <1>3 DEF Destroy
  <2>2. CASE pipe[p].gpu = NoDevice
    <3>1. pipe' = pipe /\ FreedPool(p) = Null /\ FreedFence(p) = Null
      BY <1>1, <2>1, <2>2 DEF Destroyed, TypeOK, FreedPool, FreedFence
    <3>2. pools' = pools /\ fences' = fences
      BY <1>1, <2>1, <3>1, HandleIsPositive DEF FreeObjects, TypeOK
    <3> QED
      BY <3>1, <3>2, SameHeld
  <2>3. CASE pipe[p].gpu # NoDevice
    <3>1. \A x \in Pipelines : x # p => pipe'[x] = pipe[x]
      BY <1>1, <2>1 DEF TypeOK
    <3> QED
      BY <2>1, <2>3, <3>1, FreesAll, NoneLost
  <2> QED
    BY <2>2, <2>3
<1> QED
  BY <1>2, <1>3

\* The end of a pipeline, and the overwriting of one, that has its device.
LEMMA EndLosesNothing ==
  ASSUME IInv, NothingLost, NEW p \in Pipelines,
         Destruct(p) \/ \E q \in Pipelines : MoveAssign(p, q),
         pipe[p].gpu # NoDevice \/ ~HoldsObjects(p)
  PROVE  NothingLost'
<1>1. TypeOK
  BY DEF IInv
<1>2. CASE Misuse
  BY <1>2, SameHeld DEF Misuse, objects
<1>3. CASE Destruct(p) /\ ~Misuse
  <2>1. FreeObjects(p) /\ \A x \in Pipelines : x # p => pipe'[x] = pipe[x]
    BY <1>1, <1>3 DEF Destruct, TypeOK
  <2> QED
    BY <2>1, FreesAll, NoneLost
<1>4. ASSUME NEW q \in Pipelines, MoveAssign(p, q), ~Misuse PROVE NothingLost'
  <2>1. FreeObjects(p) /\ p # q /\ pipe' = [pipe EXCEPT ![p] = pipe[q], ![q] = MovedFrom(q)]
    BY <1>4 DEF MoveAssign, Taken
  <2>2. pipe'[p] = pipe[q] /\ \A x \in Pipelines : x # p /\ x # q => pipe'[x] = pipe[x]
    BY <1>1, <2>1 DEF TypeOK
  <2>3. \A x \in Pipelines : x # p => \E y \in Pipelines : pipe'[y] = pipe[x]
    BY <2>2
  <2> QED
    BY <2>1, <2>3, FreesAll, NoneLost
<1> QED
  BY <1>2, <1>3, <1>4

\* The calls after which something is alive that nobody holds.
LosingCall ==
  \E p \in Pipelines : HoldsObjects(p) /\
    \/ Build(p)
    \/ pipe[p].gpu = NoDevice /\ (Destruct(p) \/ \E q \in Pipelines : MoveAssign(p, q))

LEMMA OnlyLosingCalls ==
  ASSUME IInv, NothingLost, [Next]_vars, ~LosingCall
  PROVE  NothingLost'
<1>1. ASSUME NEW p \in Pipelines,
             \/ \E d \in Devices \cup {NoDevice} : SetGpu(p, d)
             \/ \E sized \in BOOLEAN : SetShader(p, sized)
             \/ Record(p)
             \/ SubmitAsync(p)
      PROVE  NothingLost'
  BY <1>1, CallLosesNothing
<1>2. ASSUME NEW p \in Pipelines, Build(p) PROVE NothingLost'
  BY <1>2, FirstBuildLosesNothing DEF LosingCall
<1>3. ASSUME NEW p \in Pipelines, Destroy(p) PROVE NothingLost'
  BY <1>3, DestroyLosesNothing
<1>4. ASSUME NEW p \in Pipelines, Destruct(p) \/ \E q \in Pipelines : MoveAssign(p, q)
      PROVE  NothingLost'
  BY <1>4, EndLosesNothing DEF LosingCall
<1>5. ASSUME NEW p \in Pipelines, Wait(p) \/ WaitReturns(p) \/ WaitIdle(p) \/ WaitIdleReturns(p)
      PROVE  NothingLost'
  <2>1. UNCHANGED <<pipe, pools, fences>>
    BY <1>5 DEF Wait, WaitReturns, WaitIdle, WaitIdleReturns, Misuse, objects
  <2> QED
    BY <2>1, SameHeld
<1>6. ASSUME NEW d \in Devices, Execute(d) PROVE NothingLost'
  <2>1. UNCHANGED <<pipe, pools, fences>>
    BY <1>6 DEF Execute
  <2> QED
    BY <2>1, SameHeld
<1>7. CASE UNCHANGED vars
  <2>1. UNCHANGED <<pipe, pools, fences>>
    BY <1>7 DEF vars
  <2> QED
    BY <2>1, SameHeld
<1> QED
  BY <1>1, <1>2, <1>3, <1>4, <1>5, <1>6, <1>7 DEF Next

\* For any number of pipelines, devices and builds: a command pool or fence stays
\* alive with nobody to free it only when a pipeline that holds some is built
\* again, or ends or is overwritten when it has no device (pipeline.cpp:30-52,
\* 85-89, 125-137).
THEOREM LostByRebuild == Spec => LostOnlyByRebuild
<1>1. IInv /\ [Next]_vars =>
        [NothingLost /\ ~NothingLost' =>
           \E p \in Pipelines : HoldsObjects(p) /\
             \/ Build(p)
             \/ pipe[p].gpu = NoDevice /\ (Destruct(p) \/ \E q \in Pipelines : MoveAssign(p, q))]_vars
  BY OnlyLosingCalls DEF LosingCall
<1> QED
  BY <1>1, Invariant, PTL DEF Spec, LostOnlyByRebuild

-----------------------------------------------------------------------------
(* Although a move leaves two pipelines with one command buffer, only a call *)
(* on a pipeline itself makes its isRecorded wrong.  This takes one more     *)
(* invariant.                                                                *)


\* The command pool of a buffer that a pipeline can record into or submit is
\* never held, so never freed, by another pipeline.
OthersKeepOff ==
  \A p, q \in Pipelines :
    p # q /\ Active(p) /\ pipe[p].cmd # Null => pipe[q].pool # pipe[p].cmd

RInv == IInv /\ OthersKeepOff

\* Steps that hand on no handle and activate no pipeline.
LEMMA FrameKeepOff ==
  ASSUME OthersKeepOff,
         \A p \in Pipelines : /\ pipe'[p].cmd = pipe[p].cmd
                              /\ pipe'[p].pool = pipe[p].pool
                              /\ Active(p)' => Active(p)
  PROVE  OthersKeepOff'
BY DEF OthersKeepOff

\* A change of one pipeline that keeps its handles and activates nothing.
LEMMA OneKeepOff ==
  ASSUME IInv, OthersKeepOff, NEW p \in Pipelines, NEW r, pipe' = [pipe EXCEPT ![p] = r],
         r.cmd = pipe[p].cmd, r.pool = pipe[p].pool,
         (r.ready \/ r.isRecorded) => Active(p)
  PROVE  OthersKeepOff'
<1>1. \A x \in Pipelines : pipe'[x] = IF x = p THEN r ELSE pipe[x]
  BY DEF IInv, TypeOK
<1>2. \A x \in Pipelines : Active(x)' => Active(x)
  BY <1>1, Zenon DEF Active
<1>3. \A x \in Pipelines : pipe'[x].cmd = pipe[x].cmd /\ pipe'[x].pool = pipe[x].pool
  BY <1>1
<1> QED
  BY <1>2, <1>3, FrameKeepOff

LEMMA FieldUpdate ==
  ASSUME NEW r \in Pipeline, NEW v
  PROVE  /\ [r EXCEPT !.ready = v].cmd = r.cmd
         /\ [r EXCEPT !.ready = v].pool = r.pool
         /\ [r EXCEPT !.ready = v].ready = v
         /\ [r EXCEPT !.ready = v].isRecorded = r.isRecorded
         /\ [r EXCEPT !.isRecorded = v].cmd = r.cmd
         /\ [r EXCEPT !.isRecorded = v].pool = r.pool
         /\ [r EXCEPT !.isRecorded = v].ready = r.ready
         /\ [r EXCEPT !.isRecorded = v].isRecorded = v
BY DEF Pipeline

\* Steps that leave the pipelines as they are.
LEMMA SamePipesKeepOff ==
  ASSUME OthersKeepOff, UNCHANGED pipe
  PROVE  OthersKeepOff'
BY FrameKeepOff DEF Active

\* set_gpu, set_shader, record and submit_async.
LEMMA CallsKeepOff ==
  ASSUME IInv, OthersKeepOff, NEW p \in Pipelines,
         \/ \E d \in Devices \cup {NoDevice} : SetGpu(p, d)
         \/ \E sized \in BOOLEAN : SetShader(p, sized)
         \/ Record(p)
         \/ SubmitAsync(p)
  PROVE  OthersKeepOff'
<1>1. pipe[p] \in Pipeline
  BY DEF IInv, TypeOK
<1>2. CASE UNCHANGED pipe
  BY <1>2, SamePipesKeepOff
<1>3. ASSUME NEW v, \/ pipe' = [pipe EXCEPT ![p] = [pipe[p] EXCEPT !.gpu = v]]
                    \/ pipe' = [pipe EXCEPT ![p] = [pipe[p] EXCEPT !.sized = v]]
                    \/ pipe' = [pipe EXCEPT ![p] = [pipe[p] EXCEPT !.submitted = v]]
      PROVE  OthersKeepOff'
  <2>1. PICK s \in {[pipe[p] EXCEPT !.gpu = v], [pipe[p] EXCEPT !.sized = v],
                    [pipe[p] EXCEPT !.submitted = v]} : pipe' = [pipe EXCEPT ![p] = s]
    BY <1>3
  <2>2. /\ s.cmd = pipe[p].cmd /\ s.pool = pipe[p].pool
        /\ s.ready = pipe[p].ready /\ s.isRecorded = pipe[p].isRecorded
    BY <1>1 DEF Pipeline
  <2>3. (s.ready \/ s.isRecorded) => Active(p)
    BY <2>2, Zenon DEF Active
  <2> QED
    BY <2>1, <2>2, <2>3, OneKeepOff
<1>4. ASSUME NEW d \in Devices \cup {NoDevice}, SetGpu(p, d) PROVE OthersKeepOff'
  BY <1>3, <1>4 DEF SetGpu
<1>5. ASSUME NEW b \in BOOLEAN, SetShader(p, b) PROVE OthersKeepOff'
  BY <1>3, <1>5 DEF SetShader
<1>6. CASE Record(p) /\ ~(UNCHANGED pipe)
  <2> DEFINE r == [pipe[p] EXCEPT !.isRecorded = TRUE]
  <2>1. CanRecord(p) /\ pipe' = [pipe EXCEPT ![p] = r]
    BY <1>6 DEF Record, Misuse, RecordEnds, RecordThrows
  <2>2. Active(p) /\ r.cmd = pipe[p].cmd /\ r.pool = pipe[p].pool
    BY <1>1, <2>1, FieldUpdate DEF CanRecord, Active
  <2> HIDE DEF r
  <2> QED
    BY <2>1, <2>2, OneKeepOff
<1>7. CASE SubmitAsync(p) /\ ~(UNCHANGED pipe)
  BY <1>3, <1>7 DEF SubmitAsync, Misuse, SubmitSucceeds, SubmitFails
<1> QED
  BY <1>2, <1>4, <1>5, <1>6, <1>7

\* The pool build() gets is new: no pipeline has a buffer from it.
LEMMA BuildKeepOff ==
  ASSUME IInv, OthersKeepOff, NEW p \in Pipelines, Build(p)
  PROVE  OthersKeepOff'
<1>1. pipe[p] \in Pipeline /\ TypeOK
  BY DEF IInv, TypeOK
<1>2. CASE Misuse
  BY <1>2, SamePipesKeepOff DEF Misuse
<1>3. CASE BuildFailsEarly(p)
  <2>1. PICK b \in BOOLEAN : pipe' = [pipe EXCEPT ![p] = [pipe[p] EXCEPT !.ready = pipe[p].ready /\ ~b]]
    BY <1>3 DEF BuildFailsEarly
  <2> DEFINE v == pipe[p].ready /\ ~b
             r == [pipe[p] EXCEPT !.ready = v]
  <2>2. /\ r.cmd = pipe[p].cmd /\ r.pool = pipe[p].pool
        /\ r.ready = v /\ r.isRecorded = pipe[p].isRecorded
    BY <1>1, FieldUpdate
  <2>3. (r.ready \/ r.isRecorded) => Active(p)
    <3> HIDE DEF r
    <3> QED
      BY <2>2, Zenon DEF Active
  <2>4. pipe' = [pipe EXCEPT ![p] = r]
    BY <2>1
  <2> HIDE DEF r
  <2> QED
    BY <2>2, <2>3, <2>4, OneKeepOff
<1>4. CASE BuildGetsPool(p)
  <2> DEFINE h == builds + 1
  <2>1. PICK r : /\ pipe' = [pipe EXCEPT ![p] = r]
                 /\ r.cmd \in {h, Null} /\ r.pool = h
    <3>1. PICK cmdOK, fenceOK, bgOK \in BOOLEAN :
            /\ cmds' = IF cmdOK THEN [Invalidated(p) EXCEPT ![h] = "initial"] ELSE Invalidated(p)
            /\ fences' = IF fenceOK THEN [fences EXCEPT ![h] = pipe[p].gpu] ELSE fences
            /\ pipe' = [pipe EXCEPT
                 ![p].ready = bgOK,
                 ![p].cmd   = IF cmdOK THEN h ELSE Null,
                 ![p].pool  = h,
                 ![p].fence = IF fenceOK THEN h ELSE @,
                 ![p].submitted = @ /\ ~fenceOK]
      BY <1>4 DEF BuildGetsPool
    <3> DEFINE c == IF cmdOK THEN h ELSE Null
               f == IF fenceOK THEN h ELSE pipe[p].fence
               s == pipe[p].submitted /\ ~fenceOK
               r == [pipe[p] EXCEPT !.ready = bgOK, !.cmd = c, !.pool = h, !.fence = f,
                                    !.submitted = s]
    <3>2. pipe' = [pipe EXCEPT ![p] = r]
      BY <3>1
    <3>3. r.cmd = c /\ r.pool = h
      <4> HIDE DEF c, f, s, h
      <4> QED
        BY <1>1 DEF Pipeline
    <3>4. c \in {h, Null}
      OBVIOUS
    <3> HIDE DEF r, c
    <3> QED
      BY <3>2, <3>3, <3>4
  <2>2. \A x \in Pipelines : pipe'[x] = IF x = p THEN r ELSE pipe[x]
    BY <1>1, <2>1 DEF TypeOK
  <2>3. \A x \in Pipelines : pipe[x].cmd <= builds /\ pipe[x].pool <= builds
    BY DEF IInv, Ownership, CreatedBefore
  <2>4. builds \in Nat /\ \A x \in Pipelines : pipe[x].cmd \in Nat /\ pipe[x].pool \in Nat
    BY <1>1, PipelineAssumption DEF TypeOK, Pipeline, Handle, Null
  <2> SUFFICES ASSUME NEW x \in Pipelines, NEW y \in Pipelines, x # y, Active(x)',
                      pipe'[x].cmd # Null
               PROVE  pipe'[y].pool # pipe'[x].cmd
    BY DEF OthersKeepOff
  <2>5. CASE x = p
    BY <2>1, <2>2, <2>3, <2>4, <2>5
  <2>6. CASE y = p
    BY <2>1, <2>2, <2>3, <2>4, <2>6
  <2>7. CASE x # p /\ y # p
    BY <2>2, <2>7 DEF OthersKeepOff, Active
  <2> QED
    BY <2>5, <2>6, <2>7
<1> QED
  BY <1>2, <1>3, <1>4 DEF Build

\* destroy(), the end of a pipeline and a move.
LEMMA ReleaseKeepOff ==
  ASSUME IInv, OthersKeepOff, NEW p \in Pipelines,
         Destroy(p) \/ Destruct(p) \/ \E q \in Pipelines : MoveAssign(p, q)
  PROVE  OthersKeepOff'
<1>1. pipe[p] \in Pipeline /\ TypeOK
  BY DEF IInv, TypeOK
<1>2. CASE Misuse
  BY <1>2, SamePipesKeepOff DEF Misuse
<1>3. CASE Destroy(p) /\ ~Misuse
  <2> DEFINE r == Destroyed(p)
  <2>1. pipe' = [pipe EXCEPT ![p] = r]
    BY <1>3 DEF Destroy
  <2>2. /\ r.cmd = pipe[p].cmd /\ r.pool \in {pipe[p].pool, Null}
        /\ r.ready = pipe[p].ready /\ r.isRecorded = pipe[p].isRecorded
    BY <1>1 DEF Destroyed, Pipeline
  <2> HIDE DEF r
  <2>3. \A x \in Pipelines : pipe'[x] = IF x = p THEN r ELSE pipe[x]
    BY <1>1, <2>1 DEF TypeOK
  <2>4. \A x \in Pipelines : Active(x)' => Active(x)
    BY <2>2, <2>3, Zenon DEF Active
  <2>5. \A x \in Pipelines : pipe'[x].cmd = pipe[x].cmd /\ pipe'[x].pool \in {pipe[x].pool, Null}
    BY <2>2, <2>3
  <2> QED
    BY <2>4, <2>5 DEF OthersKeepOff
<1>4. CASE Destruct(p) /\ ~Misuse
  <2>1. \A x \in Pipelines : pipe'[x] = IF x = p THEN Default ELSE pipe[x]
    BY <1>1, <1>4 DEF Destruct, TypeOK
  <2>2. Default.cmd = Null /\ Default.pool = Null
    BY DEF Default
  <2> SUFFICES ASSUME NEW x \in Pipelines, NEW y \in Pipelines, x # y, Active(x)',
                      pipe'[x].cmd # Null
               PROVE  pipe'[y].pool # pipe'[x].cmd
    BY DEF OthersKeepOff
  <2>3. x # p /\ pipe'[x] = pipe[x]
    BY <2>1, <2>2
  <2>4. Active(x)
    BY <2>3 DEF Active
  <2> QED
    BY <2>1, <2>2, <2>3, <2>4 DEF OthersKeepOff
<1>5. ASSUME NEW q \in Pipelines, MoveAssign(p, q), ~Misuse PROVE OthersKeepOff'
  <2> DEFINE r == MovedFrom(q)
             From(z) == IF z = p THEN q ELSE z
  <2>1. p # q /\ pipe' = [pipe EXCEPT ![p] = pipe[q], ![q] = r]
    BY <1>5 DEF MoveAssign, Taken
  <2>2. r.pool = Null /\ r.ready = FALSE /\ r.isRecorded = FALSE
    BY <1>1 DEF MovedFrom, TypeOK, Pipeline
  <2>3. \A x \in Pipelines : pipe'[x] = IF x = q THEN r ELSE IF x = p THEN pipe[q] ELSE pipe[x]
    <3> HIDE DEF r
    <3> QED
      BY <1>1, <2>1 DEF TypeOK
  <2> HIDE DEF r
  <2> SUFFICES ASSUME NEW x \in Pipelines, NEW y \in Pipelines, x # y, Active(x)',
                      pipe'[x].cmd # Null
               PROVE  pipe'[y].pool # pipe'[x].cmd
    BY DEF OthersKeepOff
  <2>4. x # q
    BY <2>2, <2>3 DEF Active
  <2>5. pipe'[x] = pipe[From(x)] /\ From(x) \in Pipelines
    BY <2>3, <2>4
  <2>6. Active(From(x))
    BY <2>5, Zenon DEF Active
  <2>7. CASE y = q
    BY <2>2, <2>3, <2>7
  <2>8. CASE y # q
    <3>1. pipe'[y] = pipe[From(y)] /\ From(y) \in Pipelines /\ From(x) # From(y)
      BY <2>3, <2>4, <2>8
    <3> HIDE DEF From
    <3> QED
      BY <2>5, <2>6, <3>1 DEF OthersKeepOff
  <2> QED
    BY <2>7, <2>8
<1> QED
  BY <1>2, <1>3, <1>4, <1>5

LEMMA RInvInit ==
  Init => RInv
<1> SUFFICES ASSUME Init PROVE RInv
  OBVIOUS
<1>1. \A p \in Pipelines : pipe[p].cmd = Null
  BY DEF Init, Default
<1> QED
  BY <1>1, InitInvariant DEF RInv, OthersKeepOff

LEMMA RInvStep ==
  RInv /\ [Next]_vars => RInv'
<1> SUFFICES ASSUME IInv, OthersKeepOff, [Next]_vars PROVE OthersKeepOff'
  BY Inductive DEF RInv
<1>1. ASSUME NEW p \in Pipelines,
             \/ \E d \in Devices \cup {NoDevice} : SetGpu(p, d)
             \/ \E sized \in BOOLEAN : SetShader(p, sized)
             \/ Record(p)
             \/ SubmitAsync(p)
      PROVE  OthersKeepOff'
  BY <1>1, CallsKeepOff
<1>2. ASSUME NEW p \in Pipelines, Build(p) PROVE OthersKeepOff'
  BY <1>2, BuildKeepOff
<1>3. ASSUME NEW p \in Pipelines,
             Destroy(p) \/ Destruct(p) \/ \E q \in Pipelines : MoveAssign(p, q)
      PROVE  OthersKeepOff'
  BY <1>3, ReleaseKeepOff
<1>4. ASSUME NEW p \in Pipelines, Wait(p) \/ WaitReturns(p) \/ WaitIdle(p) \/ WaitIdleReturns(p)
      PROVE  OthersKeepOff'
  BY <1>4, SamePipesKeepOff DEF Wait, WaitReturns, WaitIdle, WaitIdleReturns, Misuse
<1>5. ASSUME NEW d \in Devices, Execute(d) PROVE OthersKeepOff'
  BY <1>5, SamePipesKeepOff DEF Execute
<1>6. CASE UNCHANGED vars
  BY <1>6, SamePipesKeepOff DEF vars
<1> QED
  BY <1>1, <1>2, <1>3, <1>4, <1>5, <1>6 DEF Next

-----------------------------------------------------------------------------
(* The steps after which isRecorded may be wrong. *)

\* Only a call of x itself.
OwnCall(x) == Build(x) \/ Destroy(x) \/ (Record(x) /\ RecordThrows(x))

\* Steps that keep what a pipeline has recorded, when all of it was complete.
LEMMA SameRecorded ==
  ASSUME AllRecordedComplete, NEW x \in Pipelines,
         UNCHANGED <<pipe[x].cmd, pipe[x].isRecorded>>,
         pipe[x].cmd # Null =>
           cmds'[pipe[x].cmd] \in {cmds[pipe[x].cmd], "executable", "pending"}
  PROVE  RecordedIsComplete(x)'
BY DEF AllRecordedComplete, RecordedIsComplete, StateOf, Null

\* A change of one pipeline's other fields.
LEMMA SetterRecorded ==
  ASSUME IInv, AllRecordedComplete, NEW p \in Pipelines, NEW x \in Pipelines,
         \/ \E d \in Devices \cup {NoDevice} : SetGpu(p, d)
         \/ \E sized \in BOOLEAN : SetShader(p, sized)
         \/ UNCHANGED <<pipe, cmds>>
  PROVE  RecordedIsComplete(x)'
<1>1. pipe[p] \in Pipeline /\ TypeOK
  BY DEF IInv, TypeOK
<1>2. CASE UNCHANGED <<pipe, cmds>>
  BY <1>2, SameRecorded
<1>3. ASSUME NEW v, \/ pipe' = [pipe EXCEPT ![p] = [pipe[p] EXCEPT !.gpu = v]]
                    \/ pipe' = [pipe EXCEPT ![p] = [pipe[p] EXCEPT !.sized = v]],
             UNCHANGED cmds
      PROVE  RecordedIsComplete(x)'
  <2>1. PICK s \in {[pipe[p] EXCEPT !.gpu = v], [pipe[p] EXCEPT !.sized = v]} :
          pipe' = [pipe EXCEPT ![p] = s]
    BY <1>3
  <2>2. s.cmd = pipe[p].cmd /\ s.isRecorded = pipe[p].isRecorded
    BY <1>1 DEF Pipeline
  <2>3. pipe'[x] = IF x = p THEN s ELSE pipe[x]
    BY <1>1, <2>1 DEF TypeOK
  <2> QED
    BY <1>3, <2>2, <2>3, SameRecorded
<1> QED
  BY <1>2, <1>3 DEF SetGpu, SetShader, objects

\* build() of p writes the state of a buffer that nobody has yet, and of its own.
LEMMA BuildRecorded ==
  ASSUME IInv, AllRecordedComplete, NEW p \in Pipelines, Build(p),
         NEW x \in Pipelines, x # p
  PROVE  RecordedIsComplete(x)'
<1>1. TypeOK /\ pipe[x] \in Pipeline /\ pipe[x].cmd <= builds
  BY DEF IInv, TypeOK, Ownership, CreatedBefore
<1>2. pipe'[x] = pipe[x]
  <2>1. CASE Misuse
    BY <2>1 DEF Misuse
  <2>2. CASE BuildFailsEarly(p)
    BY <1>1, <2>2 DEF BuildFailsEarly, TypeOK
  <2>3. CASE BuildGetsPool(p)
    BY <1>1, <2>3 DEF BuildGetsPool, TypeOK
  <2> QED
    BY <2>1, <2>2, <2>3 DEF Build
<1> SUFFICES ASSUME pipe[x].isRecorded PROVE RecordedIsComplete(x)'
  BY <1>2 DEF RecordedIsComplete
<1>4. Active(x)
  BY DEF Active
<1>3. pipe[x].cmd # Null => cmds'[pipe[x].cmd] = cmds[pipe[x].cmd]
  <2> SUFFICES ASSUME pipe[x].cmd # Null PROVE cmds'[pipe[x].cmd] = cmds[pipe[x].cmd]
    OBVIOUS
  <2>1. pipe[x].cmd \in Handle /\ builds \in Nat
    BY <1>1, PipelineAssumption DEF TypeOK, Pipeline
  <2>2. pipe[x].cmd # builds + 1
    BY <1>1, <2>1 DEF Handle
  <2>3. cmds' \in {cmds, Invalidated(p), [Invalidated(p) EXCEPT ![builds + 1] = "initial"]}
    BY DEF Build, Misuse, BuildFailsEarly, BuildGetsPool, objects
  <2>4. pipe[x].cmd # pipe[p].cmd \/ ~pipe[p].ready
    BY <1>4, <2>1 DEF Active, IInv, Ownership, OneRecorder
  <2>5. Invalidated(p) \in [Handle -> CmdState] /\ Invalidated(p)[pipe[x].cmd] = cmds[pipe[x].cmd]
    BY <1>1, <2>1, <2>4, InvalidatedType
  <2> QED
    BY <1>1, <2>1, <2>2, <2>3, <2>5 DEF TypeOK
<1> QED
  BY <1>2, <1>3, <1>4, SameRecorded

\* record() of p that throws leaves a buffer only p has recorded into.
LEMMA RecordRecorded ==
  ASSUME IInv, AllRecordedComplete, NEW p \in Pipelines, Record(p),
         NEW x \in Pipelines, ~(x = p /\ RecordThrows(p))
  PROVE  RecordedIsComplete(x)'
<1>1. TypeOK /\ pipe[x] \in Pipeline /\ pipe[p] \in Pipeline
  BY DEF IInv, TypeOK
<1>2. CASE Misuse
  BY <1>2, SetterRecorded DEF Misuse, objects
<1>3. CASE ~Misuse
  <2>1. CanRecord(p) /\ (RecordEnds(p) \/ RecordThrows(p))
    BY <1>3 DEF Record
  <2>2. pipe[p].cmd \in Handle /\ pipe[p].cmd # Null
    BY <1>1, <2>1, Fields DEF CanRecord, StateOf
  <2>3. CASE RecordEnds(p)
    <3> DEFINE r == [pipe[p] EXCEPT !.isRecorded = TRUE]
    <3>1. pipe'[x] = IF x = p THEN r ELSE pipe[x]
      BY <1>1, <2>3 DEF RecordEnds, TypeOK
    <3>2. r.cmd = pipe[p].cmd
      BY <1>1 DEF Pipeline
    <3>3. \A c \in Handle : cmds'[c] \in {cmds[c], "executable"}
      BY <1>1, <2>2, <2>3 DEF RecordEnds, TypeOK
    <3>4. cmds'[pipe[p].cmd] = "executable"
      BY <1>1, <2>2, <2>3 DEF RecordEnds, TypeOK
    <3> HIDE DEF r
    <3>5. CASE x = p
      BY <2>2, <3>1, <3>2, <3>4, <3>5 DEF RecordedIsComplete, StateOf
    <3>6. CASE x # p
      <4>1. pipe[x].cmd # Null => pipe[x].cmd \in Handle
        BY <1>1, Fields
      <4> QED
        BY <3>1, <3>3, <3>6, <4>1, SameRecorded
    <3> QED
      BY <3>5, <3>6
  <2>4. CASE RecordThrows(p)
    <3>1. x # p /\ pipe' = pipe
      BY <2>4 DEF RecordThrows
    <3>2. CASE pipe[x].isRecorded
      <4>1. pipe[x].cmd # Null
        BY <3>2 DEF AllRecordedComplete, RecordedIsComplete, StateOf, Null
      <4>2. Active(x) /\ Active(p)
        BY <2>1, <3>2 DEF Active, CanRecord
      <4>3. pipe[x].cmd # pipe[p].cmd
        BY <3>1, <4>1, <4>2 DEF IInv, Ownership, OneRecorder
      <4>4. cmds'[pipe[x].cmd] = cmds[pipe[x].cmd]
        BY <1>1, <2>4, <4>1, <4>3, Fields DEF RecordThrows, TypeOK
      <4> QED
        BY <3>1, <4>4, SameRecorded
    <3>3. CASE ~pipe[x].isRecorded
      BY <3>1, <3>3 DEF RecordedIsComplete
    <3> QED
      BY <3>2, <3>3
  <2> QED
    BY <2>1, <2>3, <2>4
<1> QED
  BY <1>2, <1>3

\* submit_async makes the buffer pending.
LEMMA SubmitRecorded ==
  ASSUME IInv, AllRecordedComplete, NEW p \in Pipelines, SubmitAsync(p), NEW x \in Pipelines
  PROVE  RecordedIsComplete(x)'
<1>1. TypeOK /\ pipe[x] \in Pipeline /\ pipe[p] \in Pipeline
  BY DEF IInv, TypeOK
<1>2. CASE Misuse
  BY <1>2, SetterRecorded DEF Misuse, objects
<1>3. CASE ~Misuse
  <2>1. PICK v : /\ pipe' = [pipe EXCEPT ![p] = [pipe[p] EXCEPT !.submitted = v]]
                 /\ cmds' \in {cmds, [cmds EXCEPT ![pipe[p].cmd] = "pending"]}
    BY <1>3 DEF SubmitAsync, SubmitSucceeds, SubmitFails
  <2> DEFINE r == [pipe[p] EXCEPT !.submitted = v]
  <2>2. pipe'[x] = IF x = p THEN r ELSE pipe[x]
    BY <1>1, <2>1 DEF TypeOK
  <2>3. r.cmd = pipe[p].cmd /\ r.isRecorded = pipe[p].isRecorded
    BY <1>1 DEF Pipeline
  <2>4. pipe[x].cmd # Null => cmds'[pipe[x].cmd] \in {cmds[pipe[x].cmd], "pending"}
    BY <1>1, <2>1, Fields DEF TypeOK
  <2> HIDE DEF r
  <2> QED
    BY <2>2, <2>3, <2>4, SameRecorded
<1> QED
  BY <1>2, <1>3

\* The device makes the buffer executable again.
LEMMA ExecuteRecorded ==
  ASSUME IInv, AllRecordedComplete, NEW d \in Devices, Execute(d), NEW x \in Pipelines
  PROVE  RecordedIsComplete(x)'
<1>1. TypeOK /\ pipe[x] \in Pipeline
  BY DEF IInv, TypeOK
<1>2. pipe' = pipe /\ cmds' = [cmds EXCEPT ![Head(queue[d]).cmd] = "executable"]
  BY DEF Execute
<1>3. pipe[x].cmd # Null => cmds'[pipe[x].cmd] \in {cmds[pipe[x].cmd], "executable"}
  BY <1>1, <1>2, Fields DEF TypeOK
<1> QED
  BY <1>2, <1>3, SameRecorded

\* The pool p frees is not that of a buffer another pipeline has recorded.
LEMMA FreeRecorded ==
  ASSUME RInv, AllRecordedComplete, NEW p \in Pipelines, FreeObjects(p),
         NEW y \in Pipelines, y # p, pipe[y].isRecorded
  PROVE  pipe[y].cmd # Null /\ cmds'[pipe[y].cmd] = cmds[pipe[y].cmd]
<1>1. pipe[y] \in Pipeline
  BY DEF RInv, IInv, TypeOK
<1>2. pipe[y].cmd # Null
  BY DEF AllRecordedComplete, RecordedIsComplete, StateOf, Null
<1>3. pipe[p].pool # pipe[y].cmd
  BY <1>2 DEF RInv, OthersKeepOff, Active
<1>4. FreedPool(p) # pipe[y].cmd
  BY <1>2, <1>3 DEF FreedPool
<1> QED
  BY <1>1, <1>2, <1>4, Fields DEF FreeObjects

LEMMA ReleaseRecorded ==
  ASSUME RInv, AllRecordedComplete, NEW p \in Pipelines, NEW x \in Pipelines,
         \/ Destroy(p) /\ x # p
         \/ Destruct(p)
         \/ \E q \in Pipelines : MoveAssign(p, q)
  PROVE  RecordedIsComplete(x)'
<1>1. TypeOK /\ IInv
  BY DEF RInv, IInv
<1>2. CASE Misuse
  BY <1>1, <1>2, SetterRecorded DEF Misuse, objects
<1>3. ASSUME FreeObjects(p), NEW y \in Pipelines, y # p, pipe'[x] = pipe[y]
      PROVE  RecordedIsComplete(x)'
  <2>1. CASE pipe[y].isRecorded
    <3>1. pipe[y].cmd # Null /\ cmds'[pipe[y].cmd] = cmds[pipe[y].cmd]
      BY <1>3, <2>1, FreeRecorded
    <3> QED
      BY <1>3, <2>1, <3>1 DEF AllRecordedComplete, RecordedIsComplete, StateOf
  <2>2. CASE ~pipe[y].isRecorded
    BY <1>3, <2>2 DEF RecordedIsComplete
  <2> QED
    BY <2>1, <2>2
<1>4. CASE Destroy(p) /\ x # p /\ ~Misuse
  BY <1>1, <1>3, <1>4 DEF Destroy, TypeOK
<1>5. CASE Destruct(p) /\ ~Misuse
  <2>1. pipe'[x] = IF x = p THEN Default ELSE pipe[x]
    BY <1>1, <1>5 DEF Destruct, TypeOK
  <2>2. Default.isRecorded = FALSE
    BY DEF Default
  <2> QED
    BY <1>3, <1>5, <2>1, <2>2 DEF Destruct, RecordedIsComplete
<1>6. ASSUME NEW q \in Pipelines, MoveAssign(p, q), ~Misuse PROVE RecordedIsComplete(x)'
  <2> DEFINE r == MovedFrom(q)
  <2>1. FreeObjects(p) /\ p # q /\ pipe' = [pipe EXCEPT ![p] = pipe[q], ![q] = r]
    BY <1>6 DEF MoveAssign, Taken
  <2>2. r.isRecorded = FALSE
    BY <1>1 DEF MovedFrom, TypeOK, Pipeline
  <2> HIDE DEF r
  <2>3. pipe'[x] = IF x = q THEN r ELSE IF x = p THEN pipe[q] ELSE pipe[x]
    BY <1>1, <2>1 DEF TypeOK
  <2>4. CASE x = q
    BY <2>2, <2>3, <2>4 DEF RecordedIsComplete
  <2>5. CASE x # q
    BY <1>3, <2>1, <2>3, <2>5
  <2> QED
    BY <2>4, <2>5
<1> QED
  BY <1>2, <1>4, <1>5, <1>6

LEMMA OnlyOwnCall ==
  ASSUME RInv, AllRecordedComplete, [Next]_vars, NEW x \in Pipelines, ~OwnCall(x)
  PROVE  RecordedIsComplete(x)'
<1>1. IInv
  BY DEF RInv
<1>2. ASSUME NEW p \in Pipelines,
             \/ \E d \in Devices \cup {NoDevice} : SetGpu(p, d)
             \/ \E sized \in BOOLEAN : SetShader(p, sized)
      PROVE  RecordedIsComplete(x)'
  BY <1>1, <1>2, SetterRecorded
<1>3. ASSUME NEW p \in Pipelines, Build(p) PROVE RecordedIsComplete(x)'
  BY <1>1, <1>3, BuildRecorded DEF OwnCall
<1>4. ASSUME NEW p \in Pipelines, Record(p) PROVE RecordedIsComplete(x)'
  BY <1>1, <1>4, RecordRecorded DEF OwnCall
<1>5. ASSUME NEW p \in Pipelines, SubmitAsync(p) PROVE RecordedIsComplete(x)'
  BY <1>1, <1>5, SubmitRecorded
<1>6. ASSUME NEW p \in Pipelines, Wait(p) \/ WaitReturns(p) \/ WaitIdle(p) \/ WaitIdleReturns(p)
      PROVE  RecordedIsComplete(x)'
  <2>1. UNCHANGED <<pipe, cmds>>
    BY <1>6 DEF Wait, WaitReturns, WaitIdle, WaitIdleReturns, Misuse, objects
  <2> QED
    BY <1>1, <2>1, SetterRecorded
<1>7. ASSUME NEW p \in Pipelines,
             Destroy(p) \/ Destruct(p) \/ \E q \in Pipelines : MoveAssign(p, q)
      PROVE  RecordedIsComplete(x)'
  BY <1>7, ReleaseRecorded DEF OwnCall
<1>8. ASSUME NEW d \in Devices, Execute(d) PROVE RecordedIsComplete(x)'
  BY <1>1, <1>8, ExecuteRecorded
<1>9. CASE UNCHANGED vars
  BY <1>1, <1>9, SetterRecorded DEF vars
<1> QED
  BY <1>2, <1>3, <1>4, <1>5, <1>6, <1>7, <1>8, <1>9 DEF Next

-----------------------------------------------------------------------------
\* A buffer that a pipeline can record into or submit is never in a pool that
\* another pipeline would free (pipeline.cpp:101-137).
THEOREM BufferKeptOffByOthers == Spec => []OthersKeepOff
<1>1. RInv => OthersKeepOff
  BY DEF RInv
<1> QED
  BY <1>1, RInvInit, RInvStep, PTL DEF Spec

\* isRecorded, on which the guard of submit_async relies (pipeline.cpp:54-58),
\* is made wrong by no other call than a build, destroy or throwing record of
\* the pipeline itself: not by a move, nor by anything done to a pipeline that
\* a move left with the same command buffer.
THEOREM WrongOnlyByOwnCall == Spec => RecordedUntilOwnCall
<1> DEFINE A == \A p \in Pipelines : AllRecordedComplete /\ ~RecordedIsComplete(p)' =>
                  Build(p) \/ Destroy(p) \/ (Record(p) /\ RecordThrows(p))
<1>1. RInv /\ [Next]_vars => A
  BY OnlyOwnCall DEF OwnCall
<1>2. Spec => [][A]_vars
  <2> HIDE DEF A
  <2> QED
    BY <1>1, RInvInit, RInvStep, PTL DEF Spec
<1> QED
  BY <1>2 DEF RecordedUntilOwnCall

=============================================================================
