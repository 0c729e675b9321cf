--------------------------- MODULE ComputePipeline ---------------------------
(***************************************************************************)
(* nn::gpu::ComputePipeline (pipeline.hpp, pipeline.cpp): who owns which   *)
(* Vulkan object, and what is recorded, submitted and waited for.          *)
(*                                                                         *)
(* One host thread calls the public functions of a few pipelines in any    *)
(* order; each device executes what was submitted to its queue, in order,  *)
(* at the same time.  Vulkan itself is external: an object here is the     *)
(* number of the build() that created it, a device is where it lives, and  *)
(* a call that breaks a rule of Vulkan leaves everything undefined.        *)
(* Pipeline, descriptor pool, bind group and layout objects delete         *)
(* themselves; a field `ready' says that a pipeline has a complete set.    *)
(* The client keeps its devices until the end, as main.cpp does.           *)
(***************************************************************************)
EXTENDS Naturals, Sequences

CONSTANTS
  Pipelines,   \* the pipeline variables of the client
  Devices,     \* GPU devices
  NoDevice,    \* a null device pointer; the place of an object not alive
  MaxBuilds    \* bound on the calls of build that create a command pool

ASSUME PipelineAssumption == NoDevice \notin Devices /\ MaxBuilds \in Nat

Handle == 1..MaxBuilds
Null == 0

VARIABLES
  pipe,       \* the fields of each pipeline
  pools,      \* device of each command pool, NoDevice when not alive
  fences,     \* device of each fence, NoDevice when not alive
  signalled,  \* the fences that are signalled
  cmds,       \* state of the command buffer allocated from each pool
  queue,      \* per device, the submissions not yet executed
  builds,     \* number of command pools created
  host        \* what the host thread is doing

vars == <<pipe, pools, fences, signalled, cmds, queue, builds, host>>
objects == <<pools, fences, signalled, cmds, queue, builds>>

\* cmd, pool: cmdList.buffer, cmdPool.  sized: no local size of the shader is 0.
\* submitted is history: the latest submit_async returned normally and the
\* fence is still the one it used.
Pipeline == [gpu : Devices \cup {NoDevice}, ready : BOOLEAN, sized : BOOLEAN,
             cmd : Handle \cup {Null}, pool : Handle \cup {Null},
             fence : Handle \cup {Null}, isRecorded : BOOLEAN, submitted : BOOLEAN]

\* ComputePipeline().
Default == [gpu |-> NoDevice, ready |-> FALSE, sized |-> FALSE, cmd |-> Null,
            pool |-> Null, fence |-> Null, isRecorded |-> FALSE, submitted |-> FALSE]

CmdState == {"none", "initial", "recording", "executable", "invalid", "pending", "freed"}

\* The host runs, is in wait or wait_idle of a pipeline, or did something undefined.
Host == [does : {"run", "undefined"}] \cup [does : {"wait", "wait_idle"}, on : Pipelines]
Run == [does |-> "run"]
Undefined == [does |-> "undefined"]

-----------------------------------------------------------------------------
Init ==
  /\ pipe = [p \in Pipelines |-> Default]
  /\ pools = [h \in Handle |-> NoDevice]
  /\ fences = [h \in Handle |-> NoDevice]
  /\ signalled = {}
  /\ cmds = [h \in Handle |-> "none"]
  /\ queue = [d \in Devices |-> <<>>]
  /\ builds = 0
  /\ host = Run

Running == host = Run

\* The call broke a rule of Vulkan, or dereferenced a null pointer.
Misuse == host' = Undefined /\ UNCHANGED <<pipe, objects>>

Queued(f) == \E d \in Devices : \E i \in 1..Len(queue[d]) : queue[d][i].fence = f

StateOf(c) == IF c = Null THEN "none" ELSE cmds[c]
Pending(p) == StateOf(pipe[p].cmd) = "pending"

-----------------------------------------------------------------------------
SetGpu(p, d) ==
  /\ Running
  /\ pipe' = [pipe EXCEPT ![p].gpu = d]
  /\ UNCHANGED <<objects, host>>

\* A new shader, and whether reflection found its local sizes.
SetShader(p, sized) ==
  /\ Running
  /\ pipe' = [pipe EXCEPT ![p].sized = sized]
  /\ UNCHANGED <<objects, host>>

-----------------------------------------------------------------------------
\* Objects that p has recorded into its command buffer are deleted.
Invalidated(p) ==
  IF pipe[p].ready /\ StateOf(pipe[p].cmd) \in {"recording", "executable"}
    THEN [cmds EXCEPT ![pipe[p].cmd] = "invalid"] ELSE cmds

\* build() throws before it has a new command pool: the VkPipeline, and after it
\* the descriptor pool that bg is allocated from, have been replaced by then, or
\* not.
BuildFailsEarly(p) ==
  /\ \E pipelineReplaced, poolReplaced \in BOOLEAN :
       /\ poolReplaced => pipelineReplaced
       /\ cmds' = IF pipelineReplaced THEN Invalidated(p) ELSE cmds
       /\ pipe' = [pipe EXCEPT ![p].ready = @ /\ ~poolReplaced]
  /\ UNCHANGED <<pools, fences, signalled, queue, builds, host>>

\* build() gets its command pool.  Failures to allocate a command list and to
\* create a fence are not looked at; bind group creation may throw at the end.
BuildGetsPool(p) ==
  LET h == builds + 1
      d == pipe[p].gpu
  IN  /\ h \in Handle
      /\ builds' = h
      /\ pools' = [pools EXCEPT ![h] = d]
      /\ \E cmdOK, fenceOK, bgOK \in BOOLEAN :
           /\ cmds' = IF cmdOK THEN [Invalidated(p) EXCEPT ![h] = "initial"] ELSE Invalidated(p)
           /\ fences' = IF fenceOK THEN [fences EXCEPT ![h] = d] ELSE fences
           /\ pipe' = [pipe EXCEPT
                ![p].ready = bgOK,
                ![p].cmd   = IF cmdOK THEN h ELSE Null,
                ![p].pool  = h,
                ![p].fence = IF fenceOK THEN h ELSE @,
                ![p].submitted = @ /\ ~fenceOK]
      /\ UNCHANGED <<signalled, queue, host>>

\* The objects a pipeline replaces must not be in use by the device.
Build(p) ==
  /\ Running
  /\ \/ /\ pipe[p].gpu = NoDevice \/ (pipe[p].ready /\ Pending(p))
        /\ Misuse
     \/ /\ pipe[p].gpu # NoDevice
        /\ ~(pipe[p].ready /\ Pending(p))
        /\ BuildFailsEarly(p) \/ BuildGetsPool(p)

-----------------------------------------------------------------------------
\* A command buffer is reset, begun, filled and ended.  The check of the local
\* sizes throws after Begin.
CanRecord(p) ==
  /\ StateOf(pipe[p].cmd) \in {"initial", "recording", "executable", "invalid"}
  /\ pipe[p].ready

RecordEnds(p) ==
  /\ pipe[p].sized
  /\ cmds' = [cmds EXCEPT ![pipe[p].cmd] = "executable"]
  /\ pipe' = [pipe EXCEPT ![p].isRecorded = TRUE]

RecordThrows(p) ==
  /\ ~pipe[p].sized
  /\ cmds' = [cmds EXCEPT ![pipe[p].cmd] = "recording"]
  /\ UNCHANGED pipe

Record(p) ==
  /\ Running
  /\ \/ ~CanRecord(p) /\ Misuse
     \/ /\ CanRecord(p)
        /\ RecordEnds(p) \/ RecordThrows(p)
        /\ UNCHANGED <<pools, fences, signalled, queue, builds, host>>

-----------------------------------------------------------------------------
\* A submission that does not ask for the fence build() may not have got.
CanSubmitUnfenced(p) ==
  /\ pipe[p].gpu # NoDevice
  /\ StateOf(pipe[p].cmd) = "executable" /\ pools[pipe[p].cmd] = pipe[p].gpu

\* What Vulkan asks of vkResetFences and vkQueueSubmit.
CanSubmit(p) ==
  LET f == pipe[p].fence
      c == pipe[p].cmd
      d == pipe[p].gpu
  IN  /\ d # NoDevice
      /\ f # Null /\ fences[f] = d /\ ~Queued(f)
      /\ StateOf(c) = "executable" /\ pools[c] = d

\* The fence is reset before the submission that may fail.
SubmitFails(p) ==
  /\ pipe' = [pipe EXCEPT ![p].submitted = FALSE]
  /\ UNCHANGED <<cmds, queue>>

\* Submission without a fence to signal.
SubmitUnfenced(p) ==
  /\ pipe' = [pipe EXCEPT ![p].submitted = TRUE]
  /\ cmds' = [cmds EXCEPT ![pipe[p].cmd] = "pending"]
  /\ queue' = [queue EXCEPT ![pipe[p].gpu] = Append(@, [cmd |-> pipe[p].cmd, fence |-> Null])]

SubmitSucceeds(p) ==
  /\ pipe' = [pipe EXCEPT ![p].submitted = TRUE]
  /\ cmds' = [cmds EXCEPT ![pipe[p].cmd] = "pending"]
  /\ queue' = [queue EXCEPT ![pipe[p].gpu] =
                 Append(@, [cmd |-> pipe[p].cmd, fence |-> pipe[p].fence])]

PassesGuard(p) == Running /\ pipe[p].isRecorded

\* Without isRecorded submit_async throws and changes nothing.
SubmitAsync(p) ==
  /\ PassesGuard(p)
  /\ \/ ~CanSubmit(p) /\ Misuse
     \/ /\ CanSubmit(p)
        /\ signalled' = signalled \ {pipe[p].fence}
        /\ SubmitSucceeds(p) \/ SubmitFails(p)
        /\ UNCHANGED <<pools, fences, builds, host>>

\* The device finishes the oldest submission.
Execute(d) ==
  /\ host # Undefined
  /\ queue[d] # <<>>
  /\ LET s == Head(queue[d])
     IN  /\ cmds' = [cmds EXCEPT ![s.cmd] = "executable"]
         /\ signalled' = signalled \cup {s.fence}
  /\ queue' = [queue EXCEPT ![d] = Tail(@)]
  /\ UNCHANGED <<pipe, pools, fences, builds, host>>

\* vkWaitForFences without a timeout.
Wait(p) ==
  LET f == pipe[p].fence
      d == pipe[p].gpu
      valid == d # NoDevice /\ f # Null /\ fences[f] = d
  IN  /\ Running
      /\ \/ ~valid /\ Misuse
         \/ valid /\ host' = [does |-> "wait", on |-> p] /\ UNCHANGED <<pipe, objects>>

WaitReturns(p) ==
  /\ host = [does |-> "wait", on |-> p]
  /\ pipe[p].fence \in signalled
  /\ host' = Run
  /\ UNCHANGED <<pipe, objects>>

WaitIdle(p) ==
  /\ Running
  /\ \/ pipe[p].gpu = NoDevice /\ Misuse
     \/ /\ pipe[p].gpu # NoDevice
        /\ host' = [does |-> "wait_idle", on |-> p]
        /\ UNCHANGED <<pipe, objects>>

WaitIdleReturns(p) ==
  /\ host = [does |-> "wait_idle", on |-> p]
  /\ queue[pipe[p].gpu] = <<>>
  /\ host' = Run
  /\ UNCHANGED <<pipe, objects>>

-----------------------------------------------------------------------------
\* A destroy() that leaves the fence alive.
FenceNotFreed(p) == Null

\* destroy() frees nothing without a device.
FreedFence(p) == IF pipe[p].gpu = NoDevice THEN Null ELSE pipe[p].fence
FreedPool(p) == IF pipe[p].gpu = NoDevice THEN Null ELSE pipe[p].pool

\* What Vulkan asks of the two calls that free a fence and a command pool.
CanFree(p) ==
  /\ FreedFence(p) # Null => fences[FreedFence(p)] = pipe[p].gpu /\ ~Queued(FreedFence(p))
  /\ FreedPool(p) # Null => pools[FreedPool(p)] = pipe[p].gpu /\ cmds[FreedPool(p)] # "pending"

FreeObjects(p) ==
  /\ fences' = [h \in Handle |-> IF h = FreedFence(p) THEN NoDevice ELSE fences[h]]
  /\ pools' = [h \in Handle |-> IF h = FreedPool(p) THEN NoDevice ELSE pools[h]]
  /\ cmds' = [h \in Handle |-> IF h = FreedPool(p) THEN "freed" ELSE cmds[h]]
  /\ UNCHANGED <<signalled, queue, builds, host>>

\* cmdList and isRecorded stay as they are.
Destroyed(p) ==
  IF pipe[p].gpu = NoDevice THEN pipe[p]
  ELSE [pipe[p] EXCEPT !.fence = Null, !.pool = Null, !.submitted = FALSE]

Destroy(p) ==
  /\ Running
  /\ \/ ~CanFree(p) /\ Misuse
     \/ CanFree(p) /\ FreeObjects(p) /\ pipe' = [pipe EXCEPT ![p] = Destroyed(p)]

\* What a move takes over: everything.  Without cmdList, and without gpu.
TakenWithoutCmd(p, q) == [pipe[q] EXCEPT !.cmd = pipe[p].cmd]
TakenWithoutGpu(p, q) == [pipe[q] EXCEPT !.gpu = pipe[p].gpu]
Taken(p, q) == pipe[q]

\* A move that does not clear cmdPool and fence of its source, or isRecorded.
StillHolding(q) ==
  [pipe[q] EXCEPT !.gpu = NoDevice, !.ready = FALSE, !.isRecorded = FALSE,
                  !.submitted = FALSE]
StillRecorded(q) ==
  [pipe[q] EXCEPT !.gpu = NoDevice, !.ready = FALSE, !.pool = Null, !.fence = Null,
                  !.submitted = FALSE]

\* What a move leaves in the pipeline it was made from: the device pointer, the
\* owning members and the three fields it resets are empty; cmdList and the
\* shader's local sizes are still there.
MovedFrom(q) ==
  [pipe[q] EXCEPT !.gpu = NoDevice, !.ready = FALSE, !.pool = Null, !.fence = Null,
                  !.isRecorded = FALSE, !.submitted = FALSE]

\* Replacing the owning members deletes objects the device must not be using.
ReadyInUse(p) == pipe[p].ready /\ Pending(p)

\* p = std::move(q)
MoveAssign(p, q) ==
  /\ Running
  /\ p # q
  /\ \/ (~CanFree(p) \/ ReadyInUse(p)) /\ Misuse
     \/ /\ CanFree(p) /\ ~ReadyInUse(p)
        /\ FreeObjects(p)
        /\ pipe' = [pipe EXCEPT ![p] = Taken(p, q), ![q] = MovedFrom(q)]

\* A pipeline variable goes out of scope and is defined anew.
Destruct(p) ==
  /\ Running
  /\ \/ (~CanFree(p) \/ ReadyInUse(p)) /\ Misuse
     \/ CanFree(p) /\ ~ReadyInUse(p) /\ FreeObjects(p) /\ pipe' = [pipe EXCEPT ![p] = Default]

-----------------------------------------------------------------------------
Next ==
  \/ \E p \in Pipelines :
       \/ \E d \in Devices \cup {NoDevice} : SetGpu(p, d)
       \/ \E sized \in BOOLEAN : SetShader(p, sized)
       \/ Build(p) \/ Record(p) \/ SubmitAsync(p)
       \/ Wait(p) \/ WaitReturns(p) \/ WaitIdle(p) \/ WaitIdleReturns(p)
       \/ Destroy(p) \/ Destruct(p)
       \/ \E q \in Pipelines : MoveAssign(p, q)
  \/ \E d \in Devices : Execute(d)

\* A device keeps executing, and a wait whose condition stays true returns.
Fairness ==
  /\ \A d \in Devices : WF_vars(Execute(d))
  /\ \A p \in Pipelines : WF_vars(WaitReturns(p) \/ WaitIdleReturns(p))

Spec == Init /\ [][Next]_vars
FairSpec == Spec /\ Fairness

-----------------------------------------------------------------------------
TypeOK ==
  /\ pipe \in [Pipelines -> Pipeline]
  /\ pools \in [Handle -> Devices \cup {NoDevice}]
  /\ fences \in [Handle -> Devices \cup {NoDevice}]
  /\ signalled \subseteq Handle
  /\ cmds \in [Handle -> CmdState]
  /\ queue \in [Devices -> Seq([cmd : Handle, fence : Handle])]
  /\ builds \in 0..MaxBuilds
  /\ host \in Host

\* However often pipelines are moved, rebuilt, half built and destroyed, each
\* command pool and fence a pipeline holds is alive and held by it alone: none
\* is ever freed twice, or used after it was freed (pipeline.cpp:101-137).
HandlesOwnedOnce ==
  \A p \in Pipelines :
    /\ pipe[p].pool # Null => pools[pipe[p].pool] # NoDevice
    /\ pipe[p].fence # Null => fences[pipe[p].fence] # NoDevice
    /\ \A q \in Pipelines \ {p} :
         /\ pipe[p].pool # Null => pipe[q].pool # pipe[p].pool
         /\ pipe[p].fence # Null => pipe[q].fence # pipe[p].fence

\* A move leaves the old pipeline with the command buffer of the new one.  No
\* sequence of calls lets both get past the guard of submit_async with it.
SharedBufferSubmittedByOne ==
  \A p, q \in Pipelines :
    p # q /\ pipe[p].cmd = pipe[q].cmd /\ pipe[p].cmd # Null =>
      ~(pipe[p].isRecorded /\ pipe[q].isRecorded)

\* A pool or fence that is alive and that some pipeline holds.
Held(h, field) == \E p \in Pipelines : pipe[p][field] = h
NothingLost ==
  \A h \in Handle : /\ pools[h] # NoDevice => Held(h, "pool")
                    /\ fences[h] # NoDevice => Held(h, "fence")

HoldsObjects(p) == pipe[p].pool # Null \/ pipe[p].fence # Null

\* Pools and fences get lost only when a pipeline that holds some is built
\* again, or is overwritten or ends while it has no device.
LostOnlyByRebuild ==
  [][NothingLost /\ ~NothingLost' =>
       \E p \in Pipelines : HoldsObjects(p) /\
         \/ Build(p)
         \/ pipe[p].gpu = NoDevice /\ (Destruct(p) \/ \E q \in Pipelines : MoveAssign(p, q))]_vars

\* What a pipeline holds lives on the device it points to.
OnOwnDevice(p) ==
  /\ pipe[p].pool # Null => pools[pipe[p].pool] = pipe[p].gpu
  /\ pipe[p].fence # Null => fences[pipe[p].fence] = pipe[p].gpu

AllOnOwnDevice == \A p \in Pipelines : OnOwnDevice(p)

\* Only set_gpu can make a pipeline free or submit on the wrong device.
WrongDeviceOnlyBySetGpu ==
  [][AllOnOwnDevice /\ ~AllOnOwnDevice' =>
       \E p \in Pipelines, d \in Devices \cup {NoDevice} : SetGpu(p, d)]_vars

\* isRecorded and the state of the command buffer: recorded to the end, with
\* objects that are all still there.
RecordedIsComplete(p) ==
  pipe[p].isRecorded => StateOf(pipe[p].cmd) \in {"executable", "pending"}

AllRecordedComplete == \A p \in Pipelines : RecordedIsComplete(p)

\* isRecorded stops being true of the command buffer only by a build, destroy or
\* throwing record of that same pipeline: never by what happens to another one
\* that has, or had, the same buffer.
RecordedUntilOwnCall ==
  [][\A p \in Pipelines : AllRecordedComplete /\ ~RecordedIsComplete(p)' =>
       Build(p) \/ Destroy(p) \/ (Record(p) /\ RecordThrows(p))]_vars

\* The message of the guard of submit_async is "Call record() before
\* submit_async()" (pipeline.cpp:57): a pipeline that gets past it has a command
\* buffer that was recorded to the end, whatever has become of the objects in it.
GuardMeansRecorded ==
  \A p \in Pipelines : PassesGuard(p) =>
    StateOf(pipe[p].cmd) \in {"executable", "invalid", "pending"}

\* A wait returns when the latest submit_async of the pipeline has returned
\* normally, whatever was called in between.
SubmittedWaitReturns ==
  \A p \in Pipelines :
    host = [does |-> "wait", on |-> p] /\ pipe[p].submitted ~> host = Run
=============================================================================
