--------------------------- MODULE ComputeSession ---------------------------
(***************************************************************************)
(* Buffers, shaders and pipelines at work (buffer.hpp, compute.hpp,        *)
(* pipeline.hpp, pipeline.cpp): what a client reads back when it fills     *)
(* staging buffers, records and submits pipelines on one queue, and waits. *)
(*                                                                         *)
(* Vulkan is external.  Commands of the queue start in any order that the  *)
(* barriers before them allow, also across submissions; a stage sees a     *)
(* write to device memory only after a barrier on that buffer or a fence.  *)
(* A buffer is one cell: sizes are the subject of Dispatch.  The client    *)
(* keeps the rules of Vulkan that ComputePipeline is about, and waits      *)
(* before it touches what the device uses, except as Compatible says.      *)
(***************************************************************************)
EXTENDS SequencesExt

CONSTANTS
  Inputs, Outputs,  \* buffers of type GPU_INPUT and GPU_OUTPUT
  ToGpu, FromGpu,   \* of type STAGING_TO_GPU and STAGING_FROM_GPU
  Null,             \* no buffer
  Pipelines,
  Shaders,          \* the sequences of arguments of set_bindings
  Values, Consts,   \* contents the client writes, push constants
  Unset             \* contents of a buffer nobody wrote, or read too early

OnDevice == Inputs \cup Outputs
Buffers == OnDevice \cup ToGpu \cup FromGpu
Stages == {"transfer", "compute"}

\* Every buffer is of one type.  A shader reads what is bound to 0 and writes what is
\* bound to 1.  The usage flags of buffer.hpp:51-66 let the client stage in only to
\* inputs and out only from outputs; it does not have two buffers staged out to one.
ASSUME SessionAssumption ==
  /\ Inputs \cap Outputs = {} /\ ToGpu \cap FromGpu = {} /\ OnDevice \cap (ToGpu \cup FromGpu) = {}
  /\ Null \notin Buffers
  /\ \A s \in Shaders :
       /\ s \in Seq([id : {0, 1}, gpu : OnDevice, staging : Buffers \cup {Null}])
       /\ Len(s) = 2 /\ s[1].id # s[2].id
       /\ \A i \in 1..2 :
            /\ s[i].id = 1 => s[i].gpu \in Outputs
            /\ s[i].staging \in ToGpu => s[i].gpu \in Inputs
            /\ s[i].staging \in FromGpu => s[i].gpu \in Outputs
       /\ s[1].staging = s[2].staging => s[1].staging \notin FromGpu

VARIABLES
  mem,        \* contents of the buffers
  visible,    \* the stages that see the latest write to a device buffer
  pipe,       \* per pipeline: shader, bind group, recorded commands
  queue,      \* commands submitted and not finished, in submission order
  signalled,  \* the pipelines whose fence is signalled
  inFlight,   \* history: submitted, and the client has not seen the end
  jobs,       \* the jobs whose fence is not signalled, in submission order
  base        \* history: what memory would be had they not started

vars == <<mem, visible, pipe, queue, signalled, inFlight, jobs, base>>
history == <<jobs, base>>

-----------------------------------------------------------------------------
\* set_bindings that takes every staging buffer that is not read back for a source.
BoundBufferUnchecked(args) ==
  [id |-> args.id, gpu |-> args.gpu,
   stagingIn  |-> IF args.staging \in FromGpu THEN Null ELSE args.staging,
   stagingOut |-> IF args.staging \in FromGpu THEN args.staging ELSE Null]

\* set_bindings(id, gpu, staging): a staging buffer of neither staging type is
\* ignored.
BoundBuffer(args) ==
  [id  |-> args.id, gpu |-> args.gpu,
   stagingIn  |-> IF args.staging \in ToGpu THEN args.staging ELSE Null,
   stagingOut |-> IF args.staging \in FromGpu THEN args.staging ELSE Null]

BoundBuffers(s) == [i \in DOMAIN s |-> BoundBuffer(s[i])]

\* The bind group build() makes, by binding of the shader: 0 is read, 1 written.
BindGroup(bound) ==
  [id \in {0, 1} |-> bound[CHOOSE i \in DOMAIN bound : bound[i].id = id].gpu]

Copy(from, to) == [op |-> "copy", from |-> from, to |-> to]
Barrier(b, src, dst) == [op |-> "barrier", on |-> b, src |-> src, dst |-> dst]
Dispatch(bg, c) == [op |-> "dispatch", in |-> bg[0], out |-> bg[1], const |-> c]

\* The three parts of record().
StageIn(bound) ==
  FlattenSeq([i \in DOMAIN bound |->
    IF bound[i].stagingIn = Null THEN <<>>
    ELSE <<Copy(bound[i].stagingIn, bound[i].gpu),
           Barrier(bound[i].gpu, "transfer", "compute")>>])

StageOut(bound) ==
  FlattenSeq([i \in DOMAIN bound |->
    IF bound[i].stagingOut = Null THEN <<>>
    ELSE <<Barrier(bound[i].gpu, "compute", "transfer"),
           Copy(bound[i].gpu, bound[i].stagingOut)>>])

\* record() without the barriers of the inputs.
CommandsUnordered(bound, bg, c) ==
  SelectSeq(StageIn(bound), LAMBDA e : e.op = "copy") \o <<Dispatch(bg, c)>> \o StageOut(bound)

Commands(bound, bg, c) == StageIn(bound) \o <<Dispatch(bg, c)>> \o StageOut(bound)

\* What the same recording promises, for the abstract specification.
JobOf(s, c) ==
  LET bound == BoundBuffers(s)
      Is == DOMAIN bound
  IN  [load  |-> {<<bound[i].stagingIn, bound[i].gpu>> : i \in {k \in Is : bound[k].stagingIn # Null}},
       store |-> {<<bound[i].gpu, bound[i].stagingOut>> : i \in {k \in Is : bound[k].stagingOut # Null}},
       in    |-> BindGroup(bound)[0], out |-> BindGroup(bound)[1], const |-> c]

AllJobs == {JobOf(s, c) : s \in Shaders, c \in Consts}

\* What a job writes and reads.
Writes(j) == {p[2] : p \in j.load \cup j.store} \cup {j.out}
Reads(j) == {p[1] : p \in j.load \cup j.store} \cup {j.in}

Independent(j, k) ==
  /\ Writes(j) \cap (Reads(k) \cup Writes(k)) = {}
  /\ Writes(k) \cap Reads(j) = {}

\* Two jobs on the same device buffers, each with staging buffers of its own.
DoubleBuffered(j, k) ==
  /\ j.in = k.in /\ j.out = k.out
  /\ \A l \in {j, k} : (\E p \in l.load : p[2] = l.in) /\ (\E p \in l.store : p[1] = l.out)
  /\ {p[2] : p \in j.store} \cap {p[2] : p \in k.store} = {}

\* What the client may have in flight at the same time.
Compatible(j, k) == Independent(j, k) \/ DoubleBuffered(j, k)

-----------------------------------------------------------------------------
Init ==
  /\ mem = [b \in Buffers |-> Unset]
  /\ visible = [b \in OnDevice |-> Stages]
  /\ pipe = [p \in Pipelines |-> [shader |-> <<>>, bg |-> <<>>, job |-> <<>>, recorded |-> <<>>]]
  /\ queue = <<>>
  /\ signalled = {}
  /\ inFlight = {}
  /\ base = mem
  /\ jobs = <<>>

\* Buffer::fill.  The type check throws for all other buffers.
Fill(b, v) ==
  /\ b \in ToGpu
  /\ \A p \in inFlight : b \notin Reads(pipe[p].job)
  /\ mem' = [mem EXCEPT ![b] = v]
  /\ base' = [base EXCEPT ![b] = v]
  /\ UNCHANGED <<visible, pipe, queue, signalled, inFlight, jobs>>

\* Buffer::fetch, which changes nothing.
Fetch(b) == mem[b]

\* set_shader copies the shader: ComputeShader has no move assignment.
SetShader(p, s) ==
  /\ pipe' = [pipe EXCEPT ![p].shader = s]
  /\ UNCHANGED <<mem, visible, queue, signalled, inFlight, history>>

\* A new bind group, command list and fence.
Build(p) ==
  /\ p \notin inFlight
  /\ pipe[p].shader # <<>>
  /\ pipe' = [pipe EXCEPT ![p].bg = BindGroup(BoundBuffers(pipe[p].shader)),
                          ![p].recorded = <<>>, ![p].job = <<>>]
  /\ signalled' = signalled \ {p}
  /\ UNCHANGED <<mem, visible, queue, inFlight, history>>

\* The client builds after set_shader: the copies come from the shader, the
\* dispatch from the bind group.
Record(p, c) ==
  LET bound == BoundBuffers(pipe[p].shader)
  IN  /\ p \notin inFlight
      /\ pipe[p].bg # <<>> /\ pipe[p].bg = BindGroup(bound)
      /\ pipe' = [pipe EXCEPT ![p].recorded = Commands(bound, pipe[p].bg, c),
                              ![p].job = JobOf(pipe[p].shader, c)]
      /\ UNCHANGED <<mem, visible, queue, signalled, inFlight, history>>

Signal(p) == [op |-> "signal", fence |-> p]

SubmitAsync(p) ==
  /\ p \notin inFlight
  /\ pipe[p].recorded # <<>>
  /\ \A q \in inFlight : Compatible(pipe[p].job, pipe[q].job)
  /\ queue' = queue \o pipe[p].recorded \o <<Signal(p)>>
  /\ signalled' = signalled \ {p}
  /\ inFlight' = inFlight \cup {p}
  /\ jobs' = Append(jobs, pipe[p].job)
  /\ UNCHANGED <<mem, visible, pipe, base>>

\* wait() that does not wait.
WaitNot(p) ==
  /\ p \in inFlight
  /\ inFlight' = inFlight \ {p}
  /\ UNCHANGED <<mem, visible, pipe, queue, signalled, history>>

\* wait() returns.
Wait(p) ==
  /\ p \in inFlight /\ p \in signalled
  /\ inFlight' = inFlight \ {p}
  /\ UNCHANGED <<mem, visible, pipe, queue, signalled, history>>

-----------------------------------------------------------------------------
\* The stage an entry of the queue works in, or blocks until it is finished.
EndsIn(e) == CASE e.op = "copy" -> "transfer" [] e.op = "dispatch" -> "compute"
               [] e.op = "barrier" -> e.dst [] e.op = "signal" -> "none"

\* The earlier entry e must finish before f starts.
Before(e, f) ==
  \/ f.op = "signal"
  \/ f.op = "barrier" /\ EndsIn(e) = f.src
  \/ f.op \in {"copy", "dispatch"} /\ e.op = "barrier" /\ EndsIn(e) = EndsIn(f)

MayStart(i) == \A k \in 1..(i - 1) : ~Before(queue[k], queue[i])

\* What a stage reads: staging memory is coherent.
Read(b, stage) == IF b \in OnDevice /\ stage \notin visible[b] THEN Unset ELSE mem[b]

\* Inputs are written by transfers, outputs by shaders: all their usage allows.
WrittenIn(b) == IF b \in Inputs THEN "transfer" ELSE "compute"

Unseen(b) == [c \in OnDevice |-> IF c = b THEN {} ELSE visible[c]]

\* After a fence all stages see what its submission, the oldest, wrote, unless a
\* later one that is not done writes there as well.
SeenAfter == Writes(Head(jobs)) \ UNION {Writes(jobs[i]) : i \in 2..Len(jobs)}

Effect(e) ==
  \/ /\ e.op = "copy"
     /\ mem' = [mem EXCEPT ![e.to] = Read(e.from, "transfer")]
     /\ visible' = Unseen(e.to)
     /\ UNCHANGED signalled
  \/ /\ e.op = "dispatch"
     /\ mem' = [mem EXCEPT ![e.out] = <<Read(e.in, "compute"), e.const>>]
     /\ visible' = Unseen(e.out)
     /\ UNCHANGED signalled
  \/ /\ e.op = "barrier"
     /\ visible' = [visible EXCEPT ![e.on] = IF WrittenIn(e.on) = e.src THEN @ \cup {e.dst} ELSE @]
     /\ UNCHANGED <<mem, signalled>>
  \/ /\ e.op = "signal"
     /\ signalled' = signalled \cup {e.fence}
     /\ visible' = [b \in OnDevice |-> IF b \in SeenAfter THEN Stages ELSE visible[b]]
     /\ UNCHANGED mem

\* What a client of the jobs sees: what no job in flight writes.
Contents ==
  [b \in Buffers |-> IF \E i \in DOMAIN jobs : b \in Writes(jobs[i]) THEN base[b] ELSE mem[b]]

Jobs == INSTANCE ComputeJobs WITH
  contents <- Contents,
  Fillable <- ToGpu,
  Jobs <- AllJobs

\* The device finishes one command; with a signal, the oldest job is done.
Execute ==
  \E i \in DOMAIN queue :
    /\ MayStart(i)
    /\ Effect(queue[i])
    /\ queue' = RemoveAt(queue, i)
    /\ IF queue[i].op = "signal"
       THEN jobs' = Tail(jobs) /\ base' = Jobs!Effect(Head(jobs), base)
       ELSE UNCHANGED history
    /\ UNCHANGED <<pipe, inFlight>>

Next ==
  \/ \E b \in Buffers, v \in Values : Fill(b, v)
  \/ \E p \in Pipelines :
       \/ \E s \in Shaders : SetShader(p, s)
       \/ \E c \in Consts : Record(p, c)
       \/ Build(p) \/ SubmitAsync(p) \/ Wait(p)
  \/ Execute

Spec == Init /\ [][Next]_vars

-----------------------------------------------------------------------------
Entry ==
  [op : {"copy"}, from : ToGpu \cup Outputs, to : Inputs \cup FromGpu]
    \cup [op : {"barrier"}, on : OnDevice, src : Stages, dst : Stages]
    \cup [op : {"dispatch"}, in : OnDevice, out : Outputs, const : Consts]
    \cup [op : {"signal"}, fence : Pipelines]

TypeOK ==
  /\ DOMAIN mem = Buffers
  /\ visible \in [OnDevice -> SUBSET Stages]
  /\ \A p \in Pipelines : pipe[p].shader \in Shaders \cup {<<>>}
  /\ \A i \in DOMAIN queue : queue[i] \in Entry
  /\ signalled \subseteq Pipelines /\ inFlight \subseteq Pipelines

\* Whatever order the device chooses, also across submissions, what no job in
\* flight writes is what running the jobs one after the other leaves there: the
\* barriers of record (pipeline.hpp:38-74) are enough.
RunsJobsInOrder == Jobs!Spec

\* fetch (buffer.hpp:38-44) after wait returns the result of the job waited for,
\* while other jobs are still running.
FetchAfterWait ==
  \A b \in FromGpu :
    (\A p \in inFlight : b \notin Writes(pipe[p].job)) =>
      Fetch(b) = base[b]
=============================================================================
