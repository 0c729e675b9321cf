------------------------ MODULE ComputeSessionProofs ------------------------
(***************************************************************************)
(* ComputeSession implements ComputeJobs, for any buffers, shaders and     *)
(* number of pipelines: the barriers of record are enough, whatever order  *)
(* the device chooses.                                                     *)
(*                                                                         *)
(* The submissions are numbered; `work' gives, for a number, the shader,   *)
(* the constants and the pipeline that were submitted, and `done' is the   *)
(* number of jobs that are done.  A slot <<n, i>> is the i-th command of   *)
(* submission n, and `slots' are those of the queue.  None of this is in   *)
(* the state: the inductive invariant says that there are such.            *)
(***************************************************************************)
EXTENDS ComputeSession, TLAPS

-----------------------------------------------------------------------------
(* What is submitted. *)

Work == [shader : Shaders, const : Consts, pipe : Pipelines]
Works == [Nat -> Work \cup {<<>>}]

Bound(w) == BoundBuffers(w.shader)
Job(w) == JobOf(w.shader, w.const)

\* The buffers it reads and writes; what it loads the first of them from; and what
\* it stores, in the order of the bindings, and where.
In(w) == BindGroup(Bound(w))[0]
Out(w) == BindGroup(Bound(w))[1]
Source(w) == Bound(w)[CHOOSE i \in 1..2 : Bound(w)[i].id = 0].stagingIn
From(w, j) == Bound(w)[j].gpu
To(w, j) == Bound(w)[j].stagingOut

\* The commands of a submission; some are only there if there is something to load
\* or to store.
Command(w, i) ==
  CASE i = 1 -> Copy(Source(w), In(w))
    [] i = 2 -> Barrier(In(w), "transfer", "compute")
    [] i = 3 -> [op |-> "dispatch", in |-> In(w), out |-> Out(w), const |-> w.const]
    [] i = 4 -> Barrier(From(w, 1), "compute", "transfer")
    [] i = 5 -> Copy(From(w, 1), To(w, 1))
    [] i = 6 -> Barrier(From(w, 2), "compute", "transfer")
    [] i = 7 -> Copy(From(w, 2), To(w, 2))
    [] i = 8 -> Signal(w.pipe)

Loads(w) == Source(w) # Null
Stores(w, j) == To(w, j) # Null
BarrierOf(j) == 2 + 2 * j
StoreOf(j) == 3 + 2 * j

Has(w) ==
  {i \in 1..8 : /\ i \in {1, 2} => Loads(w)
                /\ i \in {4, 5} => Stores(w, 1)
                /\ i \in {6, 7} => Stores(w, 2)}

Slots == Nat \X (1..8)
Precedes(a, b) == a[1] < b[1] \/ (a[1] = b[1] /\ a[2] < b[2])

-----------------------------------------------------------------------------
(* The inductive invariant. *)

\* The numbers of the jobs that are not done.
Live(done) == (done + 1)..(done + Len(jobs))

\* The slots S, in order, are what seq is made of.
Lists(seq, slots, S, work) ==
  /\ Len(slots) = Len(seq)
  /\ \A k \in 1..Len(seq) : slots[k] \in S /\ seq[k] = Command(work[slots[k][1]], slots[k][2])
  /\ \A s \in S : \E k \in 1..Len(seq) : slots[k] = s
  /\ \A k, l \in 1..Len(seq) : k < l => Precedes(slots[k], slots[l])

\* A command that may not start before another is finished is in the queue as long
\* as the other.
Ordered(L, work, S) ==
  \A n, m \in L : \A i \in Has(work[n]), k \in Has(work[m]) :
    /\ Precedes(<<n, i>>, <<m, k>>)
    /\ Before(Command(work[n], i), Command(work[m], k))
    /\ <<n, i>> \in S
    => <<m, k>> \in S

SlotsOK(L, work, S) ==
  /\ \A s \in S : s \in L \X (1..8) /\ s[2] \in Has(work[s[1]])
  /\ \A n \in L : <<n, 8>> \in S
  /\ Ordered(L, work, S)

\* The pipelines of the live jobs; the client has let them in together.
LiveOK(L, done, work) ==
  /\ \A n \in L :
       /\ work[n] \in Work /\ jobs[n - done] = Job(work[n])
       /\ work[n].pipe \in inFlight \ signalled
       /\ pipe[work[n].pipe].job = Job(work[n])
  /\ \A n, m \in L : n # m =>
       work[n].pipe # work[m].pipe /\ Compatible(Job(work[n]), Job(work[m]))

Untouched(b, L, work) == \A n \in L : b \notin Writes(Job(work[n]))

\* Where no live job writes, memory is what the jobs done have left, and is seen.
RestOK(L, work) ==
  /\ \A b \in Buffers : Untouched(b, L, work) => mem[b] = base[b]
  /\ \A b \in OnDevice : Untouched(b, L, work) => visible[b] = Stages

\* A live job has loaded, and no later one has loaded over it.
Loaded(n, L, work, S) ==
  LET w == work[n]
  IN  Loads(w) /\ <<n, 1>> \notin S /\ (\A m \in L : m > n /\ In(work[m]) = In(w) => <<m, 1>> \in S) =>
        mem[In(w)] = base[Source(w)]

LoadSeen(n, work, S) ==
  LET w == work[n]
  IN  Loads(w) /\ <<n, 2>> \notin S /\ <<n, 3>> \in S => "compute" \in visible[In(w)]

\* What it reads without having loaded it is left to it by the jobs done.
InputKept(n, work, S) ==
  LET w == work[n]
  IN  ~Loads(w) /\ <<n, 3>> \in S => mem[In(w)] = base[In(w)] /\ visible[In(w)] = Stages

Input(w) == base[IF Loads(w) THEN Source(w) ELSE In(w)]
Result(w) == <<Input(w), w.const>>

Computed(n, L, work, S) ==
  LET w == work[n]
  IN  <<n, 3>> \notin S /\ (\A m \in L : m > n /\ Out(work[m]) = Out(w) => <<m, 3>> \in S) =>
        mem[Out(w)] = Result(w)

StoreSeen(n, work, S) ==
  LET w == work[n]
  IN  \A j \in 1..2 :
        Stores(w, j) /\ From(w, j) = Out(w) /\ <<n, BarrierOf(j)>> \notin S /\ <<n, StoreOf(j)>> \in S =>
          "transfer" \in visible[Out(w)]

Stored(n, work, S) ==
  LET w == work[n]
  IN  \A j \in 1..2 :
        Stores(w, j) /\ <<n, StoreOf(j)>> \notin S =>
          mem[To(w, j)] = IF From(w, j) = Out(w) THEN Result(w) ELSE base[From(w, j)]

MemOK(L, work, S) ==
  /\ RestOK(L, work)
  /\ \A n \in L : /\ Loaded(n, L, work, S) /\ LoadSeen(n, work, S) /\ InputKept(n, work, S)
                  /\ Computed(n, L, work, S) /\ StoreSeen(n, work, S) /\ Stored(n, work, S)

\* What build and record have left in the pipelines.
PipesOK ==
  \A p \in Pipelines :
    /\ pipe[p].shader \in Shaders \cup {<<>>}
    /\ pipe[p].bg # <<>> => pipe[p].shader \in Shaders
    /\ pipe[p].recorded # <<>> =>
         \E s \in Shaders, c \in Consts :
           /\ pipe[p].recorded = Commands(BoundBuffers(s), BindGroup(BoundBuffers(s)), c)
           /\ pipe[p].job = JobOf(s, c)

StateOK ==
  /\ mem = [b \in Buffers |-> mem[b]] /\ base = [b \in Buffers |-> base[b]]
  /\ visible \in [OnDevice -> SUBSET Stages]
  /\ pipe = [p \in Pipelines |->
       [shader |-> pipe[p].shader, bg |-> pipe[p].bg, job |-> pipe[p].job, recorded |-> pipe[p].recorded]]
  /\ jobs \in Seq(AllJobs)
  /\ signalled \subseteq Pipelines /\ inFlight \subseteq Pipelines

Inv(done, work, slots, S) ==
  LET L == Live(done)
  IN  /\ Lists(queue, slots, S, work) /\ SlotsOK(L, work, S)
      /\ LiveOK(L, done, work) /\ MemOK(L, work, S)

IInv ==
  /\ StateOK /\ PipesOK
  /\ queue \in Seq(Entry)
  /\ \E done \in Nat, work \in Works, slots \in Seq(Slots) :
       Inv(done, work, slots, {slots[k] : k \in 1..Len(slots)})

-----------------------------------------------------------------------------
(* Works and their commands. *)

LEMMA FlattenPair ==
  ASSUME NEW T, NEW s \in Seq(Seq(T)), Len(s) = 2
  PROVE  FlattenSeq(s) = s[1] \o s[2]
<1> DEFINE body(f) == [i \in 1..Len(s) |-> IF i = 1 THEN s[i] ELSE f[i - 1] \o s[i]]
           flatten == CHOOSE f : f = body(f)
           witness == [i \in 1..2 |-> IF i = 1 THEN s[1] ELSE s[1] \o s[2]]
<1>1. witness = body(witness)
  OBVIOUS
<1>2. flatten = body(flatten)
  <2> HIDE DEF witness, body
  <2> QED
    BY <1>1
<1> HIDE DEF flatten
<1>3. flatten[1] = s[1] /\ flatten[2] = s[1] \o s[2]
  BY <1>2
<1>4. FlattenSeq(s) = flatten[Len(s)]
  BY DEF FlattenSeq, flatten
<1> QED
  BY <1>3, <1>4

Buffered == [id : {0, 1}, gpu : OnDevice, stagingIn : ToGpu \cup {Null}, stagingOut : FromGpu \cup {Null}]

\* The bindings of a shader, one of which is read and one written.
LEMMA BoundFacts ==
  ASSUME NEW s \in Shaders
  PROVE  /\ BoundBuffers(s) \in [1..2 -> Buffered] /\ DOMAIN BoundBuffers(s) = 1..2
         /\ BoundBuffers(s)[1].id # BoundBuffers(s)[2].id
         /\ \A i \in 1..2 : LET b == BoundBuffers(s)[i] IN
              /\ b.id = 1 => b.gpu \in Outputs
              /\ b.stagingIn # Null => b.gpu \in Inputs
              /\ b.stagingOut # Null => b.gpu \in Outputs
         /\ BoundBuffers(s)[1].stagingOut = BoundBuffers(s)[2].stagingOut =>
              BoundBuffers(s)[1].stagingOut = Null
<1>1. /\ s \in Seq([id : {0, 1}, gpu : OnDevice, staging : Buffers \cup {Null}])
      /\ Len(s) = 2 /\ DOMAIN s = 1..2 /\ s[1].id # s[2].id
      /\ \A i \in 1..2 :
            /\ s[i].id = 1 => s[i].gpu \in Outputs
            /\ s[i].staging \in ToGpu => s[i].gpu \in Inputs
            /\ s[i].staging \in FromGpu => s[i].gpu \in Outputs
      /\ s[1].staging = s[2].staging => s[1].staging \notin FromGpu
      /\ \A i \in 1..2 : s[i] \in [id : {0, 1}, gpu : OnDevice, staging : Buffers \cup {Null}]
  <2> DEFINE Args == [id : {0, 1}, gpu : OnDevice, staging : Buffers \cup {Null}]
  <2>1. s \in Seq(Args) /\ Len(s) = 2
    BY SessionAssumption
  <2>2. DOMAIN s = 1..2 /\ \A i \in 1..2 : s[i] \in Args
    <3> HIDE DEF Args
    <3> QED
      BY <2>1
  <2> HIDE DEF Args
  <2> QED
    BY <2>1, <2>2, SessionAssumption DEF Args
<1>2. \A i \in 1..2 : s[i] \in [id : {0, 1}, gpu : OnDevice, staging : Buffers \cup {Null}]
  BY <1>1
<1>3. BoundBuffers(s) = [i \in 1..2 |-> BoundBuffer(s[i])]
  BY <1>1 DEF BoundBuffers
<1>4. \A i \in 1..2 : BoundBuffers(s)[i] \in Buffered
  BY <1>2, <1>3 DEF BoundBuffer, Buffered
<1>5. \A i \in 1..2 :
        /\ BoundBuffers(s)[i].id = s[i].id /\ BoundBuffers(s)[i].gpu = s[i].gpu
        /\ BoundBuffers(s)[i].stagingIn = IF s[i].staging \in ToGpu THEN s[i].staging ELSE Null
        /\ BoundBuffers(s)[i].stagingOut = IF s[i].staging \in FromGpu THEN s[i].staging ELSE Null
  BY <1>3 DEF BoundBuffer
<1> QED
  BY <1>1, <1>3, <1>4, <1>5, SessionAssumption

LEMMA WorkFacts ==
  ASSUME NEW w \in Work
  PROVE  /\ In(w) \in OnDevice /\ Out(w) \in Outputs
         /\ Source(w) \in ToGpu \cup {Null} /\ (Loads(w) => In(w) \in Inputs)
         /\ \A j \in 1..2 : /\ From(w, j) \in {In(w), Out(w)} /\ To(w, j) \in FromGpu \cup {Null}
                            /\ Stores(w, j) => From(w, j) \in Outputs
         /\ To(w, 1) = To(w, 2) => To(w, 1) = Null
         /\ Job(w) = [load  |-> IF Loads(w) THEN {<<Source(w), In(w)>>} ELSE {},
                      store |-> {<<From(w, j), To(w, j)>> : j \in {k \in 1..2 : Stores(w, k)}},
                      in |-> In(w), out |-> Out(w), const |-> w.const]
<1> DEFINE b == Bound(w)
<1>1. w.shader \in Shaders /\ b = BoundBuffers(w.shader)
  BY DEF Work, Bound
<1>2. /\ b \in [1..2 -> Buffered] /\ DOMAIN b = 1..2 /\ b[1].id # b[2].id
      /\ \A i \in 1..2 : /\ b[i].id = 1 => b[i].gpu \in Outputs
                         /\ b[i].stagingIn # Null => b[i].gpu \in Inputs
                         /\ b[i].stagingOut # Null => b[i].gpu \in Outputs
      /\ b[1].stagingOut = b[2].stagingOut => b[1].stagingOut = Null
  BY <1>1, BoundFacts
<1>3. \A i \in 1..2 : /\ b[i].id \in {0, 1} /\ b[i].gpu \in OnDevice
                      /\ b[i].stagingIn \in ToGpu \cup {Null} /\ b[i].stagingOut \in FromGpu \cup {Null}
  BY <1>2 DEF Buffered
<1>4. PICK r \in 1..2 : b[r].id = 0 /\ r = CHOOSE i \in 1..2 : b[i].id = 0
  BY <1>2, <1>3
<1>5. PICK o \in 1..2 : b[o].id = 1 /\ o = CHOOSE i \in 1..2 : b[i].id = 1
  BY <1>2, <1>3
<1>6. /\ In(w) = b[r].gpu /\ Out(w) = b[o].gpu /\ Source(w) = b[r].stagingIn
      /\ \A j \in 1..2 : From(w, j) = b[j].gpu /\ To(w, j) = b[j].stagingOut
  BY <1>2, <1>4, <1>5 DEF In, Out, Source, BindGroup, From, To
<1>7. {r, o} = 1..2 /\ b[o].stagingIn = Null
  <2>1. b[o].gpu \notin Inputs
    BY <1>2, <1>5, SessionAssumption
  <2>2. b[o].stagingIn = Null
    BY <1>2, <2>1
  <2>3. {r, o} = 1..2
    <3>1. r # o
      <4>1. b[r].id = 0 /\ b[o].id = 1
        BY <1>4, <1>5
      <4> HIDE DEF b
      <4> QED
        BY <4>1
    <3>2. 1..2 = {1, 2}
      OBVIOUS
    <3>3. r \in {1, 2} /\ o \in {1, 2}
      BY <3>2
    <3> QED
      BY <3>1, <3>2, <3>3
  <2> QED
    BY <2>2, <2>3
<1>8. {<<b[i].stagingIn, b[i].gpu>> : i \in {k \in DOMAIN b : b[k].stagingIn # Null}}
        = IF Loads(w) THEN {<<Source(w), In(w)>>} ELSE {}
  BY <1>2, <1>6, <1>7 DEF Loads
<1>9. {<<b[i].gpu, b[i].stagingOut>> : i \in {k \in DOMAIN b : b[k].stagingOut # Null}}
        = {<<From(w, j), To(w, j)>> : j \in {k \in 1..2 : Stores(w, k)}}
  BY <1>2, <1>6 DEF Stores
<1>10. Job(w) = [load  |-> IF Loads(w) THEN {<<Source(w), In(w)>>} ELSE {},
                 store |-> {<<From(w, j), To(w, j)>> : j \in {k \in 1..2 : Stores(w, k)}},
                 in |-> In(w), out |-> Out(w), const |-> w.const]
  BY <1>1, <1>8, <1>9 DEF Job, JobOf, In, Out
<1>11. \A j \in 1..2 : From(w, j) \in {In(w), Out(w)}
  BY <1>6, <1>7
<1> HIDE DEF b
<1>12. In(w) \in OnDevice /\ Out(w) \in Outputs
  BY <1>2, <1>3, <1>5, <1>6
<1>13. Source(w) \in ToGpu \cup {Null} /\ (Loads(w) => In(w) \in Inputs)
  BY <1>2, <1>3, <1>6 DEF Loads
<1>14. \A j \in 1..2 : To(w, j) \in FromGpu \cup {Null} /\ (Stores(w, j) => From(w, j) \in Outputs)
  BY <1>2, <1>3, <1>6 DEF Stores
<1>15. To(w, 1) = To(w, 2) => To(w, 1) = Null
  BY <1>2, <1>6
<1> QED
  BY <1>10, <1>11, <1>12, <1>13, <1>14, <1>15

LEMMA ShortSequences ==
  ASSUME NEW T, NEW a \in T, NEW b \in T
  PROVE  <<>> \in Seq(T) /\ <<a>> \in Seq(T) /\ <<a, b>> \in Seq(T)
OBVIOUS

LEMMA FunctionIsSequence ==
  ASSUME NEW T, NEW n \in Nat, NEW f \in [1..n -> T]
  PROVE  f \in Seq(T) /\ Len(f) = n
OBVIOUS

LEMMA EmptyConcat ==
  ASSUME NEW T, NEW q \in Seq(T)
  PROVE  q \o <<>> = q /\ <<>> \o q = q
OBVIOUS

\* record, in terms of the two bindings.
LEMMA CommandsOfWork ==
  ASSUME NEW w \in Work
  PROVE  Commands(Bound(w), BindGroup(Bound(w)), w.const) =
           (IF Loads(w) THEN <<Command(w, 1), Command(w, 2)>> ELSE <<>>)
             \o <<Command(w, 3)>>
             \o ((IF Stores(w, 1) THEN <<Command(w, 4), Command(w, 5)>> ELSE <<>>)
                   \o (IF Stores(w, 2) THEN <<Command(w, 6), Command(w, 7)>> ELSE <<>>))
<1> DEFINE b == Bound(w)
           C == {Command(w, i) : i \in 1..8}
           ins == [i \in DOMAIN b |->
                     IF b[i].stagingIn = Null THEN <<>>
                     ELSE <<Copy(b[i].stagingIn, b[i].gpu), Barrier(b[i].gpu, "transfer", "compute")>>]
           outs == [i \in DOMAIN b |->
                     IF b[i].stagingOut = Null THEN <<>>
                     ELSE <<Barrier(b[i].gpu, "compute", "transfer"), Copy(b[i].gpu, b[i].stagingOut)>>]
<1>1. w.shader \in Shaders /\ b = BoundBuffers(w.shader)
  BY DEF Work, Bound
<1>2. /\ b \in [1..2 -> Buffered] /\ DOMAIN b = 1..2 /\ b[1].id # b[2].id
      /\ \A i \in 1..2 : /\ b[i].id \in {0, 1}
                         /\ b[i].id = 1 => b[i].stagingIn = Null
  <2>1. /\ b \in [1..2 -> Buffered] /\ DOMAIN b = 1..2 /\ b[1].id # b[2].id
        /\ \A i \in 1..2 : /\ b[i].id = 1 => b[i].gpu \in Outputs
                           /\ b[i].stagingIn # Null => b[i].gpu \in Inputs
    BY <1>1, BoundFacts
  <2>2. \A i \in 1..2 : b[i].id \in {0, 1}
    BY <2>1 DEF Buffered
  <2> HIDE DEF b
  <2> QED
    BY <2>1, <2>2, SessionAssumption
<1>3. /\ Command(w, 1) = Copy(Source(w), In(w)) /\ Command(w, 2) = Barrier(In(w), "transfer", "compute")
      /\ Command(w, 3) = Dispatch(BindGroup(b), w.const)
      /\ Command(w, 4) = Barrier(From(w, 1), "compute", "transfer")
      /\ Command(w, 5) = Copy(From(w, 1), To(w, 1))
      /\ Command(w, 6) = Barrier(From(w, 2), "compute", "transfer")
      /\ Command(w, 7) = Copy(From(w, 2), To(w, 2))
  BY DEF Command, Dispatch, In, Out
<1>4. \A i \in 1..8 : Command(w, i) \in C
  OBVIOUS
<1>5. \A j \in 1..2 : From(w, j) = b[j].gpu /\ To(w, j) = b[j].stagingOut
  BY DEF From, To
<1>6. PICK r \in 1..2 : b[r].id = 0 /\ r = CHOOSE i \in 1..2 : b[i].id = 0
  BY <1>2
<1>7. In(w) = b[r].gpu /\ Source(w) = b[r].stagingIn
  BY <1>2, <1>6 DEF In, Source, BindGroup
<1> HIDE DEF b, C
<1>8. /\ ins[r] = IF Loads(w) THEN <<Command(w, 1), Command(w, 2)>> ELSE <<>>
      /\ \A i \in 1..2 : i # r => ins[i] = <<>>
  <2>1. \A i \in 1..2 : i # r => b[i].stagingIn = Null
    BY <1>2, <1>6
  <2> QED
    BY <1>2, <1>3, <1>7, <2>1 DEF Loads
<1>9. /\ outs[1] = IF Stores(w, 1) THEN <<Command(w, 4), Command(w, 5)>> ELSE <<>>
      /\ outs[2] = IF Stores(w, 2) THEN <<Command(w, 6), Command(w, 7)>> ELSE <<>>
  BY <1>2, <1>3, <1>5 DEF Stores
<1>10. ins[1] \in Seq(C) /\ ins[2] \in Seq(C) /\ ins \in Seq(Seq(C)) /\ Len(ins) = 2 /\ outs \in Seq(Seq(C)) /\ Len(outs) = 2
  <2>1. DOMAIN ins = 1..2 /\ DOMAIN outs = 1..2
    BY <1>2
  <2>2. /\ <<>> \in Seq(C) /\ <<Command(w, 1), Command(w, 2)>> \in Seq(C)
        /\ <<Command(w, 4), Command(w, 5)>> \in Seq(C) /\ <<Command(w, 6), Command(w, 7)>> \in Seq(C)
    BY <1>4, ShortSequences
  <2>3. \A i \in 1..2 : ins[i] \in Seq(C)
    <3> HIDE DEF ins
    <3> QED
      BY <1>8, <2>2
  <2>4. \A i \in 1..2 : outs[i] \in Seq(C)
    <3>1. outs[1] \in Seq(C) /\ outs[2] \in Seq(C)
      <4> HIDE DEF outs
      <4> QED
        BY <1>9, <2>2
    <3> HIDE DEF outs
    <3> QED
      BY <3>1
  <2>5. ins = [i \in 1..2 |-> ins[i]] /\ outs = [i \in 1..2 |-> outs[i]]
    BY <1>2
  <2> HIDE DEF ins, outs
  <2>6. ins \in [1..2 -> Seq(C)] /\ outs \in [1..2 -> Seq(C)]
    BY <2>3, <2>4, <2>5
  <2> QED
    <3>1. ins \in Seq(Seq(C)) /\ Len(ins) = 2
      BY <2>6, FunctionIsSequence
    <3>2. outs \in Seq(Seq(C)) /\ Len(outs) = 2
      BY <2>6, FunctionIsSequence
    <3>3. ins[1] \in Seq(C) /\ ins[2] \in Seq(C)
      BY <2>3
    <3> QED
      BY <3>1, <3>2, <3>3
<1>11. StageIn(b) = ins[1] \o ins[2] /\ StageOut(b) = outs[1] \o outs[2]
  <2>1. StageIn(b) = FlattenSeq(ins) /\ StageOut(b) = FlattenSeq(outs)
    BY DEF StageIn, StageOut
  <2> HIDE DEF ins, outs
  <2> QED
    BY <1>10, <2>1, FlattenPair
<1>12. StageIn(b) = IF Loads(w) THEN <<Command(w, 1), Command(w, 2)>> ELSE <<>>
  <2>1. ins[1] \o ins[2] = ins[r]
    <3> HIDE DEF ins
    <3>1. ins[1] \in Seq(C) /\ ins[2] \in Seq(C) /\ (r = 1 \/ r = 2)
      <4>1. \A i \in 1..2 : i = 1 \/ i = 2
        OBVIOUS
      <4> QED
        BY <1>10, <4>1
    <3>2. CASE r = 1
      <4>1. ins[2] = <<>>
        BY <1>8, <3>2
      <4> QED
        BY <3>1, <3>2, <4>1, EmptyConcat
    <3>3. CASE r = 2
      <4>1. ins[1] = <<>>
        BY <1>8, <3>3
      <4> QED
        BY <3>1, <3>3, <4>1, EmptyConcat
    <3> QED
      BY <3>1, <3>2, <3>3
  <2>2. StageIn(b) = ins[r]
    BY <1>11, <2>1
  <2> HIDE DEF ins
  <2> QED
    BY <1>8, <2>2
<1> QED
  BY <1>3, <1>9, <1>11, <1>12 DEF Commands, b

-----------------------------------------------------------------------------
(* Sequences of slots. *)

LEMMA ConcatElements ==
  ASSUME NEW T, NEW q \in Seq(T), NEW r \in Seq(T)
  PROVE  /\ q \o r \in Seq(T) /\ Len(q \o r) = Len(q) + Len(r)
         /\ \A k \in 1..Len(q) : (q \o r)[k] = q[k]
         /\ \A k \in 1..Len(r) : (q \o r)[Len(q) + k] = r[k]
<1>1. q \o r \in Seq(T) /\ Len(q \o r) = Len(q) + Len(r)
  OBVIOUS
<1>2. \A k \in 1..Len(q) : (q \o r)[k] = q[k]
  OBVIOUS
<1>3. \A k \in 1..Len(r) : (q \o r)[Len(q) + k] = r[k]
  OBVIOUS
<1> QED
  BY <1>1, <1>2, <1>3

LEMMA RemoveElements ==
  ASSUME NEW T, NEW q \in Seq(T), NEW i \in 1..Len(q)
  PROVE  /\ RemoveAt(q, i) \in Seq(T) /\ Len(RemoveAt(q, i)) = Len(q) - 1
         /\ \A k \in 1..(Len(q) - 1) : RemoveAt(q, i)[k] = q[IF k < i THEN k ELSE k + 1]
<1> DEFINE a == SubSeq(q, 1, i - 1)
           b == SubSeq(q, i + 1, Len(q))
<1>1. a \in Seq(T) /\ Len(a) = i - 1 /\ \A k \in 1..(i - 1) : a[k] = q[k]
  OBVIOUS
<1>2. b \in Seq(T) /\ Len(b) = Len(q) - i /\ \A k \in 1..(Len(q) - i) : b[k] = q[i + k]
  OBVIOUS
<1>3. RemoveAt(q, i) = a \o b
  BY DEF RemoveAt
<1> HIDE DEF a, b
<1>4. /\ a \o b \in Seq(T) /\ Len(a \o b) = Len(a) + Len(b)
      /\ \A k \in 1..Len(a) : (a \o b)[k] = a[k]
      /\ \A k \in 1..Len(b) : (a \o b)[Len(a) + k] = b[k]
  <2>1. a \in Seq(T) /\ b \in Seq(T)
    BY <1>1, <1>2
  <2> QED
    BY <2>1, ConcatElements
<1>5. Len(a \o b) = Len(q) - 1
  BY <1>1, <1>2, <1>4
<1>6. ASSUME NEW k \in 1..(Len(q) - 1)
      PROVE  (a \o b)[k] = q[IF k < i THEN k ELSE k + 1]
  <2>1. CASE k < i
    BY <1>1, <1>4, <2>1
  <2>2. CASE k >= i
    <3>1. k - (i - 1) \in 1..Len(b) /\ Len(a) + (k - (i - 1)) = k /\ i + (k - (i - 1)) = k + 1
      BY <1>1, <1>2, <2>2
    <3>2. (a \o b)[k] = b[k - (i - 1)] /\ b[k - (i - 1)] = q[k + 1]
      BY <1>2, <1>4, <3>1
    <3> QED
      BY <2>2, <3>2
  <2>3. k < i \/ k >= i
    BY <1>2
  <2> QED
    BY <2>1, <2>2, <2>3
<1> QED
  BY <1>3, <1>4, <1>5, <1>6

\* What comes after a listing is listed after it.
LEMMA ListsConcat ==
  ASSUME NEW work, NEW T, NEW q \in Seq(T), NEW r \in Seq(T),
         NEW A \in SUBSET (Slots), NEW B \in SUBSET (Slots),
         NEW a \in Seq(Slots), NEW b \in Seq(Slots),
         Lists(q, a, A, work), Lists(r, b, B, work),
         \A s \in A, t \in B : Precedes(s, t)
  PROVE  a \o b \in Seq(Slots) /\ Lists(q \o r, a \o b, A \cup B, work)
<1> DEFINE N == Len(q)
           M == Len(r)
<1>1. /\ N \in Nat /\ M \in Nat /\ Len(a) = N /\ Len(b) = M
      /\ \A k \in 1..N : a[k] \in A /\ q[k] = Command(work[a[k][1]], a[k][2])
      /\ \A k \in 1..M : b[k] \in B /\ r[k] = Command(work[b[k][1]], b[k][2])
      /\ \A k, l \in 1..N : k < l => Precedes(a[k], a[l])
      /\ \A k, l \in 1..M : k < l => Precedes(b[k], b[l])
      /\ \A s \in A : \E k \in 1..N : a[k] = s
      /\ \A s \in B : \E k \in 1..M : b[k] = s
  BY DEF Lists
<1>2. /\ a \o b \in Seq(Slots) /\ Len(a \o b) = N + M /\ Len(q \o r) = N + M
      /\ \A k \in 1..N : (a \o b)[k] = a[k] /\ (q \o r)[k] = q[k]
      /\ \A k \in 1..M : (a \o b)[N + k] = b[k] /\ (q \o r)[N + k] = r[k]
  <2>1. /\ a \o b \in Seq(Slots) /\ Len(a \o b) = N + M
        /\ \A k \in 1..N : (a \o b)[k] = a[k]
        /\ \A k \in 1..M : (a \o b)[N + k] = b[k]
    <3>1. /\ a \o b \in Seq(Slots) /\ Len(a \o b) = Len(a) + Len(b)
          /\ \A k \in 1..Len(a) : (a \o b)[k] = a[k]
          /\ \A k \in 1..Len(b) : (a \o b)[Len(a) + k] = b[k]
      BY ConcatElements
    <3> QED
      BY <1>1, <3>1
  <2>2. /\ Len(q \o r) = N + M
        /\ \A k \in 1..N : (q \o r)[k] = q[k]
        /\ \A k \in 1..M : (q \o r)[N + k] = r[k]
    BY ConcatElements
  <2> QED
    BY <2>1, <2>2
<1> DEFINE c == a \o b
           p == q \o r
<1> HIDE DEF N, M, c, p
<1>3. \A k \in 1..(N + M) : k \in 1..N \/ (k - N \in 1..M /\ k = N + (k - N))
  BY <1>1
<1>4. \A k \in 1..(N + M) : c[k] \in A \cup B /\ p[k] = Command(work[c[k][1]], c[k][2])
  <2> TAKE k \in 1..(N + M)
  <2>1. CASE k \in 1..N
    BY <1>1, <1>2, <2>1 DEF c, p
  <2>2. CASE k - N \in 1..M /\ k = N + (k - N)
    <3>1. c[k] = b[k - N] /\ p[k] = r[k - N]
      BY <1>2, <2>2 DEF c, p
    <3> QED
      BY <1>1, <2>2, <3>1
  <2> QED
    BY <1>3, <2>1, <2>2
<1>5. \A s \in A \cup B : \E k \in 1..(N + M) : c[k] = s
  <2>1. ASSUME NEW s \in A PROVE \E k \in 1..(N + M) : c[k] = s
    <3>1. PICK k \in 1..N : a[k] = s
      BY <1>1
    <3> QED
      BY <1>1, <1>2, <3>1 DEF c
  <2>2. ASSUME NEW s \in B PROVE \E k \in 1..(N + M) : c[k] = s
    <3>1. PICK k \in 1..M : b[k] = s
      BY <1>1
    <3>2. N + k \in 1..(N + M) /\ c[N + k] = s
      BY <1>1, <1>2, <3>1 DEF c
    <3> QED
      BY <3>2
  <2> QED
    BY <2>1, <2>2
<1>6. \A k, l \in 1..(N + M) : k < l => Precedes(c[k], c[l])
  <2> SUFFICES ASSUME NEW k \in 1..(N + M), NEW l \in 1..(N + M), k < l
               PROVE  Precedes(c[k], c[l])
    OBVIOUS
  <2>1. CASE k \in 1..N /\ l \in 1..N
    BY <1>1, <1>2, <2>1 DEF c
  <2>2. CASE k \in 1..N /\ l - N \in 1..M /\ l = N + (l - N)
    <3>1. c[k] = a[k] /\ c[l] = b[l - N]
      BY <1>2, <2>2 DEF c
    <3> QED
      BY <1>1, <2>2, <3>1
  <2>3. CASE k - N \in 1..M /\ k = N + (k - N) /\ l - N \in 1..M /\ l = N + (l - N)
    <3>1. c[k] = b[k - N] /\ c[l] = b[l - N]
      BY <1>2, <2>3 DEF c
    <3>2. k - N < l - N
      BY <1>1, <2>3
    <3> QED
      BY <1>1, <2>3, <3>1, <3>2
  <2>4. ~(k - N \in 1..M /\ l \in 1..N)
    BY <1>1
  <2> QED
    BY <1>3, <2>1, <2>2, <2>3, <2>4
<1> QED
  BY <1>2, <1>4, <1>5, <1>6 DEF Lists, c, p

\* An entry is taken out.
LEMMA ListsRemove ==
  ASSUME NEW work, NEW T, NEW q \in Seq(T), NEW A \in SUBSET (Slots),
         NEW a \in Seq(Slots), Lists(q, a, A, work), NEW i \in 1..Len(q)
  PROVE  /\ RemoveAt(q, i) \in Seq(T) /\ RemoveAt(a, i) \in Seq(Slots)
         /\ Lists(RemoveAt(q, i), RemoveAt(a, i), A \ {a[i]}, work)
<1> DEFINE N == Len(q)
           at(k) == IF k < i THEN k ELSE k + 1
<1>1. /\ N \in Nat /\ i \in 1..N /\ Len(a) = N
      /\ \A k \in 1..N : a[k] \in A /\ q[k] = Command(work[a[k][1]], a[k][2])
      /\ \A k, l \in 1..N : k < l => Precedes(a[k], a[l])
      /\ \A s \in A : \E k \in 1..N : a[k] = s
  BY DEF Lists
<1>2. /\ RemoveAt(q, i) \in Seq(T) /\ Len(RemoveAt(q, i)) = N - 1
      /\ \A k \in 1..(N - 1) : RemoveAt(q, i)[k] = q[at(k)]
  BY RemoveElements
<1>3. /\ RemoveAt(a, i) \in Seq(Slots) /\ Len(RemoveAt(a, i)) = N - 1
      /\ \A k \in 1..(N - 1) : RemoveAt(a, i)[k] = a[at(k)]
  BY <1>1, RemoveElements
<1> DEFINE c == RemoveAt(a, i)
           p == RemoveAt(q, i)
<1> HIDE DEF c, p, N
<1>4. \A k, l \in 1..N : k # l => a[k] # a[l]
  <2>1. ASSUME NEW k \in 1..N, NEW l \in 1..N, k < l PROVE a[k] # a[l]
    <3>1. Precedes(a[k], a[l]) /\ a[k] \in Slots
      BY <1>1, <2>1
    <3>2. \A x \in Slots : ~Precedes(x, x)
      BY DEF Precedes, Slots
    <3> QED
      BY <3>1, <3>2, Zenon
  <2>2. \A k, l \in 1..N : k # l => k < l \/ l < k
    BY <1>1
  <2> QED
    BY <2>1, <2>2
<1>5. \A k \in 1..(N - 1) : at(k) \in 1..N /\ at(k) # i
  BY <1>1
<1>6. \A k \in 1..(N - 1) : c[k] \in A \ {a[i]} /\ p[k] = Command(work[c[k][1]], c[k][2])
  <2> TAKE k \in 1..(N - 1)
  <2>1. c[k] = a[at(k)] /\ p[k] = q[at(k)] /\ at(k) \in 1..N /\ at(k) # i
    BY <1>2, <1>3, <1>5 DEF c, p
  <2> HIDE DEF at
  <2> QED
    BY <1>1, <1>4, <2>1
<1>7. \A s \in A \ {a[i]} : \E k \in 1..(N - 1) : c[k] = s
  <2> TAKE s \in A \ {a[i]}
  <2>1. PICK l \in 1..N : a[l] = s /\ l # i
    BY <1>1
  <2>2. CASE l < i
    <3>1. l \in 1..(N - 1) /\ at(l) = l
      BY <1>1, <2>2
    <3> QED
      BY <1>3, <2>1, <3>1 DEF c
  <2>3. CASE l > i
    <3>1. l - 1 \in 1..(N - 1) /\ at(l - 1) = l
      BY <1>1, <2>3
    <3> QED
      BY <1>3, <2>1, <3>1 DEF c
  <2> QED
    BY <1>1, <2>1, <2>2, <2>3
<1>8. \A k, l \in 1..(N - 1) : k < l => Precedes(c[k], c[l])
  <2> SUFFICES ASSUME NEW k \in 1..(N - 1), NEW l \in 1..(N - 1), k < l
               PROVE  Precedes(c[k], c[l])
    OBVIOUS
  <2>1. c[k] = a[at(k)] /\ c[l] = a[at(l)]
    BY <1>3 DEF c
  <2>2. at(k) < at(l) /\ at(k) \in 1..N /\ at(l) \in 1..N
    BY <1>1
  <2> HIDE DEF at
  <2> QED
    BY <1>1, <2>1, <2>2
<1> QED
  BY <1>2, <1>3, <1>6, <1>7, <1>8 DEF Lists, c, p

Listed(q, S, work) == q \in Seq(Entry) /\ \E a \in Seq(Slots) : Lists(q, a, S, work)

LEMMA ListedConcat ==
  ASSUME NEW work, NEW q, NEW r, NEW A \in SUBSET Slots, NEW B \in SUBSET Slots,
         Listed(q, A, work), Listed(r, B, work), \A s \in A, t \in B : Precedes(s, t)
  PROVE  Listed(q \o r, A \cup B, work)
<1>1. q \in Seq(Entry) /\ r \in Seq(Entry)
  BY DEF Listed
<1>2. PICK a \in Seq(Slots) : Lists(q, a, A, work)
  BY DEF Listed
<1>3. PICK b \in Seq(Slots) : Lists(r, b, B, work)
  BY DEF Listed
<1>4. a \o b \in Seq(Slots) /\ Lists(q \o r, a \o b, A \cup B, work)
  BY <1>1, <1>2, <1>3, ListsConcat
<1>5. q \o r \in Seq(Entry)
  BY <1>1
<1> QED
  BY <1>4, <1>5 DEF Listed

\* The commands of a work are entries of the queue.
LEMMA CommandIsEntry ==
  ASSUME NEW w \in Work, NEW i \in Has(w)
  PROVE  Command(w, i) \in Entry
<1>1. /\ In(w) \in OnDevice /\ Out(w) \in Outputs
      /\ Source(w) \in ToGpu \cup {Null} /\ (Loads(w) => In(w) \in Inputs)
      /\ \A j \in 1..2 : /\ From(w, j) \in {In(w), Out(w)} /\ To(w, j) \in FromGpu \cup {Null}
                         /\ Stores(w, j) => From(w, j) \in Outputs
      /\ w.const \in Consts /\ w.pipe \in Pipelines
  BY WorkFacts DEF Work
<1>2. i \in 1..8
  BY DEF Has
<1>3. CASE i \in {1, 2}
  <2>1. Loads(w)
    BY <1>3 DEF Has
  <2>2. Source(w) \in ToGpu /\ In(w) \in Inputs
    BY <1>1, <2>1 DEF Loads
  <2> QED
    BY <1>1, <1>3, <2>2 DEF Command, Copy, Barrier, Entry, Stages
<1>4. CASE i \in {4, 5}
  <2>1. Stores(w, 1)
    BY <1>4 DEF Has
  <2>2. From(w, 1) \in Outputs /\ To(w, 1) \in FromGpu
    BY <1>1, <2>1 DEF Stores
  <2> QED
    BY <1>1, <1>4, <2>2 DEF Command, Copy, Barrier, Entry, Stages, OnDevice
<1>5. CASE i \in {6, 7}
  <2>1. Stores(w, 2)
    BY <1>5 DEF Has
  <2>2. From(w, 2) \in Outputs /\ To(w, 2) \in FromGpu
    BY <1>1, <2>1 DEF Stores
  <2> QED
    BY <1>1, <1>5, <2>2 DEF Command, Copy, Barrier, Entry, Stages, OnDevice
<1>6. CASE i = 3
  BY <1>1, <1>6 DEF Command, Entry
<1>7. CASE i = 8
  BY <1>1, <1>7 DEF Command, Entry, Signal
<1> QED
  BY <1>2, <1>3, <1>4, <1>5, <1>6, <1>7

SlotsOf(n, w, I) == {<<n, i>> : i \in Has(w) \cap I}

LEMMA OneListed ==
  ASSUME NEW n \in Nat, NEW work, work[n] \in Work, NEW i \in Has(work[n])
  PROVE  Listed(<<Command(work[n], i)>>, SlotsOf(n, work[n], {i}), work)
<1> DEFINE a == << <<n, i>> >>
           q == <<Command(work[n], i)>>
<1>1. i \in 1..8 /\ SlotsOf(n, work[n], {i}) = {<<n, i>>}
  BY DEF Has, SlotsOf
<1>2. a \in Seq(Slots)
  BY <1>1 DEF Slots
<1>3. q \in Seq(Entry)
  BY CommandIsEntry
<1>4. Lists(q, a, {<<n, i>>}, work)
  <2>1. Len(q) = 1 /\ Len(a) = 1 /\ a[1] = <<n, i>> /\ q[1] = Command(work[n], i)
    OBVIOUS
  <2>2. 1..1 = {1}
    OBVIOUS
  <2> HIDE DEF a, q
  <2> QED
    BY <2>1, <2>2 DEF Lists
<1> QED
  BY <1>1, <1>2, <1>3, <1>4 DEF Listed

LEMMA Singletons ==
  ASSUME NEW T, NEW a \in T, NEW b \in T
  PROVE  <<a>> \o <<b>> = <<a, b>>
<1> DEFINE q == <<a>> \o <<b>>
           r == <<a, b>>
<1>1. q \in Seq(T) /\ Len(q) = 2 /\ q[1] = a /\ q[2] = b
  OBVIOUS
<1>2. r \in Seq(T) /\ Len(r) = 2 /\ r[1] = a /\ r[2] = b
  OBVIOUS
<1> HIDE DEF q, r
<1>3. DOMAIN q = 1..2 /\ DOMAIN r = 1..2 /\ \A i \in 1..2 : i = 1 \/ i = 2
  BY <1>1, <1>2
<1>4. q = [i \in DOMAIN q |-> q[i]] /\ r = [i \in DOMAIN r |-> r[i]]
  BY <1>1, <1>2
<1>5. q = r
  BY <1>1, <1>2, <1>3, <1>4
<1> QED
  BY <1>5 DEF q, r

\* A copy and a barrier, or neither.
LEMMA PairListed ==
  ASSUME NEW n \in Nat, NEW work, work[n] \in Work, NEW i \in Nat, NEW k \in Nat, i < k, NEW c \in BOOLEAN,
         c => i \in Has(work[n]) /\ k \in Has(work[n]),
         ~c => i \notin Has(work[n]) /\ k \notin Has(work[n])
  PROVE  Listed(IF c THEN <<Command(work[n], i), Command(work[n], k)>> ELSE <<>>,
                SlotsOf(n, work[n], {i, k}), work)
<1>1. CASE c
  <2>1. Listed(<<Command(work[n], i)>>, SlotsOf(n, work[n], {i}), work)
    BY <1>1, OneListed
  <2>2. Listed(<<Command(work[n], k)>>, SlotsOf(n, work[n], {k}), work)
    BY <1>1, OneListed
  <2>3. /\ SlotsOf(n, work[n], {i}) \in SUBSET Slots /\ SlotsOf(n, work[n], {k}) \in SUBSET Slots
        /\ SlotsOf(n, work[n], {i}) \cup SlotsOf(n, work[n], {k}) = SlotsOf(n, work[n], {i, k})
        /\ \A s \in SlotsOf(n, work[n], {i}), t \in SlotsOf(n, work[n], {k}) : Precedes(s, t)
    BY DEF SlotsOf, Slots, Has, Precedes
  <2>4. <<Command(work[n], i)>> \o <<Command(work[n], k)>> = <<Command(work[n], i), Command(work[n], k)>>
    <3>1. Command(work[n], i) \in Entry /\ Command(work[n], k) \in Entry
      BY <1>1, CommandIsEntry
    <3> QED
      BY <3>1, Singletons
  <2>5. Listed(<<Command(work[n], i)>> \o <<Command(work[n], k)>>,
               SlotsOf(n, work[n], {i}) \cup SlotsOf(n, work[n], {k}), work)
    <3> DEFINE q == <<Command(work[n], i)>>
               r == <<Command(work[n], k)>>
               A == SlotsOf(n, work[n], {i})
               B == SlotsOf(n, work[n], {k})
    <3>1. A \in SUBSET Slots /\ B \in SUBSET Slots /\ \A s \in A, t \in B : Precedes(s, t)
      BY <2>3
    <3>2. Listed(q, A, work) /\ Listed(r, B, work)
      BY <2>1, <2>2
    <3> HIDE DEF q, r, A, B
    <3>3. Listed(q \o r, A \cup B, work)
      BY <3>1, <3>2, ListedConcat
    <3> QED
      BY <3>3 DEF q, r, A, B
  <2> QED
    BY <1>1, <2>3, <2>4, <2>5
<1>2. CASE ~c
  <2>1. SlotsOf(n, work[n], {i, k}) = {}
    BY <1>2 DEF SlotsOf
  <2>2. <<>> \in Seq(Entry) /\ <<>> \in Seq(Slots) /\ Lists(<<>>, <<>>, {}, work)
    BY DEF Lists
  <2> QED
    BY <1>2, <2>1, <2>2 DEF Listed
<1> QED
  BY <1>1, <1>2

\* What submit_async puts into the queue.
LEMMA SubmissionListed ==
  ASSUME NEW n \in Nat, NEW work, work[n] \in Work
  PROVE  LET w == work[n]
         IN  /\ Listed(Commands(Bound(w), BindGroup(Bound(w)), w.const),
                       SlotsOf(n, w, {1, 2, 3, 4, 5, 6, 7}), work)
             /\ Listed(<<Signal(w.pipe)>>, SlotsOf(n, w, {8}), work)
<1> DEFINE w == work[n]
           q1 == IF Loads(w) THEN <<Command(w, 1), Command(w, 2)>> ELSE <<>>
           q2 == <<Command(w, 3)>>
           q3 == IF Stores(w, 1) THEN <<Command(w, 4), Command(w, 5)>> ELSE <<>>
           q4 == IF Stores(w, 2) THEN <<Command(w, 6), Command(w, 7)>> ELSE <<>>
           q5 == <<Command(w, 8)>>
           P(I) == SlotsOf(n, w, I)
<1>1. /\ 3 \in Has(w) /\ 8 \in Has(w)
      /\ (1 \in Has(w)) = Loads(w) /\ (2 \in Has(w)) = Loads(w)
      /\ (4 \in Has(w)) = Stores(w, 1) /\ (5 \in Has(w)) = Stores(w, 1)
      /\ (6 \in Has(w)) = Stores(w, 2) /\ (7 \in Has(w)) = Stores(w, 2)
      /\ Loads(w) \in BOOLEAN /\ Stores(w, 1) \in BOOLEAN /\ Stores(w, 2) \in BOOLEAN
  BY DEF Has, Loads, Stores
<1>2. Listed(q1, P({1, 2}), work)
  BY <1>1, PairListed, 1 < 2
<1>3. Listed(q2, P({3}), work) /\ Listed(q5, P({8}), work)
  BY <1>1, OneListed
<1>4. Listed(q3, P({4, 5}), work)
  BY <1>1, PairListed, 4 < 5
<1>5. Listed(q4, P({6, 7}), work)
  BY <1>1, PairListed, 6 < 7
<1>6. \A I : P(I) \in SUBSET Slots
  BY DEF SlotsOf, Slots, Has
<1>7. \A I, J \in SUBSET Nat : (\A i \in I, j \in J : i < j) => \A s \in P(I), t \in P(J) : Precedes(s, t)
  <2> TAKE I, J \in SUBSET Nat
  <2> HAVE \A i \in I, j \in J : i < j
  <2> TAKE s \in P(I), t \in P(J)
  <2>1. PICK i \in I : s = <<n, i>>
    BY DEF SlotsOf
  <2>2. PICK j \in J : t = <<n, j>>
    BY DEF SlotsOf
  <2> QED
    BY <2>1, <2>2 DEF Precedes
<1>8. \A I, J : P(I) \cup P(J) = P(I \cup J)
  BY DEF SlotsOf
<1>9. q5 = <<Signal(w.pipe)>>
  BY DEF Command
<1>10. Commands(Bound(w), BindGroup(Bound(w)), w.const) = (q1 \o q2) \o (q3 \o q4)
  BY CommandsOfWork
<1> HIDE DEF q1, q2, q3, q4, q5, P, w
<1>11. Listed(q1 \o q2, P({1, 2, 3}), work)
  <2>1. \A i \in {1, 2}, j \in {3} : i < j
    OBVIOUS
  <2>2. \A s \in P({1, 2}), t \in P({3}) : Precedes(s, t)
    BY <1>7, <2>1
  <2>3. P({1, 2}) \cup P({3}) = P({1, 2, 3})
    <3>1. {1, 2} \cup {3} = {1, 2, 3}
      OBVIOUS
    <3> QED
      BY <1>8, <3>1
  <2>4. Listed(q1 \o q2, P({1, 2}) \cup P({3}), work)
    BY <1>2, <1>3, <1>6, <2>2, ListedConcat
  <2> QED
    BY <2>3, <2>4
<1>12. Listed(q3 \o q4, P({4, 5, 6, 7}), work)
  <2>1. \A i \in {4, 5}, j \in {6, 7} : i < j
    OBVIOUS
  <2>2. \A s \in P({4, 5}), t \in P({6, 7}) : Precedes(s, t)
    BY <1>7, <2>1
  <2>3. P({4, 5}) \cup P({6, 7}) = P({4, 5, 6, 7})
    <3>1. {4, 5} \cup {6, 7} = {4, 5, 6, 7}
      OBVIOUS
    <3> QED
      BY <1>8, <3>1
  <2>4. Listed(q3 \o q4, P({4, 5}) \cup P({6, 7}), work)
    BY <1>4, <1>5, <1>6, <2>2, ListedConcat
  <2> QED
    BY <2>3, <2>4
<1>13. Listed((q1 \o q2) \o (q3 \o q4), P({1, 2, 3, 4, 5, 6, 7}), work)
  <2>1. \A i \in {1, 2, 3}, j \in {4, 5, 6, 7} : i < j
    OBVIOUS
  <2>2. \A s \in P({1, 2, 3}), t \in P({4, 5, 6, 7}) : Precedes(s, t)
    BY <1>7, <2>1
  <2>3. P({1, 2, 3}) \cup P({4, 5, 6, 7}) = P({1, 2, 3, 4, 5, 6, 7})
    <3>1. {1, 2, 3} \cup {4, 5, 6, 7} = {1, 2, 3, 4, 5, 6, 7}
      OBVIOUS
    <3> QED
      BY <1>8, <3>1
  <2>4. Listed((q1 \o q2) \o (q3 \o q4), P({1, 2, 3}) \cup P({4, 5, 6, 7}), work)
    BY <1>6, <1>11, <1>12, <2>2, ListedConcat
  <2> QED
    BY <2>3, <2>4
<1> QED
  BY <1>3, <1>9, <1>10, <1>13 DEF P, w

-----------------------------------------------------------------------------
(* What two works in flight together have in common. *)

Written(w, b) ==
  \/ b = Out(w)
  \/ Loads(w) /\ b = In(w)
  \/ \E j \in 1..2 : Stores(w, j) /\ b = To(w, j)

StoresApart(v, w) == \A j, k \in 1..2 : Stores(v, j) /\ Stores(w, k) => To(v, j) # To(w, k)

\* Nothing that one writes is read or written by the other.
Apart(v, w) ==
  /\ Out(v) # Out(w) /\ Out(v) # In(w) /\ Out(w) # In(v)
  /\ Loads(v) \/ Loads(w) => In(v) # In(w)
  /\ StoresApart(v, w)

StoresOut(w) == \E j \in 1..2 : Stores(w, j) /\ From(w, j) = Out(w)

\* On the same device buffers.
Twins(v, w) ==
  /\ In(v) = In(w) /\ Out(v) = Out(w)
  /\ Loads(v) /\ Loads(w) /\ StoresOut(v) /\ StoresOut(w)
  /\ StoresApart(v, w)

LEMMA JobParts ==
  ASSUME NEW w \in Work
  PROVE  /\ Job(w).in = In(w) /\ Job(w).out = Out(w)
         /\ \A p \in Job(w).load : Loads(w) /\ p[1] = Source(w) /\ p[2] = In(w)
         /\ Loads(w) => \E p \in Job(w).load : p[1] = Source(w) /\ p[2] = In(w)
         /\ \A p \in Job(w).store : \E k \in 1..2 : Stores(w, k) /\ p[1] = From(w, k) /\ p[2] = To(w, k)
         /\ \A k \in 1..2 : Stores(w, k) => \E p \in Job(w).store : p[1] = From(w, k) /\ p[2] = To(w, k)
<1> DEFINE j == Job(w)
           Pair(k) == <<From(w, k), To(w, k)>>
           q == <<Source(w), In(w)>>
<1>1. j = [load  |-> IF Loads(w) THEN {<<Source(w), In(w)>>} ELSE {},
           store |-> {<<From(w, k), To(w, k)>> : k \in {l \in 1..2 : Stores(w, l)}},
           in |-> In(w), out |-> Out(w), const |-> w.const]
  BY WorkFacts
<1>2. /\ j.load = IF Loads(w) THEN {q} ELSE {}
      /\ j.store = {Pair(k) : k \in {l \in 1..2 : Stores(w, l)}}
      /\ j.in = In(w) /\ j.out = Out(w)
  BY <1>1
<1>3. q[1] = Source(w) /\ q[2] = In(w) /\ \A k : Pair(k)[1] = From(w, k) /\ Pair(k)[2] = To(w, k)
  OBVIOUS
<1> HIDE DEF j, Pair, q
<1>4. \A p \in j.load : Loads(w) /\ p = q
  BY <1>2
<1>5. Loads(w) => q \in j.load
  BY <1>2
<1>6. \A p \in j.store : \E k \in 1..2 : Stores(w, k) /\ p = Pair(k)
  BY <1>2
<1>7. \A k \in 1..2 : Stores(w, k) => Pair(k) \in j.store
  BY <1>2
<1>8. j.in = In(w) /\ j.out = Out(w)
  BY <1>2
<1>9. \A p \in j.load : Loads(w) /\ p[1] = Source(w) /\ p[2] = In(w)
  BY <1>3, <1>4
<1>10. \A p \in j.store : \E k \in 1..2 : Stores(w, k) /\ p[1] = From(w, k) /\ p[2] = To(w, k)
  BY <1>3, <1>6
<1>11. Loads(w) => \E p \in j.load : p[1] = Source(w) /\ p[2] = In(w)
  BY <1>3, <1>5
<1>12. \A k \in 1..2 : Stores(w, k) => \E p \in j.store : p[1] = From(w, k) /\ p[2] = To(w, k)
  BY <1>3, <1>7
<1> QED
  BY <1>8, <1>9, <1>10, <1>11, <1>12 DEF j

LEMMA WritesOfJob ==
  ASSUME NEW w \in Work
  PROVE  /\ \A b : b \in Writes(Job(w)) <=> Written(w, b)
         /\ In(w) \in Reads(Job(w)) /\ (Loads(w) => Source(w) \in Reads(Job(w)))
         /\ \A b \in Reads(Job(w)) : b \in OnDevice \/ (b = Source(w) /\ Loads(w))
<1> DEFINE j == Job(w)
<1>1. /\ j.in = In(w) /\ j.out = Out(w)
      /\ \A p \in j.load : Loads(w) /\ p[1] = Source(w) /\ p[2] = In(w)
      /\ Loads(w) => \E p \in j.load : p[1] = Source(w) /\ p[2] = In(w)
      /\ \A p \in j.store : \E k \in 1..2 : Stores(w, k) /\ p[1] = From(w, k) /\ p[2] = To(w, k)
      /\ \A k \in 1..2 : Stores(w, k) => \E p \in j.store : p[1] = From(w, k) /\ p[2] = To(w, k)
  BY JobParts
<1>2. In(w) \in OnDevice /\ Out(w) \in OnDevice /\ \A k \in 1..2 : From(w, k) \in OnDevice
  BY WorkFacts DEF OnDevice
<1> HIDE DEF j
<1>3. ASSUME NEW b PROVE b \in Writes(j) <=> Written(w, b)
  <2>1. b \in Writes(j) <=> (\E p \in j.load : p[2] = b) \/ (\E p \in j.store : p[2] = b) \/ b = j.out
    BY DEF Writes
  <2>2. (\E p \in j.load : p[2] = b) <=> Loads(w) /\ b = In(w)
    BY <1>1
  <2>3. (\E p \in j.store : p[2] = b) <=> \E k \in 1..2 : Stores(w, k) /\ b = To(w, k)
    BY <1>1
  <2> QED
    BY <1>1, <2>1, <2>2, <2>3 DEF Written
<1>4. \A b : b \in Reads(j) <=> (\E p \in j.load : p[1] = b) \/ (\E p \in j.store : p[1] = b) \/ b = j.in
  BY DEF Reads
<1>5. In(w) \in Reads(j) /\ (Loads(w) => Source(w) \in Reads(j))
  BY <1>1, <1>4
<1>6. ASSUME NEW b \in Reads(j) PROVE b \in OnDevice \/ (b = Source(w) /\ Loads(w))
  BY <1>1, <1>2, <1>4
<1> QED
  BY <1>3, <1>5, <1>6 DEF j

LEMMA CompatibleWorks ==
  ASSUME NEW v \in Work, NEW w \in Work, Compatible(Job(v), Job(w))
  PROVE  Apart(v, w) \/ Twins(v, w)
<1>1. \A b : /\ b \in Writes(Job(v)) <=> Written(v, b)
             /\ b \in Writes(Job(w)) <=> Written(w, b)
  BY WritesOfJob
<1>2. In(v) \in Reads(Job(v)) /\ In(w) \in Reads(Job(w))
  BY WritesOfJob
<1>3. CASE Independent(Job(v), Job(w))
  <2>1. /\ \A b : ~(Written(v, b) /\ (b = In(w) \/ Written(w, b)))
        /\ ~Written(w, In(v))
    BY <1>1, <1>2, <1>3 DEF Independent
  <2>2. Out(v) # Out(w) /\ Out(v) # In(w) /\ Out(w) # In(v)
    BY <2>1 DEF Written
  <2>3. Loads(v) \/ Loads(w) => In(v) # In(w)
    BY <2>1 DEF Written
  <2>4. StoresApart(v, w)
    BY <2>1 DEF StoresApart, Written
  <2> QED
    BY <2>2, <2>3, <2>4 DEF Apart
<1>4. CASE DoubleBuffered(Job(v), Job(w))
  <2>1. ASSUME NEW x \in {v, w}
        PROVE  /\ Job(x).in = In(x) /\ Job(x).out = Out(x)
               /\ \A b : (\E p \in Job(x).load : p[2] = b) => Loads(x)
               /\ (\E p \in Job(x).store : p[1] = Out(x)) => StoresOut(x)
               /\ \A j \in 1..2 : Stores(x, j) => To(x, j) \in {p[2] : p \in Job(x).store}
    BY JobParts DEF StoresOut
  <2>2. /\ Job(v).in = Job(w).in /\ Job(v).out = Job(w).out
        /\ \A l \in {Job(v), Job(w)} : (\E p \in l.load : p[2] = l.in) /\ (\E p \in l.store : p[1] = l.out)
        /\ {p[2] : p \in Job(v).store} \cap {p[2] : p \in Job(w).store} = {}
    BY <1>4 DEF DoubleBuffered
  <2>3. Loads(v) /\ Loads(w) /\ StoresOut(v) /\ StoresOut(w) /\ In(v) = In(w) /\ Out(v) = Out(w)
    BY <2>1, <2>2
  <2>4. StoresApart(v, w)
    BY <2>1, <2>2 DEF StoresApart
  <2> QED
    BY <2>3, <2>4 DEF Twins
<1> QED
  BY <1>3, <1>4 DEF Compatible

LEMMA CompatibleSymmetric ==
  ASSUME NEW j, NEW k, Compatible(j, k)
  PROVE  Compatible(k, j)
<1>1. CASE Independent(j, k)
  BY <1>1 DEF Compatible, Independent
<1>2. CASE DoubleBuffered(j, k)
  BY <1>2 DEF Compatible, DoubleBuffered
<1> QED
  BY <1>1, <1>2 DEF Compatible

-----------------------------------------------------------------------------
(* The order the barriers keep. *)

\* The i-th command of a work and the k-th of the same or of a later one.
Blocks(i, k) ==
  \/ k = 8
  \/ k = 2 /\ i \in {1, 4, 5, 6, 7}
  \/ k = 3 /\ i = 2
  \/ k \in {4, 6} /\ i \in {2, 3}
  \/ k \in {1, 5, 7} /\ i \in {4, 6}

LEMMA BeforeIsBlocks ==
  ASSUME NEW v, NEW w, NEW i \in 1..8, NEW k \in 1..8
  PROVE  Before(Command(v, i), Command(w, k)) <=> Blocks(i, k)
<1> DEFINE Op(x) == IF x \in {1, 5, 7} THEN "copy" ELSE IF x = 3 THEN "dispatch"
                    ELSE IF x = 8 THEN "signal" ELSE "barrier"
           End(x) == IF x \in {1, 4, 5, 6, 7} THEN "transfer" ELSE IF x = 8 THEN "none" ELSE "compute"
<1>1. ASSUME NEW x, NEW y \in 1..8
      PROVE  /\ Command(x, y).op = Op(y)
             /\ y = 2 => Command(x, y).src = "transfer" /\ Command(x, y).dst = "compute"
             /\ y \in {4, 6} => Command(x, y).src = "compute" /\ Command(x, y).dst = "transfer"
  <2>1. y \in {1, 2, 3, 4, 5, 6, 7, 8}
    OBVIOUS
  <2>2. CASE y \in {1, 2, 3, 8}
    BY <2>2 DEF Command, Copy, Barrier, Signal
  <2>3. CASE y \in {4, 5, 6, 7}
    BY <2>3 DEF Command, Copy, Barrier, Signal
  <2> QED
    BY <2>1, <2>2, <2>3
<1>2. ASSUME NEW x, NEW y \in 1..8
      PROVE  EndsIn(Command(x, y)) = End(y)
  <2>1. y \in {1, 2, 3, 4, 5, 6, 7, 8}
    OBVIOUS
  <2> QED
    BY <1>1, <2>1 DEF EndsIn
<1> DEFINE e == Command(v, i)
           f == Command(w, k)
<1>3. e.op = Op(i) /\ f.op = Op(k) /\ EndsIn(e) = End(i) /\ EndsIn(f) = End(k)
  BY <1>1, <1>2
<1>4. (k = 2 => f.src = "transfer") /\ (k \in {4, 6} => f.src = "compute")
  BY <1>1
<1> HIDE DEF e, f
<1>5. k \in {1, 2, 3, 4, 5, 6, 7, 8} /\ i \in {1, 2, 3, 4, 5, 6, 7, 8}
  OBVIOUS
<1>6. Before(e, f) <=> Blocks(i, k)
  <2>1. CASE k = 8
    BY <1>3, <2>1 DEF Before, Blocks
  <2>2. CASE k \in {2, 4, 6}
    BY <1>3, <1>4, <1>5, <2>2 DEF Before, Blocks
  <2>3. CASE k \in {1, 3, 5, 7}
    BY <1>3, <1>5, <2>3 DEF Before, Blocks
  <2> QED
    BY <1>5, <2>1, <2>2, <2>3
<1> QED
  BY <1>6 DEF e, f

\* While a command of a work is in the queue, so are those that wait for it.
Chain(L, work, S) ==
  \A n \in L :
    /\ Loads(work[n]) => (<<n, 1>> \in S => <<n, 2>> \in S) /\ (<<n, 2>> \in S => <<n, 3>> \in S)
    /\ \A j \in 1..2 : Stores(work[n], j) =>
         /\ <<n, 3>> \in S => <<n, BarrierOf(j)>> \in S
         /\ <<n, BarrierOf(j)>> \in S => <<n, StoreOf(j)>> \in S
         /\ \A m \in L : n < m /\ Loads(work[m]) =>
              /\ <<n, BarrierOf(j)>> \in S => <<m, 1>> \in S
              /\ <<n, StoreOf(j)>> \in S => <<m, 2>> \in S

LEMMA OrderedChain ==
  ASSUME NEW L, NEW work, NEW S, L \subseteq Nat, Ordered(L, work, S)
  PROVE  Chain(L, work, S)
<1>1. ASSUME NEW n \in L, NEW m \in L, NEW i \in Has(work[n]), NEW k \in Has(work[m]),
             n < m \/ (n = m /\ i < k), Blocks(i, k), <<n, i>> \in S
      PROVE  <<m, k>> \in S
  <2>1. i \in 1..8 /\ k \in 1..8
    BY DEF Has
  <2>2. Precedes(<<n, i>>, <<m, k>>)
    BY <1>1 DEF Precedes
  <2>3. Before(Command(work[n], i), Command(work[m], k))
    BY <1>1, <2>1, BeforeIsBlocks
  <2> QED
    BY <1>1, <2>2, <2>3 DEF Ordered
<1>2. ASSUME NEW n \in L
      PROVE  /\ 3 \in Has(work[n]) /\ (Loads(work[n]) => 1 \in Has(work[n]) /\ 2 \in Has(work[n]))
             /\ \A j \in 1..2 : Stores(work[n], j) =>
                  BarrierOf(j) \in Has(work[n]) /\ StoreOf(j) \in Has(work[n])
  <2>1. \A j \in 1..2 : j = 1 \/ j = 2
    OBVIOUS
  <2> QED
    BY <2>1 DEF Has, BarrierOf, StoreOf
<1>3. \A j \in 1..2 : /\ BarrierOf(j) \in {4, 6} /\ StoreOf(j) \in {5, 7} /\ BarrierOf(j) < StoreOf(j)
                      /\ 3 < BarrierOf(j)
  BY DEF BarrierOf, StoreOf
<1> SUFFICES ASSUME NEW n \in L
             PROVE  /\ Loads(work[n]) =>
                         (<<n, 1>> \in S => <<n, 2>> \in S) /\ (<<n, 2>> \in S => <<n, 3>> \in S)
                    /\ \A j \in 1..2 : Stores(work[n], j) =>
                         /\ <<n, 3>> \in S => <<n, BarrierOf(j)>> \in S
                         /\ <<n, BarrierOf(j)>> \in S => <<n, StoreOf(j)>> \in S
                         /\ \A m \in L : n < m /\ Loads(work[m]) =>
                              /\ <<n, BarrierOf(j)>> \in S => <<m, 1>> \in S
                              /\ <<n, StoreOf(j)>> \in S => <<m, 2>> \in S
  BY DEF Chain
<1>4. Loads(work[n]) => (<<n, 1>> \in S => <<n, 2>> \in S) /\ (<<n, 2>> \in S => <<n, 3>> \in S)
  <2>1. Blocks(1, 2) /\ Blocks(2, 3)
    BY DEF Blocks
  <2> QED
    BY <1>1, <1>2, <2>1
<1>5. ASSUME NEW j \in 1..2, Stores(work[n], j)
      PROVE  /\ <<n, 3>> \in S => <<n, BarrierOf(j)>> \in S
             /\ <<n, BarrierOf(j)>> \in S => <<n, StoreOf(j)>> \in S
             /\ \A m \in L : n < m /\ Loads(work[m]) =>
                  /\ <<n, BarrierOf(j)>> \in S => <<m, 1>> \in S
                  /\ <<n, StoreOf(j)>> \in S => <<m, 2>> \in S
  <2>1. /\ Blocks(3, BarrierOf(j)) /\ Blocks(BarrierOf(j), StoreOf(j))
        /\ Blocks(BarrierOf(j), 1) /\ Blocks(StoreOf(j), 2)
    BY <1>3 DEF Blocks
  <2>2. BarrierOf(j) \in Has(work[n]) /\ StoreOf(j) \in Has(work[n]) /\ 3 \in Has(work[n])
    BY <1>2, <1>5
  <2>3. BarrierOf(j) < StoreOf(j) /\ 3 < BarrierOf(j)
    BY <1>3
  <2>4. <<n, 3>> \in S => <<n, BarrierOf(j)>> \in S
    BY <1>1, <2>1, <2>2, <2>3
  <2>5. <<n, BarrierOf(j)>> \in S => <<n, StoreOf(j)>> \in S
    BY <1>1, <2>1, <2>2, <2>3
  <2>6. ASSUME NEW m \in L, n < m, Loads(work[m])
        PROVE  /\ <<n, BarrierOf(j)>> \in S => <<m, 1>> \in S
               /\ <<n, StoreOf(j)>> \in S => <<m, 2>> \in S
    BY <1>1, <1>2, <2>1, <2>2, <2>6
  <2> QED
    BY <2>4, <2>5, <2>6
<1> QED
  BY <1>4, <1>5

-----------------------------------------------------------------------------
(* The commands. *)

Kinds(w) ==
  /\ In(w) \in OnDevice /\ Out(w) \in OnDevice /\ Out(w) \in Outputs
  /\ Loads(w) => In(w) \in Inputs /\ Source(w) \in ToGpu
  /\ \A j \in 1..2 : Stores(w, j) => /\ From(w, j) \in Outputs /\ From(w, j) \in {In(w), Out(w)}
                                     /\ To(w, j) \in FromGpu
  /\ \A j, k \in 1..2 : j # k /\ Stores(w, j) /\ Stores(w, k) => To(w, j) # To(w, k)

\* The works in flight, and the slots of the queue.
Setting(L, work, S) ==
  /\ L \subseteq Nat /\ Chain(L, work, S)
  /\ \A n \in L : work[n] \in Work /\ Kinds(work[n])
  /\ \A n, m \in L : n # m => Apart(work[n], work[m]) \/ Twins(work[n], work[m])

MemoryTyped ==
  /\ mem = [b \in Buffers |-> mem[b]] /\ base = [b \in Buffers |-> base[b]]
  /\ visible \in [OnDevice -> SUBSET Stages]

LEMMA KindsOfWork ==
  ASSUME NEW w \in Work
  PROVE  Kinds(w)
<1>1. /\ In(w) \in OnDevice /\ Out(w) \in Outputs
      /\ Source(w) \in ToGpu \cup {Null} /\ (Loads(w) => In(w) \in Inputs)
      /\ \A j \in 1..2 : /\ From(w, j) \in {In(w), Out(w)} /\ To(w, j) \in FromGpu \cup {Null}
                         /\ Stores(w, j) => From(w, j) \in Outputs
      /\ To(w, 1) = To(w, 2) => To(w, 1) = Null
  BY WorkFacts
<1>2. \A j \in 1..2 : j = 1 \/ j = 2
  OBVIOUS
<1> QED
  BY <1>1, <1>2 DEF Kinds, Loads, Stores, OnDevice

\* Works that meet are twins.
LEMMA Meeting ==
  ASSUME NEW L, NEW work, NEW S, Setting(L, work, S), NEW n \in L, NEW m \in L, n # m
  PROVE  LET v == work[n]
             w == work[m]
         IN  /\ \/ Out(v) = Out(w) \/ Out(v) = In(w) \/ Out(w) = In(v)
                \/ In(v) = In(w) /\ (Loads(v) \/ Loads(w))
                => Twins(v, w)
             /\ StoresApart(v, w)
             /\ Twins(v, w) => /\ Loads(v) /\ Loads(w)
                               /\ \E j \in 1..2 : Stores(v, j) /\ From(v, j) = Out(v)
                               /\ \E j \in 1..2 : Stores(w, j) /\ From(w, j) = Out(w)
BY DEF Setting, Apart, Twins, StoresOut

\* The copy of what is staged in.
LEMMA LoadStep ==
  ASSUME NEW L, NEW work, NEW S, NEW T, Setting(L, work, S), Setting(L, work, T),
         NEW n \in L, <<n, 1>> \in S, T = S \ {<<n, 1>>}, Loads(work[n]),
         MemoryTyped, MemOK(L, work, S),
         mem' = [mem EXCEPT ![In(work[n])] = Read(Source(work[n]), "transfer")],
         visible' = Unseen(In(work[n])), base' = base
  PROVE  MemOK(L, work, T)'
<1> DEFINE w == work[n]
<1>1. Kinds(w) /\ \A m \in L : Kinds(work[m])
  BY DEF Setting
<1>2. /\ In(w) \in Inputs /\ In(w) \in Buffers /\ In(w) \in OnDevice /\ In(w) \notin Outputs
      /\ In(w) \notin FromGpu /\ Source(w) \in ToGpu /\ Source(w) \in Buffers /\ Source(w) \notin OnDevice
  BY <1>1, SessionAssumption DEF Kinds, Buffers, OnDevice
<1>3. Read(Source(w), "transfer") = base[Source(w)]
  <2>1. Untouched(Source(w), L, work)
    <3> SUFFICES ASSUME NEW m \in L PROVE ~Written(work[m], Source(w))
      BY WritesOfJob DEF Untouched, Setting
    <3> QED
      BY <1>1, <1>2, SessionAssumption DEF Written, Kinds, OnDevice
  <2> QED
    BY <1>2, <2>1 DEF MemOK, RestOK, Read
<1>4. /\ mem'[In(w)] = base[Source(w)]
      /\ \A b \in Buffers : b # In(w) => mem'[b] = mem[b]
      /\ \A b \in OnDevice : b # In(w) => visible'[b] = visible[b]
  BY <1>2, <1>3 DEF MemoryTyped, Unseen
<1>5. \A m \in L : m # n /\ In(work[m]) = In(w) =>
        /\ Loads(work[m])
        /\ m > n => <<m, 1>> \in S /\ <<m, 2>> \in S /\ <<m, 1>> \in T
        /\ m < n => <<m, 3>> \notin T
  <2> TAKE m \in L
  <2> HAVE m # n /\ In(work[m]) = In(w)
  <2>1. n \in Nat /\ m \in Nat
    BY DEF Setting
  <2>2. PICK j \in 1..2, k \in 1..2 : Loads(work[m]) /\ Stores(w, j) /\ Stores(work[m], k)
    BY Meeting
  <2>3. <<n, BarrierOf(j)>> \in S
    BY <2>2 DEF Setting, Chain
  <2>4. m > n => <<m, 1>> \in S /\ <<m, 2>> \in S /\ <<m, 1>> \in T
    BY <2>1, <2>2, <2>3 DEF Setting, Chain
  <2>5. m < n => <<m, 3>> \notin T
    BY <2>1, <2>2 DEF Setting, Chain
  <2> QED
    BY <2>2, <2>4, <2>5
<1>6. RestOK(L, work)'
  <2>1. ~Untouched(In(w), L, work)
    BY WritesOfJob DEF Untouched, Setting, Written
  <2> QED
    BY <1>4, <2>1 DEF MemOK, RestOK, Untouched
<1> SUFFICES ASSUME NEW m \in L
             PROVE  /\ Loaded(m, L, work, T)' /\ LoadSeen(m, work, T)' /\ InputKept(m, work, T)'
                    /\ Computed(m, L, work, T)' /\ StoreSeen(m, work, T)' /\ Stored(m, work, T)'
  BY <1>6 DEF MemOK
<1> DEFINE v == work[m]
<1>7. /\ Loaded(m, L, work, S) /\ LoadSeen(m, work, S) /\ InputKept(m, work, S)
      /\ Computed(m, L, work, S) /\ StoreSeen(m, work, S) /\ Stored(m, work, S)
  BY DEF MemOK
<1>8. Loaded(m, L, work, T)'
  <2>1. CASE m = n
    BY <1>4, <2>1 DEF Loaded
  <2>2. CASE m # n /\ In(v) = In(w)
    <3>1. m > n => <<m, 1>> \in T
      BY <1>5, <2>2
    <3>2. ~(m > n) => n > m /\ In(work[n]) = In(v) /\ <<n, 1>> \notin T
      BY <2>2 DEF Setting
    <3> QED
      BY <3>1, <3>2 DEF Loaded
  <2>3. CASE m # n /\ In(v) # In(w)
    <3>1. <<m, 1>> \in T <=> <<m, 1>> \in S
      BY <2>3
    <3>2. \A k \in L : In(work[k]) = In(v) => (<<k, 1>> \in T <=> <<k, 1>> \in S)
      BY <2>3
    <3>3. mem'[In(v)] = mem[In(v)]
      BY <1>1, <1>4, <2>3 DEF Kinds, Buffers
    <3> QED
      BY <1>7, <3>1, <3>2, <3>3 DEF Loaded
  <2> QED
    BY <2>1, <2>2, <2>3
<1>9. LoadSeen(m, work, T)'
  <2>1. CASE m = n
    BY <2>1 DEF LoadSeen, Setting, Chain
  <2>2. CASE m # n /\ In(v) = In(w)
    <3>1. m > n => <<m, 2>> \in T
      BY <1>5, <2>2
    <3>2. ~(m > n) => <<m, 3>> \notin T
      <4>1. m = n \/ m < n \/ m > n
        <5>1. m \in Nat /\ n \in Nat
          BY DEF Setting
        <5> QED
          BY <5>1
      <4> QED
        BY <1>5, <2>2, <4>1
    <3> QED
      BY <3>1, <3>2 DEF LoadSeen
  <2>3. CASE m # n /\ In(v) # In(w)
    BY <1>1, <1>4, <1>7, <2>3 DEF LoadSeen, Kinds
  <2> QED
    BY <2>1, <2>2, <2>3
<1>10. InputKept(m, work, T)'
  BY <1>1, <1>4, <1>5, <1>7 DEF InputKept, Kinds, Buffers
<1>11. Out(v) # In(w) /\ Out(v) \in Buffers /\ Out(v) \in OnDevice
  BY <1>1, <1>2 DEF Kinds, Buffers
<1>12. Computed(m, L, work, T)'
  BY <1>4, <1>7, <1>11 DEF Computed, Result, Input
<1>13. StoreSeen(m, work, T)'
  BY <1>4, <1>7, <1>11 DEF StoreSeen, BarrierOf, StoreOf
<1>14. Stored(m, work, T)'
  <2>1. \A j \in 1..2 : Stores(v, j) => To(v, j) # In(w) /\ To(v, j) \in Buffers
    BY <1>1, <1>2 DEF Kinds, Buffers
  <2> QED
    BY <1>4, <1>7, <2>1 DEF Stored, Result, Input, StoreOf
<1> QED
  BY <1>8, <1>9, <1>10, <1>12, <1>13, <1>14

\* A barrier lets more be seen, of what its stages write.
LEMMA BarrierStep ==
  ASSUME NEW L, NEW work, NEW S, NEW T, Setting(L, work, S), Setting(L, work, T),
         NEW n \in L, NEW i \in {2, 4, 6}, <<n, i>> \in S, T = S \ {<<n, i>>},
         NEW b \in OnDevice, NEW stage \in Stages,
         i = 2 => b = In(work[n]) /\ stage = "compute",
         \A j \in 1..2 : i = BarrierOf(j) => b = From(work[n], j) /\ stage = "transfer",
         MemoryTyped, MemOK(L, work, S),
         mem' = mem, visible' = [visible EXCEPT ![b] = @ \cup {stage}], base' = base
  PROVE  MemOK(L, work, T)'
<1>1. /\ visible'[b] = visible[b] \cup {stage} /\ visible[b] \subseteq Stages
      /\ \A c \in OnDevice : /\ visible[c] \subseteq visible'[c]
                             /\ visible[c] = Stages => visible'[c] = Stages
  BY DEF MemoryTyped
<1>2. RestOK(L, work)'
  BY <1>1 DEF MemOK, RestOK, Untouched
<1> SUFFICES ASSUME NEW m \in L
             PROVE  /\ Loaded(m, L, work, T)' /\ LoadSeen(m, work, T)' /\ InputKept(m, work, T)'
                    /\ Computed(m, L, work, T)' /\ StoreSeen(m, work, T)' /\ Stored(m, work, T)'
  BY <1>2 DEF MemOK
<1> DEFINE v == work[m]
<1>3. /\ Loaded(m, L, work, S) /\ LoadSeen(m, work, S) /\ InputKept(m, work, S)
      /\ Computed(m, L, work, S) /\ StoreSeen(m, work, S) /\ Stored(m, work, S)
      /\ Kinds(v)
  BY DEF MemOK, Setting
<1>4. \A j \in 1..2 : BarrierOf(j) \in {4, 6} /\ StoreOf(j) \in {5, 7}
  BY DEF BarrierOf, StoreOf
<1>5. \A k, l : l \in {1, 3, 5, 7} => (<<k, l>> \in T <=> <<k, l>> \in S)
  OBVIOUS
<1>6. Loaded(m, L, work, T)'
  BY <1>3, <1>5 DEF Loaded
<1>7. LoadSeen(m, work, T)'
  <2>1. CASE m = n /\ i = 2
    BY <1>1, <2>1 DEF LoadSeen
  <2>2. CASE ~(m = n /\ i = 2)
    <3>1. <<m, 2>> \in T <=> <<m, 2>> \in S
      BY <2>2
    <3> QED
      BY <1>1, <1>3, <1>5, <3>1 DEF LoadSeen, Kinds
  <2> QED
    BY <2>1, <2>2
<1>8. InputKept(m, work, T)'
  BY <1>1, <1>3, <1>5 DEF InputKept, Kinds
<1>9. Computed(m, L, work, T)'
  BY <1>3, <1>5 DEF Computed, Result, Input
<1>10. StoreSeen(m, work, T)'
  <2> SUFFICES ASSUME NEW j \in 1..2, Stores(v, j), From(v, j) = Out(v),
                      <<m, BarrierOf(j)>> \notin T, <<m, StoreOf(j)>> \in T
               PROVE  "transfer" \in visible'[Out(v)]
    BY DEF StoreSeen
  <2>1. CASE m = n /\ i = BarrierOf(j)
    BY <1>1, <2>1
  <2>2. CASE ~(m = n /\ i = BarrierOf(j))
    <3>1. <<m, BarrierOf(j)>> \notin S
      BY <2>2
    <3> QED
      BY <1>1, <1>3, <3>1 DEF StoreSeen, Kinds
  <2> QED
    BY <2>1, <2>2
<1>11. Stored(m, work, T)'
  BY <1>3, <1>4, <1>5 DEF Stored, Result, Input
<1> QED
  BY <1>6, <1>7, <1>8, <1>9, <1>10, <1>11

\* The shader.
LEMMA DispatchStep ==
  ASSUME NEW L, NEW work, NEW S, NEW T, Setting(L, work, S), Setting(L, work, T),
         NEW n \in L, <<n, 3>> \in S, T = S \ {<<n, 3>>},
         MemoryTyped, MemOK(L, work, S),
         mem' = [mem EXCEPT ![Out(work[n])] = <<Read(In(work[n]), "compute"), work[n].const>>],
         visible' = Unseen(Out(work[n])), base' = base
  PROVE  MemOK(L, work, T)'
<1> DEFINE w == work[n]
<1>1. Kinds(w) /\ \A m \in L : Kinds(work[m])
  BY DEF Setting
<1>2. n \in Nat /\ \A m \in L : m \in Nat /\ (m = n \/ m < n \/ m > n)
  BY DEF Setting
<1>3. /\ Out(w) \in Outputs /\ Out(w) \in Buffers /\ Out(w) \in OnDevice /\ Out(w) \notin Inputs
      /\ Out(w) \notin FromGpu /\ In(w) \in OnDevice
  BY <1>1, SessionAssumption DEF Kinds, Buffers, OnDevice
<1>4. ASSUME NEW m \in L, m # n,
             Out(work[m]) = Out(w) \/ Out(w) = In(work[m]) \/ (In(w) = In(work[m]) /\ Loads(w))
      PROVE  /\ Loads(w) /\ Loads(work[m]) /\ Out(work[m]) = Out(w)
             /\ m > n => /\ <<m, 1>> \in S /\ <<m, 3>> \in S /\ <<m, 3>> \in T
                         /\ \A j \in 1..2 : Stores(work[m], j) => <<m, BarrierOf(j)>> \in T
             /\ m < n => \A j \in 1..2 : Stores(work[m], j) => <<m, StoreOf(j)>> \notin T
  <2>1. Twins(w, work[m])
    BY <1>4, Meeting
  <2>2. PICK j \in 1..2 : Loads(w) /\ Loads(work[m]) /\ Out(work[m]) = Out(w) /\ Stores(w, j)
    BY <2>1 DEF Twins, StoresOut
  <2>3. <<n, BarrierOf(j)>> \in S
    BY <2>2 DEF Setting, Chain
  <2>4. m > n => <<m, 1>> \in S /\ <<m, 2>> \in S /\ <<m, 3>> \in S
    BY <1>2, <2>2, <2>3 DEF Setting, Chain
  <2>5. m > n => <<m, 3>> \in T
    BY <1>2, <2>4
  <2>6. m > n => \A k \in 1..2 : Stores(work[m], k) => <<m, BarrierOf(k)>> \in T
    BY <2>5 DEF Setting, Chain
  <2>7. <<n, 2>> \notin T
    BY <2>2 DEF Setting, Chain
  <2>8. m < n => \A k \in 1..2 : Stores(work[m], k) => <<m, StoreOf(k)>> \notin T
    BY <2>2, <2>7 DEF Setting, Chain
  <2> QED
    BY <2>2, <2>4, <2>5, <2>6, <2>8
<1>5. Read(In(w), "compute") = Input(w)
  <2>1. CASE Loads(w)
    <3>1. <<n, 2>> \notin S /\ <<n, 1>> \notin S
      <4>1. <<n, 2>> \notin T
        BY <2>1 DEF Setting, Chain
      <4>2. <<n, 2>> \notin S
        BY <4>1
      <4> QED
        BY <2>1, <4>2 DEF Setting, Chain
    <3>2. "compute" \in visible[In(w)]
      BY <2>1, <3>1 DEF MemOK, LoadSeen
    <3>3. \A m \in L : m > n /\ In(work[m]) = In(w) => <<m, 1>> \in S
      <4> SUFFICES ASSUME NEW m \in L, m > n, In(work[m]) = In(w) PROVE <<m, 1>> \in S
        OBVIOUS
      <4>1. m # n
        BY <1>2
      <4> QED
        BY <1>4, <2>1, <4>1
    <3>4. mem[In(w)] = base[Source(w)]
      BY <2>1, <3>1, <3>3 DEF MemOK, Loaded
    <3> QED
      BY <2>1, <3>2, <3>4 DEF Read, Input
  <2>2. CASE ~Loads(w)
    <3>1. mem[In(w)] = base[In(w)] /\ visible[In(w)] = Stages
      BY <2>2 DEF MemOK, InputKept
    <3> QED
      BY <2>2, <3>1 DEF Read, Input, Stages
  <2> QED
    BY <2>1, <2>2
<1>6. /\ mem'[Out(w)] = Result(w)
      /\ \A b \in Buffers : b # Out(w) => mem'[b] = mem[b]
      /\ \A b \in OnDevice : b # Out(w) => visible'[b] = visible[b]
  BY <1>3, <1>5 DEF MemoryTyped, Unseen, Result
<1>7. RestOK(L, work)'
  <2>1. ~Untouched(Out(w), L, work)
    BY WritesOfJob DEF Untouched, Setting, Written
  <2> QED
    BY <1>6, <2>1 DEF MemOK, RestOK, Untouched
<1> SUFFICES ASSUME NEW m \in L
             PROVE  /\ Loaded(m, L, work, T)' /\ LoadSeen(m, work, T)' /\ InputKept(m, work, T)'
                    /\ Computed(m, L, work, T)' /\ StoreSeen(m, work, T)' /\ Stored(m, work, T)'
  BY <1>7 DEF MemOK
<1> DEFINE v == work[m]
<1>8. /\ Loaded(m, L, work, S) /\ LoadSeen(m, work, S) /\ InputKept(m, work, S)
      /\ Computed(m, L, work, S) /\ StoreSeen(m, work, S) /\ Stored(m, work, S)
  BY DEF MemOK
<1>9. /\ In(v) \in OnDevice /\ In(v) \in Buffers /\ Out(v) \in OnDevice /\ Out(v) \in Buffers
      /\ Loads(v) => In(v) # Out(w)
      /\ \A j \in 1..2 : Stores(v, j) => To(v, j) # Out(w) /\ To(v, j) \in Buffers
  BY <1>1, <1>3 DEF Kinds, Buffers
<1>10. \A j \in 1..2 : BarrierOf(j) # 3 /\ StoreOf(j) # 3
  BY DEF BarrierOf, StoreOf
<1>11. \A k, l : l # 3 => (<<k, l>> \in T <=> <<k, l>> \in S)
  OBVIOUS
<1>12. Loaded(m, L, work, T)'
  BY <1>6, <1>8, <1>9, <1>11 DEF Loaded
<1>13. LoadSeen(m, work, T)'
  BY <1>6, <1>8, <1>9, <1>11 DEF LoadSeen
<1>14. InputKept(m, work, T)'
  <2> SUFFICES ASSUME ~Loads(v), <<m, 3>> \in T
               PROVE  mem'[In(v)] = base[In(v)] /\ visible'[In(v)] = Stages
    BY DEF InputKept
  <2>1. m # n /\ <<m, 3>> \in S
    OBVIOUS
  <2>2. In(v) # Out(w)
    BY <1>4, <2>1
  <2> QED
    BY <1>6, <1>8, <1>9, <2>1, <2>2 DEF InputKept
<1>15. Computed(m, L, work, T)'
  <2> SUFFICES ASSUME <<m, 3>> \notin T, \A k \in L : k > m /\ Out(work[k]) = Out(v) => <<k, 3>> \in T
               PROVE  mem'[Out(v)] = Result(v)
    BY DEF Computed, Result, Input
  <2>1. CASE m = n
    BY <1>6, <2>1
  <2>2. CASE m # n /\ Out(v) = Out(w)
    <3>1. m > n => <<m, 3>> \in T
      BY <1>4, <2>2
    <3>2. m < n => <<n, 3>> \in T
      BY <2>2
    <3> QED
      BY <1>2, <2>2, <3>1, <3>2
  <2>3. CASE m # n /\ Out(v) # Out(w)
    BY <1>6, <1>8, <1>9, <2>3 DEF Computed
  <2> QED
    BY <2>1, <2>2, <2>3
<1>16. StoreSeen(m, work, T)'
  <2> SUFFICES ASSUME NEW j \in 1..2, Stores(v, j), From(v, j) = Out(v),
                      <<m, BarrierOf(j)>> \notin T, <<m, StoreOf(j)>> \in T
               PROVE  "transfer" \in visible'[Out(v)]
    BY DEF StoreSeen
  <2>1. m # n
    BY <1>10, <1>11 DEF Setting, Chain
  <2>2. Out(v) # Out(w)
    <3>1. m > n => Out(v) # Out(w)
      BY <1>4, <2>1
    <3>2. m < n => Out(v) # Out(w)
      BY <1>4, <2>1
    <3> QED
      BY <1>2, <2>1, <3>1, <3>2
  <2> QED
    BY <1>6, <1>8, <1>9, <1>10, <1>11, <2>2 DEF StoreSeen
<1>17. Stored(m, work, T)'
  BY <1>6, <1>8, <1>9, <1>10, <1>11 DEF Stored, Result, Input
<1> QED
  BY <1>12, <1>13, <1>14, <1>15, <1>16, <1>17

\* The copy of what is staged out.
LEMMA StoreStep ==
  ASSUME NEW L, NEW work, NEW S, NEW T, Setting(L, work, S), Setting(L, work, T),
         NEW n \in L, NEW j \in 1..2, Stores(work[n], j),
         <<n, StoreOf(j)>> \in S, T = S \ {<<n, StoreOf(j)>>},
         MemoryTyped, MemOK(L, work, S),
         mem' = [mem EXCEPT ![To(work[n], j)] = Read(From(work[n], j), "transfer")],
         visible' = Unseen(To(work[n], j)), base' = base
  PROVE  MemOK(L, work, T)'
<1> DEFINE w == work[n]
           to == To(w, j)
<1>1. Kinds(w) /\ \A m \in L : Kinds(work[m])
  BY DEF Setting
<1>2. n \in Nat /\ \A m \in L : m \in Nat /\ (m = n \/ m < n \/ m > n)
  BY DEF Setting
<1>3. to \in FromGpu /\ to \in Buffers /\ to \notin OnDevice /\ From(w, j) \in Outputs /\ From(w, j) \in OnDevice
  BY <1>1, SessionAssumption DEF Kinds, Buffers, OnDevice
<1>4. \A k \in 1..2 : BarrierOf(k) \in {4, 6} /\ StoreOf(k) \in {5, 7} /\ (StoreOf(k) = StoreOf(j) => k = j)
  BY DEF BarrierOf, StoreOf
<1>5. /\ <<n, BarrierOf(j)>> \notin S /\ <<n, 3>> \notin S
      /\ Loads(w) => <<n, 1>> \notin S
  <2>1. <<n, BarrierOf(j)>> \notin T
    BY DEF Setting, Chain
  <2>2. <<n, BarrierOf(j)>> \notin S
    BY <1>4, <2>1
  <2>3. <<n, 3>> \notin S
    BY <2>2 DEF Setting, Chain
  <2>4. Loads(w) => <<n, 1>> \notin S
    BY <2>3 DEF Setting, Chain
  <2> QED
    BY <2>2, <2>3, <2>4
<1>6. ~Loads(w) => \A m \in L : m # n => ~Written(work[m], In(w))
  <2> SUFFICES ASSUME ~Loads(w), NEW m \in L, m # n PROVE ~Written(work[m], In(w))
    OBVIOUS
  <2>1. /\ Twins(w, work[m]) => Loads(w)
        /\ Out(work[m]) = In(w) => Twins(w, work[m])
        /\ In(work[m]) = In(w) /\ Loads(work[m]) => Twins(w, work[m])
    BY Meeting
  <2>2. \A k \in 1..2 : Stores(work[m], k) => To(work[m], k) # In(w)
    BY <1>1, SessionAssumption DEF Kinds, OnDevice
  <2> QED
    BY <2>1, <2>2 DEF Written
<1>7. Read(From(w, j), "transfer") = IF From(w, j) = Out(w) THEN Result(w) ELSE base[From(w, j)]
  <2>1. CASE From(w, j) = Out(w)
    <3>1. "transfer" \in visible[Out(w)]
      BY <1>5, <2>1 DEF MemOK, StoreSeen
    <3>2. \A m \in L : m > n /\ Out(work[m]) = Out(w) => <<m, 3>> \in S
      <4> SUFFICES ASSUME NEW m \in L, m > n, Out(work[m]) = Out(w) PROVE <<m, 3>> \in S
        OBVIOUS
      <4>1. m # n
        BY <1>2
      <4>2. Loads(work[m])
        BY <4>1, Meeting
      <4>3. <<m, 2>> \in S
        BY <1>2, <4>2 DEF Setting, Chain
      <4> QED
        BY <4>2, <4>3 DEF Setting, Chain
    <3>3. mem[Out(w)] = Result(w)
      BY <1>5, <3>2 DEF MemOK, Computed
    <3> QED
      BY <2>1, <3>1, <3>3 DEF Read
  <2>2. CASE From(w, j) # Out(w)
    <3>1. From(w, j) = In(w) /\ ~Loads(w)
      BY <1>1, <1>3, <2>2, SessionAssumption DEF Kinds
    <3>2. ~Written(w, In(w))
      BY <1>1, <1>3, <2>2, <3>1, SessionAssumption DEF Written, Kinds, OnDevice
    <3>3. Untouched(In(w), L, work)
      <4>1. \A m \in L : ~Written(work[m], In(w))
        BY <1>6, <3>1, <3>2
      <4>2. \A m \in L : In(w) \in Writes(Job(work[m])) <=> Written(work[m], In(w))
        BY WritesOfJob DEF Setting
      <4> QED
        BY <4>1, <4>2 DEF Untouched
    <3>4. mem[In(w)] = base[In(w)] /\ visible[In(w)] = Stages
      BY <1>3, <3>1, <3>3 DEF MemOK, RestOK, Buffers
    <3> QED
      BY <2>2, <3>1, <3>4 DEF Read, Stages
  <2> QED
    BY <2>1, <2>2
<1>8. /\ mem'[to] = IF From(w, j) = Out(w) THEN Result(w) ELSE base[From(w, j)]
      /\ \A b \in Buffers : b # to => mem'[b] = mem[b]
      /\ \A b \in OnDevice : visible'[b] = visible[b]
  BY <1>3, <1>7 DEF MemoryTyped, Unseen
<1>9. RestOK(L, work)'
  <2>1. ~Untouched(to, L, work)
    BY WritesOfJob DEF Untouched, Setting, Written
  <2> QED
    BY <1>8, <2>1 DEF MemOK, RestOK, Untouched
<1> SUFFICES ASSUME NEW m \in L
             PROVE  /\ Loaded(m, L, work, T)' /\ LoadSeen(m, work, T)' /\ InputKept(m, work, T)'
                    /\ Computed(m, L, work, T)' /\ StoreSeen(m, work, T)' /\ Stored(m, work, T)'
  BY <1>9 DEF MemOK
<1> DEFINE v == work[m]
<1>10. /\ Loaded(m, L, work, S) /\ LoadSeen(m, work, S) /\ InputKept(m, work, S)
       /\ Computed(m, L, work, S) /\ StoreSeen(m, work, S) /\ Stored(m, work, S)
  BY DEF MemOK
<1>11. /\ In(v) \in OnDevice /\ In(v) \in Buffers /\ Out(v) \in OnDevice /\ Out(v) \in Buffers
       /\ \A k \in 1..2 : Stores(v, k) => To(v, k) \in Buffers
  BY <1>1 DEF Kinds, Buffers
<1>12. In(v) # to /\ Out(v) # to
  BY <1>3, <1>11
<1>13. \A k, l : l \in {1, 2, 3, 4, 6} => (<<k, l>> \in T <=> <<k, l>> \in S)
  BY <1>4
<1> HIDE DEF to
<1>14. Loaded(m, L, work, T)'
  BY <1>8, <1>10, <1>11, <1>12, <1>13 DEF Loaded
<1>15. LoadSeen(m, work, T)'
  BY <1>8, <1>10, <1>11, <1>13 DEF LoadSeen
<1>16. InputKept(m, work, T)'
  BY <1>8, <1>10, <1>11, <1>12, <1>13 DEF InputKept
<1>17. Computed(m, L, work, T)'
  BY <1>8, <1>10, <1>11, <1>12, <1>13 DEF Computed, Result, Input
<1>18. StoreSeen(m, work, T)'
  <2> SUFFICES ASSUME NEW k \in 1..2, Stores(v, k), From(v, k) = Out(v),
                      <<m, BarrierOf(k)>> \notin T, <<m, StoreOf(k)>> \in T
               PROVE  "transfer" \in visible'[Out(v)]
    BY DEF StoreSeen
  <2>1. <<m, BarrierOf(k)>> \notin S /\ <<m, StoreOf(k)>> \in S
    BY <1>4, <1>13
  <2> QED
    BY <1>8, <1>10, <1>11, <2>1 DEF StoreSeen
<1>19. Stored(m, work, T)'
  <2> SUFFICES ASSUME NEW k \in 1..2, Stores(v, k), <<m, StoreOf(k)>> \notin T
               PROVE  mem'[To(v, k)] = IF From(v, k) = Out(v) THEN Result(v) ELSE base[From(v, k)]
    BY DEF Stored, Result, Input
  <2>1. CASE m = n /\ k = j
    BY <1>8, <2>1 DEF to
  <2>2. CASE ~(m = n /\ k = j)
    <3>1. <<m, StoreOf(k)>> \notin S
      BY <1>4, <2>2
    <3>2. To(v, k) # to
      <4>1. CASE m = n
        BY <1>1, <2>2, <4>1 DEF Kinds, to
      <4>2. CASE m # n
        <5>1. StoresApart(w, v)
          BY <4>2, Meeting
        <5> QED
          BY <5>1 DEF StoresApart, to
      <4> QED
        BY <4>1, <4>2
    <3> QED
      BY <1>8, <1>10, <1>11, <3>1, <3>2 DEF Stored
  <2> QED
    BY <2>1, <2>2
<1> QED
  BY <1>14, <1>15, <1>16, <1>17, <1>18, <1>19

\* What a job leaves when it is run on its own.
LEMMA EffectOfJob ==
  ASSUME NEW w \in Work, base = [b \in Buffers |-> base[b]]
  PROVE  LET e == Jobs!Effect(Job(w), base)
         IN  /\ e = [b \in Buffers |-> e[b]]
             /\ e[Out(w)] = Result(w)
             /\ Loads(w) => e[In(w)] = base[Source(w)]
             /\ \A j \in 1..2 : Stores(w, j) =>
                  e[To(w, j)] = IF From(w, j) = Out(w) THEN Result(w) ELSE base[From(w, j)]
             /\ \A b \in Buffers : ~Written(w, b) => e[b] = base[b]
<1> DEFINE job == Job(w)
           loaded == Jobs!Copied(job.load, base)
           run == [loaded EXCEPT ![job.out] = Jobs!Compute(loaded[job.in], job.const)]
           e == Jobs!Copied(job.store, run)
<1>1. Kinds(w)
  BY KindsOfWork
<1>2. /\ job.in = In(w) /\ job.out = Out(w) /\ job.const = w.const
      /\ \A p \in job.load : Loads(w) /\ p[1] = Source(w) /\ p[2] = In(w)
      /\ Loads(w) => \E p \in job.load : p[1] = Source(w) /\ p[2] = In(w)
      /\ \A p \in job.store : \E k \in 1..2 : Stores(w, k) /\ p[1] = From(w, k) /\ p[2] = To(w, k)
      /\ \A k \in 1..2 : Stores(w, k) => \E p \in job.store : p[1] = From(w, k) /\ p[2] = To(w, k)
  <2>1. job.const = w.const
    BY WorkFacts
  <2> QED
    BY <2>1, JobParts
<1>3. /\ In(w) \in Buffers /\ Out(w) \in Buffers /\ Out(w) \notin FromGpu
      /\ \A j \in 1..2 : Stores(w, j) => To(w, j) \in Buffers /\ From(w, j) \in Buffers /\ To(w, j) \notin OnDevice
  BY <1>1, SessionAssumption DEF Kinds, Buffers, OnDevice
<1> HIDE DEF job
<1>4. /\ loaded = [b \in Buffers |-> loaded[b]]
      /\ \A b \in Buffers : loaded[b] = IF Loads(w) /\ b = In(w) THEN base[Source(w)] ELSE base[b]
  <2>1. loaded = [b \in Buffers |-> IF \E p \in job.load : p[2] = b
                                    THEN base[(CHOOSE p \in job.load : p[2] = b)[1]] ELSE base[b]]
    BY DEF Jobs!Copied
  <2> HIDE DEF loaded
  <2>2. loaded = [b \in Buffers |-> loaded[b]]
    BY <2>1
  <2> SUFFICES ASSUME NEW b \in Buffers
               PROVE  loaded[b] = IF Loads(w) /\ b = In(w) THEN base[Source(w)] ELSE base[b]
    BY <2>2
  <2>3. (\E p \in job.load : p[2] = b) <=> Loads(w) /\ b = In(w)
    BY <1>2
  <2>4. Loads(w) /\ b = In(w) => (CHOOSE p \in job.load : p[2] = b)[1] = Source(w)
    BY <1>2
  <2> QED
    BY <2>1, <2>3, <2>4
<1> HIDE DEF loaded
<1>5. /\ run = [b \in Buffers |-> run[b]] /\ run[Out(w)] = Result(w)
      /\ \A b \in Buffers : b # Out(w) => run[b] = loaded[b]
  <2>1. Jobs!Compute(loaded[job.in], job.const) = Result(w)
    BY <1>2, <1>3, <1>4 DEF Jobs!Compute, Result, Input
  <2> QED
    BY <1>2, <1>3, <1>4, <2>1
<1> HIDE DEF run
<1>6. /\ e = [b \in Buffers |-> e[b]]
      /\ \A b \in Buffers : (\A k \in 1..2 : Stores(w, k) => To(w, k) # b) => e[b] = run[b]
      /\ \A k \in 1..2 : Stores(w, k) => e[To(w, k)] = run[From(w, k)]
  <2>1. e = [b \in Buffers |-> IF \E p \in job.store : p[2] = b
                               THEN run[(CHOOSE p \in job.store : p[2] = b)[1]] ELSE run[b]]
    BY <1>5 DEF Jobs!Copied
  <2> HIDE DEF e
  <2>2. e = [b \in Buffers |-> e[b]]
    BY <2>1
  <2>3. ASSUME NEW b \in Buffers, \A k \in 1..2 : Stores(w, k) => To(w, k) # b
        PROVE  e[b] = run[b]
    <3>1. ~\E p \in job.store : p[2] = b
      BY <1>2, <2>3
    <3> QED
      BY <2>1, <3>1
  <2>4. ASSUME NEW k \in 1..2, Stores(w, k)
        PROVE  e[To(w, k)] = run[From(w, k)]
    <3> DEFINE q == CHOOSE p \in job.store : p[2] = To(w, k)
    <3>1. \E p \in job.store : p[2] = To(w, k)
      BY <1>2, <2>4
    <3>2. q \in job.store /\ q[2] = To(w, k)
      BY <3>1
    <3>3. e[To(w, k)] = run[q[1]]
      BY <1>3, <2>1, <2>4, <3>1
    <3> HIDE DEF q
    <3>4. PICK l \in 1..2 : Stores(w, l) /\ q[1] = From(w, l) /\ q[2] = To(w, l)
      BY <1>2, <3>2
    <3>5. l = k
      BY <1>1, <2>4, <3>2, <3>4 DEF Kinds
    <3> QED
      BY <3>3, <3>4, <3>5
  <2> QED
    BY <2>2, <2>3, <2>4
<1>7. Jobs!Effect(Job(w), base) = e
  BY DEF Jobs!Effect, e, run, loaded, job
<1> HIDE DEF e
<1>8. e[Out(w)] = Result(w)
  BY <1>1, <1>3, <1>5, <1>6 DEF Kinds
<1>9. Loads(w) => e[In(w)] = base[Source(w)]
  <2> SUFFICES ASSUME Loads(w) PROVE e[In(w)] = base[Source(w)]
    OBVIOUS
  <2>1. In(w) # Out(w) /\ In(w) \in OnDevice
    BY <1>1, SessionAssumption DEF Kinds
  <2>2. e[In(w)] = run[In(w)]
    BY <1>3, <1>6, <2>1
  <2> QED
    BY <1>3, <1>4, <1>5, <2>1, <2>2
<1>10. \A j \in 1..2 : Stores(w, j) =>
         e[To(w, j)] = IF From(w, j) = Out(w) THEN Result(w) ELSE base[From(w, j)]
  <2> SUFFICES ASSUME NEW j \in 1..2, Stores(w, j)
               PROVE  e[To(w, j)] = IF From(w, j) = Out(w) THEN Result(w) ELSE base[From(w, j)]
    OBVIOUS
  <2>1. e[To(w, j)] = run[From(w, j)] /\ From(w, j) \in Buffers
    BY <1>3, <1>6
  <2>2. From(w, j) # Out(w) => run[From(w, j)] = base[From(w, j)]
    <3>1. From(w, j) # Out(w) => ~(Loads(w) /\ From(w, j) = In(w))
      BY <1>1, SessionAssumption DEF Kinds
    <3> QED
      BY <1>4, <1>5, <2>1, <3>1
  <2> QED
    BY <1>5, <2>1, <2>2
<1>11. \A b \in Buffers : ~Written(w, b) => e[b] = base[b]
  BY <1>4, <1>5, <1>6 DEF Written
<1>12. e = [b \in Buffers |-> e[b]]
  BY <1>6
<1> QED
  BY <1>7, <1>8, <1>9, <1>10, <1>11, <1>12

\* The signal of the oldest job, which has done everything else: the job is done.
LEMMA SignalStep ==
  ASSUME NEW L, NEW work, NEW S, NEW T, NEW M, NEW Seen, Setting(L, work, S),
         NEW n \in L, M = L \ {n}, \A m \in M : n < m,
         T = S \ {<<n, 8>>}, \A i \in 1..7 : <<n, i>> \notin S,
         MemoryTyped, MemOK(L, work, S),
         mem' = mem, base' = Jobs!Effect(Job(work[n]), base),
         visible' = [b \in OnDevice |-> IF b \in Seen THEN Stages ELSE visible[b]],
         \A b : b \in Seen <=> Written(work[n], b) /\ \A m \in M : ~Written(work[m], b)
  PROVE  MemOK(M, work, T)'
<1> DEFINE w == work[n]
<1>1. w \in Work /\ Kinds(w) /\ \A m \in L : work[m] \in Work /\ Kinds(work[m])
  BY DEF Setting
<1>2. /\ base' = [b \in Buffers |-> base'[b]]
      /\ base'[Out(w)] = Result(w)
      /\ Loads(w) => base'[In(w)] = base[Source(w)]
      /\ \A j \in 1..2 : Stores(w, j) =>
           base'[To(w, j)] = IF From(w, j) = Out(w) THEN Result(w) ELSE base[From(w, j)]
      /\ \A b \in Buffers : ~Written(w, b) => base'[b] = base[b]
  BY <1>1, EffectOfJob DEF MemoryTyped
<1>3. \A b : \A m \in L : b \in Writes(Job(work[m])) <=> Written(work[m], b)
  BY <1>1, WritesOfJob
<1>4. \A b \in OnDevice : visible'[b] = Stages \/ visible'[b] = visible[b]
  OBVIOUS
<1>5. \A k, l : l \in 1..7 => (<<k, l>> \in T <=> <<k, l>> \in S)
  OBVIOUS
<1>6. \A j \in 1..2 : BarrierOf(j) \in 1..7 /\ StoreOf(j) \in 1..7
  BY DEF BarrierOf, StoreOf
<1>7. /\ mem[Out(w)] = Result(w) \/ \E m \in M : Out(work[m]) = Out(w)
      /\ Loads(w) => mem[In(w)] = base[Source(w)] \/ \E m \in M : In(work[m]) = In(w)
      /\ \A j \in 1..2 : Stores(w, j) =>
           mem[To(w, j)] = IF From(w, j) = Out(w) THEN Result(w) ELSE base[From(w, j)]
  <2>1. mem[Out(w)] = Result(w) \/ \E m \in M : Out(work[m]) = Out(w)
    <3>1. Computed(n, L, work, S) /\ <<n, 3>> \notin S
      BY DEF MemOK
    <3> QED
      BY <3>1 DEF Computed, Setting
  <2>2. Loads(w) => mem[In(w)] = base[Source(w)] \/ \E m \in M : In(work[m]) = In(w)
    <3>1. Loaded(n, L, work, S) /\ <<n, 1>> \notin S
      BY DEF MemOK
    <3> QED
      BY <3>1 DEF Loaded, Setting
  <2>3. ASSUME NEW j \in 1..2, Stores(w, j)
        PROVE  mem[To(w, j)] = IF From(w, j) = Out(w) THEN Result(w) ELSE base[From(w, j)]
    BY <1>6, <2>3 DEF MemOK, Stored
  <2> QED
    BY <2>1, <2>2, <2>3
<1>8. ASSUME NEW b \in Buffers, Untouched(b, M, work)
      PROVE  mem[b] = base'[b] /\ (b \in OnDevice => visible'[b] = Stages)
  <2>1. \A m \in M : ~Written(work[m], b)
    BY <1>3, <1>8 DEF Untouched
  <2>2. CASE Written(w, b)
    <3>1. CASE b = Out(w)
      <4>1. \A m \in M : Out(work[m]) # Out(w)
        BY <2>1, <3>1 DEF Written
      <4> QED
        BY <1>2, <1>7, <2>1, <2>2, <3>1, <4>1
    <3>2. CASE Loads(w) /\ b = In(w)
      <4>1. \A m \in M : In(work[m]) # In(w)
        <5> SUFFICES ASSUME NEW m \in M, In(work[m]) = In(w) PROVE FALSE
          OBVIOUS
        <5>1. Loads(work[m])
          BY <3>2, Meeting
        <5> QED
          BY <2>1, <3>2, <5>1 DEF Written
      <4> QED
        BY <1>2, <1>7, <2>1, <2>2, <3>2, <4>1
    <3>3. CASE \E j \in 1..2 : Stores(w, j) /\ b = To(w, j)
      BY <1>2, <1>7, <2>1, <2>2, <3>3
    <3> QED
      BY <2>2, <3>1, <3>2, <3>3 DEF Written
  <2>3. CASE ~Written(w, b)
    <3>1. Untouched(b, L, work)
      BY <1>3, <2>1, <2>3 DEF Untouched
    <3>2. mem[b] = base[b] /\ (b \in OnDevice => visible[b] = Stages)
      BY <3>1 DEF MemOK, RestOK
    <3> QED
      BY <1>2, <1>4, <2>3, <3>2
  <2> QED
    BY <2>2, <2>3
<1>9. RestOK(M, work)'
  <2>1. \A b \in OnDevice : b \in Buffers
    BY DEF Buffers
  <2> QED
    BY <1>8, <2>1 DEF RestOK, Untouched
<1> SUFFICES ASSUME NEW m \in M
             PROVE  /\ Loaded(m, M, work, T)' /\ LoadSeen(m, work, T)' /\ InputKept(m, work, T)'
                    /\ Computed(m, M, work, T)' /\ StoreSeen(m, work, T)' /\ Stored(m, work, T)'
  BY <1>9 DEF MemOK
<1> DEFINE v == work[m]
<1>10. /\ Loaded(m, L, work, S) /\ LoadSeen(m, work, S) /\ InputKept(m, work, S)
       /\ Computed(m, L, work, S) /\ StoreSeen(m, work, S) /\ Stored(m, work, S)
  BY DEF MemOK
<1>11. /\ In(v) \in OnDevice /\ In(v) \in Buffers /\ Out(v) \in OnDevice /\ Out(v) \in Buffers
       /\ Loads(v) => Source(v) \in Buffers /\ Source(v) \in ToGpu
       /\ \A j \in 1..2 : Stores(v, j) => To(v, j) \in Buffers
  BY <1>1 DEF Kinds, Buffers
<1>12. Loads(v) => base'[Source(v)] = base[Source(v)]
  <2> SUFFICES ASSUME Loads(v) PROVE ~Written(w, Source(v))
    BY <1>2, <1>11
  <2> QED
    BY <1>1, <1>11, SessionAssumption DEF Written, Kinds, OnDevice
<1>13. ~Loads(v) => base'[In(v)] = base[In(v)]
  <2> SUFFICES ASSUME ~Loads(v) PROVE ~Written(w, In(v))
    BY <1>2, <1>11
  <2>1. /\ Twins(w, v) => Loads(v)
        /\ Out(w) = In(v) => Twins(w, v)
        /\ In(w) = In(v) /\ Loads(w) => Twins(w, v)
    BY Meeting
  <2>2. \A k \in 1..2 : Stores(w, k) => To(w, k) # In(v)
    BY <1>1, <1>11, SessionAssumption DEF Kinds
  <2> QED
    BY <2>1, <2>2 DEF Written
<1>14. Result(v)' = Result(v)
  BY <1>12, <1>13 DEF Result, Input
<1>15. \A k \in L : k > m => k \in M
  BY DEF Setting
<1>16. Loaded(m, M, work, T)'
  BY <1>5, <1>10, <1>12, <1>15 DEF Loaded
<1>17. LoadSeen(m, work, T)'
  BY <1>4, <1>5, <1>10, <1>11 DEF LoadSeen, Stages
<1>18. InputKept(m, work, T)'
  BY <1>4, <1>5, <1>10, <1>11, <1>13 DEF InputKept
<1>19. Computed(m, M, work, T)'
  <2> SUFFICES ASSUME <<m, 3>> \notin T, \A k \in M : k > m /\ Out(work[k]) = Out(v) => <<k, 3>> \in T
               PROVE  mem[Out(v)] = Result(v)
    BY <1>14 DEF Computed
  <2> QED
    BY <1>5, <1>10, <1>15 DEF Computed
<1>20. StoreSeen(m, work, T)'
  BY <1>4, <1>5, <1>6, <1>10, <1>11 DEF StoreSeen, Stages
<1>21. Stored(m, work, T)'
  <2> SUFFICES ASSUME NEW j \in 1..2, Stores(v, j), <<m, StoreOf(j)>> \notin T
               PROVE  mem[To(v, j)] = IF From(v, j) = Out(v) THEN Result(v) ELSE base'[From(v, j)]
    BY <1>14 DEF Stored
  <2>1. <<m, StoreOf(j)>> \notin S
    BY <1>5, <1>6
  <2>2. From(v, j) # Out(v) => base'[From(v, j)] = base[From(v, j)]
    <3> SUFFICES ASSUME From(v, j) # Out(v) PROVE base'[From(v, j)] = base[From(v, j)]
      OBVIOUS
    <3>1. From(v, j) = In(v) /\ ~Loads(v)
      BY <1>1, SessionAssumption DEF Kinds
    <3> QED
      BY <1>13, <3>1
  <2> QED
    BY <1>10, <2>1, <2>2 DEF Stored
<1> QED
  BY <1>16, <1>17, <1>18, <1>19, <1>20, <1>21

-----------------------------------------------------------------------------
(* The steps of the client, for memory. *)

LEMMA MemFrame ==
  ASSUME NEW L, NEW work, NEW S, MemOK(L, work, S), mem' = mem, visible' = visible, base' = base
  PROVE  MemOK(L, work, S)'
<1>1. RestOK(L, work)'
  BY DEF MemOK, RestOK, Untouched
<1> SUFFICES ASSUME NEW n \in L
             PROVE  /\ Loaded(n, L, work, S)' /\ LoadSeen(n, work, S)' /\ InputKept(n, work, S)'
                    /\ Computed(n, L, work, S)' /\ StoreSeen(n, work, S)' /\ Stored(n, work, S)'
  BY <1>1 DEF MemOK
<1>2. /\ Loaded(n, L, work, S) /\ LoadSeen(n, work, S) /\ InputKept(n, work, S)
      /\ Computed(n, L, work, S) /\ StoreSeen(n, work, S) /\ Stored(n, work, S)
  BY DEF MemOK
<1>3. Loaded(n, L, work, S)' /\ LoadSeen(n, work, S)' /\ InputKept(n, work, S)'
  BY <1>2 DEF Loaded, LoadSeen, InputKept
<1>4. Computed(n, L, work, S)' /\ StoreSeen(n, work, S)' /\ Stored(n, work, S)'
  BY <1>2 DEF Computed, StoreSeen, Stored, Result, Input
<1> QED
  BY <1>3, <1>4

\* The client writes a staging buffer that no live job reads.
LEMMA FillStep ==
  ASSUME NEW L, NEW work, NEW S, Setting(L, work, S), MemoryTyped, MemOK(L, work, S),
         NEW b \in ToGpu, NEW v, \A n \in L : b \notin Reads(Job(work[n])),
         mem' = [mem EXCEPT ![b] = v], base' = [base EXCEPT ![b] = v], visible' = visible
  PROVE  MemOK(L, work, S)'
<1>1. b \in Buffers /\ b \notin OnDevice /\ b \notin FromGpu
  BY SessionAssumption DEF Buffers
<1>2. /\ mem'[b] = v /\ base'[b] = v
      /\ \A c \in Buffers : c # b => mem'[c] = mem[c] /\ base'[c] = base[c]
  BY <1>1 DEF MemoryTyped
<1>3. RestOK(L, work)'
  <2> SUFFICES /\ \A c \in Buffers : Untouched(c, L, work) => mem'[c] = base'[c]
               /\ \A c \in OnDevice : Untouched(c, L, work) => visible'[c] = Stages
    BY DEF RestOK, Untouched
  <2> QED
    BY <1>2 DEF MemOK, RestOK
<1> SUFFICES ASSUME NEW n \in L
             PROVE  /\ Loaded(n, L, work, S)' /\ LoadSeen(n, work, S)' /\ InputKept(n, work, S)'
                    /\ Computed(n, L, work, S)' /\ StoreSeen(n, work, S)' /\ Stored(n, work, S)'
  BY <1>3 DEF MemOK
<1> DEFINE w == work[n]
<1>4. /\ Loaded(n, L, work, S) /\ LoadSeen(n, work, S) /\ InputKept(n, work, S)
      /\ Computed(n, L, work, S) /\ StoreSeen(n, work, S) /\ Stored(n, work, S)
      /\ w \in Work /\ Kinds(w)
  BY DEF MemOK, Setting
<1>5. /\ In(w) \in Buffers /\ Out(w) \in Buffers /\ In(w) # b /\ Out(w) # b
      /\ Loads(w) => Source(w) \in Buffers /\ Source(w) # b
      /\ \A j \in 1..2 : Stores(w, j) => /\ To(w, j) \in Buffers /\ To(w, j) # b
                                         /\ From(w, j) \in Buffers /\ From(w, j) # b
  <2>1. Loads(w) => Source(w) # b
    BY <1>4, WritesOfJob
  <2> QED
    BY <1>1, <1>4, <2>1 DEF Kinds, Buffers
<1>6. /\ mem'[In(w)] = mem[In(w)] /\ mem'[Out(w)] = mem[Out(w)] /\ base'[In(w)] = base[In(w)]
      /\ Loads(w) => base'[Source(w)] = base[Source(w)]
      /\ \A j \in 1..2 : Stores(w, j) => /\ mem'[To(w, j)] = mem[To(w, j)]
                                         /\ base'[From(w, j)] = base[From(w, j)]
  BY <1>2, <1>5
<1>7. Result(w)' = Result(w)
  BY <1>6 DEF Result, Input
<1>8. Loaded(n, L, work, S)' /\ LoadSeen(n, work, S)' /\ InputKept(n, work, S)'
  BY <1>4, <1>6 DEF Loaded, LoadSeen, InputKept
<1>9. Computed(n, L, work, S)'
  BY <1>4, <1>6, <1>7 DEF Computed
<1>10. StoreSeen(n, work, S)'
  BY <1>4 DEF StoreSeen
<1>11. Stored(n, work, S)'
  BY <1>4, <1>6, <1>7 DEF Stored
<1> QED
  BY <1>8, <1>9, <1>10, <1>11

\* A job is submitted, with the number n.
LEMMA SubmitStep ==
  ASSUME NEW L, NEW work, NEW S, Setting(L, work, S), MemoryTyped, MemOK(L, work, S),
         NEW M, NEW new, NEW T, NEW n \in Nat, M = L \cup {n}, \A m \in L : m < n,
         \A m \in L : new[m] = work[m],
         \A m, i : <<m, i>> \in T <=> <<m, i>> \in S \/ (m = n /\ i \in Has(new[n])),
         Setting(M, new, T), mem' = mem, visible' = visible, base' = base
  PROVE  MemOK(M, new, T)'
<1> DEFINE w == new[n]
<1>1. w \in Work /\ Kinds(w) /\ n \in M /\ \A m \in M : new[m] \in Work
  BY DEF Setting
<1>2. /\ <<n, 3>> \in T /\ (Loads(w) => <<n, 1>> \in T /\ <<n, 2>> \in T)
      /\ \A j \in 1..2 : Stores(w, j) => <<n, BarrierOf(j)>> \in T /\ <<n, StoreOf(j)>> \in T
  <2>1. /\ 3 \in Has(w) /\ (Loads(w) => 1 \in Has(w) /\ 2 \in Has(w))
        /\ \A j \in 1..2 : Stores(w, j) => BarrierOf(j) \in Has(w) /\ StoreOf(j) \in Has(w)
    <3>1. \A j \in 1..2 : j = 1 \/ j = 2
      OBVIOUS
    <3> QED
      BY <3>1 DEF Has, BarrierOf, StoreOf
  <2> QED
    BY <2>1
<1>3. \A b : Untouched(b, M, new) => Untouched(b, L, work)
  BY DEF Untouched
<1>4. RestOK(M, new)'
  <2> SUFFICES /\ \A b \in Buffers : Untouched(b, M, new) => mem[b] = base[b]
               /\ \A b \in OnDevice : Untouched(b, M, new) => visible[b] = Stages
    BY DEF RestOK, Untouched
  <2> QED
    BY <1>3 DEF MemOK, RestOK
<1>5. /\ Loaded(n, M, new, T)' /\ LoadSeen(n, new, T)' /\ InputKept(n, new, T)'
      /\ Computed(n, M, new, T)' /\ StoreSeen(n, new, T)' /\ Stored(n, new, T)'
  <2>1. Loaded(n, M, new, T)' /\ LoadSeen(n, new, T)'
    BY <1>2 DEF Loaded, LoadSeen
  <2>2. Computed(n, M, new, T)' /\ StoreSeen(n, new, T)' /\ Stored(n, new, T)'
    BY <1>2 DEF Computed, StoreSeen, Stored
  <2>3. InputKept(n, new, T)'
    <3> SUFFICES ASSUME ~Loads(w) PROVE mem[In(w)] = base[In(w)] /\ visible[In(w)] = Stages
      BY DEF InputKept
    <3>1. ASSUME NEW m \in L PROVE In(w) \notin Writes(Job(work[m]))
      <4>1. m \in M /\ m # n /\ new[m] = work[m]
        BY <3>1
      <4>2. /\ Twins(w, new[m]) => Loads(w)
            /\ Out(new[m]) = In(w) => Twins(w, new[m])
            /\ In(w) = In(new[m]) /\ Loads(new[m]) => Twins(w, new[m])
        BY <1>1, <4>1, Meeting
      <4>3. \A k \in 1..2 : Stores(new[m], k) => To(new[m], k) # In(w)
        BY <1>1, <4>1, SessionAssumption DEF Kinds, Setting
      <4>4. ~Written(new[m], In(w))
        BY <4>2, <4>3 DEF Written
      <4> QED
        BY <1>1, <4>1, <4>4, WritesOfJob
    <3>2. Untouched(In(w), L, work)
      BY <3>1 DEF Untouched
    <3> QED
      BY <1>1, <3>2 DEF MemOK, RestOK, Kinds, Buffers
  <2> QED
    BY <2>1, <2>2, <2>3
<1>6. ASSUME NEW m \in L
      PROVE  /\ Loaded(m, M, new, T)' /\ LoadSeen(m, new, T)' /\ InputKept(m, new, T)'
             /\ Computed(m, M, new, T)' /\ StoreSeen(m, new, T)' /\ Stored(m, new, T)'
  <2>1. /\ Loaded(m, L, work, S) /\ LoadSeen(m, work, S) /\ InputKept(m, work, S)
        /\ Computed(m, L, work, S) /\ StoreSeen(m, work, S) /\ Stored(m, work, S)
    BY DEF MemOK
  <2>2. \A k \in L : \A l : <<k, l>> \in T <=> <<k, l>> \in S
    <3> SUFFICES ASSUME NEW k \in L, NEW l PROVE <<k, l>> \in T <=> <<k, l>> \in S
      OBVIOUS
    <3>1. k # n
      OBVIOUS
    <3> QED
      BY <3>1
  <2>3. new[m] = work[m] /\ L \subseteq M
    OBVIOUS
  <2>4. Loaded(m, M, new, T)'
    BY <2>1, <2>2, <2>3 DEF Loaded
  <2>5. LoadSeen(m, new, T)' /\ InputKept(m, new, T)'
    BY <2>1, <2>2, <2>3 DEF LoadSeen, InputKept
  <2>6. Computed(m, M, new, T)'
    BY <2>1, <2>2, <2>3 DEF Computed, Result, Input
  <2>7. StoreSeen(m, new, T)'
    BY <2>1, <2>2, <2>3 DEF StoreSeen
  <2>8. Stored(m, new, T)'
    BY <2>1, <2>2, <2>3 DEF Stored, Result, Input
  <2> QED
    BY <2>4, <2>5, <2>6, <2>7, <2>8
<1> QED
  BY <1>4, <1>5, <1>6 DEF MemOK

-----------------------------------------------------------------------------
(* The queue. *)

\* What is before a command that may start does not block it.
LEMMA MayStartSlots ==
  ASSUME NEW work, NEW S \in SUBSET Slots, NEW slots, queue \in Seq(Entry),
         Lists(queue, slots, S, work), NEW i \in DOMAIN queue, MayStart(i)
  PROVE  \A s \in S : Precedes(s, slots[i]) => ~Before(Command(work[s[1]], s[2]), queue[i])
<1>1. /\ i \in 1..Len(queue) /\ Len(queue) \in Nat
      /\ \A k \in 1..Len(queue) : slots[k] \in S /\ queue[k] = Command(work[slots[k][1]], slots[k][2])
      /\ \A s \in S : \E k \in 1..Len(queue) : slots[k] = s
      /\ \A k, l \in 1..Len(queue) : k < l => Precedes(slots[k], slots[l])
  <2>1. i \in 1..Len(queue) /\ Len(queue) \in Nat
    OBVIOUS
  <2> QED
    BY <2>1, Zenon DEF Lists
<1> SUFFICES ASSUME NEW s \in S, Precedes(s, slots[i]) PROVE ~Before(Command(work[s[1]], s[2]), queue[i])
  OBVIOUS
<1>2. PICK k \in 1..Len(queue) : slots[k] = s
  BY <1>1
<1>3. k < i
  <2>1. k = i \/ i < k => ~Precedes(s, slots[i])
    <3>1. \A a, b \in Slots : Precedes(a, b) => ~Precedes(b, a)
      BY DEF Precedes, Slots
    <3>2. s \in Slots /\ slots[i] \in Slots
      BY <1>1
    <3> QED
      BY <1>1, <1>2, <3>1, <3>2
  <2> QED
    BY <1>1, <2>1
<1>4. ~Before(queue[k], queue[i])
  BY <1>1, <1>3 DEF MayStart
<1> QED
  BY <1>1, <1>2, <1>4

LEMMA OrderedRemove ==
  ASSUME NEW L, NEW work, NEW S, Ordered(L, work, S), NEW n \in L, NEW i,
         \A s \in S : Precedes(s, <<n, i>>) => ~Before(Command(work[s[1]], s[2]), Command(work[n], i))
  PROVE  Ordered(L, work, S \ {<<n, i>>})
<1> SUFFICES ASSUME NEW l \in L, NEW m \in L, NEW j \in Has(work[l]), NEW k \in Has(work[m]),
                    Precedes(<<l, j>>, <<m, k>>), Before(Command(work[l], j), Command(work[m], k)),
                    <<l, j>> \in S
             PROVE  <<m, k>> \in S \ {<<n, i>>}
  BY DEF Ordered
<1>1. <<m, k>> \in S
  BY DEF Ordered
<1>2. <<m, k>> # <<n, i>>
  <2> SUFFICES ASSUME m = n, k = i PROVE FALSE
    OBVIOUS
  <2>1. Precedes(<<l, j>>, <<n, i>>) => ~Before(Command(work[l], j), Command(work[n], i))
    OBVIOUS
  <2> QED
    BY <2>1
<1> QED
  BY <1>1, <1>2

LEMMA LiveIsNat ==
  ASSUME NEW done \in Nat, jobs \in Seq(AllJobs)
  PROVE  Live(done) \subseteq Nat /\ Len(jobs) \in Nat
BY DEF Live

LEMMA SettingOfInv ==
  ASSUME NEW L, NEW done \in Nat, NEW work, NEW S, L \subseteq Nat, SlotsOK(L, work, S), LiveOK(L, done, work)
  PROVE  Setting(L, work, S)
<1>1. Chain(L, work, S)
  BY OrderedChain DEF SlotsOK
<1>2. \A n \in L : work[n] \in Work /\ Kinds(work[n])
  BY KindsOfWork DEF LiveOK
<1>3. \A n, m \in L : n # m => Apart(work[n], work[m]) \/ Twins(work[n], work[m])
  BY <1>2, CompatibleWorks DEF LiveOK
<1> QED
  BY <1>1, <1>2, <1>3 DEF Setting

\* Once the constants are there, so are the slots.
LEMMA InvIsEnough ==
  ASSUME StateOK', PipesOK', queue' \in Seq(Entry),
         NEW done \in Nat, NEW work \in Works, NEW slots \in Seq(Slots), NEW S, Inv(done, work, slots, S)'
  PROVE  IInv'
<1>1. /\ Len(slots) = Len(queue')
      /\ \A k \in 1..Len(queue') : slots[k] \in S
      /\ \A s \in S : \E k \in 1..Len(queue') : slots[k] = s
  BY DEF Inv, Lists
<1>2. S = {slots[k] : k \in 1..Len(slots)}
  BY <1>1
<1>3. Inv(done, work, slots, {slots[k] : k \in 1..Len(slots)})'
  BY <1>2
<1> QED
  BY <1>3 DEF IInv

-----------------------------------------------------------------------------
(* The invariant is kept. *)

LEMMA InitIInv == Init => IInv
<1> SUFFICES ASSUME Init PROVE IInv
  OBVIOUS
<1> USE DEF Init
<1> DEFINE work == [n \in Nat |-> <<>>]
           L == Live(0)
<1>1. L = {}
  BY DEF Live
<1>2. StateOK /\ PipesOK /\ queue \in Seq(Entry)
  BY DEF StateOK, PipesOK
<1>3. work \in Works /\ <<>> \in Seq(Slots)
  BY DEF Works
<1>4. Lists(queue, <<>>, {}, work)
  BY DEF Lists
<1> HIDE DEF work
<1>5. SlotsOK({}, work, {}) /\ LiveOK({}, 0, work)
  BY DEF SlotsOK, Ordered, LiveOK
<1>6. MemOK({}, work, {})
  BY DEF MemOK, RestOK, Buffers
<1>7. Inv(0, work, <<>>, {})
  BY <1>1, <1>4, <1>5, <1>6 DEF Inv
<1>8. {<<>>[k] : k \in 1..Len(<<>>)} = {}
  OBVIOUS
<1> QED
  BY <1>2, <1>3, <1>7, <1>8 DEF IInv

\* The job of a pipeline in flight is what it was.
LEMMA LiveFrame ==
  ASSUME NEW L, NEW done, NEW work, LiveOK(L, done, work), jobs' = jobs,
         \A n \in L : work[n].pipe \in inFlight' \ signalled',
         \A p \in inFlight : pipe'[p].job = pipe[p].job
  PROVE  LiveOK(L, done, work)'
BY DEF LiveOK

LEMMA StillInv ==
  ASSUME NEW done, NEW work, NEW slots, NEW S, NEW L, L = Live(done), Inv(done, work, slots, S),
         queue' = queue, jobs' = jobs, LiveOK(L, done, work)', MemOK(L, work, S)'
  PROVE  Inv(done, work, slots, S)'
<1>1. Live(done)' = L
  BY DEF Live
<1> QED
  BY <1>1 DEF Inv, Lists

LEMMA FillIInv ==
  ASSUME StateOK, PipesOK, queue \in Seq(Entry),
         NEW done \in Nat, NEW work \in Works, NEW slots \in Seq(Slots), NEW S, Inv(done, work, slots, S),
         NEW L, L = Live(done), NEW b \in Buffers, NEW v \in Values, Fill(b, v)
  PROVE  IInv'
<1>1. L \subseteq Nat /\ LiveOK(L, done, work) /\ MemOK(L, work, S) /\ Setting(L, work, S)
  <2>1. L \subseteq Nat
    BY LiveIsNat DEF StateOK
  <2> QED
    BY <2>1, SettingOfInv DEF Inv
<1>2. /\ b \in ToGpu /\ mem' = [mem EXCEPT ![b] = v] /\ base' = [base EXCEPT ![b] = v]
      /\ visible' = visible /\ pipe' = pipe /\ queue' = queue /\ signalled' = signalled
      /\ inFlight' = inFlight /\ jobs' = jobs
      /\ \A p \in inFlight : b \notin Reads(pipe[p].job)
  BY DEF Fill
<1>3. \A n \in L : b \notin Reads(Job(work[n]))
  BY <1>1, <1>2 DEF LiveOK
<1>4. MemoryTyped
  BY DEF StateOK, MemoryTyped
<1>5. MemOK(L, work, S)'
  BY <1>1, <1>2, <1>3, <1>4, FillStep
<1>6. LiveOK(L, done, work)'
  BY <1>1, <1>2 DEF LiveOK
<1>7. StateOK' /\ PipesOK' /\ queue' \in Seq(Entry)
  <2>1. StateOK'
    BY <1>2 DEF StateOK
  <2> QED
    BY <1>2, <2>1 DEF PipesOK
<1>8. Inv(done, work, slots, S)'
  BY <1>2, <1>5, <1>6, StillInv
<1> QED
  BY <1>7, <1>8, InvIsEnough

\* One pipeline is changed, and it keeps the job it may be busy with.
LEMMA PipeIInv ==
  ASSUME StateOK, PipesOK, queue \in Seq(Entry),
         NEW done \in Nat, NEW work \in Works, NEW slots \in Seq(Slots), NEW S, Inv(done, work, slots, S),
         NEW L, L = Live(done), NEW p \in Pipelines, NEW new,
         new = [shader |-> new.shader, bg |-> new.bg, job |-> new.job, recorded |-> new.recorded],
         p \in inFlight => new.job = pipe[p].job,
         new.shader \in Shaders \cup {<<>>}, new.bg # <<>> => new.shader \in Shaders,
         new.recorded # <<>> =>
           \E s \in Shaders, c \in Consts :
             /\ new.recorded = Commands(BoundBuffers(s), BindGroup(BoundBuffers(s)), c)
             /\ new.job = JobOf(s, c),
         pipe' = [pipe EXCEPT ![p] = new],
         inFlight' \subseteq inFlight, signalled' \subseteq signalled,
         \A q \in inFlight \ signalled : q \in inFlight',
         mem' = mem, base' = base, visible' = visible, queue' = queue, jobs' = jobs
  PROVE  IInv'
<1>1. LiveOK(L, done, work) /\ MemOK(L, work, S)
  BY DEF Inv
<1>2. pipe'[p] = new /\ \A q \in Pipelines : q # p => pipe'[q] = pipe[q]
  BY DEF StateOK
<1>3. LiveOK(L, done, work)'
  <2>1. \A n \in L : work[n].pipe \in inFlight' \ signalled'
    BY <1>1 DEF LiveOK
  <2>2. \A q \in inFlight : pipe'[q].job = pipe[q].job
    BY <1>2 DEF StateOK
  <2> QED
    BY <1>1, <2>1, <2>2, LiveFrame
<1>4. MemOK(L, work, S)'
  BY <1>1, MemFrame
<1>5. PipesOK'
  <2> SUFFICES ASSUME NEW q \in Pipelines
               PROVE  /\ pipe'[q].shader \in Shaders \cup {<<>>}
                      /\ pipe'[q].bg # <<>> => pipe'[q].shader \in Shaders
                      /\ pipe'[q].recorded # <<>> =>
                           \E s \in Shaders, c \in Consts :
                             /\ pipe'[q].recorded = Commands(BoundBuffers(s), BindGroup(BoundBuffers(s)), c)
                             /\ pipe'[q].job = JobOf(s, c)
    BY DEF PipesOK
  <2>1. CASE q = p
    BY <1>2, <2>1
  <2>2. CASE q # p
    BY <1>2, <2>2 DEF PipesOK
  <2> QED
    BY <2>1, <2>2
<1>6. StateOK'
  <2>1. pipe' = [q \in Pipelines |->
          [shader |-> pipe'[q].shader, bg |-> pipe'[q].bg, job |-> pipe'[q].job, recorded |-> pipe'[q].recorded]]
    <3>1. pipe' = [q \in Pipelines |-> pipe'[q]]
      BY DEF StateOK
    <3>2. \A q \in Pipelines : pipe'[q] =
            [shader |-> pipe'[q].shader, bg |-> pipe'[q].bg, job |-> pipe'[q].job, recorded |-> pipe'[q].recorded]
      BY <1>2 DEF StateOK
    <3> QED
      BY <3>1, <3>2
  <2> QED
    BY <2>1 DEF StateOK
<1>7. Inv(done, work, slots, S)'
  BY <1>3, <1>4, StillInv
<1> QED
  BY <1>5, <1>6, <1>7, InvIsEnough

LEMMA PipeExcept ==
  ASSUME NEW r, r = [shader |-> r.shader, bg |-> r.bg, job |-> r.job, recorded |-> r.recorded],
         NEW a, NEW b
  PROVE  [r EXCEPT !.recorded = a, !.job = b] = [shader |-> r.shader, bg |-> r.bg, job |-> b, recorded |-> a]
<1> DEFINE one == [r EXCEPT !.recorded = a]
<1>1. [r EXCEPT !.recorded = a, !.job = b] = [one EXCEPT !.job = b]
  OBVIOUS
<1>2. one = [shader |-> r.shader, bg |-> r.bg, job |-> r.job, recorded |-> a]
  OBVIOUS
<1> HIDE DEF one
<1>3. [one EXCEPT !.job = b] = [shader |-> r.shader, bg |-> r.bg, job |-> b, recorded |-> a]
  BY <1>2
<1> QED
  BY <1>1, <1>3 DEF one

LEMMA ClientIInv ==
  ASSUME StateOK, PipesOK, queue \in Seq(Entry),
         NEW done \in Nat, NEW work \in Works, NEW slots \in Seq(Slots), NEW S, Inv(done, work, slots, S),
         NEW p \in Pipelines
  PROVE  /\ \A s \in Shaders : SetShader(p, s) => IInv'
         /\ \A c \in Consts : Record(p, c) => IInv'
         /\ Build(p) \/ Wait(p) => IInv'
<1> DEFINE shape(r) == [shader |-> r.shader, bg |-> r.bg, job |-> r.job, recorded |-> r.recorded]
           now == pipe[p]
<1>1. now = shape(now) /\ pipe = [q \in Pipelines |-> pipe[q]]
  BY DEF StateOK
<1>2. /\ now.shader \in Shaders \cup {<<>>} /\ (now.bg # <<>> => now.shader \in Shaders)
      /\ now.recorded # <<>> =>
           \E s \in Shaders, c \in Consts :
             /\ now.recorded = Commands(BoundBuffers(s), BindGroup(BoundBuffers(s)), c)
             /\ now.job = JobOf(s, c)
  BY DEF PipesOK
<1>3. PICK L : L = Live(done)
  OBVIOUS
<1>4. ASSUME NEW s \in Shaders, SetShader(p, s) PROVE IInv'
  <2> DEFINE new == [now EXCEPT !.shader = s]
  <2>1. /\ new = shape(new) /\ new.shader = s /\ new.bg = now.bg /\ new.job = now.job
        /\ new.recorded = now.recorded
    BY <1>1
  <2>2. pipe' = [pipe EXCEPT ![p] = new]
    BY <1>1, <1>4 DEF SetShader
  <2>3. /\ inFlight' = inFlight /\ signalled' = signalled /\ mem' = mem /\ base' = base
        /\ visible' = visible /\ queue' = queue /\ jobs' = jobs
    BY <1>4 DEF SetShader, history
  <2> HIDE DEF new, now
  <2>4. p \in inFlight => new.job = pipe[p].job
    BY <2>1 DEF now
  <2> QED
    BY <1>2, <1>3, <2>1, <2>2, <2>3, <2>4, PipeIInv
<1>5. ASSUME NEW c \in Consts, Record(p, c) PROVE IInv'
  <2> DEFINE bound == BoundBuffers(now.shader)
             new == [now EXCEPT !.recorded = Commands(bound, now.bg, c), !.job = JobOf(now.shader, c)]
             same == [shader |-> now.shader, bg |-> now.bg, job |-> JobOf(now.shader, c),
                      recorded |-> Commands(bound, now.bg, c)]
  <2>1. p \notin inFlight /\ now.bg # <<>> /\ now.bg = BindGroup(bound) /\ now.shader \in Shaders
    BY <1>2, <1>5 DEF Record
  <2>2. /\ new = shape(new) /\ new.shader = now.shader /\ new.bg = now.bg
        /\ new.job = JobOf(now.shader, c) /\ new.recorded = Commands(bound, BindGroup(bound), c)
    <3>1. new = same
      <4> DEFINE recorded == Commands(bound, now.bg, c)
                 job == JobOf(now.shader, c)
      <4> HIDE DEF now, recorded, job
      <4>1. [now EXCEPT !.recorded = recorded, !.job = job]
              = [shader |-> now.shader, bg |-> now.bg, job |-> job, recorded |-> recorded]
        BY <1>1, PipeExcept
      <4> QED
        BY <4>1 DEF recorded, job
    <3> QED
      BY <2>1, <3>1
  <2>3. pipe' = [pipe EXCEPT ![p] = new]
    BY <1>1, <1>5 DEF Record
  <2>4. /\ inFlight' = inFlight /\ signalled' = signalled /\ mem' = mem /\ base' = base
        /\ visible' = visible /\ queue' = queue /\ jobs' = jobs
    BY <1>5 DEF Record, history
  <2>5. \E s \in Shaders, d \in Consts :
          /\ new.recorded = Commands(BoundBuffers(s), BindGroup(BoundBuffers(s)), d)
          /\ new.job = JobOf(s, d)
    BY <2>1, <2>2
  <2> HIDE DEF new, now, bound
  <2> QED
    BY <1>2, <1>3, <2>1, <2>2, <2>3, <2>4, <2>5, PipeIInv
<1>6. ASSUME Build(p) PROVE IInv'
  <2> DEFINE new == [now EXCEPT !.bg = BindGroup(BoundBuffers(now.shader)), !.recorded = <<>>, !.job = <<>>]
  <2>1. p \notin inFlight /\ now.shader \in Shaders
    BY <1>2, <1>6 DEF Build
  <2>2. new = shape(new) /\ new.shader = now.shader /\ new.recorded = <<>>
    <3> DEFINE bg == BindGroup(BoundBuffers(now.shader))
               one == [now EXCEPT !.bg = bg]
               two == [one EXCEPT !.recorded = <<>>]
    <3>1. new = [two EXCEPT !.job = <<>>]
      OBVIOUS
    <3>2. now = [shader |-> now.shader, bg |-> now.bg, job |-> now.job, recorded |-> now.recorded]
      BY <1>1
    <3> HIDE DEF now, new, bg
    <3>3. one = [shader |-> now.shader, bg |-> bg, job |-> now.job, recorded |-> now.recorded]
      BY <3>2
    <3> HIDE DEF one
    <3>4. two = [shader |-> now.shader, bg |-> bg, job |-> now.job, recorded |-> <<>>]
      BY <3>3
    <3> HIDE DEF two
    <3>5. new = [shader |-> now.shader, bg |-> bg, job |-> <<>>, recorded |-> <<>>]
      BY <3>1, <3>4
    <3> QED
      BY <3>5
  <2>3. pipe' = [pipe EXCEPT ![p] = new]
    BY <1>1, <1>6 DEF Build
  <2>4. /\ inFlight' = inFlight /\ signalled' = signalled \ {p} /\ mem' = mem /\ base' = base
        /\ visible' = visible /\ queue' = queue /\ jobs' = jobs
    BY <1>6 DEF Build, history
  <2> HIDE DEF new, now
  <2> QED
    BY <1>3, <2>1, <2>2, <2>3, <2>4, PipeIInv
<1>7. ASSUME Wait(p) PROVE IInv'
  <2>1. /\ inFlight' = inFlight \ {p} /\ p \in signalled /\ signalled' = signalled /\ mem' = mem /\ base' = base
        /\ visible' = visible /\ queue' = queue /\ jobs' = jobs /\ pipe' = pipe
    BY <1>7 DEF Wait, history
  <2>2. pipe' = [pipe EXCEPT ![p] = now]
    BY <1>1, <2>1
  <2>3. \A q \in inFlight \ signalled : q \in inFlight'
    BY <2>1
  <2>4. p \in inFlight => now.job = pipe[p].job
    OBVIOUS
  <2> HIDE DEF now
  <2> QED
    BY <1>1, <1>2, <1>3, <2>1, <2>2, <2>3, <2>4, PipeIInv
<1> QED
  BY <1>4, <1>5, <1>6, <1>7

\* What is submitted is compatible with what the client has not seen the end of.
LEMMA SubmitIInv ==
  ASSUME StateOK, PipesOK, queue \in Seq(Entry),
         NEW done \in Nat, NEW work \in Works, NEW slots \in Seq(Slots), NEW S \in SUBSET Slots,
         Inv(done, work, slots, S),
         NEW L, L = Live(done), NEW p \in Pipelines, SubmitAsync(p)
  PROVE  IInv'
<1>1. PICK s \in Shaders, c \in Consts :
        /\ pipe[p].recorded = Commands(BoundBuffers(s), BindGroup(BoundBuffers(s)), c)
        /\ pipe[p].job = JobOf(s, c)
  BY  DEF SubmitAsync, PipesOK
<1>0. PICK N : N = Len(jobs)
  OBVIOUS
<1> DEFINE w == [shader |-> s, const |-> c, pipe |-> p]
<1>n. PICK n : n = done + N + 1
  OBVIOUS
<1> DEFINE added == {<<n, i>> : i \in Has(w)}
<1>M. PICK M : M = L \cup {n}
  OBVIOUS
<1>new. PICK new : new = [work EXCEPT ![n] = w]
  OBVIOUS
<1>T. PICK T : T = S \cup added
  OBVIOUS
<1>2. /\ L \subseteq Nat /\ N \in Nat /\ n \in Nat /\ L = (done + 1)..(done + N)
      /\ LiveOK(L, done, work) /\ MemOK(L, work, S) /\ SlotsOK(L, work, S)
      /\ Lists(queue, slots, S, work)
  BY <1>0, <1>n, LiveIsNat DEF StateOK, Inv, Live
<1>3. w \in Work /\ Bound(w) = BoundBuffers(s) /\ Job(w) = pipe[p].job /\ w.pipe = p /\ w.const = c
  BY <1>1 DEF Work, Bound, Job
<1>4. /\ p \notin inFlight
      /\ \A q \in inFlight : Compatible(Job(w), pipe[q].job)
      /\ queue' = queue \o pipe[p].recorded \o <<Signal(p)>>
      /\ signalled' = signalled \ {p} /\ inFlight' = inFlight \cup {p}
      /\ jobs' = Append(jobs, Job(w))
      /\ mem' = mem /\ visible' = visible /\ pipe' = pipe /\ base' = base
  BY <1>3 DEF SubmitAsync
<1> HIDE DEF w
<1>5. /\ new \in Works /\ new[n] = w /\ \A m \in Nat : m # n => new[m] = work[m]
      /\ M \subseteq Nat /\ n \notin L /\ \A m \in L : m < n
  BY <1>2, <1>3, <1>M, <1>new, <1>n DEF Works
<1>6. N + 1 = Len(jobs') /\ jobs'[N + 1] = Job(w) /\ \A k \in 1..N : jobs'[k] = jobs[k]
  BY <1>0, <1>4 DEF StateOK
<1>7. Live(done)' = M
  BY <1>2, <1>6, <1>M, <1>n DEF Live
<1>8. Lists(queue, slots, S, new)
  <2>1. \A t \in S : new[t[1]] = work[t[1]]
    <3> SUFFICES ASSUME NEW t \in S PROVE t[1] \in L
      BY <1>2, <1>5
    <3> QED
      BY <1>2 DEF SlotsOK
  <2> QED
    BY <1>2, <2>1 DEF Lists
<1>9. PICK more \in Seq(Slots) :
        /\ Lists(queue', more, T, new) /\ queue' \in Seq(Entry)
  <2> DEFINE q == pipe[p].recorded
             r == <<Signal(p)>>
             A == SlotsOf(n, w, {1, 2, 3, 4, 5, 6, 7})
             B == SlotsOf(n, w, {8})
  <2>1. Listed(q, A, new) /\ Listed(r, B, new)
    <3>1. /\ Listed(Commands(Bound(w), BindGroup(Bound(w)), w.const), A, new)
          /\ Listed(<<Signal(w.pipe)>>, B, new)
      BY <1>2, <1>3, <1>5, SubmissionListed
    <3> QED
      BY <1>1, <1>3, <3>1
  <2>2. Listed(queue, S, new)
    BY <1>8 DEF Listed
  <2>0. \A a \in S : a[1] \in L /\ a[1] < n
    <3> SUFFICES ASSUME NEW a \in S PROVE a[1] \in L
      BY <1>5
    <3>1. a \in L \X (1..8)
      BY <1>2, Zenon DEF SlotsOK
    <3> QED
      BY <3>1
  <2>3. \A a \in S, b \in A : Precedes(a, b)
    BY <2>0 DEF Precedes, SlotsOf
  <2>4. \A a \in S \cup A, b \in B : Precedes(a, b)
    <3>1. \A a \in S, b \in B : Precedes(a, b)
      BY <2>0 DEF Precedes, SlotsOf
    <3>2. \A a \in A, b \in B : a[1] = b[1] /\ a[2] < b[2]
      BY DEF SlotsOf
    <3> QED
      BY <3>1, <3>2 DEF Precedes
  <2>5. A \in SUBSET Slots /\ B \in SUBSET Slots /\ added = A \cup B
    <3>1. n \in Nat
      BY <1>2
    <3> QED
      BY <3>1 DEF SlotsOf, Slots, Has
  <2>6. queue' = (queue \o q) \o r
    BY <1>4
  <2> HIDE DEF q, r, A, B, added
  <2>7. Listed(queue \o q, S \cup A, new) /\ S \cup A \in SUBSET Slots
    BY <2>1, <2>2, <2>3, <2>5, ListedConcat
  <2>8. Listed((queue \o q) \o r, (S \cup A) \cup B, new)
    BY <2>1, <2>4, <2>5, <2>7, ListedConcat
  <2>9. T = (S \cup A) \cup B
    BY <2>5, <1>T
  <2> QED
    BY <2>6, <2>8, <2>9 DEF Listed
<1>10. SlotsOK(M, new, T)
  <2>1. 8 \in Has(w)
    BY  DEF Has
  <2>2. \A t \in T : t \in M \X (1..8) /\ t[2] \in Has(new[t[1]])
    <3>1. ASSUME NEW t \in S PROVE t \in M \X (1..8) /\ t[2] \in Has(new[t[1]])
      <4>1. t \in L \X (1..8) /\ t[2] \in Has(work[t[1]])
        BY <1>2 DEF SlotsOK
      <4>2. t[1] \in L /\ t[1] # n /\ t[1] \in Nat
        BY <1>2, <1>5, <4>1
      <4> QED
        BY <1>5, <4>1, <4>2, <1>M
    <3>2. ASSUME NEW t \in added PROVE t \in M \X (1..8) /\ t[2] \in Has(new[t[1]])
      <4>1. PICK i \in Has(w) : t = <<n, i>>
        BY <3>2
      <4>2. i \in 1..8 /\ n \in M /\ new[n] = w
        BY <1>5, <1>M DEF Has
      <4> QED
        BY <4>1, <4>2
    <3> QED
      BY <3>1, <3>2, <1>T
  <2>3. \A m \in M : <<m, 8>> \in T
    BY <1>2, <2>1, <1>M, <1>T DEF SlotsOK
  <2>4. Ordered(M, new, T)
    <3> SUFFICES ASSUME NEW l \in M, NEW m \in M, NEW i \in Has(new[l]), NEW k \in Has(new[m]),
                        Precedes(<<l, i>>, <<m, k>>), Before(Command(new[l], i), Command(new[m], k)),
                        <<l, i>> \in T
                 PROVE  <<m, k>> \in T
      BY  DEF Ordered
    <3>1. CASE m = n
      BY <1>5, <3>1, <1>T
    <3>2. CASE m # n
      <4>1. m \in L /\ m < n /\ new[m] = work[m]
        BY <1>2, <1>5, <3>2, <1>M
      <4>2. l # n
        <5>1. l = n => m \in Nat /\ n \in Nat /\ m < n /\ ~Precedes(<<n, i>>, <<m, k>>)
          BY <1>2, <4>1 DEF Precedes
        <5> QED
          BY <5>1
      <4>3. l \in L /\ new[l] = work[l]
        BY <1>2, <1>5, <4>2, <1>M
      <4>4. <<l, i>> \in S
        BY <4>2, <1>T
      <4>5. Ordered(L, work, S)
        BY <1>2 DEF SlotsOK
      <4> QED
        BY <4>1, <4>3, <4>4, <4>5, <1>T DEF Ordered
    <3> QED
      BY <3>1, <3>2
  <2> QED
    BY <2>2, <2>3, <2>4 DEF SlotsOK
<1>11. /\ \A m \in L : /\ work[m] \in Work /\ jobs[m - done] = Job(work[m])
                       /\ work[m].pipe \in inFlight \ signalled /\ pipe[work[m].pipe].job = Job(work[m])
                       /\ m - done \in 1..N
       /\ \A m, k \in L : m # k => work[m].pipe # work[k].pipe /\ Compatible(Job(work[m]), Job(work[k]))
  BY <1>2 DEF LiveOK
<1>12. LiveOK(M, done, new)'
  <2> SUFFICES /\ \A m \in M : /\ new[m] \in Work /\ jobs'[m - done] = Job(new[m])
                               /\ new[m].pipe \in inFlight' \ signalled'
                               /\ pipe'[new[m].pipe].job = Job(new[m])
               /\ \A m, k \in M : m # k =>
                    new[m].pipe # new[k].pipe /\ Compatible(Job(new[m]), Job(new[k]))
    BY  DEF LiveOK
  <2>1. \A m \in L : new[m] = work[m] /\ work[m].pipe # p
    <3>1. \A m \in L : m \in Nat /\ m # n
      BY <1>2, <1>5
    <3> QED
      BY <1>4, <1>5, <1>11, <3>1
  <2>2. ASSUME NEW m \in L
        PROVE  /\ new[m] \in Work /\ jobs'[m - done] = Job(new[m])
               /\ new[m].pipe \in inFlight' \ signalled'
               /\ pipe'[new[m].pipe].job = Job(new[m])
    <3>1. jobs'[m - done] = jobs[m - done]
      BY <1>6, <1>11
    <3> QED
      BY <1>4, <1>11, <2>1, <3>1
  <2>3. /\ new[n] \in Work /\ jobs'[n - done] = Job(new[n])
        /\ new[n].pipe \in inFlight' \ signalled'
        /\ pipe'[new[n].pipe].job = Job(new[n])
    <3>1. n - done = N + 1
      BY <1>2, <1>n
    <3> QED
      BY <1>3, <1>4, <1>5, <1>6, <3>1
  <2>4. ASSUME NEW m \in L
        PROVE  Compatible(Job(w), Job(work[m])) /\ Compatible(Job(work[m]), Job(w))
    <3>1. Compatible(Job(w), Job(work[m]))
      BY <1>4, <1>11
    <3> QED
      BY <3>1, CompatibleSymmetric
  <2>5. ASSUME NEW m \in M, NEW k \in M, m # k
        PROVE  new[m].pipe # new[k].pipe /\ Compatible(Job(new[m]), Job(new[k]))
    <3>1. CASE m = n
      <4>1. k \in L
        BY <2>5, <3>1, <1>M
      <4> QED
        BY <1>3, <1>5, <2>1, <2>4, <3>1, <4>1
    <3>2. CASE k = n
      <4>1. m \in L
        BY <2>5, <3>2, <1>M
      <4> QED
        BY <1>3, <1>5, <2>1, <2>4, <3>2, <4>1
    <3>3. CASE m # n /\ k # n
      <4>1. m \in L /\ k \in L
        BY <3>3, <1>M
      <4> QED
        BY <1>11, <2>1, <2>5, <4>1
    <3> QED
      BY <3>1, <3>2, <3>3
  <2>6. \A m \in M : m \in L \/ m = n
    BY <1>M
  <2> QED
    BY <2>2, <2>3, <2>5, <2>6
<1>13. Setting(L, work, S) /\ MemoryTyped
  BY <1>2, SettingOfInv DEF StateOK, MemoryTyped
<1>14. Setting(M, new, T)
  <2>1. Chain(M, new, T)
    BY <1>5, <1>10, OrderedChain DEF SlotsOK
  <2>2. /\ \A m \in M : new[m] \in Work
        /\ \A m, k \in M : m # k => Compatible(Job(new[m]), Job(new[k]))
    BY <1>12 DEF LiveOK
  <2>3. \A m \in M : Kinds(new[m])
    BY <2>2, KindsOfWork
  <2>4. \A m, k \in M : m # k => Apart(new[m], new[k]) \/ Twins(new[m], new[k])
    BY <2>2, CompatibleWorks
  <2> QED
    BY <1>5, <2>1, <2>2, <2>3, <2>4 DEF Setting
<1>15. MemOK(M, new, T)'
  <2>1. \A m, i : <<m, i>> \in added <=> m = n /\ i \in Has(w)
    OBVIOUS
  <2>2. \A m, i : <<m, i>> \in T <=> <<m, i>> \in S \/ (m = n /\ i \in Has(new[n]))
    BY <1>5, <1>T, <2>1
  <2>3. M = L \cup {n} /\ \A m \in L : new[m] = work[m]
    <3>1. \A m \in L : m \in Nat /\ m # n
      BY <1>2, <1>5
    <3> QED
      BY <1>5, <3>1, <1>M
  <2>4. n \in Nat /\ MemOK(L, work, S) /\ (\A m \in L : m < n)
    BY <1>2, <1>5
  <2>5. mem' = mem /\ visible' = visible /\ base' = base
    BY <1>4
  <2> QED
    BY <1>13, <1>14, <2>2, <2>3, <2>4, <2>5, SubmitStep
<1>16. StateOK' /\ PipesOK'
  <2>1. Job(w) \in AllJobs
    BY <1>1, <1>3 DEF AllJobs
  <2>2. jobs' \in Seq(AllJobs)
    BY <1>4, <2>1 DEF StateOK
  <2>3. StateOK'
    BY <1>4, <2>2 DEF StateOK
  <2> QED
    BY <1>4, <2>3 DEF PipesOK
<1>17. Inv(done, new, more, T)'
  BY <1>7, <1>9, <1>10, <1>12, <1>15 DEF Inv, Lists
<1> QED
  BY <1>5, <1>9, <1>16, <1>17, InvIsEnough

\* What the device does for a command.
LEMMA EffectOfCommand ==
  ASSUME NEW w \in Work, NEW k \in Has(w), Effect(Command(w, k))
  PROVE  /\ k = 1 => /\ mem' = [mem EXCEPT ![In(w)] = Read(Source(w), "transfer")]
                     /\ visible' = Unseen(In(w)) /\ signalled' = signalled /\ Loads(w)
         /\ k = 2 => /\ visible' = [visible EXCEPT ![In(w)] = @ \cup {"compute"}]
                     /\ mem' = mem /\ signalled' = signalled
         /\ k = 3 => /\ mem' = [mem EXCEPT ![Out(w)] = <<Read(In(w), "compute"), w.const>>]
                     /\ visible' = Unseen(Out(w)) /\ signalled' = signalled
         /\ \A j \in 1..2 :
              /\ k = BarrierOf(j) => /\ visible' = [visible EXCEPT ![From(w, j)] = @ \cup {"transfer"}]
                                     /\ mem' = mem /\ signalled' = signalled /\ Stores(w, j)
              /\ k = StoreOf(j) => /\ mem' = [mem EXCEPT ![To(w, j)] = Read(From(w, j), "transfer")]
                                   /\ visible' = Unseen(To(w, j)) /\ signalled' = signalled /\ Stores(w, j)
         /\ k = 8 => /\ signalled' = signalled \cup {w.pipe} /\ mem' = mem
                     /\ visible' = [b \in OnDevice |-> IF b \in SeenAfter THEN Stages ELSE visible[b]]
         /\ Command(w, k).op = "signal" <=> k = 8
<1>1. Kinds(w) /\ Inputs \cap Outputs = {}
  BY KindsOfWork, SessionAssumption
<1>2. k \in {1, 2, 3, 4, 5, 6, 7, 8}
  BY DEF Has
<1>3. CASE k = 1
  <2>1. Command(w, k) = [op |-> "copy", from |-> Source(w), to |-> In(w)] /\ Loads(w)
    BY <1>3 DEF Command, Copy, Has
  <2> QED
    BY <1>3, <2>1 DEF Effect, BarrierOf, StoreOf
<1>4. CASE k = 2
  <2>1. Command(w, k) = [op |-> "barrier", on |-> In(w), src |-> "transfer", dst |-> "compute"] /\ Loads(w)
    BY <1>4 DEF Command, Barrier, Has
  <2>2. WrittenIn(In(w)) = "transfer"
    BY <1>1, <2>1 DEF Kinds, WrittenIn
  <2> QED
    BY <1>4, <2>1, <2>2 DEF Effect, BarrierOf, StoreOf
<1>5. CASE k = 3
  <2>1. Command(w, k) = [op |-> "dispatch", in |-> In(w), out |-> Out(w), const |-> w.const]
    BY <1>5 DEF Command
  <2> QED
    BY <1>5, <2>1 DEF Effect, BarrierOf, StoreOf
<1>6. ASSUME NEW j \in 1..2, k = BarrierOf(j)
      PROVE  /\ visible' = [visible EXCEPT ![From(w, j)] = @ \cup {"transfer"}]
             /\ mem' = mem /\ signalled' = signalled /\ Stores(w, j) /\ Command(w, k).op = "barrier"
  <2>1. j = 1 \/ j = 2
    OBVIOUS
  <2>2. Command(w, k) = [op |-> "barrier", on |-> From(w, j), src |-> "compute", dst |-> "transfer"] /\ Stores(w, j)
    BY <1>6, <2>1 DEF Command, Barrier, Has, BarrierOf
  <2>3. WrittenIn(From(w, j)) = "compute"
    BY <1>1, <2>2 DEF Kinds, WrittenIn
  <2> QED
    BY <2>2, <2>3 DEF Effect
<1>7. ASSUME NEW j \in 1..2, k = StoreOf(j)
      PROVE  /\ mem' = [mem EXCEPT ![To(w, j)] = Read(From(w, j), "transfer")]
             /\ visible' = Unseen(To(w, j)) /\ signalled' = signalled /\ Stores(w, j)
             /\ Command(w, k).op = "copy"
  <2>1. j = 1 \/ j = 2
    OBVIOUS
  <2>2. Command(w, k) = [op |-> "copy", from |-> From(w, j), to |-> To(w, j)] /\ Stores(w, j)
    BY <1>7, <2>1 DEF Command, Copy, Has, StoreOf
  <2> QED
    BY <2>2 DEF Effect
<1>8. CASE k \in {4, 5, 6, 7}
  <2>1. k = BarrierOf(1) \/ k = StoreOf(1) \/ k = BarrierOf(2) \/ k = StoreOf(2)
    BY <1>8 DEF BarrierOf, StoreOf
  <2>2. Command(w, k).op # "signal"
    BY <1>6, <1>7, <2>1
  <2> QED
    BY <1>6, <1>7, <1>8, <2>2
<1>9. CASE k = 8
  <2>1. Command(w, k) = [op |-> "signal", fence |-> w.pipe]
    BY <1>9 DEF Command, Signal
  <2> QED
    BY <1>9, <2>1 DEF Effect, BarrierOf, StoreOf
<1> QED
  BY <1>2, <1>3, <1>4, <1>5, <1>8, <1>9

LEMMA EffectTyped ==
  ASSUME MemoryTyped, NEW e \in Entry, Effect(e)
  PROVE  mem' = [b \in Buffers |-> mem'[b]] /\ visible' \in [OnDevice -> SUBSET Stages]
<1>1. CASE e.op \in {"copy", "dispatch"}
  BY <1>1 DEF Effect, MemoryTyped, Unseen
<1>2. CASE e.op = "barrier"
  <2>1. e.dst \in Stages
    BY <1>2 DEF Entry
  <2> QED
    BY <1>2, <2>1 DEF Effect, MemoryTyped
<1>3. CASE e.op = "signal"
  BY <1>3 DEF Effect, MemoryTyped
<1> QED
  BY <1>1, <1>2, <1>3 DEF Effect

\* A command other than a signal.
LEMMA WorkStep ==
  ASSUME NEW L, NEW work, NEW S, NEW T, Setting(L, work, S), Setting(L, work, T),
         NEW n \in L, NEW k \in Has(work[n]) \ {8}, <<n, k>> \in S, T = S \ {<<n, k>>},
         MemoryTyped, MemOK(L, work, S), Effect(Command(work[n], k)), base' = base
  PROVE  MemOK(L, work, T)' /\ signalled' = signalled
<1> DEFINE w == work[n]
<1>1. w \in Work /\ Kinds(w)
  BY DEF Setting
<1>2. k \in {1, 2, 3} \/ \E j \in 1..2 : k = BarrierOf(j) \/ k = StoreOf(j)
  <2>1. k \in {1, 2, 3, 4, 5, 6, 7}
    BY DEF Has
  <2>2. BarrierOf(1) = 4 /\ StoreOf(1) = 5 /\ BarrierOf(2) = 6 /\ StoreOf(2) = 7
    BY DEF BarrierOf, StoreOf
  <2> QED
    BY <2>1, <2>2
<1>3. CASE k = 1
  <2>1. /\ mem' = [mem EXCEPT ![In(w)] = Read(Source(w), "transfer")]
        /\ visible' = Unseen(In(w)) /\ signalled' = signalled /\ Loads(w)
    BY <1>1, <1>3, EffectOfCommand
  <2> QED
    BY <1>3, <2>1, LoadStep
<1>4. CASE k = 2
  <2>1. /\ visible' = [visible EXCEPT ![In(w)] = @ \cup {"compute"}]
        /\ mem' = mem /\ signalled' = signalled
    BY <1>1, <1>4, EffectOfCommand
  <2>2. In(w) \in OnDevice /\ "compute" \in Stages /\ \A j \in 1..2 : k # BarrierOf(j)
    BY <1>1, <1>4 DEF Kinds, Stages, BarrierOf
  <2> QED
    BY <1>4, <2>1, <2>2, BarrierStep
<1>5. CASE k = 3
  <2>1. /\ mem' = [mem EXCEPT ![Out(w)] = <<Read(In(w), "compute"), w.const>>]
        /\ visible' = Unseen(Out(w)) /\ signalled' = signalled
    BY <1>1, <1>5, EffectOfCommand
  <2> QED
    BY <1>5, <2>1, DispatchStep
<1>6. ASSUME NEW j \in 1..2, k = BarrierOf(j)
      PROVE  MemOK(L, work, T)' /\ signalled' = signalled
  <2>1. /\ visible' = [visible EXCEPT ![From(w, j)] = @ \cup {"transfer"}]
        /\ mem' = mem /\ signalled' = signalled /\ Stores(w, j)
    BY <1>1, <1>6, EffectOfCommand
  <2>2. From(w, j) \in OnDevice /\ "transfer" \in Stages /\ k \in {4, 6}
    BY <1>1, <1>6, <2>1 DEF Kinds, Stages, BarrierOf, OnDevice
  <2>3. \A l \in 1..2 : k = BarrierOf(l) => l = j
    BY <1>6 DEF BarrierOf
  <2>4. PICK b \in OnDevice, stage \in Stages : b = From(w, j) /\ stage = "transfer"
    BY <2>2
  <2>5. visible' = [visible EXCEPT ![b] = @ \cup {stage}] /\ mem' = mem
    BY <2>1, <2>4
  <2>6. /\ \A l \in 1..2 : k = BarrierOf(l) => b = From(work[n], l) /\ stage = "transfer"
        /\ k = 2 => b = In(work[n]) /\ stage = "compute"
        /\ k \in {2, 4, 6}
    BY <2>2, <2>3, <2>4
  <2>7. MemOK(L, work, T)'
    BY <2>5, <2>6, BarrierStep, ZenonT(60)
  <2> QED
    BY <2>1, <2>7
<1>7. ASSUME NEW j \in 1..2, k = StoreOf(j)
      PROVE  MemOK(L, work, T)' /\ signalled' = signalled
  <2>1. /\ mem' = [mem EXCEPT ![To(w, j)] = Read(From(w, j), "transfer")]
        /\ visible' = Unseen(To(w, j)) /\ signalled' = signalled /\ Stores(w, j)
    BY <1>1, <1>7, EffectOfCommand
  <2> QED
    BY <1>7, <2>1, StoreStep
<1> QED
  BY <1>2, <1>3, <1>4, <1>5, <1>6, <1>7

\* The command of a slot is finished, and the slot is taken out.
LEMMA ExecuteIInv ==
  ASSUME StateOK, PipesOK, queue \in Seq(Entry),
         NEW done \in Nat, NEW work \in Works, NEW slots \in Seq(Slots), NEW S \in SUBSET Slots,
         Inv(done, work, slots, S), NEW L, L = Live(done), Execute
  PROVE  IInv'
<1>1. PICK i \in DOMAIN queue :
        /\ MayStart(i) /\ Effect(queue[i]) /\ queue' = RemoveAt(queue, i)
        /\ IF queue[i].op = "signal"
           THEN jobs' = Tail(jobs) /\ base' = Jobs!Effect(Head(jobs), base)
           ELSE UNCHANGED history
        /\ pipe' = pipe /\ inFlight' = inFlight
  BY DEF Execute
<1>2. /\ L \subseteq Nat /\ Len(jobs) \in Nat /\ L = (done + 1)..(done + Len(jobs))
      /\ LiveOK(L, done, work) /\ MemOK(L, work, S) /\ SlotsOK(L, work, S)
      /\ Lists(queue, slots, S, work)
  BY LiveIsNat DEF StateOK, Inv, Live
<1>3. /\ i \in 1..Len(queue) /\ slots[i] \in S /\ queue[i] = Command(work[slots[i][1]], slots[i][2])
  <2>1. i \in 1..Len(queue)
    OBVIOUS
  <2> QED
    BY <1>2, <2>1, Zenon DEF Lists
<1>4. PICK n \in L, k \in 1..8 : slots[i] = <<n, k>>
  <2>1. slots[i] \in L \X (1..8)
    BY <1>2, <1>3, Zenon DEF SlotsOK
  <2>2. \A x \in L \X (1..8) : \E n \in L, k \in 1..8 : x = <<n, k>>
    OBVIOUS
  <2> QED
    BY <2>1, <2>2, Zenon
<1> DEFINE w == work[n]
           T == S \ {<<n, k>>}
<1>5. <<n, k>> \in S /\ k \in Has(w) /\ queue[i] = Command(w, k) /\ n \in Nat
  BY <1>2, <1>3, <1>4 DEF SlotsOK
<1>6. w \in Work /\ jobs[n - done] = Job(w) /\ w.pipe \in inFlight \ signalled /\ pipe[w.pipe].job = Job(w)
  BY <1>2 DEF LiveOK
<1>7. /\ Lists(queue', RemoveAt(slots, i), T, work)
      /\ queue' \in Seq(Entry) /\ RemoveAt(slots, i) \in Seq(Slots)
  BY <1>1, <1>2, <1>3, <1>4, ListsRemove
<1>8. \A s \in S : Precedes(s, <<n, k>>) => ~Before(Command(work[s[1]], s[2]), Command(w, k))
  BY <1>1, <1>2, <1>4, <1>5, MayStartSlots
<1>9. Ordered(L, work, T)
  BY <1>2, <1>8, OrderedRemove DEF SlotsOK
<1>10. Setting(L, work, S) /\ MemoryTyped
  BY <1>2, SettingOfInv DEF StateOK, MemoryTyped
<1>11. /\ mem' = [b \in Buffers |-> mem'[b]] /\ visible' \in [OnDevice -> SUBSET Stages]
  BY <1>1, <1>3, <1>10, EffectTyped
<1>12. PipesOK'
  BY <1>1 DEF PipesOK
<1>13. CASE k # 8
  <2>1. jobs' = jobs /\ base' = base
    BY <1>1, <1>5, <1>6, <1>13, EffectOfCommand DEF history
  <2>2. SlotsOK(L, work, T)
    BY <1>2, <1>9, <1>13 DEF SlotsOK
  <2>3. Setting(L, work, T)
    BY <1>2, <2>2, SettingOfInv
  <2>4. MemOK(L, work, T)' /\ signalled' = signalled
    <3>1. k \in Has(work[n]) \ {8} /\ Effect(Command(work[n], k))
      BY <1>1, <1>5, <1>13
    <3> QED
      BY <1>2, <1>5, <1>10, <2>1, <2>3, <3>1, WorkStep
  <2>5. LiveOK(L, done, work)'
    BY <1>1, <1>2, <2>1, <2>4 DEF LiveOK
  <2>6. StateOK'
    BY <1>1, <1>11, <2>1, <2>4 DEF StateOK
  <2>7. Live(done)' = L
    BY <2>1 DEF Live
  <2>8. Inv(done, work, RemoveAt(slots, i), T)'
    BY <1>7, <2>2, <2>4, <2>5, <2>7 DEF Inv, Lists
  <2> QED
    BY <1>7, <1>12, <2>6, <2>8, InvIsEnough
<1>14. CASE k = 8
  <2> DEFINE M == L \ {n}
  <2>1. \A s \in S : ~Precedes(s, <<n, 8>>)
    <3>1. Command(w, 8).op = "signal"
      BY <1>5, <1>14 DEF Command, Signal
    <3> QED
      BY <1>8, <1>14, <3>1 DEF Before
  <2>2. \A j \in 1..7 : <<n, j>> \notin S
    BY <2>1 DEF Precedes
  <2>3. n = done + 1
    <3>1. done + 1 \in L
      BY <1>2
    <3>2. <<done + 1, 8>> \in S
      BY <1>2, <3>1 DEF SlotsOK
    <3>3. ~(done + 1 < n)
      BY <2>1, <3>2 DEF Precedes
    <3> QED
      BY <1>2, <1>5, <3>3
  <2>4. Len(jobs) >= 1 /\ Head(jobs) = Job(w)
    BY <1>2, <1>6, <2>3 DEF StateOK
  <2>5. /\ signalled' = signalled \cup {w.pipe} /\ mem' = mem
        /\ visible' = [b \in OnDevice |-> IF b \in SeenAfter THEN Stages ELSE visible[b]]
        /\ jobs' = Tail(jobs) /\ base' = Jobs!Effect(Job(w), base)
    BY <1>1, <1>5, <1>6, <1>14, <2>4, EffectOfCommand
  <2>6. /\ jobs' \in Seq(AllJobs) /\ Len(jobs') = Len(jobs) - 1
        /\ \A j \in 1..(Len(jobs) - 1) : jobs'[j] = jobs[j + 1]
    BY <2>4, <2>5 DEF StateOK
  <2>7. Live(done + 1)' = M /\ M = (done + 2)..(done + Len(jobs)) /\ \A m \in M : n < m
    <3>1. M = (done + 2)..(done + Len(jobs))
      BY <1>2, <2>3
    <3>2. Live(done + 1)' = (done + 2)..(done + Len(jobs))
      BY <1>2, <2>6 DEF Live
    <3> QED
      BY <2>3, <3>1, <3>2
  <2>8. PICK Seen : Seen = SeenAfter
    OBVIOUS
  <2>9. \A b : b \in Seen <=> Written(w, b) /\ \A m \in M : ~Written(work[m], b)
    <3>1. \A m \in L : \A b : b \in Writes(Job(work[m])) <=> Written(work[m], b)
      BY <1>10, WritesOfJob DEF Setting
    <3>2. \A j \in 2..Len(jobs) : done + j \in M /\ jobs[j] = Job(work[done + j])
      <4> SUFFICES ASSUME NEW j \in 2..Len(jobs) PROVE done + j \in M /\ jobs[j] = Job(work[done + j])
        OBVIOUS
      <4>1. done + j \in M /\ done + j \in L /\ (done + j) - done = j
        BY <1>2, <2>7
      <4> QED
        BY <1>2, <4>1 DEF LiveOK
    <3>3. \A m \in M : m - done \in 2..Len(jobs) /\ done + (m - done) = m
      BY <1>2, <2>7
    <3>4. \A b : (\E j \in 2..Len(jobs) : b \in Writes(jobs[j])) <=> \E m \in M : b \in Writes(Job(work[m]))
      <4> TAKE b
      <4>1. ASSUME NEW j \in 2..Len(jobs), b \in Writes(jobs[j])
            PROVE  \E m \in M : b \in Writes(Job(work[m]))
        BY <3>2, <4>1
      <4>2. ASSUME NEW m \in M, b \in Writes(Job(work[m]))
            PROVE  \E j \in 2..Len(jobs) : b \in Writes(jobs[j])
        <5>1. jobs[m - done] = Job(work[done + (m - done)]) /\ m - done \in 2..Len(jobs)
          BY <3>2, <3>3
        <5> QED
          BY <3>3, <4>2, <5>1
      <4> QED
        BY <4>1, <4>2
    <3>5. \A b : b \in SeenAfter <=> b \in Writes(Job(w)) /\ ~\E j \in 2..Len(jobs) : b \in Writes(jobs[j])
      BY <2>4 DEF SeenAfter
    <3> QED
      BY <2>8, <3>1, <3>4, <3>5
  <2>10. MemOK(M, work, T)'
    <3>1. visible' = [b \in OnDevice |-> IF b \in Seen THEN Stages ELSE visible[b]]
      BY <2>5, <2>8
    <3>2. T = S \ {<<n, 8>>} /\ MemOK(L, work, S) /\ M = L \ {n} /\ \A m \in M : n < m
      BY <1>2, <1>14, <2>7
    <3>3. mem' = mem /\ base' = Jobs!Effect(Job(w), base)
      BY <2>5
    <3> HIDE DEF M, T
    <3> QED
      BY <1>10, <2>2, <2>9, <3>1, <3>2, <3>3, SignalStep, ZenonT(60)
  <2>11. SlotsOK(M, work, T)
    <3>1. \A s \in T : s \in M \X (1..8) /\ s[2] \in Has(work[s[1]])
      <4> SUFFICES ASSUME NEW s \in T PROVE s[1] # n
        BY <1>2 DEF SlotsOK
      <4>1. s \in L \X (1..8) /\ s \in S /\ s # <<n, 8>>
        BY <1>2, <1>14 DEF SlotsOK
      <4>2. s[1] = n => s[2] \in 1..7 /\ s = <<n, s[2]>>
        <5>1. s = <<s[1], s[2]>> /\ s[2] \in 1..8
          BY <4>1
        <5> QED
          BY <4>1, <5>1
      <4> QED
        BY <2>2, <4>1, <4>2
    <3>2. \A m \in M : <<m, 8>> \in T
      BY <1>2 DEF SlotsOK
    <3>3. Ordered(M, work, T)
      BY <1>9 DEF Ordered
    <3> QED
      BY <3>1, <3>2, <3>3 DEF SlotsOK
  <2>12. LiveOK(M, done + 1, work)'
    <3> SUFFICES /\ \A m \in M : /\ work[m] \in Work /\ jobs'[m - (done + 1)] = Job(work[m])
                                 /\ work[m].pipe \in inFlight' \ signalled'
                                 /\ pipe'[work[m].pipe].job = Job(work[m])
                 /\ \A m, l \in M : m # l =>
                      work[m].pipe # work[l].pipe /\ Compatible(Job(work[m]), Job(work[l]))
      BY DEF LiveOK
    <3>1. \A m, l \in M : m # l =>
            work[m].pipe # work[l].pipe /\ Compatible(Job(work[m]), Job(work[l]))
      BY <1>2 DEF LiveOK
    <3>2. ASSUME NEW m \in M
          PROVE  /\ work[m] \in Work /\ jobs'[m - (done + 1)] = Job(work[m])
                 /\ work[m].pipe \in inFlight' \ signalled'
                 /\ pipe'[work[m].pipe].job = Job(work[m])
      <4>1. /\ work[m] \in Work /\ jobs[m - done] = Job(work[m])
            /\ work[m].pipe \in inFlight \ signalled /\ pipe[work[m].pipe].job = Job(work[m])
            /\ work[m].pipe # w.pipe
        BY <1>2 DEF LiveOK
      <4>2. m - (done + 1) \in 1..(Len(jobs) - 1) /\ (m - (done + 1)) + 1 = m - done
        BY <1>2, <2>7
      <4>3. jobs'[m - (done + 1)] = jobs[m - done]
        BY <2>6, <4>2
      <4> QED
        BY <1>1, <2>5, <4>1, <4>3
    <3> QED
      BY <3>1, <3>2
  <2>13. StateOK'
    <3>1. base' = [b \in Buffers |-> base'[b]]
      BY <1>6, <1>10, <2>5, EffectOfJob DEF MemoryTyped
    <3>2. w.pipe \in Pipelines
      BY <1>6 DEF Work
    <3> QED
      BY <1>1, <1>11, <2>5, <2>6, <3>1, <3>2 DEF StateOK
  <2>14. Inv(done + 1, work, RemoveAt(slots, i), T)'
    BY <1>7, <2>7, <2>10, <2>11, <2>12 DEF Inv, Lists
  <2> QED
    BY <1>7, <1>12, <2>13, <2>14, InvIsEnough
<1> QED
  BY <1>13, <1>14

\* Every step of the specification keeps it.
LEMMA NextIInv == IInv /\ [Next]_vars => IInv'
<1> SUFFICES ASSUME IInv, [Next]_vars PROVE IInv'
  OBVIOUS
<1>1. PICK done \in Nat, work \in Works, slots \in Seq(Slots) :
        Inv(done, work, slots, {slots[k] : k \in 1..Len(slots)})
  BY DEF IInv
<1>2. PICK S : S = {slots[k] : k \in 1..Len(slots)}
  OBVIOUS
<1>3. PICK L : L = Live(done)
  OBVIOUS
<1>4. /\ StateOK /\ PipesOK /\ queue \in Seq(Entry) /\ S \in SUBSET Slots /\ Inv(done, work, slots, S)
  BY <1>1, <1>2 DEF IInv
<1>5. ASSUME NEW b \in Buffers, NEW v \in Values, Fill(b, v) PROVE IInv'
  BY <1>3, <1>4, <1>5, FillIInv
<1>6. ASSUME NEW p \in Pipelines, NEW s \in Shaders, SetShader(p, s) PROVE IInv'
  BY <1>4, <1>6, ClientIInv
<1>7. ASSUME NEW p \in Pipelines, NEW c \in Consts, Record(p, c) PROVE IInv'
  BY <1>4, <1>7, ClientIInv
<1>8. ASSUME NEW p \in Pipelines, Build(p) \/ Wait(p) PROVE IInv'
  BY <1>4, <1>8, ClientIInv
<1>9. ASSUME NEW p \in Pipelines, SubmitAsync(p) PROVE IInv'
  BY <1>3, <1>4, <1>9, SubmitIInv
<1>10. ASSUME Execute PROVE IInv'
  BY <1>3, <1>4, <1>10, ExecuteIInv
<1>11. ASSUME UNCHANGED vars PROVE IInv'
  <2>1. /\ mem' = mem /\ visible' = visible /\ pipe' = pipe /\ queue' = queue
        /\ signalled' = signalled /\ inFlight' = inFlight /\ jobs' = jobs /\ base' = base
    BY <1>11 DEF vars
  <2>2. LiveOK(L, done, work) /\ MemOK(L, work, S)
    BY <1>3, <1>4 DEF Inv
  <2>3. MemOK(L, work, S)'
    BY <2>1, <2>2, MemFrame
  <2>4. LiveOK(L, done, work)'
    BY <2>1, <2>2 DEF LiveOK
  <2>5. Inv(done, work, slots, S)'
    BY <1>3, <1>4, <2>1, <2>3, <2>4, StillInv
  <2>6. StateOK' /\ PipesOK'
    <3>1. StateOK'
      BY <1>4, <2>1 DEF StateOK
    <3> QED
      BY <1>4, <2>1, <3>1 DEF PipesOK
  <2> QED
    BY <1>4, <2>1, <2>5, <2>6, InvIsEnough
<1> QED
  BY <1>5, <1>6, <1>7, <1>8, <1>9, <1>10, <1>11 DEF Next

-----------------------------------------------------------------------------
(* The theorems. *)

\* In every state the queue holds the commands of numbered submissions, in order
\* and with the gaps that the barriers of record allow, and memory holds what these
\* commands have done on top of the jobs whose fence is signalled (pipeline.hpp:38-74,
\* pipeline.cpp:60-68).
THEOREM Invariant == Spec => []IInv
BY InitIInv, NextIInv, PTL DEF Spec

\* What no job in flight writes is what the jobs done have left.
LEMMA ContentsIsBase == IInv => Contents = base
<1> SUFFICES ASSUME IInv PROVE Contents = base
  OBVIOUS
<1>1. PICK done \in Nat, work \in Works, slots \in Seq(Slots) :
        Inv(done, work, slots, {slots[k] : k \in 1..Len(slots)})
  BY DEF IInv
<1>2. PICK L : L = Live(done)
  OBVIOUS
<1>3. StateOK /\ LiveOK(L, done, work) /\ RestOK(L, work)
  BY <1>1, <1>2 DEF IInv, Inv, MemOK
<1>4. L = (done + 1)..(done + Len(jobs)) /\ Len(jobs) \in Nat /\ DOMAIN jobs = 1..Len(jobs)
  BY <1>2, <1>3 DEF StateOK, Live
<1>5. ASSUME NEW b \in Buffers, ~\E i \in DOMAIN jobs : b \in Writes(jobs[i])
      PROVE  mem[b] = base[b]
  <2>1. \A n \in L : n - done \in DOMAIN jobs /\ jobs[n - done] = Job(work[n])
    BY <1>3, <1>4 DEF LiveOK
  <2>2. Untouched(b, L, work)
    BY <1>5, <2>1 DEF Untouched
  <2> QED
    BY <1>3, <2>2 DEF RestOK
<1>6. base = [b \in Buffers |-> base[b]]
  BY <1>3 DEF StateOK
<1> QED
  BY <1>5, <1>6 DEF Contents

\* A command in the queue is that of a job that is not done.
LEMMA QueueHasJobs ==
  ASSUME IInv, NEW i \in DOMAIN queue
  PROVE  jobs # <<>>
<1>1. PICK done \in Nat, work \in Works, slots \in Seq(Slots) :
        Inv(done, work, slots, {slots[k] : k \in 1..Len(slots)})
  BY DEF IInv
<1>2. PICK S : S = {slots[k] : k \in 1..Len(slots)}
  OBVIOUS
<1>3. Lists(queue, slots, S, work) /\ SlotsOK(Live(done), work, S)
  BY <1>1, <1>2 DEF Inv
<1>4. i \in 1..Len(queue)
  BY DEF IInv
<1>5. slots[i] \in S
  BY <1>3, <1>4 DEF Lists
<1>6. slots[i][1] \in Live(done)
  BY <1>3, <1>5 DEF SlotsOK
<1> QED
  BY <1>6 DEF Live

\* Types, of the entries of the queue above all: a copy goes from a staging buffer to
\* an input or from an output to a staging buffer (buffer.hpp:51-66), and there is
\* nothing in the queue that record and submit have not put there.
THEOREM TypeCorrect == Spec => []TypeOK
<1>1. IInv => TypeOK
  <2> SUFFICES ASSUME IInv PROVE TypeOK
    OBVIOUS
  <2>1. StateOK /\ PipesOK /\ queue \in Seq(Entry)
    BY DEF IInv
  <2> QED
    BY <2>1 DEF TypeOK, StateOK, PipesOK
<1> QED
  BY <1>1, Invariant, PTL

\* fetch after wait (buffer.hpp:38-44) returns what the job left that was waited for,
\* though other jobs are in flight, and whatever order the device has chosen.
THEOREM FetchedAfterWait == Spec => []FetchAfterWait
<1>1. IInv => FetchAfterWait
  <2> SUFFICES ASSUME IInv, NEW b \in FromGpu, \A p \in inFlight : b \notin Writes(pipe[p].job)
               PROVE  mem[b] = base[b]
    BY DEF FetchAfterWait, Fetch
  <2>1. PICK done \in Nat, work \in Works, slots \in Seq(Slots) :
          Inv(done, work, slots, {slots[k] : k \in 1..Len(slots)})
    BY DEF IInv
  <2>2. PICK L : L = Live(done)
    OBVIOUS
  <2>3. LiveOK(L, done, work) /\ RestOK(L, work)
    BY <2>1, <2>2 DEF Inv, MemOK
  <2>4. Untouched(b, L, work)
    BY <2>3 DEF LiveOK, Untouched
  <2>5. b \in Buffers
    BY DEF Buffers
  <2> QED
    BY <2>3, <2>4, <2>5 DEF RestOK
<1> QED
  BY <1>1, Invariant, PTL

\* The session implements its abstract specification: every submission takes effect as
\* a whole and in the order of the submissions (pipeline.hpp:38-74): the barriers that
\* record puts into a command list are enough for any buffers, shaders and pipelines.
THEOREM RunsInOrder == Spec => RunsJobsInOrder
<1>1. Init => Jobs!Init
  <2> SUFFICES ASSUME Init PROVE Jobs!Init
    OBVIOUS
  <2>1. Contents = base
    BY InitIInv, ContentsIsBase
  <2> QED
    BY <2>1 DEF Init, Jobs!Init
<1>2. IInv /\ IInv' /\ [Next]_vars => [Jobs!Next]_(Jobs!vars)
  <2> SUFFICES ASSUME IInv, IInv', [Next]_vars PROVE [Jobs!Next]_(Jobs!vars)
    OBVIOUS
  <2>1. Contents = base /\ Contents' = base'
    <3>1. (IInv => Contents = base)'
      BY ContentsIsBase, PTL
    <3> QED
      BY <3>1, ContentsIsBase
  <2>2. ASSUME NEW b \in Buffers, NEW v \in Values, Fill(b, v) PROVE Jobs!Next
    BY <2>1, <2>2 DEF Fill, Jobs!Next, Jobs!Fill
  <2>3. ASSUME NEW p \in Pipelines, SubmitAsync(p) PROVE Jobs!Next
    <3>1. pipe[p].job \in AllJobs
      BY <2>3 DEF IInv, PipesOK, SubmitAsync, AllJobs
    <3>2. Jobs!Submit(pipe[p].job)
      BY <2>1, <2>3 DEF SubmitAsync, Jobs!Submit
    <3> QED
      BY <3>1, <3>2 DEF Jobs!Next
  <2>4. ASSUME NEW p \in Pipelines,
               (\E s \in Shaders : SetShader(p, s)) \/ (\E c \in Consts : Record(p, c)) \/ Build(p) \/ Wait(p)
        PROVE  UNCHANGED Jobs!vars
    <3>1. jobs' = jobs /\ base' = base
      BY <2>4 DEF SetShader, Record, Build, Wait, history
    <3> QED
      BY <2>1, <3>1 DEF Jobs!vars
  <2>5. ASSUME Execute PROVE Jobs!Next \/ UNCHANGED Jobs!vars
    <3>1. PICK i \in DOMAIN queue :
            IF queue[i].op = "signal"
            THEN jobs' = Tail(jobs) /\ base' = Jobs!Effect(Head(jobs), base)
            ELSE UNCHANGED history
      BY <2>5 DEF Execute
    <3>2. jobs # <<>>
      BY QueueHasJobs
    <3>3. CASE queue[i].op = "signal"
      <4>1. Jobs!Complete
        BY <2>1, <3>1, <3>2, <3>3 DEF Jobs!Complete
      <4> QED
        BY <4>1 DEF Jobs!Next
    <3>4. CASE queue[i].op # "signal"
      BY <2>1, <3>1, <3>4 DEF history, Jobs!vars
    <3> QED
      BY <3>3, <3>4
  <2>6. ASSUME UNCHANGED vars PROVE UNCHANGED Jobs!vars
    BY <2>1, <2>6 DEF vars, Jobs!vars
  <2> QED
    BY <2>2, <2>3, <2>4, <2>5, <2>6 DEF Next
<1> QED
  BY <1>1, <1>2, Invariant, PTL DEF Spec, RunsJobsInOrder, Jobs!Spec

=============================================================================
