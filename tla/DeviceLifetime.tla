--------------------------- MODULE DeviceLifetime ---------------------------
(***************************************************************************)
(* Who keeps a GPUDevice alive (device.hpp) while a ComputePipeline holds  *)
(* objects made on it (pipeline.hpp, pipeline.cpp, layout.cpp).  A device  *)
(* is shared by pointers of the client and of pipelines and ends with the  *)
(* last of them.  The members of a pipeline are replaced and destroyed one *)
(* after the other, so the order in which the code does it decides what    *)
(* still exists when a device ends.  Fences and command pools, freed by    *)
(* hand, are in ComputePipeline.                                           *)
(***************************************************************************)
EXTENDS Naturals, Sequences, SequencesExt

CONSTANTS
  Pipelines,  \* the pipeline variables of the client
  Pointers,   \* the std::shared_ptr<GPUDevice> variables of the client
  Devices,    \* GPU devices
  None        \* no device

ASSUME LifetimeAssumption == None \notin Devices /\ Pipelines \cap Pointers = {}

\* Members that own something made on a device.
Parts == {"bgl", "pipelineLayout", "pool", "bg", "computePipeline"}

VARIABLES
  gpu,        \* the device each pointer and each pipeline shares
  parts,      \* the device each member of a pipeline was made on
  started,    \* devices that have been created
  mixed,      \* history: what the pipeline holds may be of several devices
  undefined   \* a device ended before something made on it

lifetimeVars == <<gpu, parts, started, mixed, undefined>>

World == [gpu |-> gpu, parts |-> parts]

LifetimeInit ==
  /\ gpu = [h \in Pointers \cup Pipelines |-> None]
  /\ parts = [p \in Pipelines |-> [m \in Parts |-> None]]
  /\ started = {}
  /\ mixed = [p \in Pipelines |-> FALSE]
  /\ undefined = FALSE

\* What pipelines hold of a device that nothing keeps alive.
Orphans(w) ==
  {o \in Pipelines \X Parts :
     LET d == w.parts[o[1]][o[2]]
     IN  d # None /\ \A h \in Pointers \cup Pipelines : w.gpu[h] # d}

\* The worlds ws[1], ws[2], ... follow each other in one call.
Through(ws) ==
  /\ gpu' = Last(ws).gpu /\ parts' = Last(ws).parts
  /\ undefined' = \E i \in DOMAIN ws : Orphans(ws[i]) # {}

-----------------------------------------------------------------------------
\* std::make_shared<GPUDevice>(...).
Create(v, d) ==
  /\ ~undefined /\ d \notin started
  /\ started' = started \cup {d}
  /\ Through(<<[World EXCEPT !.gpu[v] = d]>>)
  /\ UNCHANGED mixed

\* v = u, or v.reset() when u has no device.
Assign(v, u) ==
  /\ ~undefined
  /\ Through(<<[World EXCEPT !.gpu[v] = gpu[u]]>>)
  /\ UNCHANGED <<started, mixed>>

SetGpu(p, v) ==
  /\ ~undefined
  /\ Through(<<[World EXCEPT !.gpu[p] = gpu[v]]>>)
  /\ UNCHANGED <<started, mixed>>

\* set_gpu has given a pipeline another device than its objects are of, or
\* set_layout a layout of another one.
Separated(p) == \E m \in Parts : parts[p][m] \notin {None, gpu[p]}

\* Something of device d added to a pipeline may make its objects differ.
Mixes(p, d) == d # None /\ (d # gpu[p] \/ Separated(p))

\* set_layout with a layout the client has not built, or has built itself on a
\* device that something keeps.
SetLayout(p, d) ==
  /\ ~undefined
  /\ d = None \/ \E h \in Pointers \cup Pipelines : gpu[h] = d
  /\ Through(<<[World EXCEPT !.parts[p]["bgl"] = d],
               [World EXCEPT !.parts[p]["bgl"] = d, !.parts[p]["pipelineLayout"] = d]>>)
  /\ mixed' = [mixed EXCEPT ![p] = @ \/ Mixes(p, d)]
  /\ UNCHANGED started

BuildOrder == <<"bgl", "pipelineLayout", "computePipeline", "pool", "bg">>

\* build replaces its members one by one and throws when one cannot be made.
Build(p) ==
  /\ ~undefined /\ gpu[p] # None
  /\ \E done \in 0..Len(BuildOrder) :
       LET made == {BuildOrder[i] : i \in 1..done}
       IN  /\ Through(<<[World EXCEPT !.parts[p] =
                           [m \in Parts |-> IF m \in made THEN gpu[p] ELSE @[m]]]>>)
           /\ mixed' = [mixed EXCEPT ![p] = done < Len(BuildOrder) /\ (@ \/ Mixes(p, gpu[p]))]
  /\ UNCHANGED started

\* Members are destroyed in the reverse of their declarations; a pipeline that
\* declares gpu last.
GpuDeclaredLast == <<"gpu", "computePipeline", "bg", "pool", "bgl", "pipelineLayout">>
DestructionOrder == <<"computePipeline", "bg", "pool", "pipelineLayout", "bgl", "gpu">>

\* What is left when the first k members in an order have been destroyed.
DestroyedUpto(p, order, k) ==
  LET gone == {order[i] : i \in 1..k}
  IN  [gpu   |-> IF "gpu" \in gone THEN [gpu EXCEPT ![p] = None] ELSE gpu,
       parts |-> [parts EXCEPT ![p] = [m \in Parts |-> IF m \in gone THEN None ELSE @[m]]]]

\* A pipeline goes out of scope and is defined anew.
Destruct(p) ==
  /\ ~undefined
  /\ Through([k \in 1..Len(DestructionOrder) |-> DestroyedUpto(p, DestructionOrder, k)])
  /\ mixed' = [mixed EXCEPT ![p] = FALSE]
  /\ UNCHANGED started

\* A move that forgets the bind group.
MovesWithoutBindGroup == <<"gpu", "bgl", "pipelineLayout", "pool", "computePipeline">>
MoveOrder == <<"gpu", "bgl", "pipelineLayout", "pool", "bg", "computePipeline">>

MovedUpto(p, q, k) ==
  LET moved == {MoveOrder[i] : i \in 1..k}
  IN  [gpu   |-> IF "gpu" \in moved THEN [gpu EXCEPT ![p] = gpu[q], ![q] = None] ELSE gpu,
       parts |-> [parts EXCEPT
         ![p] = [m \in Parts |-> IF m \in moved THEN parts[q][m] ELSE @[m]],
         ![q] = [m \in Parts |-> IF m \in moved THEN None ELSE @[m]]]]

\* p = std::move(q)
MoveAssign(p, q) ==
  /\ ~undefined /\ p # q
  /\ Through([k \in 1..Len(MoveOrder) |-> MovedUpto(p, q, k)])
  /\ mixed' = [mixed EXCEPT ![p] = mixed[q], ![q] = FALSE]
  /\ UNCHANGED started

LifetimeNext ==
  \/ \E v \in Pointers :
       \/ \E d \in Devices : Create(v, d)
       \/ \E u \in Pointers : Assign(v, u)
       \/ \E p \in Pipelines : SetGpu(p, v)
  \/ \E p \in Pipelines :
       \/ \E d \in Devices \cup {None} : SetLayout(p, d)
       \/ Build(p) \/ Destruct(p)
       \/ \E q \in Pipelines : MoveAssign(p, q)

LifetimeSpec == LifetimeInit /\ [][LifetimeNext]_lifetimeVars

-----------------------------------------------------------------------------
\* h has the last share of its device.
HoldsLast(h) ==
  gpu[h] # None /\ \A k \in (Pointers \cup Pipelines) \ {h} : gpu[k] # gpu[h]

MadeOn(p, d) == \E m \in Parts : parts[p][m] = d

\* A device ends before something made on it only when the last share of it is
\* let go of by somebody else than the pipeline that holds the object, or by that
\* pipeline in set_gpu or when one of another device is moved over it, where gpu
\* goes first.  Building, set_layout, destruction and moves within a device never
\* do it (pipeline.cpp:10-52, 75-89, 91-120, pipeline.hpp:14-21).
DeviceOutlivesItsObjects ==
  [][undefined' =>
       \E h \in Pointers \cup Pipelines :
         /\ HoldsLast(h) /\ gpu'[h] # gpu[h]
         /\ \/ \E p \in Pipelines \ {h} : MadeOn(p, gpu[h])
            \/ /\ h \in Pipelines /\ MadeOn(h, gpu[h])
               /\ \/ \E v \in Pointers : SetGpu(h, v)
                  \/ \E q \in Pipelines : gpu[q] # gpu[h] /\ MoveAssign(h, q)]_lifetimeVars

\* The objects of a pipeline are all of one device, unless it was given a layout
\* of another one, or a build threw half way after it was given another device:
\* a build that ends, a destruction and a move put that right
\* (pipeline.cpp:10-52, 75-79, 96-123).
ObjectsOfOneDevice ==
  \A p \in Pipelines : ~mixed[p] =>
    \A m, n \in Parts :
      parts[p][m] # None /\ parts[p][n] # None => parts[p][m] = parts[p][n]
=============================================================================
