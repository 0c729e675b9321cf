# Formal models of mnnl

TLA+ modules, TLC configurations and TLAPS proofs for the neural-network and
GPU-compute library in this repository. Paths below are relative to
`src/.modules/`.

## 1. Inventory

| Component | State | Operations | Talks to |
|---|---|---|---|
| Tensor (`math/include/nnmath/tensor.hpp`) | `shape`, `strides`, `data` | constructors, `reshape`, `fill`, `create`, `random`, `normal`, `apply`, element-wise operators, `transpose`, `matmul`, `operator()` | used by everything above it |
| Linear layer (`ml/.../layer.hpp`) | `weights`, `bias`, their gradients, `saved_X`, feature counts | constructor, `forward`, `backward` | tensor; its gradients are read by the optimizer |
| Activations (`ml/.../actfuncs.hpp`) | none | `forward`, `derivative` | `derivative` indexes a cached tensor of the network |
| Loss (`ml/.../lossfs.hpp`) | none | MSE `forward`, `backward` | returns the gradient given to the network |
| SGD (`ml/.../optimizer.hpp`) | learning rate | `step` | changes weights of a layer in place |
| LinearNetwork (`networks/.../network.hpp`) | `layers`, `cache` | `add_layer`, `forward`, `backward`, `update_weights` | calls layers, activations, optimizer |
| Dataset (`networks/.../dataset.hpp`) | `data` | `add_entry`, `batch`, `random`, iteration | builds batch tensors |
| Data helper (`datahelper/`) | none | `load_bin_file`, `save_bin_file` | file system |
| GPU device, buffer (`gpu/`) | Vulkan device; buffer, memory, type | create, `fill`, `fetch` | Vulkan |
| Shader, layout (`gpu/`) | SPIR-V, local sizes, bound buffers; bind group layout | `load_from_*`, `set_bindings`; `add_buffer`, `build` | moved into a pipeline |
| ComputePipeline (`gpu/src/pipeline.cpp`) | device pointer, command list, command pool, fence, `isRecorded`, owning wrappers | `set_*`, `build`, `record`, `submit_async`, `wait`, `wait_idle`, move, `destroy`, destructor | device queue, concurrently |
| Example, tests (`main/`, `.tests/`) | none | one training loop, one compute job | clients of the above |
| `spirv-reflect`, `backend`, `_` | | | vendored code; build scaffold |

What is hard here:

* **Partial failure.** Almost every function reports errors by exceptions in
  the middle of changing state. A `forward` that throws in layer 3 has already
  replaced the cache and the saved inputs of layers 1 to 3; a `backward` that
  throws has replaced some gradients. Nothing is rolled back, and no function
  checks that the call before it succeeded.
* **State that two calls share.** `backward` relies on `cache` (in the network)
  and `saved_X` (in each layer) being of the same `forward`.
* **Boundaries in index arithmetic.** Batch broadcasting computes offsets by
  hand from padded coordinates and unpadded strides.
* **Concurrency with the device.** A submission runs while the host goes on to
  move, rebuild or destroy the pipeline it came from.
* **Commands that overlap.** The copies and the dispatch of one submission, and
  those of the next, are ordered only by the barriers `record` puts between them.
* **Ownership.** `ComputePipeline` holds raw handles, is movable, can be built
  twice, and its `build` can throw halfway through.

What makes each component correct:

* Tensor: an accepted `matmul` multiplies the matrices broadcasting pairs up,
  and reads only inside `data`.
* LinearNetwork with its layers and optimizer: the gradients a normal `backward`
  stores are those of one completed `forward`; a failed call is noticed, not
  trained on; a completed `forward` can be trained on; an update is applied
  whole; in a layer the last `forward` cached, no tensor is read past its end.
* ComputePipeline: every handle is owned once and freed once; one pipeline at a
  time can submit a command buffer; what passes the guard was recorded; waiting
  for a successful submission ends.
* ComputeSession (buffers, shaders, pipelines and the queue together): jobs
  take effect one after the other, and `fetch` after `wait` returns their result.
* Dispatch: the groups cover what the client asked for, whatever the shader was
  when the pipeline was built.
* Device: it outlives what was made on it.
* Dataset: a batch holds entries of the data set, each whole and with its own
  expected output.
* Loss, layers and activations: the gradients are the derivatives of the loss.
* The training loop: every epoch is one step of gradient descent.
* Data helper: a file is one save's, and a save that ended well is what is loaded.

## 2. Plan

Most important behaviour first. A module in the left column extends or
instantiates the modules it names on the right.

| Order | Module | What | Uses |
|---|---|---|---|
| 1 | `TensorShape` | shape algebra as operators | |
| 2 | `LinearNetwork` | the training state machine and its failures | `TensorShape` |
| 3 | `LinearNetworkProofs` | its inductive invariant and theorems | `LinearNetwork`, `TensorShapeProofs` |
| 4 | `MatmulKernel` | the batch loop of `matmul` against the definition of broadcasting | `TensorShape` |
| 5 | `ComputePipeline` | ownership, recording, submission, waiting, moves | |
| 6 | `ComputePipelineProofs` | ownership, single-recorder, device, loss and recording theorems | `ComputePipeline` |
| 7 | `ComputeSession`, `ComputeSessionProofs` | buffers, staging copies, barriers and the queue; implements `ComputeJobs` | `ComputeJobs` |
| 8 | `Dataset` | `batch`, `random` and dangling references | |
| 9 | `TrainingLoop`, `TrainingLoopProofs` | the loop of `.tests/network.cpp` over a dataset; implements `GradientDescent` | `Dataset`, `GradientDescent` |
| 10 | `Dispatch` | local sizes, group counts with 32-bit wrap, buffer sizes | |
| 11 | `TensorData` | the elements of tensors through every operation | `TensorShape` |
| 12 | `MseLoss` | the loops of the loss with a rounded bound | |
| 13 | `LinearGrad`, `LinearGradProofs` | values and gradients against exact differences | `MseLoss`, `TensorShapeProofs` |
| 14 | `BinFile` | saving and loading with errors and crashes | |
| 15 | `DeviceLifetime` | who keeps a device alive, member by member | |
| 16 | `ResourceProofs` | theorems of the three modules that hold a file, a group count and a device | `BinFile`, `Dispatch`, `DeviceLifetime` |
| 17 | `TensorShapeProofs` | sizes, strides and places of elements, for shapes of any rank | `TensorShape` |
| 18 | `TensorProofs` | theorems of the tensor's elements and of the batches of `matmul` | `MatmulKernel`, `TensorData`, `TensorShapeProofs` |

All of it is written. Modules whose theorems share a file name their parts apart:
`KernelInit`, `FileInit`, `DispatchInit` and `LifetimeInit`, and so on for the
next-state relation and the specification.

## 3. Modules

### TensorShape

Shapes are sequences of positive dimensions; every check and every result shape
of `reshape`, `transpose` and `matmul` is an operator named after it. Element
values are not modelled. `DataSize` is written out for one and two dimensions,
the ones training works with, and is a fold beyond that.

### LinearNetwork

One action per public function. The loops over layers are folded into the
action, because no other code runs between their iterations; where they stop is
chosen by what the layers accept (`done` layers forward, layers above `stop`
backward), and what was stored by then stays stored.

| Code | Model |
|---|---|
| `LinearNetwork::layers`, each with `in_feats`, `out_feats`, `saved_X`, `grad_weights` | `layers[i]` with `inF`, `outF`, `savedX`, `grad`; `act`: an activation is attached |
| `LinearNetwork::cache` | `cache[i]` with `x`, `y_raw` |
| `add_layer` | `AddLayer(arg)`, of a freshly constructed layer |
| `forward`, with `Linear::forward` and `ActivateFunction::forward` | `Forward(X)` |
| `backward`, with `derivative` and `Linear::backward` | `Backward(G)` |
| `update_weights`, with `SGD::step` | `UpdateWeights` |

A tensor is its shape and the number of the `forward` call it stems from, so
that mixing two calls is visible. Weight and bias values are abstracted to
`torn`: weights changed by part of a gradient or by one of another shape. A
normal return, an exception and undefined behaviour are the three results of a
call; after an exception the client goes on in any way it likes, after undefined
behaviour nothing happens. `ReLU` and `Sigmoid` have the same code, so `act` is a
Boolean. Not modelled: the default constructor `Linear()`, which leaves the
feature counts uninitialised; dimensions of 0; adding a layer that was already
trained elsewhere.

### MatmulKernel

`Check` is the validation at the head of `matmul`, `Iterate` one round of the
loop over batches, which computes the offsets of both operands, `Finish` the
return. The offsets are all that can go wrong in a batch; the inner product
loops over rows and columns are standard and stay abstract. A read past the end
of `strides` returns any value in `Garbage`.

### ComputePipeline

The host thread is one actor, each device another (`Execute`). Vulkan is
external: a command pool, its command buffer and a fence are named by the number
of the `build` that made them; `Misuse` stands for breaking a rule of Vulkan or
dereferencing a null device, after which nothing is known.

| Code | Model |
|---|---|
| `gpu`, `cmdPool`, `cmdList.buffer`, `fence`, `isRecorded` | `gpu`, `pool`, `cmd`, `fence`, `isRecorded` of `pipe[p]` |
| `computePipeline`, `pool`, `bg`, `layout`, which delete what they own | `ready`: all of them are there |
| `shader.localX/Y/Z` | `sized`: none of them is 0 |
| `build` | `Build`: early failure, or a new pool with every combination of failing later calls |
| `record` | `Record`: to the end, or throwing after the buffer was reset |
| `submit_async` | `SubmitAsync`: accepted or refused by the queue, the fence being reset either way |
| `wait`, `wait_idle` | `Wait`/`WaitReturns`, `WaitIdle`/`WaitIdleReturns` |
| `operator=(&&)`, move constructor | `MoveAssign`; construction is a move into a `Default` pipeline |
| `destroy`, destructor | `Destroy`, `Destruct` |

`submitted` is history, not a field of the code. A command buffer of which
`build` has replaced the `VkPipeline` or the descriptor pool is `invalid` until it
is recorded again. Choices: the queue executes in
order; a device is never lost; the client keeps its devices until the end (as
`main.cpp` does), so that a moved-over device pointer never destroys a device; a
failing `vkCreateFence` leaves the old fence handle; a failed allocation of the
command list gives a null buffer; building a ready pipeline whose buffer is
executing counts as misuse even when that build would fail before it replaces
anything. `set_layout` changes nothing the model keeps.

### ComputeSession, ComputeJobs

`ComputePipeline` says who may submit what; `ComputeSession` says what the
submitted commands do. `record` becomes the sequence of copies, barriers and
the dispatch it writes (`StageIn`, `Dispatch`, `StageOut`), `submit_async`
appends it and a signal to the queue, and `Execute` finishes any command the
barriers before it allow, so that commands of two submissions overlap.

| Code | Model |
|---|---|
| `Buffer::fill`, `Buffer::fetch` | `Fill`, `Fetch` |
| `BoundBuffer` from `set_bindings` | `BoundBuffer(args)` |
| `set_shader`, `build`, `record`, `submit_async`, `wait` | `SetShader`, `Build`, `Record`, `SubmitAsync`, `Wait` |
| memory, and which stage sees its latest write | `mem`, `visible` |
| command queue, fences | `queue`, `signalled` |

The four buffer types are four constants, with the copies their usage flags
allow: a `GPU_OUTPUT` cannot be staged in and a `GPU_INPUT` cannot be staged out.
The client waits before it touches what the device uses, and submits two jobs
at a time only if they are independent or double-buffered: same device buffers,
staging buffers of their own (`Compatible`). Two pipelines of which the second
reads what the first writes are not `Compatible`, and need a `wait` in between:
`record` puts no barrier before the dispatch for a buffer another pipeline wrote.
`record` has no barrier towards the host either; staging memory is taken to be
coherent once its fence is signalled. A buffer is one cell, and what a shader
computes is a term of its input and its push constants.

`ComputeJobs` is the abstract specification: a job takes effect as a whole, in
the order of submission. The refinement mapping (`Contents`) shows a buffer as it
was before the jobs in flight if one of them writes it, and as it is otherwise.

`SessionAssumption` says which bindings a shader has. The types of two buffers
decide their Vulkan usage (`buffer.hpp:51-66`): a buffer is of one type, only a
`GPU_INPUT` may be the target of a staging copy and only a `GPU_OUTPUT` its
source, and the shader writes to an output. Beyond that it is the client's part not
to read two buffers back into the same one.

### Dispatch

One dimension of a dispatch, counted in elements: what `load_from_spv` and
`load_from_source` leave in `localX` (`Loaded`; the old value when reflection
fails, 0xFFFFFFFF for a specialization constant), the shader `set_shader` gives a
pipeline (`SetShader`) and the one `build` made the `VkPipeline` of
(`BuildPipeline`), which need not be the same, the group count of `record`
(`Groups`, modulo `Word`), the sizes the two copies move, and the bounds check of
`assets/compute.comp`.

### TensorData

`t[x]` has the `shape`, `strides` and `data` of a tensor, `meaning` the value the
client stored at each index, written down without strides. One action per
operation, from the constructors and `create` to `to_string`. Dimensions may be
0 and tensors default-constructed; a call that throws changes nothing and has no
action. Elements are 0 or 1.

### Dataset

An entry has the product of the dimensions and the number of elements of its two
tensors; a batch is a function from flat indices to the cells of entries it
holds. A shuffled batch picks any permutation. A vector that is full grows by any
amount, which makes the reference `random` returned dangle.

### TrainingLoop, GradientDescent

The loop of `.tests/network.cpp` over a `Dataset`, which it instantiates as
`Data` and whose every call the client may make before it trains. `forward`,
`backward` and `update_weights` are taken layer by layer, because the values
here are provenances: a tensor is the entries each of its rows comes from and
the layers' weights, with their versions, it depends on. Mixing up two rows,
two epochs, two layers' caches or an old and a new weight is then visible in
the gradient.

| Code | Model |
|---|---|
| `ds.batch(0, true)` | `Batch` |
| `net.forward`, `net.backward`, `net.update_weights` | `ForwardLayer`, `BackwardLayer`, `UpdateLayer` |
| `loss_fn.forward` with the `break`, `loss_fn.backward` | `Loss`, `LossBackward` |
| the loop over the entries after training | `Evaluate` |

`GradientDescent` is the abstract specification: each epoch moves all layers at
once by the gradient of the whole dataset at the present weights, and training
that throws has moved nothing. The mapping (`Shown`) takes back an update that
has not reached the last layer.

### MseLoss, LinearGrad

`MseLoss` has the loops of MSE with their bound, a `T` rounded by `Approx`, which
is any monotonic function that is exact up to `Exact`. `LinearGrad` extends it
and computes with the elements the loops reach: layers, activations, loss and
gradients over the integers, where a difference quotient is exact. Networks and
batches have the shapes the constructor of `Linear` makes and `forward` accepts,
without a dimension of 0 (`CasesAssumption`); the true outputs may be of any size,
and MSE throws when it is another one. Losses and
gradients are multiplied by the number of predictions, because MSE divides by it.
Here `ReLU` and `Sigmoid` are two definitions, of the same content.

### BinFile

`Open`, `Put`, `Flush`, `Close` are the steps of `save_bin_file`, with a stream
that writes in its own time and may fail at any time; `Crash` ends the process,
and `LoadFile` is `load_bin_file`. Stream and file system are external.

### DeviceLifetime

`gpu[h]` is the device a `shared_ptr` of the client or of a pipeline points to;
`parts[p]` the device each owning member of a pipeline was made on. A call is a
sequence of worlds (`Through`), one for each member it replaces or destroys, so
that the order of the declarations in `pipeline.hpp` and of the assignments in
`operator=` decides what is left when a device ends. The layout `set_layout` moves
in may have been built by the client, on any device that still exists. `mixed`
remembers a pipeline that was given a part of a device other than its own, or
built half way after it was given another device. Buffers hold no pointer to their
device and are left out.

## 4. Runs

Configurations are small on purpose; each bound is large enough for the case it
is about.

| Run | Bounds | Shows |
|---|---|---|
| `linear_network` | 2 layers of 1 or 2 features with and without activation; 2 forward calls; 7 input and 7 gradient shapes, fitting and not | `CacheDescribesLayers`, `UncachedLayerBlocks`, `BackwardUsesOneForward`, `CompletedForwardIsTrainable`, `CachedLayersAreReadInside`, `UpdateIsWholeUnlessBackwardFailed` |
| `matmul_kernel` | every pair of shapes of up to 5 dimensions of 1 or 2, and one of 6; two garbage values | `AlignedOperandsBroadcast`, `ReadsStayInData` |
| `matmul_broadcast` | up to 4 dimensions of 1 or 2, where no stride is read past the end; two garbage values | `BatchesBroadcast` is violated |
| `compute_pipeline` | 2 pipelines, 1 device, 2 builds, fairness | `HandlesOwnedOnce`, `SharedBufferSubmittedByOne`, `LostOnlyByRebuild`, `RecordedUntilOwnCall`, `WrongDeviceOnlyBySetGpu`, `SubmittedWaitReturns` |
| `submit_guard` | 1 pipeline, 2 builds | `GuardMeansRecorded` is violated |
| `compute_session` | 2 pipelines, 3 device and 4 staging buffers, 3 shaders | `FetchAfterWait`, `RunsJobsInOrder` |
| `dispatch` | a word of 3 bits; shaders of local size 2 and 3; 4 counts, for each of the four buffers its own | `GroupsAreExact`, `WholeBufferIsComputed`, `WrappingMakesOneGroup` |
| `tensor_data` | 2 tensors; shapes of up to 2 dimensions of 0 to 2, and four others; lists of up to two rows | `ReadsWhatWasStored`, `OutOfRangeOnlyByHollowOrRagged` |
| `training_loop` | 3 entries of 2 sizes or none; 3 layers, two with an activation; 2 epochs; fairness | `BatchHoldsEntries`, `ReferenceKeepsItsEntry`, `DescendsTheGradient`, `TrainingEnds` |
| `linear_grad` | networks of 1 or 2 layers and 3 weights; batches of up to 24 rows; a `T` exact up to 8 | `GradientsAreDerivatives`, `StaysInTensors`, `OnlyRoundingSkips` |
| `bin_file` | byte arrays of up to 3 bytes of 2 values | `FileIsOneSaves`, `SavedIsLoaded` |
| `device_lifetime` | 2 pipelines, 2 pointers, 2 devices | `ObjectsOfOneDevice`, `DeviceOutlivesItsObjects` |

`TypeOK` is checked besides in `linear_network`, `compute_pipeline`,
`compute_session` and `tensor_data`, `KernelTypeOK` in `matmul_kernel`.

Why the bounds are enough.

* Two layers give every kind of position in a network (first, last, the layer a
  failure stops at, the layer above it), and two forward calls an old and a new
  one; the theorems below remove the bounds for most of these properties.
* Broadcasting treats a dimension as 1 or not 1, and two operands of up to five
  dimensions have every alignment of batch ranks, including one where `strides`
  is read past its end; the theorems hold for every pair of shapes.
* Two builds give a rebuilt pipeline or two built ones, so handles can be
  swapped, shared and lost. With one device, the wrong device of a pipeline is
  none at all; that `set_gpu` is the only cause is proved for any number of
  devices, and `device_lifetime` has two.
* The three shaders of `compute_session` are a double-buffered pair, with their
  bindings in either order, and one that goes on with their result. Two
  pipelines keep up to two jobs in flight, the most between which a pair of
  barriers can go wrong. The content written is one value, so that a stale value
  shows as `Unset` or as a result computed too often.
* A word of three bits has counts below, at and above the wrap and all remainders
  of a division, and two local sizes give a shader smaller, larger and of the same
  size as the one built; the theorems hold for every word.
* Lists of rows may be empty, hollow, of equal or of different lengths. The
  theorems hold for any number of rows.
* Two dimensions are the most a matrix operation tells apart; the shapes of three
  dimensions are there for `reshape`, and the theorems hold for any number.
* Three entries allow a first, a shorter and a longer one, a vector that grows
  with and without moving, and batches smaller than the dataset. Three layers
  give an inner one. Two epochs give a batch, a cache and a gradient from before.
* Batches of up to 24 rows include sizes a `T` of three bits rounds up and down,
  with ties.
* Symmetry is used in `device_lifetime` only, where nothing tells pipelines,
  pointers or devices apart and no liveness is checked.

`CHECK_DEADLOCK` is off where the system may stop: calls and epochs are bounded,
a product or a case ends, a wait without a submission never returns, and after
undefined behaviour (`fault`, `undefined`) nothing happens. It is on for
`compute_session`, `dispatch` and `bin_file`, where a client can always go on.

**Fairness.** `FairSpec` of `ComputePipeline` assumes weak fairness of `Execute`
per device (a Vulkan queue makes forward progress on what was submitted) and of
the return of a wait whose condition holds (the driver wakes the waiting thread).
`FairSpec` of `TrainingLoop` assumes that a single thread that never blocks goes on.
Nothing is assumed of a client: it may stop calling.

### Findings

* `matmul` indexes unpadded strides with padded batch positions
  (`tensor.hpp:261`), so that products of operands of different ranks can
  multiply the wrong matrices, where `README.md:47` and `README.md:265` promise
  broadcasting. Products of equal ranks, and any product with a plain matrix,
  are right (`AlignedOperandsBroadcast`); the example the README gives is one of
  equal ranks.
* `build`, `destroy` and a `record` that throws leave `isRecorded` set
  (`pipeline.cpp:36`, `pipeline.cpp:125`, `pipeline.hpp:56`), so the guard "Call
  record() before submit_async()" (`pipeline.cpp:57`) lets an unrecorded command
  buffer through.

Properties that hold but come with a condition worth knowing:

* A completed `forward` of three or more dimensions cannot be backpropagated
  (`transpose` throws), the condition in `CompletedForwardIsTrainable`.
* `update_weights` after a failed `backward` may apply a gradient of another
  shape, the condition in `UpdateIsWholeUnlessBackwardFailed`.
* `build` on a built pipeline loses its pool and fence, the condition in
  `LostOnlyByRebuild`.
* After a `forward` that threw, `backward` may pass on the gradient a layer
  computed from an older saved input, and an activation above the cached layers
  then reads `cache[i]` past its end (`network.hpp:53`). `UncachedLayerBlocks` does
  not help there: the read comes before `Linear::backward` can throw. What holds is
  that no such call returns normally (`BackwardUsesOneForward`), and that no read
  is outside a tensor that was cached, the case `CachedLayersAreReadInside` is
  about.
* The groups cover the elements only when the local size `record` takes from the
  shader is not larger than that of the `VkPipeline`, and without a wrap of
  `elementsX + lx - 1` (`pipeline.hpp:63`): a shader that is loaded again and not
  reflected keeps the old local size, one set after `build` is not the one that
  runs, and a specialization constant makes one group, the conditions in
  `GroupsAreExact`.
* An entry whose tensors are shorter than the first entry's is read past its end
  by `batch` (`fault` in `Dataset`): the model stops there, where the code would go
  on with what it read, so nothing is claimed of training on such an entry. One with
  longer tensors is cut off in training, and throws when its prediction is asked
  for.
* A default-constructed tensor has no element though its dimensions multiply to 1;
  `create` and `fill` read `d[0]` of a list without rows (`tensor.hpp:79`,
  `tensor.hpp:99`); and only the first row of a list is measured. These are the
  three conditions in `OutOfRangeOnlyByHollowOrRagged`, each of the tensors and rows
  the call itself uses.
* A device ends before what was made on it when the last share of it is let go of
  by somebody else than the pipeline that holds the object, or by that pipeline in
  `set_gpu` or in a move from a pipeline of another device, where `operator=`
  replaces `gpu` first (`pipeline.cpp:106`): the conditions in
  `DeviceOutlivesItsObjects`.
* A number of elements above 2^24 is rounded as an `f32`, and MSE leaves out the
  elements that round to it, the condition in `OnlyRoundingSkips`.
* The difference quotients of `GradientsAreDerivatives` are compared where moving a
  number by a step changes the sign of no layer's output, also of a layer without an
  activation, where the code would not need it.
* `Sigmoid` (`actfuncs.hpp:98`, `actfuncs.hpp:113`) computes what `ReLU` computes,
  where its comment (`actfuncs.hpp:82`) describes a sigmoid; its derivative
  agrees with what it computes, which is what `GradientsAreDerivatives` needs.

## 5. Proofs

`LinearNetworkProofs` proves, for any set of layer arguments, any input and
gradient shapes, and any bounds (only `ShapeAssumption` and `BoundAssumption`):

| Theorem | Of |
|---|---|
| `TypeCorrect` | `TypeOK` |
| `Invariant` | `IInv` |
| `CacheCorrect` | `CacheDescribesLayers` |
| `UncachedLayerAlwaysBlocks` | `UncachedLayerBlocks` |
| `BackwardOfOneForward` | `BackwardUsesOneForward` |
| `UpdateIsWhole` | `UpdateIsWholeUnlessBackwardFailed` |
| `CompletedForwardTrains` | `CompletedForwardIsTrainable` |
| `CachedReadsAreInside` | `CachedLayersAreReadInside` |

The argument. `IInv` conjoins the type invariant, the agreement of cache and
saved inputs, the blocking layer, that every cached input was accepted by its
layer, and that weight gradients fit their weights unless the last `backward`
failed. None of the properties is inductive alone: that `backward` used one
`forward` needs to know that a normal return means no layer was missing from the
cache (the blocking layer would have thrown), and then that all saved inputs are
of the latest call (the cache agrees with them). The lemmas on shapes come first
(what `AsMatrix`, `WithCols`, `Transposed` and `MatmulShape` preserve), then one
lemma per action and conjunct. `CachedReadsAreInside` follows from the
invariant: `backward` gets down to a cached layer only if all are cached, because
the blocking layer throws otherwise; the gradient a layer computes has the shape of
the input it saved, which is what the layer before it cached, but for the reshape
to a row, and a reshape keeps the number of elements whatever the rank.

`ComputePipelineProofs` proves, for any number of pipelines, devices and builds
(only `PipelineAssumption`):

| Theorem | Of |
|---|---|
| `TypeCorrect` | `TypeOK` |
| `Invariant` | `IInv` |
| `OwnedOnce` | `HandlesOwnedOnce` |
| `SubmittedByOne` | `SharedBufferSubmittedByOne` |
| `WrongDevice` | `WrongDeviceOnlyBySetGpu` |
| `LostByRebuild` | `LostOnlyByRebuild` |
| `BufferKeptOffByOthers` | `OthersKeepOff` |
| `WrongOnlyByOwnCall` | `RecordedUntilOwnCall` |

The argument. `HandlesOwnedOnce` needs `CreatedBefore` (no pipeline holds an
object with a number that `build` has yet to give out), or a new pool could
already be somebody's. `SharedBufferSubmittedByOne` is not inductive, because
`record` turns `isRecorded` on for a pipeline whose twin is recorded already. It
becomes so as `OneRecorder`, which counts a pipeline as active when it is
recorded or is `ready` for recording: a move takes both from its source, and
only `build`, which also brings a new command buffer, makes a pipeline ready.
Calls that hand on no handle share one lemma (`FrameOwnership`); `build`,
`destroy`, destruction and moves have one each. `WrongDevice`, of
`WrongDeviceOnlyBySetGpu`, rests on that: a pool and a fence can only stay on
their pipeline's device if calls change no other pipeline's handles, which is
what `HandlesOwnedOnce` says. For `LostByRebuild`, of `LostOnlyByRebuild`, a call
that frees all its pipeline holds, or hands it on, loses nothing, and the named
calls are the rest.

`WrongOnlyByOwnCall`, of `RecordedUntilOwnCall`, needs more.
The danger is a twin with the same command buffer after a move. `OneRecorder`
rules out that the twin resets the buffer with `record`, and `CreatedBefore` that
a build touches it; that the twin does not free the pool under it takes one more
inductive invariant, `OthersKeepOff` (theorem `BufferKeptOffByOthers`): whoever
can still record into or submit a buffer is the only one that may hold its pool,
because a move that hands on the buffer hands on the pool as well.

`ComputeSessionProofs` proves, for any buffers, shaders and contents and any number
of pipelines with jobs in flight (only `SessionAssumption`):

| Theorem | Of |
|---|---|
| `TypeCorrect` | `TypeOK` |
| `Invariant` | the inductive invariant |
| `FetchedAfterWait` | `FetchAfterWait` |
| `RunsInOrder` | `RunsJobsInOrder`: `ComputeSession` implements `ComputeJobs` |

The argument. Submissions are numbered, and the invariant says that there are
numbers for what the queue holds: a slot `<<n, i>>` is the `i`-th of the eight
commands of submission `n` (load, barrier, dispatch, twice barrier and store,
signal), and the queue is a sorted list of slots (`Lists`). Three things are said of
the slots that are left.

* `Ordered`: what a barrier holds back is still there as long as what it waits for.
  A command that may start has no such command before it, which is all the
  freedom the device has (`MayStartSlots`, `OrderedRemove`). Within one submission
  the barriers make a chain from the load to the signal; between two, the load of
  the later one waits for the barriers before the earlier one's stores, and the
  barrier after that load for the stores (`OrderedChain`).
* `LiveOK`: any two jobs in flight are `Compatible`, so that they either touch
  nothing the other writes (`Apart`) or share their device buffers and store to
  different staging buffers (`Twins`). It is stated of bindings and commands
  instead of sets of buffers by `CompatibleWorks`.
* `MemOK`: what each slot that is gone has done to memory, on top of what the jobs
  whose fence is signalled have left: the input is loaded unless a later twin has
  loaded over it, the output is computed unless a later twin has computed over it,
  what was stored is the result, and a stage that is about to read sees the latest
  write. Where no job in flight writes, memory is `base` and every stage sees it.

One lemma per kind of command (`LoadStep`, `BarrierStep`, `DispatchStep`,
`StoreStep`, `SignalStep`) shows that it keeps `MemOK`. At a signal everything
before it in its submission is gone, so the job's stores hold its result, and the
earliest number is the one that is done. The refinement follows: `Contents` is
`base` in every state (`ContentsIsBase`), `SubmitAsync` is `Submit`, a signal is
`Complete`, and every other command is a stutter.

`LinearGradProofs` proves, for networks of any length, width and integer weights,
any batch and true outputs, and any monotonic rounding (only `RoundingAssumption`
and `CasesAssumption`):

| Theorem | Of |
|---|---|
| `UsesTheLoss` | the composition `LinearGrad` implements `LossSpec` |
| `InTensors` | `StaysInTensors` |
| `SkippedByRounding` | `OnlyRoundingSkips` |
| `GradInvariant` | the inductive invariant of the composition |
| `GradientsAreRight` | `GradientsAreDerivatives` |

The argument for the loops. One that goes on at `at` has `Approx[at] < Approx[preds]`,
so `at < preds` by monotonicity although the bound may be rounded up; one that ends
has `Approx[at] >= limit`, and all elements from there on round to the same. The
invariant is that `at` has not passed `preds`. It is proved of `LossSpec` and
carried to `LinearGrad` by `UsesTheLoss`.

The argument for the gradients. One number, a weight, a bias or an input, is moved
a step up and a step down. At the layer it belongs to, the two outputs are as far
above the output the program had as below it, and further layers keep that as long
as no ReLU changes over, which is what the property assumes (`Around`,
`LayerAround`, `Propagates`). The loss is quadratic, so half its difference is the
inner product of the difference of the two predictions with the gradient MSE hands
back (`LossAround`, `LossMoves`). `backward` applies to a gradient the transpose of what
`forward` applies to a difference, so that this inner product is the same at every
layer down to the one that was changed. There the difference is zero but for
one element or column, and what is left of the sum is the stored gradient
(`WeightDerivative`, `BiasDerivative`, `InputDerivative`). `RawIs` turns the fold
over the layers, which the property uses, into the list of tensors the actions
build.

That is a statement about finished tensors (`CompleteImplies`). The invariant
`GInv` brings the program there: `IInv` of the loops, what each layer was
given and made of it (`NetworkRan`), when and with which sizes MSE was called
(`CallsInOrder`), the loss as the sum over the elements reached (`LossSummed`), and
the gradient as far as the loop has written it and then as far as `backward` has
carried it (`GradientCarried`). The property says nothing before the last layer, so
none of this follows from it. That the loss and its gradient cover the same
elements when the bound is rounded needs both loops: each stopped at the first
index that rounds to the bound.

`TensorShapeProofs` proves, for shapes of any rank and any dimensions, 0 among
them, where nothing else is said:

| Theorem | Says |
|---|---|
| `FlatIndexInRange` | an index within the shape has its place in the data |
| `FlatIndexOneToOne` | different indices have different places |
| `RowMajor` | places follow the order of the first coordinate indices differ in |
| `Unflatten` | dividing by the strides gives the index a place is of |

The argument. `Product`, `Strides` and `FlatIndex` are folds. A fold of a function
over `1..n` is given by a sequence of partial results (`SumSteps`,
`ProductSteps`), which exists because there is no least length at which it would
not (`FoldExists`). What holds of it is then proved along that sequence, as the set of
positions up to which it holds (`InductionUpTo`, `InductionDownFrom`); these are
statements about sets of numbers and not about operators, so that the provers can
use them. `TailSizes` gives the stride of a dimension as the size of what follows
it, and `PartialOffsets` says that an index within its shape never comes as far as
the next block of rows, from which the four theorems follow.

`TensorProofs` proves, for operands of any ranks (only `KernelAssumption`) and
tensors of any shapes and contents, filled from any lists of rows, empty ones among
them (only `DataAssumption`):

| Theorem | Of |
|---|---|
| `KernelInvariantHolds` | the inductive invariant of `MatmulKernel` |
| `KernelTypes` | `KernelTypeOK` |
| `KernelBroadcasts` | `AlignedOperandsBroadcast` |
| `KernelReadsInData` | `ReadsStayInData` |
| `DataInvariantHolds` | the inductive invariant of `TensorData` |
| `DataTypes` | `TypeOK` |
| `ReadsStored` | `ReadsWhatWasStored` |
| `OutOfRangeIsExplained` | `OutOfRangeOnlyByHollowOrRagged` |

The argument. The kernel's invariant only says that an iteration stores the
offsets of its batch; what they are is a matter of shapes. The coordinates the
loop divides out of a batch number are the index of that batch
(`CoordsAreTheIndex`, by `Unflatten` and `FlatIndexOneToOne`), and the offset is a
sum of coordinates times strides (`OffsetSteps`). For a plain matrix all
coordinates are 0, also those that meet what is read past `strides`
(`AlignedIsBroadcast`). A misaligned operand has the stride of a later dimension
for the coordinate of an earlier one, which is never too large, and each summand is at most
the difference of the sizes behind two neighbouring dimensions, so that the
last matrix still ends inside the data (`MatrixInData`).

For the elements the invariant is that strides fit the shape, that there are as
many elements as the shape says or none at all, and that what the client stored
for an index is where `operator()` looks (`Agrees`). One lemma per operation
shows that it keeps `Agrees`: a fill by rows lays them side by side (`StoredRows`),
a transpose exchanges the two coordinates (`IndexAcross`), a change of one element
changes no other because places are different (`SetPreserves`), and a reshape
keeps the order of the elements because the meaning of a reshape is the element
with as many indices before it, which is its place: dividing by the strides is a
bijection from the places before it to the indices before it (`OrderIsFlatIndex`).

`ResourceProofs` proves three components that share nothing.

Of `Dispatch`, for every size of a word, every local size and element count (only
`DispatchAssumption`):

| Theorem | Of |
|---|---|
| `DispatchInvariant` | the inductive invariant |
| `ExactGroups` | `GroupsAreExact` |
| `WholeBuffer` | `WholeBufferIsComputed` |
| `WrappedDispatch` | `WrappingMakesOneGroup` |

The argument. The invariant says that the groups of a recorded work are what
`Groups` made of its elements and a local size that is not 0. What remains is
arithmetic of rounding up: two lemmas (`Division`, `Remainder`) bound quotient
and remainder, and everything after them uses only those bounds.

Of `BinFile`, for byte arrays of any length (only `ContentsAssumption`):

| Theorem | Of |
|---|---|
| `FileInvariant` | the inductive invariant |
| `OneSaves` | `FileIsOneSaves` |
| `SavedThenLoaded` | `SavedIsLoaded` |

The argument. While a save runs, the file is the part of its data that was
flushed, and the flushed part is never ahead of the stream. Each flush appends
the bytes from there on (`SubSeqSplit`), and the end of a good save appends the
rest; a save that is over has left some beginning of its data, all of it when
it ended well.

Of `DeviceLifetime`, for any number of pipelines, pointers and devices (only
`LifetimeAssumption`):

| Theorem | Of |
|---|---|
| `LifetimeInvariant` | the inductive invariant |
| `OfOneDevice` | `ObjectsOfOneDevice` |
| `DeviceOutlives` | `DeviceOutlivesItsObjects` |

The argument. The invariant `LifetimeInv` conjoins typing, `ObjectsOfOneDevice` and
`Kept`: as long as no device has ended too early, each member is of a device that
some pointer or pipeline shares, not necessarily its own. One lemma per call says
what it makes of the members. When a call leaves a member without its device, that
device was shared before, by the one holder the call takes a share from, who then had
the last share and has let go of it (`LetGo`). A call that takes no share leaves no
member without its device (`SharesStay`). One lemma per call says in which of the ways the property allows: a destructor drops
the device pointer last, so that in each world before that the pointer still holds
the device (`DestroyedWorld`); a move takes the pointer first, and if both pipelines
are of one device, the target holds it for whatever has moved and whatever has not
(`MovedWorld`).

`TrainingLoopProofs` proves, for entries of any number and sizes, any network and
any number of epochs (only `LoopAssumption`):

| Theorem | Of |
|---|---|
| `Invariant` | the inductive invariant |
| `BatchHolds` | `BatchHoldsEntries` |
| `ReferenceKept` | `ReferenceKeepsItsEntry` |
| `Descends` | `DescendsTheGradient`: `TrainingLoop` implements `GradientDescent` |

The argument. That a batch holds entries is arithmetic: `RowIndex` takes a flat
index apart into row and column, which is right because a tensor has either as
many elements as its dimensions say or none at all. For the refinement the
invariant says, statement by statement, what `x`, `g`, `saved_X`, `y_raw` and the
gradients were computed from (`TensorsOK`) and that the weights of every layer
have moved by exactly one gradient of the whole dataset per epoch (`AppliedOK`).
Three facts carry it:

* an order without repetition leaves no entry out (`OrderIsOnto`), so the rows of
  a whole batch are all entries, each once, and prediction and true output meet in
  the same row (`BatchRows`);
* every layer therefore computes the gradient the abstract specification names
  (`LayerGradient`), from its own cache of this epoch and old weights only;
* training throws only before the first update (`OnlyUntrainedFails`): the dataset
  does not change any more, so whatever the first epoch got past, later epochs do
  (`ShapesOK`: no entry is shorter than the first, the sizes fit the network).

Every step then maps to a step of `GradientDescent` or to a stutter: the last
layer's update to `Descend`, adding an entry to `Collect`, the end and the throws
to `Finish` and `Fail`.

Every invariant and every action property of a passing run is stated by a theorem.
Only model-checked is the liveness of the system, which is out of the prover's reach:
`SubmittedWaitReturns` and `TrainingEnds`.

## 6. Not modelled

* **`spirv-reflect`** and the SPIR-V header it includes: third-party code that is
  vendored, a C parser of a binary format without state between its calls. Its
  three files are 18,671 of the repository's 20,584 source lines. What matters
  of it here, the local size it reports, is in `Dispatch`. Of the library's own
  lines, the modules map about half.
* **Element values as floating point**, and so the learning rate, which only
  scales; random initialisation, `Tensor::random` and `Tensor::normal`, whose result is
  any value;
  the text `to_string` makes, and other output.
* **`Linear()`**, which leaves the feature counts uninitialised.
* **The Vulkan wrapper** behind `device.hpp`, `buffer.hpp` and `pipeline.hpp`:
  allocation, mapping, descriptor sets, the choice of a device. It is not in the
  repository. Three hazards stay without a property because they are decided
  there: what a bind group makes of a layout `set_layout` has emptied by moving
  it, whether a buffer needs its device to free its memory, and whether a bind
  group needs the descriptor pool a move has replaced.
* **`Dataset::random` on an empty dataset** has no defined result; the step is in
  `Dataset`, and nothing is asserted of it.
* **`add_buffer`** of the layout, `GPUManager` and the build scaffold, which only
  collect what they are given; `.tests/tensors.cpp`, `.tests/raw_vulkan.cpp` and
  `.tests/default.cpp`, which exercise the library or Vulkan without logic of
  their own.
