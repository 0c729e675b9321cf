------------------------- MODULE TrainingLoopProofs -------------------------
(***************************************************************************)
(* Proofs about TrainingLoop and the Dataset in it, for any dataset, any   *)
(* sizes of tensors and any network: what batches and references hold, and *)
(* that the loop implements GradientDescent.                               *)
(***************************************************************************)
EXTENDS TrainingLoop, FiniteSetTheorems, TLAPS

-----------------------------------------------------------------------------
(* The inductive invariant. *)

\* The entries are named by their places.
Entry == [name : Nat, tensors : [1..2 -> Data!Tensors]]
DataOK ==
  /\ data \in Seq(Entry) /\ Len(data) <= MaxEntries
  /\ \A e \in DOMAIN data : data[e].name = e

\* A reference was drawn from the entries there were, and dangles only when some
\* have been added.
HeldOK ==
  /\ held \in [at : Nat, name : Nat, of : Nat, dangling : BOOLEAN]
  /\ held # Data!NotHeld =>
       /\ held.at \in 1..held.of /\ held.name = held.at /\ held.of <= Len(data)
       /\ held.dangling => held.of < Len(data)

DataInv == DataOK /\ HeldOK /\ Data!BatchHoldsEntries

\* The statements of one epoch, and those before the last of them.
InEpoch == pc \in {"forward", "loss", "gradient", "backward", "update"}
Saved == pc \in {"loss", "gradient", "backward", "update"}

LoopOK ==
  /\ pc \in {"client", "batch", "forward", "loss", "gradient", "backward", "update", "test", "end"}
  /\ epoch \in 0..MaxEpochs /\ layer \in 1..Depth
  /\ InEpoch => epoch < MaxEpochs
  /\ pc = "client" => epoch = 0
  /\ pc = "client" \/ pc = "batch" \/ InEpoch => outcome = "running"
  /\ pc = "test" => outcome = "done"
  /\ pc = "end" => outcome \in {"done", "failed"}

\* The latest batch has all entries.
WholeBatch ==
  /\ batch # Data!NoBatch
  /\ batch.asked = 0 /\ batch.of = Len(data)
  /\ batch.sized = [k \in 1..2 |-> data[1].tensors[k]]

\* What the first epoch, or the part of it that is done, has found out about the
\* dataset: training cannot throw for that any more.
PassedBatch == InEpoch \/ epoch > 0
PassedForward == Saved \/ epoch > 0 \/ (pc = "forward" /\ layer > 1)
PassedLoss == pc \in {"gradient", "backward", "update"} \/ epoch > 0
ShapesOK ==
  /\ pc # "client" =>
       \A e \in DOMAIN data, k \in 1..2 : data[e].tensors[k].elements > 0
  /\ PassedBatch =>
       /\ data # <<>>
       /\ \A e \in DOMAIN data, k \in 1..2 :
            data[1].tensors[k].elements <= data[e].tensors[k].elements
  /\ PassedForward => data[1].tensors[1].dims = InFeatures
  /\ PassedLoss => data[1].tensors[2].dims = OutFeatures
  /\ InEpoch => WholeBatch

\* The output of layer n in this epoch, of the input for n = 0.
Output(n) == [rows |-> RowsOf(1), uses |-> (1..n) \X {epoch}]

\* Everything kept from call to call is of this epoch and of the same rows.
TensorsOK ==
  /\ saved = [l \in 1..Depth |-> saved[l]]
  /\ cache = [l \in 1..Depth |-> cache[l]]
  /\ grad = [l \in 1..Depth |-> grad[l]]
  /\ pc = "forward" => x = Output(layer - 1)
  /\ pc = "loss" \/ pc = "gradient" => x = Output(Depth)
  /\ \A l \in 1..Depth : Saved \/ (pc = "forward" /\ l < layer) =>
       saved[l] = Output(l - 1) /\ cache[l] = Output(l)
  /\ pc = "backward" => g = Output(Depth)
  /\ \A l \in 1..Depth : pc = "update" \/ (pc = "backward" /\ l > layer) =>
       grad[l] = Ideal!Gradient(epoch)

\* Weights have moved by one gradient of the whole dataset in every epoch.
History(n) == [i \in 1..n |-> Ideal!Gradient(i - 1)]
AppliedOK ==
  applied = [l \in 1..Depth |-> History(IF pc = "update" /\ l < layer THEN epoch + 1 ELSE epoch)]

IInv == DataInv /\ LoopOK /\ ShapesOK /\ TensorsOK /\ AppliedOK

-----------------------------------------------------------------------------
(* Lemmas about data. *)

\* Element j of row i, in rows of d elements.
LEMMA RowIndex ==
  ASSUME NEW d \in Nat \ {0}, NEW rows \in Nat, NEW i \in 1..rows, NEW j \in 0..(d - 1)
  PROVE  /\ ((i - 1) * d + j) \in 0..(rows * d - 1)
         /\ ((i - 1) * d + j) \div d = i - 1
         /\ ((i - 1) * d + j) % d = j
<1> DEFINE q == i - 1
<1>1. q \in Nat
  OBVIOUS
<1>2. i * d <= rows * d /\ i * d = q * d + d /\ q * d \in Nat /\ rows * d \in Nat
  OBVIOUS
<1> HIDE DEF q
<1>3. (q * d + j) \div d = q /\ (q * d + j) % d = j
  BY <1>1
<1>4. (q * d + j) \in 0..(rows * d - 1)
  BY <1>1, <1>2
<1> QED
  BY <1>3, <1>4 DEF q

\* An order that repeats nothing leaves nothing out.
LEMMA OrderIsOnto ==
  ASSUME NEW n \in Nat, NEW f \in [1..n -> 1..n], \A i, j \in 1..n : i # j => f[i] # f[j]
  PROVE  \A e \in 1..n : \E i \in 1..n : f[i] = e
<1>1. IsFiniteSet(1..n)
  BY FS_Interval
<1>2. f \in Injection(1..n, 1..n)
  BY DEF Injection, IsInjective
<1>3. f \in Surjection(1..n, 1..n)
  BY <1>1, <1>2, FS_Injection
<1> QED
  BY <1>3 DEF Surjection

LEMMA TensorType ==
  \A t \in Data!Tensors : /\ t.dims \in Nat \ {0} /\ t.elements \in Nat
                          /\ t.elements = t.dims \/ (t.dims = 1 /\ t.elements = 0)
BY LoopAssumption DEF Data!Tensors

LEMMA OrderType ==
  ASSUME DataOK, NEW shuffle \in BOOLEAN, NEW order \in Data!Orders(shuffle)
  PROVE  /\ order \in [1..Len(data) -> 1..Len(data)]
         /\ \A i, j \in 1..Len(data) : i # j => order[i] # order[j]
BY DEF Data!Orders, Data!InOrder

-----------------------------------------------------------------------------
(* The dataset. *)

LEMMA DataInit ==
  Init => DataInv
<1> SUFFICES ASSUME Init PROVE DataInv
  OBVIOUS
<1>1. /\ data = <<>> /\ batch = Data!NoBatch /\ held = Data!NotHeld /\ fault = "none"
  BY DEF Init, Data!Init
<1>2. DataOK
  BY <1>1, LoopAssumption DEF DataOK
<1>3. HeldOK
  BY <1>1 DEF HeldOK, Data!NotHeld
<1> QED
  BY <1>1, <1>2, <1>3 DEF DataInv, Data!BatchHoldsEntries

LEMMA SameDataset ==
  ASSUME DataInv, UNCHANGED dataset
  PROVE  DataInv'
BY DEF DataInv, dataset, DataOK, HeldOK, Data!BatchHoldsEntries, Data!Cell

LEMMA AddEntryData ==
  ASSUME DataInv, NEW in \in Data!Tensors, NEW out \in Data!Tensors, Data!AddEntry(in, out)
  PROVE  DataInv'
<1> DEFINE new == [name |-> Len(data) + 1, tensors |-> <<in, out>>]
<1>1. /\ data \in Seq(Entry) /\ Len(data) \in Nat /\ Len(data) < MaxEntries
      /\ data' = Append(data, new) /\ UNCHANGED <<batch, fault>> /\ fault = "none"
  BY DEF DataInv, DataOK, Data!AddEntry
<1>2. new \in Entry /\ new.name = Len(data) + 1
  BY <1>1 DEF Entry
<1> HIDE DEF new
<1>3. data' \in Seq(Entry) /\ Len(data') = Len(data) + 1
  BY <1>1, <1>2
<1>4. DataOK'
  <2>1. ASSUME NEW e \in DOMAIN data' PROVE data'[e].name = e
    <3>1. CASE e \in DOMAIN data
      BY <1>1, <3>1 DEF DataInv, DataOK
    <3>2. CASE e = Len(data) + 1
      BY <1>1, <1>2, <3>2
    <3> QED
      BY <1>1, <1>3, <3>1, <3>2
  <2> QED
    BY <1>1, <1>3, <2>1, LoopAssumption DEF DataOK
<1>5. HeldOK'
  <2>1. held \in [at : Nat, name : Nat, of : Nat, dangling : BOOLEAN]
    BY DEF DataInv, HeldOK
  <2>2. \/ held' = held
        \/ held' = [held EXCEPT !.dangling = held # Data!NotHeld]
    BY DEF Data!AddEntry
  <2>3. ASSUME held = Data!NotHeld PROVE held' = held
    <3>1. held.dangling = FALSE
      BY <2>3 DEF Data!NotHeld
    <3>2. held' = held \/ held' = [held EXCEPT !.dangling = FALSE]
      BY <2>2, <2>3
    <3> QED
      BY <2>1, <3>1, <3>2
  <2>4. /\ held' \in [at : Nat, name : Nat, of : Nat, dangling : BOOLEAN]
        /\ held'.at = held.at /\ held'.name = held.name /\ held'.of = held.of
    BY <2>1, <2>2
  <2> QED
    BY <1>1, <1>3, <2>3, <2>4 DEF DataInv, HeldOK
<1>6. Data!BatchHoldsEntries'
  BY <1>1 DEF DataInv, Data!BatchHoldsEntries, Data!Cell
<1> QED
  BY <1>4, <1>5, <1>6 DEF DataInv

\* A batch that reads no entry past its end holds what BatchHoldsEntries says.
LEMMA GatheredBatch ==
  ASSUME DataInv, data # <<>>, NEW n \in Nat, NEW shuffle \in BOOLEAN,
         NEW order \in Data!Orders(shuffle), Data!Gather(n, order),
         ~Data!Overruns(Data!Rows(n), order)
  PROVE  Data!BatchHoldsEntries'
<1> DEFINE N == Len(data)
           R == Data!Rows(n)
<1>1. /\ data \in Seq(Entry) /\ N \in Nat \ {0} /\ \A e \in 1..N : data[e].name = e
      /\ order \in [1..N -> 1..N] /\ \A i, j \in 1..N : i # j => order[i] # order[j]
  BY OrderType DEF DataInv, DataOK
<1>2. R \in 1..N /\ R = IF n \in 1..N THEN n ELSE N
  BY <1>1 DEF Data!Rows
<1>3. batch' = [asked |-> n, of |-> N, rows |-> R,
                sized |-> [k \in 1..2 |-> data[1].tensors[k]],
                cells |-> [k \in 1..2 |-> Data!Cells(k, R, order)]]
  BY DEF Data!Gather
<1> HIDE DEF R
<1>4. ASSUME NEW k \in 1..2, NEW i \in 1..R, NEW j \in 0..(data[1].tensors[k].dims - 1)
      PROVE  Data!Cell(k, i, j)' = IF j < data[1].tensors[k].elements THEN <<order[i], j>>
                                   ELSE Data!Zero
  <2> DEFINE t == data[1].tensors[k]
             d == t.dims
             p == (i - 1) * d + j
  <2>1. t \in Data!Tensors /\ j \in 0..(d - 1)
    <3>1. data[1] \in Entry
      BY <1>1
    <3> QED
      BY <3>1 DEF Entry
  <2>2. d \in Nat \ {0} /\ (t.elements = d \/ (d = 1 /\ t.elements = 0))
    BY <2>1, TensorType
  <2>3. Data!SizedBy(k) = t
    BY DEF Data!SizedBy
  <2>4. Data!Cell(k, i, j)' = Data!Cells(k, R, order)[p]
    BY <1>3 DEF Data!Cell
  <2>5. /\ p \in 0..(R * d - 1) /\ p \div d = i - 1 /\ p % d = j
    <3>1. R \in Nat
      BY <1>1, <1>2
    <3>2. j \in 0..(d - 1) /\ d \in Nat \ {0}
      BY <2>1, <2>2
    <3> HIDE DEF d
    <3> QED
      BY <3>1, <3>2, RowIndex
  <2>6. Data!Cells(k, R, order)[p] =
          IF p >= R * t.elements THEN Data!Zero
          ELSE <<data[order[(p \div t.elements) + 1]].name, p % t.elements>>
    <3> HIDE DEF p, d, t
    <3> QED
      BY <2>3, <2>5 DEF Data!Cells, d
  <2> HIDE DEF p, d, t
  <2>7. CASE t.elements = d /\ j < t.elements
    <3>1. p < R * t.elements
      BY <1>1, <1>2, <2>2, <2>5, <2>7
    <3>2. i \in 1..N /\ order[i] \in 1..N /\ (i - 1) + 1 = i
      BY <1>1, <1>2
    <3> QED
      <4>1. ~(p >= R * t.elements) /\ p \div t.elements = i - 1 /\ p % t.elements = j
        BY <2>5, <2>7, <3>1, <1>1, <1>2, <2>2
      <4>2. data[order[(i - 1) + 1]].name = order[i]
        BY <1>1, <3>2
      <4> QED
        BY <2>4, <2>6, <2>7, <4>1, <4>2 DEF t
  <2>8. CASE d = 1 /\ t.elements = 0
    <3>1. p >= R * t.elements /\ ~(j < t.elements)
      BY <1>1, <1>2, <2>1, <2>5, <2>8
    <3> QED
      BY <2>4, <2>6, <3>1 DEF t
  <2> QED
    BY <2>1, <2>2, <2>7, <2>8
<1>5. batch'.rows = IF batch'.asked \in 1..batch'.of THEN batch'.asked ELSE batch'.of
  BY <1>2, <1>3
<1> DEFINE entry == [i \in 1..R |-> order[i]]
<1>6. entry \in [1..R -> 1..N] /\ \A i, j \in 1..R : i # j => entry[i] # entry[j]
  BY <1>1, <1>2
<1>7. batch'.rows = R /\ batch'.of = N /\ \A k \in 1..2 : batch'.sized[k] = data[1].tensors[k]
  BY <1>3
<1>8. \A k \in 1..2, i \in 1..R : \A j \in 0..(batch'.sized[k].dims - 1) :
        Data!Cell(k, i, j)' = IF j < batch'.sized[k].elements THEN <<entry[i], j>> ELSE Data!Zero
  BY <1>4, <1>7
<1> HIDE DEF entry
<1> QED
  BY <1>5, <1>6, <1>7, <1>8 DEF Data!BatchHoldsEntries

LEMMA BatchData ==
  ASSUME DataInv, NEW n \in Nat, NEW shuffle \in BOOLEAN, Data!Batch(n, shuffle)
  PROVE  DataInv'
<1>1. /\ data # <<>> /\ UNCHANGED <<data, capacity, held>>
  BY DEF Data!Batch
<1>2. PICK order \in Data!Orders(shuffle) : Data!Gather(n, order)
  BY DEF Data!Batch
<1>3. DataOK' /\ HeldOK'
  BY <1>1 DEF DataInv, DataOK, HeldOK
<1>4. Data!BatchHoldsEntries'
  <2>1. CASE Data!Overruns(Data!Rows(n), order)
    <3>1. batch' = batch
      BY <1>2, <2>1 DEF Data!Gather
    <3> QED
      BY <3>1 DEF DataInv, Data!BatchHoldsEntries, Data!Cell
  <2>2. CASE ~Data!Overruns(Data!Rows(n), order)
    BY <1>1, <1>2, <2>2, GatheredBatch
  <2> QED
    BY <2>1, <2>2
<1> QED
  BY <1>3, <1>4 DEF DataInv

\* A batch leaves an entry that is smaller than the first.
LEMMA OverrunsAreShort ==
  ASSUME DataInv, NEW n \in Nat, NEW shuffle \in BOOLEAN, Data!Batch(n, shuffle),
         fault' # "none"
  PROVE  \E e \in DOMAIN data, k \in 1..2 :
           data[e].tensors[k].elements < data[1].tensors[k].elements
<1>1. PICK order \in Data!Orders(shuffle) : Data!Gather(n, order)
  BY DEF Data!Batch
<1>2. Data!Overruns(Data!Rows(n), order)
  BY <1>1 DEF Data!Gather, Data!Batch
<1>3. Len(data) \in Nat /\ order \in [1..Len(data) -> 1..Len(data)]
  BY OrderType DEF DataInv, DataOK
<1>4. Data!Rows(n) \in 0..Len(data)
  BY <1>3 DEF Data!Rows
<1>5. PICK i \in 1..Data!Rows(n), k \in 1..2 :
        data[order[i]].tensors[k].elements < Data!SizedBy(k).elements
  BY <1>2 DEF Data!Overruns
<1>6. order[i] \in 1..Len(data) /\ DOMAIN data = 1..Len(data)
  BY <1>3, <1>4 DEF DataInv, DataOK
<1> QED
  BY <1>5, <1>6 DEF Data!SizedBy

LEMMA ReferenceData ==
  ASSUME DataInv, Data!Random \/ Data!Use
  PROVE  DataInv'
<1>1. UNCHANGED <<data, capacity, batch>>
  BY DEF Data!Random, Data!Use
<1>2. DataOK'
  BY <1>1 DEF DataInv, DataOK
<1>3. Data!BatchHoldsEntries'
  BY <1>1 DEF DataInv, Data!BatchHoldsEntries, Data!Cell
<1>4. HeldOK'
  <2>1. CASE held' = held
    BY <1>1, <2>1 DEF DataInv, HeldOK
  <2>2. CASE held' # held
    <3>1. PICK i \in DOMAIN data :
            held' = [at |-> i, name |-> data[i].name, of |-> Len(data), dangling |-> FALSE]
      BY <2>2 DEF Data!Random, Data!Use
    <3>2. i \in 1..Len(data) /\ Len(data) \in Nat /\ data[i].name = i
      BY DEF DataInv, DataOK
    <3> QED
      BY <1>1, <3>1, <3>2 DEF HeldOK
  <2> QED
    BY <2>1, <2>2
<1> QED
  BY <1>2, <1>3, <1>4 DEF DataInv

LEMMA DataStep ==
  DataInv /\ [Next]_vars => DataInv'
<1> SUFFICES ASSUME DataInv, [Next]_vars PROVE DataInv'
  OBVIOUS
<1>1. CASE Data!Next
  BY <1>1, AddEntryData, BatchData, ReferenceData, LoopAssumption DEF Data!Next
<1>2. CASE Data!Batch(0, TRUE)
  BY <1>2, BatchData
<1>3. CASE UNCHANGED dataset
  BY <1>3, SameDataset
<1> QED
  BY <1>1, <1>2, <1>3
  DEF Next, vars, Client, Start, Step, Batch, ForwardLayer, Loss, LossBackward, BackwardLayer,
      UpdateLayer, EpochsOver, Evaluate, Finish

-----------------------------------------------------------------------------
(* What the tensors and histories are made of. *)

LEMMA FrontOfAppend ==
  ASSUME NEW S, NEW s \in Seq(S), NEW e \in S
  PROVE  Front(Append(s, e)) = s
BY DEF Front

LEMMA HistoryEnds ==
  ASSUME NEW n \in Nat
  PROVE  /\ History(n) \in Seq({Ideal!Gradient(i) : i \in Nat}) /\ Len(History(n)) = n
         /\ Append(History(n), Ideal!Gradient(n)) = History(n + 1)
         /\ Front(History(n + 1)) = History(n)
<1> DEFINE G(i) == Ideal!Gradient(i)
           S == {G(i) : i \in Nat}
           H(m) == [i \in 1..m |-> G(i - 1)]
<1>1. \A m : History(m) = H(m)
  BY DEF History
<1>2. \A i \in Nat : G(i) \in S
  OBVIOUS
<1> HIDE DEF G, S
<1>3. ASSUME NEW m \in Nat PROVE H(m) \in Seq(S) /\ Len(H(m)) = m
  <2>1. \A i \in 1..m : G(i - 1) \in S
    BY <1>2
  <2>2. H(m) \in [1..m -> S]
    BY <2>1
  <2> QED
    BY <2>2
<1>4. Append(H(n), G(n)) = H(n + 1)
  <2>1. /\ H(n) \in Seq(S) /\ H(n + 1) \in Seq(S)
        /\ Len(H(n)) = n /\ Len(H(n + 1)) = n + 1 /\ G(n) \in S
    BY <1>2, <1>3
  <2>2. ASSUME NEW i \in 1..(n + 1) PROVE Append(H(n), G(n))[i] = H(n + 1)[i]
    <3>1. CASE i = n + 1
      <4>1. Append(H(n), G(n))[n + 1] = G(n)
        <5> HIDE DEF H
        <5> QED
          BY <2>1
      <4>2. H(n + 1)[n + 1] = G((n + 1) - 1) /\ (n + 1) - 1 = n
        OBVIOUS
      <4> QED
        BY <3>1, <4>1, <4>2
    <3>2. CASE i \in 1..n
      <4>1. H(n + 1)[i] = H(n)[i]
        BY <3>2
      <4>2. Append(H(n), G(n))[i] = H(n)[i]
        <5> HIDE DEF H
        <5> QED
          BY <2>1, <3>2
      <4> QED
        BY <4>1, <4>2
    <3> QED
      BY <3>1, <3>2
  <2> HIDE DEF H
  <2> QED
    BY <2>1, <2>2
<1>5. Front(H(n + 1)) = H(n)
  <2>1. H(n) \in Seq(S) /\ G(n) \in S
    BY <1>2, <1>3
  <2> HIDE DEF H
  <2> QED
    BY <1>4, <2>1, FrontOfAppend
<1> HIDE DEF H
<1> QED
  BY <1>1, <1>3, <1>4, <1>5 DEF G, S

LEMMA HistoryStart ==
  History(0) = <<>>
BY DEF History

\* Both depend on the entries alone.
LEMMA HistoryKept ==
  ASSUME UNCHANGED data
  PROVE  /\ \A n : Ideal!Gradient(n)' = Ideal!Gradient(n)
         /\ \A n : History(n)' = History(n)
BY DEF History, Ideal!Gradient

LEMMA OutputKept ==
  ASSUME UNCHANGED <<batch, epoch>>
  PROVE  \A n : Output(n)' = Output(n)
BY DEF Output, RowsOf, Data!Cell

LEMMA OutputParts ==
  \A n : Output(n).rows = RowsOf(1) /\ Output(n).uses = (1..n) \X {epoch}
BY DEF Output

\* The rows of a batch of the whole dataset are its entries, each once, with the
\* input beside the true output.
LEMMA BatchRows ==
  ASSUME DataInv, WholeBatch, data # <<>>,
         \A e \in DOMAIN data, k \in 1..2 : data[e].tensors[k].elements > 0
  PROVE  /\ RowsOf(1) = RowsOf(2) /\ DOMAIN RowsOf(1) = 1..Len(data)
         /\ {RowsOf(1)[i] : i \in 1..Len(data)} = {{e} : e \in 1..Len(data)}
<1> DEFINE N == Len(data)
<1>1. /\ data \in Seq(Entry) /\ N \in Nat \ {0} /\ 1 \in DOMAIN data
  BY DEF DataInv, DataOK
<1>2. batch.rows = N /\ batch.of = N
  BY <1>1 DEF DataInv, Data!BatchHoldsEntries, WholeBatch
<1>3. PICK entry \in [1..N -> 1..N] :
        /\ \A i, j \in 1..N : i # j => entry[i] # entry[j]
        /\ \A k \in 1..2, i \in 1..N : \A j \in 0..(batch.sized[k].dims - 1) :
             Data!Cell(k, i, j) =
               IF j < batch.sized[k].elements THEN <<entry[i], j>> ELSE Data!Zero
  <2>1. Data!BatchHoldsEntries /\ batch # Data!NoBatch
    BY DEF DataInv, WholeBatch
  <2> QED
    BY <1>2, <2>1, Zenon DEF Data!BatchHoldsEntries
<1>4. ASSUME NEW k \in 1..2
      PROVE  RowsOf(k) = [i \in 1..N |-> {entry[i]}]
  <2> DEFINE t == batch.sized[k]
  <2>1. t = data[1].tensors[k] /\ t.elements > 0
    BY <1>1 DEF WholeBatch
  <2>2. t \in Data!Tensors
    <3>1. data[1] \in Entry
      BY <1>1
    <3> QED
      BY <2>1, <3>1 DEF Entry
  <2>3. t.dims \in Nat \ {0} /\ t.elements = t.dims
    BY <2>1, <2>2, TensorType
  <2>4. ASSUME NEW i \in 1..N
        PROVE  {Data!Cell(k, i, j)[1] : j \in 0..(t.dims - 1)} = {entry[i]}
    <3>1. \A j \in 0..(t.dims - 1) : Data!Cell(k, i, j)[1] = entry[i]
      BY <1>3, <2>3
    <3>2. 0 \in 0..(t.dims - 1)
      BY <2>3
    <3> HIDE DEF t
    <3> QED
      BY <3>1, <3>2
  <2> QED
    BY <1>2, <2>4 DEF RowsOf
<1>5. \A e \in 1..N : \E i \in 1..N : entry[i] = e
  BY <1>1, <1>3, OrderIsOnto
<1>6. RowsOf(1) = [i \in 1..N |-> {entry[i]}]
  BY <1>4
<1>7. {RowsOf(1)[i] : i \in 1..N} = {{e} : e \in 1..N}
  <2>1. \A i \in 1..N : RowsOf(1)[i] = {entry[i]} /\ entry[i] \in 1..N
    BY <1>3, <1>6
  <2>2. {RowsOf(1)[i] : i \in 1..N} \subseteq {{e} : e \in 1..N}
    BY <2>1
  <2>3. ASSUME NEW e \in 1..N PROVE {e} \in {RowsOf(1)[i] : i \in 1..N}
    <3>1. PICK i \in 1..N : entry[i] = e
      BY <1>5
    <3>2. RowsOf(1)[i] = {e}
      BY <2>1, <3>1
    <3> QED
      BY <3>2
  <2> QED
    BY <2>2, <2>3
<1>8. RowsOf(1) = RowsOf(2)
  <2>1. RowsOf(2) = [i \in 1..N |-> {entry[i]}]
    BY <1>4
  <2> QED
    BY <1>6, <2>1
<1>9. DOMAIN RowsOf(1) = 1..N
  BY <1>6
<1> QED
  BY <1>7, <1>8, <1>9

-----------------------------------------------------------------------------
(* The loop. *)

LoopInv == LoopOK /\ ShapesOK /\ TensorsOK /\ AppliedOK

\* The whole step of the loop, as its first part leaves it.
LEMMA LoopType ==
  /\ Depth \in Nat \ {0} /\ 1..Depth \subseteq Nat /\ MaxEpochs \in Nat
  /\ LoopOK => epoch \in Nat /\ layer \in Nat /\ layer >= 1 /\ layer <= Depth
BY LoopAssumption DEF LoopOK

LEMMA LoopInit ==
  Init => LoopInv
<1> SUFFICES ASSUME Init PROVE LoopInv
  OBVIOUS
<1>1. LoopOK
  BY LoopAssumption DEF Init, LoopOK, InEpoch
<1>2. ShapesOK
  BY LoopAssumption DEF Init, ShapesOK, InEpoch, PassedBatch, PassedForward, PassedLoss, Saved
<1>3. TensorsOK
  BY DEF Init, TensorsOK, Saved
<1>4. AppliedOK
  BY HistoryStart DEF Init, AppliedOK
<1> QED
  BY <1>1, <1>2, <1>3, <1>4 DEF LoopInv

\* Nothing is trained while the dataset is collected.
LEMMA ClientLoop ==
  ASSUME LoopInv, Client
  PROVE  LoopInv'
<1>1. pc = "client" /\ epoch = 0 /\ UNCHANGED loop /\ UNCHANGED <<saved, cache, grad, applied>>
      /\ UNCHANGED <<pc, epoch, layer, outcome>>
  BY DEF LoopInv, LoopOK, Client, loop, net
<1>2. LoopOK'
  BY <1>1 DEF LoopInv, LoopOK, InEpoch
<1>3. ShapesOK'
  BY <1>1 DEF ShapesOK, InEpoch, PassedBatch, PassedForward, PassedLoss, Saved
<1>4. TensorsOK'
  BY <1>1 DEF LoopInv, TensorsOK, Saved
<1>5. AppliedOK'
  <2>1. History(0)' = History(0)
    BY HistoryStart DEF History
  <2> QED
    BY <1>1, <2>1 DEF LoopInv, AppliedOK
<1> QED
  BY <1>2, <1>3, <1>4, <1>5 DEF LoopInv

LEMMA StartLoop ==
  ASSUME LoopInv, Start
  PROVE  LoopInv'
<1>1. pc = "client" /\ pc' = "batch" /\ epoch = 0
      /\ UNCHANGED <<data, batch, epoch, layer, saved, cache, grad, applied, outcome>>
  BY DEF LoopInv, LoopOK, Start, dataset, net
<1>2. LoopOK'
  BY <1>1 DEF LoopInv, LoopOK, InEpoch
<1>3. ShapesOK'
  BY <1>1 DEF Start, ShapesOK, InEpoch, PassedBatch, PassedForward, PassedLoss, Saved
<1>4. TensorsOK'
  BY <1>1 DEF LoopInv, TensorsOK, Saved
<1>5. AppliedOK'
  BY <1>1, HistoryKept DEF LoopInv, AppliedOK
<1> QED
  BY <1>2, <1>3, <1>4, <1>5 DEF LoopInv

\* Leaving the epochs, by an exception or in the end, disturbs nothing.
LEMMA LeaveLoop ==
  ASSUME LoopInv, pc \in {"batch", "forward", "loss", "test"},
         Throw \/ (pc # "test" /\ Trained) \/ Finish,
         UNCHANGED <<data, batch, epoch, layer, saved, cache, grad, applied>>
  PROVE  LoopInv'
<1>1. pc' \in {"test", "end"}
  BY DEF Throw, Trained, Finish
<1>2. LoopOK'
  BY <1>1 DEF LoopInv, LoopOK, InEpoch, Throw, Trained, Finish
<1>3. ShapesOK'
  BY <1>1 DEF LoopInv, ShapesOK, InEpoch, PassedBatch, PassedForward, PassedLoss, Saved
<1>4. TensorsOK'
  BY <1>1 DEF LoopInv, TensorsOK, Saved
<1>5. AppliedOK'
  BY <1>1, HistoryKept DEF LoopInv, AppliedOK
<1> QED
  BY <1>2, <1>3, <1>4, <1>5 DEF LoopInv

\* A batch that is not whole throws; a whole one goes into the network, and has
\* shown that no entry is shorter than the first.
LEMMA WholeBatchLoop ==
  ASSUME DataInv, LoopInv, pc = "batch", epoch < MaxEpochs,
         Data!Batch(0, TRUE), fault' = "none",
         pc' = "forward" /\ layer' = 1 /\ x' = [rows |-> RowsOf(1)', uses |-> {}],
         UNCHANGED <<epoch, saved, cache, grad, applied, outcome>>
  PROVE  LoopInv'
<1>1. data # <<>> /\ UNCHANGED data
  BY DEF Data!Batch
<1>2. PICK order \in Data!Orders(TRUE) : Data!Gather(0, order)
  BY DEF Data!Batch
<1>3. /\ ~Data!Overruns(Data!Rows(0), order)
      /\ batch' = [asked |-> 0, of |-> Len(data), rows |-> Data!Rows(0),
                   sized |-> [k \in 1..2 |-> data[1].tensors[k]],
                   cells |-> [k \in 1..2 |-> Data!Cells(k, Data!Rows(0), order)]]
  BY <1>2 DEF Data!Gather
<1>4. /\ data \in Seq(Entry) /\ Len(data) \in Nat \ {0} /\ DOMAIN data = 1..Len(data)
      /\ Data!Rows(0) = Len(data)
  BY <1>1 DEF DataInv, DataOK, Data!Rows
<1>5. WholeBatch'
  <2>1. batch'.of = Len(data) /\ batch'.asked = 0
        /\ batch'.sized = [k \in 1..2 |-> data[1].tensors[k]]
    BY <1>3
  <2>2. batch' # Data!NoBatch
    BY <1>4, <2>1 DEF Data!NoBatch
  <2> QED
    BY <1>1, <2>1, <2>2 DEF WholeBatch
<1>6. ASSUME NEW e \in DOMAIN data, NEW k \in 1..2
      PROVE  data[1].tensors[k].elements <= data[e].tensors[k].elements
  <2>1. /\ order \in [1..Len(data) -> 1..Len(data)]
        /\ \A i, j \in 1..Len(data) : i # j => order[i] # order[j]
    BY OrderType DEF DataInv
  <2>2. PICK i \in 1..Len(data) : order[i] = e
    <3>1. Len(data) \in Nat /\ e \in 1..Len(data)
      BY <1>4
    <3>2. \A a \in 1..Len(data) : \E i \in 1..Len(data) : order[i] = a
      BY <2>1, <3>1, OrderIsOnto
    <3> QED
      BY <3>1, <3>2
  <2>3. ~(data[e].tensors[k].elements < data[1].tensors[k].elements)
    BY <1>3, <1>4, <2>2 DEF Data!Overruns, Data!SizedBy
  <2>4. \A a \in DOMAIN data : data[a].tensors[k].elements \in Nat
    <3>1. ASSUME NEW a \in DOMAIN data PROVE data[a].tensors[k] \in Data!Tensors
      <4>1. data[a] \in Entry
        BY <1>4
      <4> QED
        BY <4>1 DEF Entry
    <3> QED
      BY <3>1, TensorType
  <2> QED
    BY <1>4, <2>3, <2>4
<1>7. LoopOK'
  BY LoopType DEF LoopInv, LoopOK, InEpoch
<1>8. ShapesOK'
  BY <1>1, <1>5, <1>6
  DEF LoopInv, ShapesOK, InEpoch, PassedBatch, PassedForward, PassedLoss, Saved
<1>9. TensorsOK'
  <2>1. x' = Output(layer - 1)'
    <3>1. (1..(layer' - 1)) \X {epoch'} = {}
      OBVIOUS
    <3> QED
      BY <3>1 DEF Output
  <2> QED
    BY <2>1 DEF LoopInv, TensorsOK, Saved, LoopOK
<1>10. AppliedOK'
  BY <1>1, HistoryKept DEF LoopInv, AppliedOK
<1> QED
  BY <1>7, <1>8, <1>9, <1>10 DEF LoopInv

LEMMA BatchLoop ==
  ASSUME DataInv, LoopInv, Batch
  PROVE  LoopInv'
<1>1. pc = "batch" /\ epoch < MaxEpochs /\ UNCHANGED <<epoch, saved, cache, grad, applied>>
  BY DEF Batch, net
<1>2. CASE data = <<>>
  <2>1. Throw /\ UNCHANGED <<data, batch, layer>>
    BY <1>2 DEF Batch, dataset, Data!Batch
  <2> QED
    BY <1>1, <2>1, LeaveLoop
<1>3. CASE data # <<>> /\ fault' # "none"
  <2>1. Throw /\ UNCHANGED layer /\ Data!Batch(0, TRUE)
    BY <1>3 DEF Batch
  <2>2. UNCHANGED <<data, batch>>
    BY <1>3, <2>1 DEF Data!Batch, Data!Gather
  <2> QED
    BY <1>1, <2>1, <2>2, LeaveLoop
<1>4. CASE data # <<>> /\ fault' = "none"
  <2>1. /\ Data!Batch(0, TRUE) /\ UNCHANGED outcome
        /\ pc' = "forward" /\ layer' = 1 /\ x' = [rows |-> RowsOf(1)', uses |-> {}]
    BY <1>4 DEF Batch
  <2> QED
    BY <1>1, <1>4, <2>1, WholeBatchLoop
<1> QED
  BY <1>2, <1>3, <1>4

\* What a layer of this epoch makes of the output of the layer before it.
LEMMA OutputThrough ==
  ASSUME LoopInv, pc = "forward", NEW n \in 1..Depth
  PROVE  Through(n, Output(n - 1)) = Output(n)
<1>1. Weights(n) = {<<n, epoch>>}
  <2>1. applied[n] = History(epoch) /\ epoch \in Nat
    BY LoopType DEF LoopInv, AppliedOK
  <2> QED
    BY <2>1, HistoryEnds DEF Weights
<1>2. ((1..(n - 1)) \X {epoch}) \cup {<<n, epoch>>} = (1..n) \X {epoch}
  <2>1. n \in Nat /\ n >= 1
    BY LoopType
  <2>2. (1..(n - 1)) \cup {n} = 1..n
    BY <2>1
  <2> QED
    BY <2>2
<1> QED
  BY <1>1, <1>2 DEF Through, Output

LEMMA ForwardLoop ==
  ASSUME DataInv, LoopInv, ForwardLayer
  PROVE  LoopInv'
<1>1. /\ pc = "forward" /\ WholeBatch /\ x = Output(layer - 1) /\ layer \in 1..Depth
      /\ UNCHANGED <<data, batch, epoch, grad, applied>>
  BY DEF ForwardLayer, LoopInv, ShapesOK, TensorsOK, LoopOK, InEpoch, dataset
<1>2. CASE layer = 1 /\ batch.sized[1].dims # InFeatures
  <2>1. Throw /\ UNCHANGED <<layer, saved, cache>>
    BY <1>2 DEF ForwardLayer
  <2> QED
    BY <1>1, <2>1, LeaveLoop
<1>3. CASE ~(layer = 1 /\ batch.sized[1].dims # InFeatures)
  <2>1. /\ saved' = [saved EXCEPT ![layer] = x] /\ x' = Through(layer, x)
        /\ cache' = [cache EXCEPT ![layer] = x'] /\ UNCHANGED outcome
        /\ \/ layer < Depth /\ layer' = layer + 1 /\ pc' = "forward"
           \/ layer = Depth /\ pc' = "loss" /\ layer' = layer
    BY <1>1, <1>3, LoopType DEF ForwardLayer
  <2>2. x' = Output(layer)
    BY <1>1, <2>1, OutputThrough
  <2>3. data[1].tensors[1].dims = InFeatures
    <3>1. CASE layer = 1
      BY <1>1, <1>3, <3>1 DEF WholeBatch
    <3>2. CASE layer # 1
      BY <1>1, <3>2, LoopType DEF LoopInv, LoopOK, ShapesOK, PassedForward
    <3> QED
      BY <3>1, <3>2
  <2>4. LoopOK'
    BY <1>1, <2>1, LoopType DEF LoopInv, LoopOK, InEpoch
  <2>5. ShapesOK'
    BY <1>1, <2>1, <2>3
    DEF LoopInv, ShapesOK, InEpoch, PassedBatch, PassedForward, PassedLoss, Saved, WholeBatch
  <2>6. TensorsOK'
    <3>1. /\ \A n : Output(n)' = Output(n)
          /\ Ideal!Gradient(epoch)' = Ideal!Gradient(epoch)
      BY <1>1, OutputKept DEF Ideal!Gradient
    <3>2. pc' = "forward" => x' = Output(layer - 1)'
      BY <1>1, <2>1, <2>2, <3>1, LoopType DEF LoopInv
    <3>3. pc' = "loss" => x' = Output(Depth)'
      BY <2>1, <2>2, <3>1
    <3>4. saved' = [l \in 1..Depth |-> saved'[l]] /\ cache' = [l \in 1..Depth |-> cache'[l]]
      BY <2>1 DEF LoopInv, TensorsOK
    <3>5. ASSUME NEW l \in 1..Depth, Saved' \/ (pc' = "forward" /\ l < layer')
          PROVE  saved'[l] = Output(l - 1) /\ cache'[l] = Output(l)
      <4>1. CASE l = layer
        BY <1>1, <2>1, <2>2, <4>1 DEF LoopInv, TensorsOK
      <4>2. CASE l # layer
        <5>1. l < layer
          BY <1>1, <2>1, <3>5, <4>2, LoopType DEF Saved
        <5> QED
          BY <1>1, <2>1, <4>2, <5>1 DEF LoopInv, TensorsOK
      <4> QED
        BY <4>1, <4>2
    <3>6. grad' = [l \in 1..Depth |-> grad'[l]]
      BY <1>1 DEF LoopInv, TensorsOK
    <3> QED
      BY <2>1, <3>1, <3>2, <3>3, <3>4, <3>5, <3>6 DEF TensorsOK
  <2>7. AppliedOK'
    BY <1>1, <2>1, HistoryKept DEF LoopInv, AppliedOK
  <2> QED
    BY <2>4, <2>5, <2>6, <2>7 DEF LoopInv
<1> QED
  BY <1>2, <1>3

LEMMA LossLoop ==
  ASSUME LoopInv, Loss
  PROVE  LoopInv'
<1>1. /\ pc = "loss" /\ WholeBatch
      /\ UNCHANGED <<data, batch, epoch, layer, x, saved, cache, grad, applied>>
  BY DEF Loss, LoopInv, ShapesOK, InEpoch, dataset, net
<1>2. CASE Throw \/ Trained
  BY <1>1, <1>2, LeaveLoop
<1>3. CASE ~(Throw \/ Trained)
  <2>1. pc' = "gradient" /\ UNCHANGED outcome /\ data[1].tensors[2].dims = OutFeatures
    BY <1>1, <1>3 DEF Loss, WholeBatch
  <2>2. LoopOK'
    BY <1>1, <2>1 DEF LoopInv, LoopOK, InEpoch
  <2>3. ShapesOK'
    BY <1>1, <2>1
    DEF LoopInv, ShapesOK, InEpoch, PassedBatch, PassedForward, PassedLoss, Saved, WholeBatch
  <2>4. TensorsOK'
    BY <1>1, <2>1, OutputKept DEF LoopInv, TensorsOK, Saved
  <2>5. AppliedOK'
    BY <1>1, <2>1, HistoryKept DEF LoopInv, AppliedOK
  <2> QED
    BY <2>2, <2>3, <2>4, <2>5 DEF LoopInv
<1> QED
  BY <1>2, <1>3

\* The input and the true output of an entry are in the same row, so that the loss
\* mixes no entries.
LEMMA LossBackwardLoop ==
  ASSUME DataInv, LoopInv, LossBackward
  PROVE  LoopInv'
<1>1. /\ pc = "gradient" /\ pc' = "backward" /\ layer' = Depth /\ x = Output(Depth)
      /\ UNCHANGED <<data, batch, epoch, saved, cache, grad, applied, outcome>>
  BY DEF LossBackward, LoopInv, TensorsOK, dataset, net
<1>2. RowsOf(1) = RowsOf(2)
  BY <1>1, BatchRows DEF LoopInv, ShapesOK, PassedBatch, InEpoch
<1>3. g' = Output(Depth)
  <2>1. [i \in DOMAIN x.rows |-> x.rows[i] \cup RowsOf(2)[i]] = RowsOf(1)
    <3>1. x.rows = RowsOf(1)
      BY <1>1, OutputParts
    <3>2. RowsOf(1) = [i \in DOMAIN RowsOf(1) |-> RowsOf(1)[i]]
      BY DEF RowsOf
    <3> QED
      BY <1>2, <3>1, <3>2
  <2>2. x.uses = (1..Depth) \X {epoch}
    BY <1>1, OutputParts
  <2> QED
    BY <2>1, <2>2 DEF LossBackward, Output
<1>4. LoopOK'
  BY <1>1, LoopType DEF LoopInv, LoopOK, InEpoch
<1>5. ShapesOK'
  BY <1>1
  DEF LoopInv, ShapesOK, InEpoch, PassedBatch, PassedForward, PassedLoss, Saved, WholeBatch
<1>6. TensorsOK'
  BY <1>1, <1>3, OutputKept, LoopType DEF LoopInv, TensorsOK, Saved
<1>7. AppliedOK'
  BY <1>1, HistoryKept DEF LoopInv, AppliedOK
<1> QED
  BY <1>4, <1>5, <1>6, <1>7 DEF LoopInv

\* A layer computes the gradient of the whole dataset, at the weights the epoch
\* started with, from what it has saved and from the layer behind it.
LEMMA LayerGradient ==
  ASSUME DataInv, LoopInv, pc = "backward"
  PROVE  /\ RawGradient(layer) = Output(Depth)
         /\ GradientOf(layer) = Ideal!Gradient(epoch)
         /\ Through(layer, RawGradient(layer)) = Output(Depth)
<1>1. /\ layer \in 1..Depth /\ g = Output(Depth)
      /\ saved[layer] = Output(layer - 1) /\ cache[layer] = Output(layer)
  BY DEF LoopInv, LoopOK, TensorsOK, Saved
<1>2. /\ DOMAIN RowsOf(1) = 1..Len(data) /\ RowsOf(1) = [i \in DOMAIN RowsOf(1) |-> RowsOf(1)[i]]
      /\ {RowsOf(1)[i] : i \in 1..Len(data)} = {{e} : e \in 1..Len(data)}
  BY BatchRows DEF LoopInv, ShapesOK, PassedBatch, InEpoch, RowsOf
<1>3. /\ layer \in Nat /\ Depth \in Nat
      /\ 1..layer \subseteq 1..Depth /\ 1..(layer - 1) \subseteq 1..Depth
  BY <1>1, LoopType
<1>4. /\ g.rows = RowsOf(1) /\ g.uses = (1..Depth) \X {epoch}
      /\ saved[layer].rows = RowsOf(1) /\ saved[layer].uses = (1..(layer - 1)) \X {epoch}
      /\ cache[layer].rows = RowsOf(1) /\ cache[layer].uses = (1..layer) \X {epoch}
  BY <1>1, OutputParts
<1>5. RawGradient(layer) = Output(Depth)
  <2>1. CASE layer \notin Activated
    BY <1>1, <2>1 DEF RawGradient
  <2>2. CASE layer \in Activated
    <3>1. [i \in DOMAIN g.rows |-> g.rows[i] \cup cache[layer].rows[i]] = RowsOf(1)
      BY <1>2, <1>4
    <3>2. g.uses \cup cache[layer].uses = (1..Depth) \X {epoch}
      BY <1>3, <1>4
    <3> QED
      BY <2>2, <3>1, <3>2 DEF RawGradient, Output
  <2> QED
    BY <2>1, <2>2
<1>6. GradientOf(layer) = Ideal!Gradient(epoch)
  <2>1. RawGradient(layer).rows = RowsOf(1) /\ RawGradient(layer).uses = (1..Depth) \X {epoch}
    BY <1>5, OutputParts
  <2>2. {RawGradient(layer).rows[i] \cup saved[layer].rows[i] : i \in DOMAIN g.rows}
          = {{e} : e \in 1..Len(data)}
    <3>1. DOMAIN g.rows = 1..Len(data)
      BY <1>2, <1>4
    <3>2. ASSUME NEW i PROVE RawGradient(layer).rows[i] \cup saved[layer].rows[i] = RowsOf(1)[i]
      <4>1. RawGradient(layer).rows[i] = RowsOf(1)[i] /\ saved[layer].rows[i] = RowsOf(1)[i]
        BY <1>4, <2>1
      <4> QED
        BY <4>1
    <3>3. {RawGradient(layer).rows[i] \cup saved[layer].rows[i] : i \in DOMAIN g.rows}
            = {RowsOf(1)[i] : i \in 1..Len(data)}
      BY <3>1, <3>2, Zenon
    <3> QED
      BY <1>2, <3>3
  <2>3. RawGradient(layer).uses \cup saved[layer].uses = (1..Depth) \X {epoch}
    BY <1>3, <1>4, <2>1
  <2>4. {data[e].name : e \in DOMAIN data} = 1..Len(data)
    BY DEF DataInv, DataOK
  <2> QED
    BY <2>2, <2>3, <2>4 DEF GradientOf, WeightGradient, Ideal!Gradient
<1>7. Through(layer, Output(Depth)) = Output(Depth)
  <2>1. Weights(layer) = {<<layer, epoch>>}
    <3>1. applied[layer] = History(epoch) /\ epoch \in Nat
      BY <1>1, LoopType DEF LoopInv, AppliedOK
    <3> QED
      BY <3>1, HistoryEnds DEF Weights
  <2>2. ((1..Depth) \X {epoch}) \cup {<<layer, epoch>>} = (1..Depth) \X {epoch}
    BY <1>1
  <2> QED
    BY <2>1, <2>2 DEF Through, Output
<1> QED
  BY <1>5, <1>6, <1>7

LEMMA BackwardLoop ==
  ASSUME DataInv, LoopInv, BackwardLayer
  PROVE  LoopInv'
<1>1. /\ pc = "backward" /\ layer \in 1..Depth
      /\ UNCHANGED <<data, batch, epoch, saved, cache, applied, outcome>>
      /\ grad' = [grad EXCEPT ![layer] = Ideal!Gradient(epoch)] /\ g' = Output(Depth)
      /\ \/ layer > 1 /\ layer' = layer - 1 /\ pc' = "backward"
         \/ layer = 1 /\ layer' = 1 /\ pc' = "update"
  <2>1. pc = "backward" /\ layer \in 1..Depth /\ (layer > 1 \/ layer = 1)
    BY LoopType DEF BackwardLayer, LoopInv, LoopOK
  <2>2. UNCHANGED <<data, batch, epoch, saved, cache, applied, outcome>>
    BY DEF BackwardLayer, dataset
  <2>3. grad' = [grad EXCEPT ![layer] = Ideal!Gradient(epoch)] /\ g' = Output(Depth)
    BY <2>1, LayerGradient DEF BackwardLayer
  <2>4. \/ layer > 1 /\ layer' = layer - 1 /\ pc' = "backward"
        \/ layer = 1 /\ layer' = 1 /\ pc' = "update"
    BY <2>1 DEF BackwardLayer
  <2> QED
    BY <2>1, <2>2, <2>3, <2>4
<1>2. LoopOK'
  BY <1>1, LoopType DEF LoopInv, LoopOK, InEpoch
<1>3. ShapesOK'
  BY <1>1
  DEF LoopInv, ShapesOK, InEpoch, PassedBatch, PassedForward, PassedLoss, Saved, WholeBatch
<1>4. TensorsOK'
  <2>1. \A n : Output(n)' = Output(n) /\ Ideal!Gradient(n)' = Ideal!Gradient(n)
    BY <1>1, OutputKept, HistoryKept
  <2>2. ASSUME NEW l \in 1..Depth, pc' = "update" \/ (pc' = "backward" /\ l > layer')
        PROVE  grad'[l] = Ideal!Gradient(epoch)
    <3>1. CASE l = layer
      BY <1>1, <3>1 DEF LoopInv, TensorsOK
    <3>2. CASE l # layer
      <4>1. l > layer
        BY <1>1, <2>2, <3>2, LoopType
      <4> QED
        BY <1>1, <3>2, <4>1 DEF LoopInv, TensorsOK
    <3> QED
      BY <3>1, <3>2
  <2>3. grad' = [l \in 1..Depth |-> grad'[l]]
    BY <1>1 DEF LoopInv, TensorsOK
  <2> QED
    BY <1>1, <2>1, <2>2, <2>3 DEF LoopInv, TensorsOK, Saved
<1>5. AppliedOK'
  BY <1>1, HistoryKept DEF LoopInv, AppliedOK
<1> QED
  BY <1>2, <1>3, <1>4, <1>5 DEF LoopInv

LEMMA UpdateLoop ==
  ASSUME LoopInv, UpdateLayer
  PROVE  LoopInv'
<1>1. /\ pc = "update" /\ layer \in 1..Depth /\ epoch \in Nat
      /\ UNCHANGED <<data, batch, saved, cache, grad, outcome>>
      /\ applied' = [applied EXCEPT ![layer] = Append(@, grad[layer])]
      /\ \/ layer < Depth /\ layer' = layer + 1 /\ pc' = "update" /\ epoch' = epoch
         \/ layer = Depth /\ layer' = layer /\ pc' = "batch" /\ epoch' = epoch + 1
  BY LoopType DEF UpdateLayer, LoopInv, LoopOK, dataset
<1>2. LoopOK'
  BY <1>1, LoopType DEF LoopInv, LoopOK, InEpoch
<1>3. ShapesOK'
  BY <1>1
  DEF LoopInv, ShapesOK, InEpoch, PassedBatch, PassedForward, PassedLoss, Saved, WholeBatch
<1>4. TensorsOK'
  <2>1. ASSUME pc' = "update" PROVE \A n : Output(n)' = Output(n)
    BY <1>1, <2>1, OutputKept
  <2>2. \A n : Ideal!Gradient(n)' = Ideal!Gradient(n)
    BY <1>1, HistoryKept
  <2> QED
    BY <1>1, <2>1, <2>2 DEF LoopInv, TensorsOK, Saved
<1>5. AppliedOK'
  <2>1. applied' = [l \in 1..Depth |-> History(IF l <= layer THEN epoch + 1 ELSE epoch)]
    <3>1. applied[layer] = History(epoch) /\ grad[layer] = Ideal!Gradient(epoch)
      BY <1>1, LoopType DEF LoopInv, AppliedOK, TensorsOK
    <3>2. Append(applied[layer], grad[layer]) = History(epoch + 1)
      BY <1>1, <3>1, HistoryEnds
    <3>3. applied' = [applied EXCEPT ![layer] = History(epoch + 1)]
      BY <1>1, <3>2
    <3>4. applied = [l \in 1..Depth |-> History(IF l < layer THEN epoch + 1 ELSE epoch)]
      BY <1>1 DEF LoopInv, AppliedOK
    <3>5. ASSUME NEW l \in 1..Depth
          PROVE  applied'[l] = History(IF l <= layer THEN epoch + 1 ELSE epoch)
      <4>1. CASE l = layer
        BY <1>1, <3>3, <3>4, <4>1, LoopType
      <4>2. CASE l # layer
        <5>1. (l < layer) = (l <= layer)
          BY <1>1, <4>2, LoopType
        <5> QED
          BY <1>1, <3>3, <3>4, <4>2, <5>1
      <4> QED
        BY <4>1, <4>2
    <3>6. applied' = [l \in 1..Depth |-> applied'[l]]
      BY <3>3, <3>4
    <3> QED
      BY <3>5, <3>6
  <2>2. \A n : History(n)' = History(n)
    BY <1>1, HistoryKept
  <2>3. ASSUME NEW l \in 1..Depth
        PROVE  (IF pc' = "update" /\ l < layer' THEN epoch' + 1 ELSE epoch')
                 = IF l <= layer THEN epoch + 1 ELSE epoch
    BY <1>1, LoopType
  <2> QED
    BY <2>1, <2>2, <2>3 DEF AppliedOK
<1> QED
  BY <1>2, <1>3, <1>4, <1>5 DEF LoopInv

\* Testing overwrites what the layers keep, when nothing needs it any more.
LEMMA EvaluateLoop ==
  ASSUME LoopInv, Evaluate
  PROVE  LoopInv'
<1>1. pc = "test" /\ UNCHANGED <<data, batch, epoch, layer, grad, applied>>
  BY DEF Evaluate, dataset
<1>2. CASE Throw /\ UNCHANGED <<saved, cache>>
  BY <1>1, <1>2, LeaveLoop
<1>3. CASE ~(Throw /\ UNCHANGED <<saved, cache>>)
  <2>1. UNCHANGED <<pc, outcome>>
    BY <1>3 DEF Evaluate
  <2>2. LoopOK'
    BY <1>1, <2>1 DEF LoopInv, LoopOK, InEpoch
  <2>3. ShapesOK'
    BY <1>1, <2>1 DEF LoopInv, ShapesOK, InEpoch, PassedBatch, PassedForward, PassedLoss, Saved
  <2>4. TensorsOK'
    <3>1. saved' = [l \in 1..Depth |-> saved'[l]] /\ cache' = [l \in 1..Depth |-> cache'[l]]
      BY <1>3 DEF Evaluate
    <3> QED
      BY <1>1, <2>1, <3>1 DEF LoopInv, TensorsOK, Saved
  <2>5. AppliedOK'
    BY <1>1, <2>1, HistoryKept DEF LoopInv, AppliedOK
  <2> QED
    BY <2>2, <2>3, <2>4, <2>5 DEF LoopInv
<1> QED
  BY <1>2, <1>3

LEMMA SameLoop ==
  ASSUME LoopInv, UNCHANGED vars
  PROVE  LoopInv'
<1>1. UNCHANGED <<data, batch, pc, epoch, layer, x, g, saved, cache, grad, applied, outcome>>
  BY DEF vars, dataset, loop, net
<1>2. LoopOK'
  BY <1>1 DEF LoopInv, LoopOK, InEpoch
<1>3. ShapesOK'
  BY <1>1
  DEF LoopInv, ShapesOK, InEpoch, PassedBatch, PassedForward, PassedLoss, Saved, WholeBatch
<1>4. TensorsOK'
  BY <1>1, OutputKept, HistoryKept DEF LoopInv, TensorsOK, Saved
<1>5. AppliedOK'
  BY <1>1, HistoryKept DEF LoopInv, AppliedOK
<1> QED
  BY <1>2, <1>3, <1>4, <1>5 DEF LoopInv

LEMMA LoopStep ==
  DataInv /\ LoopInv /\ [Next]_vars => LoopInv'
<1> SUFFICES ASSUME DataInv, LoopInv, [Next]_vars PROVE LoopInv'
  OBVIOUS
<1>1. CASE EpochsOver
  <2>1. /\ pc = "batch" /\ Trained
        /\ UNCHANGED <<data, batch, epoch, layer, saved, cache, grad, applied>>
    BY <1>1 DEF EpochsOver, dataset, net
  <2> QED
    BY <2>1, LeaveLoop
<1>2. CASE Finish
  <2>1. pc = "test" /\ UNCHANGED <<data, batch, epoch, layer, saved, cache, grad, applied>>
    BY <1>2 DEF Finish, dataset, net
  <2> QED
    BY <1>2, <2>1, LeaveLoop
<1> QED
  BY <1>1, <1>2, ClientLoop, StartLoop, BatchLoop, ForwardLoop, LossLoop, LossBackwardLoop,
     BackwardLoop, UpdateLoop, EvaluateLoop, SameLoop
  DEF Next, Step

\* The inductive invariant: what is collected and held (dataset.hpp:13-93), and
\* how far the weights and the kept tensors have come at each statement of an
\* epoch (network.cpp:34-52).
THEOREM Invariant ==
  Spec => []IInv
<1>1. Init => IInv
  BY DataInit, LoopInit DEF IInv, LoopInv
<1>2. IInv /\ [Next]_vars => IInv'
  BY DataStep, LoopStep DEF IInv, LoopInv
<1> QED
  BY <1>1, <1>2, PTL DEF Spec

\* Row i of a batch is the input of one entry beside the true output of the same
\* entry, and no entry is in two rows, whatever the order, the size asked for and
\* the sizes of the tensors (dataset.hpp:30-76).
THEOREM BatchHolds ==
  Spec => []BatchHoldsEntries
<1>1. IInv => BatchHoldsEntries
  BY DEF IInv, DataInv, BatchHoldsEntries
<1> QED
  BY <1>1, Invariant, PTL

\* The reference random returned refers to the entry that was drawn, through
\* all batches, at least until an entry is added (dataset.hpp:79-88).
THEOREM ReferenceKept ==
  Spec => []ReferenceKeepsItsEntry
<1>1. IInv => ReferenceKeepsItsEntry
  <2> SUFFICES ASSUME IInv, held # Data!NotHeld
               PROVE  (~held.dangling /\ data[held.at].name = held.name) \/ Len(data) > held.of
    BY DEF ReferenceKeepsItsEntry, Data!ReferenceKeepsItsEntry
  <2>1. /\ Len(data) \in Nat /\ DOMAIN data = 1..Len(data) /\ held.of \in Nat
        /\ held.at \in 1..held.of /\ held.name = held.at /\ held.of <= Len(data)
        /\ held.dangling \in BOOLEAN /\ (held.dangling => held.of < Len(data))
    BY DEF IInv, DataInv, DataOK, HeldOK
  <2>2. data[held.at].name = held.name
    BY <2>1 DEF IInv, DataInv, DataOK
  <2> QED
    BY <2>1, <2>2
<1> QED
  BY <1>1, Invariant, PTL

-----------------------------------------------------------------------------
(* The refinement. *)

\* An update that has not reached the last layer does not show.
LEMMA ShownHistory ==
  IInv => Shown = [l \in 1..Depth |-> History(epoch)]
<1> SUFFICES ASSUME IInv, NEW l \in 1..Depth
             PROVE  (IF pc = "update" /\ l < layer THEN Front(applied[l]) ELSE applied[l])
                      = History(epoch)
  BY DEF Shown
<1>1. /\ epoch \in Nat
      /\ applied[l] = History(IF pc = "update" /\ l < layer THEN epoch + 1 ELSE epoch)
  BY LoopType DEF IInv, AppliedOK
<1> QED
  BY <1>1, HistoryEnds

\* Only the first epoch can throw.
LEMMA OnlyUntrainedFails ==
  ASSUME IInv, Batch \/ ForwardLayer \/ Loss, outcome' = "failed"
  PROVE  epoch = 0
<1>1. epoch \in Nat /\ outcome = "running"
  BY LoopType DEF IInv, LoopOK, InEpoch, Batch, ForwardLayer, Loss
<1>2. CASE Batch
  <2>1. pc # "client" /\ (data = <<>> \/ (data # <<>> /\ Data!Batch(0, TRUE) /\ fault' # "none"))
    BY <1>1, <1>2 DEF Batch, Data!Batch
  <2>2. CASE data = <<>>
    BY <1>1, <2>2 DEF IInv, ShapesOK, PassedBatch
  <2>3. CASE data # <<>> /\ Data!Batch(0, TRUE) /\ fault' # "none"
    <3>1. fault' = "entry" /\ UNCHANGED data
      BY <2>3 DEF Data!Batch, Data!Gather
    <3>2. PICK e \in DOMAIN data, k \in 1..2 :
            data[e].tensors[k].elements < data[1].tensors[k].elements
      BY <2>3, OverrunsAreShort DEF IInv
    <3>3. \A a \in DOMAIN data : data[a].tensors[k].elements \in Nat
      <4>1. ASSUME NEW a \in DOMAIN data PROVE data[a].tensors[k] \in Data!Tensors
        <5>1. data[a] \in Entry
          BY DEF IInv, DataInv, DataOK
        <5> QED
          BY <5>1 DEF Entry
      <4> QED
        BY <4>1, TensorType
    <3>4. 1 \in DOMAIN data
      BY <2>3 DEF IInv, DataInv, DataOK
    <3>5. ~(data[1].tensors[k].elements <= data[e].tensors[k].elements)
      BY <3>2, <3>3, <3>4
    <3> QED
      BY <1>1, <3>5 DEF IInv, ShapesOK, PassedBatch
  <2> QED
    BY <2>1, <2>2, <2>3
<1>3. CASE ForwardLayer
  <2>1. pc = "forward" /\ batch.sized[1].dims # InFeatures
    BY <1>1, <1>3 DEF ForwardLayer
  <2>2. data[1].tensors[1].dims # InFeatures
    BY <2>1 DEF IInv, ShapesOK, InEpoch, WholeBatch
  <2> QED
    BY <1>1, <2>2 DEF IInv, ShapesOK, PassedForward
<1>4. CASE Loss
  <2>1. pc = "loss" /\ batch.sized[2].dims # OutFeatures
    BY <1>1, <1>4 DEF Loss, Trained
  <2>2. data[1].tensors[2].dims # OutFeatures
    BY <2>1 DEF IInv, ShapesOK, InEpoch, WholeBatch
  <2> QED
    BY <1>1, <2>2 DEF IInv, ShapesOK, PassedLoss
<1> QED
  BY <1>2, <1>3, <1>4

\* A step that completes no epoch and adds no entry is one of the outcome, or none.
LEMMA OutcomeStep ==
  ASSUME IInv, IInv', UNCHANGED <<data, epoch>>,
         \/ outcome' = outcome
         \/ outcome = "running" /\ outcome' = "done"
         \/ outcome = "running" /\ outcome' = "failed" /\ epoch = 0
  PROVE  [Ideal!Next]_(Ideal!vars)
<1>1. Shown = [l \in 1..Depth |-> History(epoch)]
  BY ShownHistory
<1>2. Shown' = [l \in 1..Depth |-> History(epoch)']
  <2>1. (IInv => Shown = [l \in 1..Depth |-> History(epoch)])'
    BY ShownHistory, PTL
  <2> QED
    BY <2>1
<1>3. Shown' = Shown
  <2>1. History(epoch)' = History(epoch)
    BY HistoryKept
  <2> QED
    BY <1>1, <1>2, <2>1
<1>4. {data[e].name : e \in DOMAIN data}' = {data[e].name : e \in DOMAIN data}
  OBVIOUS
<1>5. epoch = 0 => Ideal!Untrained
  BY <1>1, HistoryStart DEF Ideal!Untrained
<1> QED
  BY <1>3, <1>4, <1>5 DEF Ideal!Next, Ideal!Finish, Ideal!Fail, Ideal!vars

LEMMA CollectStep ==
  ASSUME IInv, IInv', UNCHANGED loop, pc = "client",
         NEW in \in Data!Tensors, NEW out \in Data!Tensors, Data!AddEntry(in, out)
  PROVE  Ideal!Collect
<1>1. outcome = "running" /\ epoch = 0 /\ UNCHANGED <<pc, layer, applied, outcome>>
  BY DEF IInv, LoopOK, loop, net
<1>2. Shown' = Shown
  BY <1>1 DEF Shown
<1>3. Ideal!Untrained
  BY <1>1, ShownHistory, HistoryStart DEF Ideal!Untrained
<1>4. \E e \in 1..MaxEntries :
        {data[i].name : i \in DOMAIN data}' = {data[i].name : i \in DOMAIN data} \cup {e}
  <2>1. /\ Len(data) \in Nat /\ Len(data') = Len(data) + 1 /\ Len(data) + 1 \in 1..MaxEntries
        /\ DOMAIN data = 1..Len(data) /\ DOMAIN data' = 1..Len(data')
    <3>1. data \in Seq(Entry) /\ data' \in Seq(Entry) /\ Len(data) < MaxEntries
      BY DEF IInv, DataInv, DataOK, Data!AddEntry
    <3>2. Len(data') = Len(data) + 1
      BY <3>1 DEF Data!AddEntry
    <3> QED
      BY <3>1, <3>2, LoopAssumption
  <2>2. {data[i].name : i \in DOMAIN data} = 1..Len(data)
    BY <2>1 DEF IInv, DataInv, DataOK
  <2>3. {data[i].name : i \in DOMAIN data}' = 1..(Len(data) + 1)
    BY <2>1 DEF IInv, DataInv, DataOK
  <2>4. 1..(Len(data) + 1) = (1..Len(data)) \cup {Len(data) + 1}
    BY <2>1
  <2> QED
    BY <2>1, <2>2, <2>3, <2>4
<1> QED
  BY <1>1, <1>2, <1>3, <1>4 DEF Ideal!Collect

\* The update of the last layer completes one step of gradient descent.
LEMMA DescendStep ==
  ASSUME IInv, IInv', UpdateLayer, layer = Depth
  PROVE  Ideal!Descend
<1>1. /\ pc = "update" /\ outcome = "running" /\ UNCHANGED <<data, outcome>>
      /\ epoch' = epoch + 1 /\ epoch \in Nat /\ epoch \in 0..(MaxEpochs - 1)
  BY LoopType DEF IInv, LoopOK, InEpoch, UpdateLayer, dataset
<1>2. Shown = [l \in 1..Depth |-> History(epoch)]
  BY ShownHistory
<1>3. Shown' = [l \in 1..Depth |-> History(epoch + 1)]
  <2>1. (IInv => Shown = [l \in 1..Depth |-> History(epoch)])'
    BY ShownHistory, PTL
  <2>2. Shown' = [l \in 1..Depth |-> History(epoch)']
    BY <2>1
  <2>3. History(epoch)' = History(epoch + 1)
    BY <1>1, HistoryKept
  <2> QED
    BY <2>2, <2>3
<1>4. \A l \in 1..Depth : Len(Shown[l]) = epoch
  BY <1>1, <1>2, HistoryEnds
<1>5. Shown' = [l \in 1..Depth |-> Append(Shown[l], Ideal!Gradient(epoch))]
  BY <1>1, <1>2, <1>3, HistoryEnds
<1>6. {data[e].name : e \in DOMAIN data}' = {data[e].name : e \in DOMAIN data}
  BY <1>1
<1> QED
  BY <1>1, <1>4, <1>5, <1>6 DEF Ideal!Descend

LEMMA IdealStep ==
  IInv /\ IInv' /\ [Next]_vars => [Ideal!Next]_(Ideal!vars)
<1> SUFFICES ASSUME IInv, IInv', [Next]_vars PROVE [Ideal!Next]_(Ideal!vars)
  OBVIOUS
<1>1. CASE Client
  <2>1. pc = "client" /\ UNCHANGED loop /\ UNCHANGED <<epoch, outcome>> /\ Data!Next
    BY <1>1 DEF Client, loop
  <2>2. ASSUME NEW in \in Data!Tensors, NEW out \in Data!Tensors, Data!AddEntry(in, out)
        PROVE  Ideal!Next
    BY <2>1, <2>2, CollectStep DEF Ideal!Next
  <2>3. CASE UNCHANGED data
    BY <2>1, <2>3, OutcomeStep
  <2> QED
    BY <2>1, <2>2, <2>3 DEF Data!Next, Data!Batch, Data!Random, Data!Use
<1>2. CASE Batch \/ ForwardLayer \/ Loss
  <2>1. UNCHANGED <<data, epoch>> /\ outcome = "running"
    BY <1>2 DEF Batch, ForwardLayer, Loss, dataset, Data!Batch, IInv, LoopOK, InEpoch
  <2>2. outcome' \in {"running", "done", "failed"}
    BY <1>2, <2>1 DEF Batch, ForwardLayer, Loss, Throw, Trained
  <2> QED
    BY <1>2, <2>1, <2>2, OnlyUntrainedFails, OutcomeStep
<1>3. CASE Start \/ LossBackward \/ BackwardLayer \/ Finish \/ UNCHANGED vars
  <2>1. UNCHANGED <<data, epoch, outcome>>
    BY <1>3 DEF Start, LossBackward, BackwardLayer, Finish, vars, dataset, loop
  <2> QED
    BY <2>1, OutcomeStep
<1>4. CASE EpochsOver
  <2>1. UNCHANGED <<data, epoch>> /\ outcome = "running" /\ outcome' = "done"
    BY <1>4 DEF EpochsOver, Trained, dataset, IInv, LoopOK, InEpoch
  <2> QED
    BY <2>1, OutcomeStep
<1>5. CASE Evaluate
  <2>1. UNCHANGED <<data, epoch, outcome>>
    BY <1>5 DEF Evaluate, Throw, dataset, IInv, LoopOK
  <2> QED
    BY <2>1, OutcomeStep
<1>6. CASE UpdateLayer
  <2>1. CASE layer = Depth
    BY <1>6, <2>1, DescendStep DEF Ideal!Next
  <2>2. CASE layer # Depth
    <3>1. UNCHANGED <<data, epoch, outcome>>
      BY <1>6, <2>2, LoopType DEF UpdateLayer, dataset, IInv
    <3> QED
      BY <3>1, OutcomeStep
  <2> QED
    BY <2>1, <2>2
<1> QED
  BY <1>1, <1>2, <1>3, <1>4, <1>5, <1>6 DEF Next, Step

\* Training is gradient descent, whatever the dataset, the sizes of its tensors and
\* the network: every epoch moves all layers by the gradient of the whole dataset
\* at the weights it started with, and training that throws has moved nothing
\* (network.cpp:34-52, optimizer.hpp:20-28, layer.hpp:24-79, dataset.hpp:30-77).
THEOREM Descends ==
  Spec => DescendsTheGradient
<1>1. Init => Ideal!Init
  BY DEF Init, Ideal!Init, Shown, Data!Init
<1> QED
  BY <1>1, Invariant, IdealStep, PTL DEF Spec, Ideal!Spec, DescendsTheGradient

=============================================================================
