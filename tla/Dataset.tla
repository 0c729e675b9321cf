------------------------------ MODULE Dataset ------------------------------
(***************************************************************************)
(* nn::Dataset (dataset.hpp): entries whose tensors may differ in size,    *)
(* batches of them, and the reference random or an iterator hands out.     *)
(* The i-th entry added is named i; a cell <<e, j>> stands for element j   *)
(* of a tensor of entry e.  The first and the second tensor of an entry    *)
(* are its input and its true output.                                      *)
(***************************************************************************)
EXTENDS Integers, Sequences, FiniteSets

CONSTANTS
  Dims,       \* products of the dimensions of the client's tensors
  Asked,      \* sizes of the batches the client asks for
  MaxEntries  \* bound on the number of entries

\* dims: the product of get_shape().  elements: dsize(); a default-constructed
\* tensor has none.
Tensors == {[dims |-> d, elements |-> d] : d \in Dims} \cup {[dims |-> 1, elements |-> 0]}

VARIABLES
  data,      \* Dataset::data
  capacity,  \* of the vector
  batch,     \* the latest batch: its tensors, and what it was taken of
  held,      \* the latest reference handed out
  fault      \* "none", or what was read outside a vector

vars == <<data, capacity, batch, held, fault>>

Zero == <<0, 0>>
NoBatch == [asked |-> 0, of |-> 0, rows |-> 0, sized |-> <<>>, cells |-> <<>>]
NotHeld == [at |-> 0, name |-> 0, of |-> 0, dangling |-> FALSE]

Init ==
  /\ data = <<>>
  /\ capacity = 0
  /\ batch = NoBatch
  /\ held = NotHeld
  /\ fault = "none"

-----------------------------------------------------------------------------
\* push_back: the entries move when the vector is full.  How much it grows is
\* the library's choice.
AddEntry(in, out) ==
  /\ fault = "none" /\ Len(data) < MaxEntries
  /\ data' = Append(data, [name |-> Len(data) + 1, tensors |-> <<in, out>>])
  /\ IF Len(data) < capacity THEN UNCHANGED <<capacity, held>>
     ELSE /\ capacity' \in (Len(data) + 1)..MaxEntries
          /\ held' = [held EXCEPT !.dangling = held # NotHeld]
  /\ UNCHANGED <<batch, fault>>

\* Asking for nothing, or for too much, gives everything.
Rows(n) == IF n = 0 \/ n > Len(data) THEN Len(data) ELSE n

InOrder == [i \in 1..Len(data) |-> i]
Orders(shuffle) ==
  IF ~shuffle THEN {InOrder}
  ELSE {p \in [1..Len(data) -> 1..Len(data)] : \A i, j \in 1..Len(data) : i # j => p[i] # p[j]}

\* The sizes by which the loops go, of the first entry.
SizedBy(k) == data[1].tensors[k]

Overruns(rows, order) ==
  \E i \in 1..rows, k \in 1..2 : data[order[i]].tensors[k].elements < SizedBy(k).elements

\* Flat index of the batched tensor to cell; rows of the wrong length.
CellsMisplaced(k, rows, order) ==
  [p \in 0..(rows * SizedBy(k).dims - 1) |->
     IF p >= rows * SizedBy(k).elements THEN Zero
     ELSE <<data[order[(p % rows) + 1]].name, p \div rows>>]

\* Flat index of the batched tensor to cell.
Cells(k, rows, order) ==
  [p \in 0..(rows * SizedBy(k).dims - 1) |->
     IF p >= rows * SizedBy(k).elements THEN Zero
     ELSE <<data[order[(p \div SizedBy(k).elements) + 1]].name, p % SizedBy(k).elements>>]

Gather(n, order) ==
  IF Overruns(Rows(n), order) THEN fault' = "entry" /\ UNCHANGED batch
  ELSE /\ batch' = [asked |-> n, of |-> Len(data), rows |-> Rows(n),
                    sized |-> [k \in 1..2 |-> data[1].tensors[k]],
                    cells |-> [k \in 1..2 |-> Cells(k, Rows(n), order)]]
       /\ UNCHANGED fault

\* A batch that shuffles the entries themselves.
BatchInPlace(n, shuffle) ==
  /\ fault = "none" /\ data # <<>>
  /\ \E order \in Orders(shuffle) :
       data' = [i \in DOMAIN data |-> data[order[i]]] /\ Gather(n, order)
  /\ UNCHANGED <<capacity, held>>

\* batch; it throws on an empty dataset.
Batch(n, shuffle) ==
  /\ fault = "none" /\ data # <<>>
  /\ \E order \in Orders(shuffle) : Gather(n, order)
  /\ UNCHANGED <<data, capacity, held>>

\* random; the upper end of its range wraps for an empty dataset.
Random ==
  /\ fault = "none"
  /\ IF data = <<>> THEN fault' = "random" /\ UNCHANGED held
     ELSE /\ \E i \in DOMAIN data :
               held' = [at |-> i, name |-> data[i].name, of |-> Len(data), dangling |-> FALSE]
          /\ UNCHANGED fault
  /\ UNCHANGED <<data, capacity, batch>>

\* The client reads the entry it holds a reference to.
Use ==
  /\ fault = "none" /\ held # NotHeld
  /\ held.dangling /\ fault' = "reference"
  /\ UNCHANGED <<data, capacity, batch, held>>

Next ==
  \/ \E in, out \in Tensors : AddEntry(in, out)
  \/ \E n \in Asked, shuffle \in BOOLEAN : Batch(n, shuffle)
  \/ Random \/ Use

Spec == Init /\ [][Next]_vars

-----------------------------------------------------------------------------
\* Element j of row i of a batched tensor, whose rows are as long as the first
\* entry's dimensions say.
Cell(k, i, j) == batch.cells[k][(i - 1) * batch.sized[k].dims + j]

\* Row i of a batch is the input of one entry beside the true output of the same
\* entry, as far as the first entry's tensors go, and no entry is in two rows;
\* a batch of none, or of more than there are, has them all (dataset.hpp:30-76).
BatchHoldsEntries ==
  batch # NoBatch =>
    /\ batch.rows = IF batch.asked \in 1..batch.of THEN batch.asked ELSE batch.of
    /\ \E entry \in [1..batch.rows -> 1..batch.of] :
         /\ \A i, j \in 1..batch.rows : i # j => entry[i] # entry[j]
         /\ \A k \in 1..2, i \in 1..batch.rows : \A j \in 0..(batch.sized[k].dims - 1) :
              Cell(k, i, j) = IF j < batch.sized[k].elements THEN <<entry[i], j>> ELSE Zero

\* The reference random returned refers to the entry that was drawn, through
\* all batches, at least until an entry is added (dataset.hpp:79-88).
ReferenceKeepsItsEntry ==
  held # NotHeld =>
    \/ ~held.dangling /\ data[held.at].name = held.name
    \/ Len(data) > held.of
=============================================================================
