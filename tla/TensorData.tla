----------------------------- MODULE TensorData -----------------------------
(***************************************************************************)
(* nn::math::Tensor with its elements (tensor.hpp): constructors, fill,    *)
(* create, reshape, transpose, element-wise operations and operator(), in  *)
(* any order on a few tensors.  Dimensions may be 0.  Elements are 0 or 1; *)
(* an element-wise function is negation, a sum of tensors is taken mod 2.  *)
(***************************************************************************)
EXTENDS TensorShape, FiniteSets

CONSTANTS
  Tensors,   \* the variables of the client
  Shapes,    \* shapes the client asks for
  Vectors,   \* vectors the client fills from
  Matrices   \* vectors of rows the client fills from

ASSUME DataAssumption ==
  /\ Shapes \subseteq Seq(Nat)
  /\ Vectors \subseteq Seq({0, 1})
  /\ Matrices \subseteq Seq(Seq({0, 1}))

\* One row of nothing, for calls that are given no rows.
NoRows == << <<>> >>

VARIABLES
  t,         \* shape, strides and data of each tensor
  meaning,   \* history: the value each tensor has at each index
  fault      \* history: a call looked outside a vector; the tensors and the rows it used

vars == <<t, meaning, fault>>

\* The indices operator() accepts: one coordinate for each dimension, within it.
Indices(s) ==
  {idx \in [1..Len(s) -> UNION {0..(s[i] - 1) : i \in 1..Len(s)}] :
     \A i \in 1..Len(s) : idx[i] < s[i]}

\* Tensor(shape), Tensor().
New(s) == [shape |-> s, strides |-> Strides(s), data |-> [i \in 1..DataSize(s) |-> 0]]
Empty == [shape |-> <<>>, strides |-> <<>>, data |-> <<>>]

\* operator(): where it looks after its checks; positions start at 1.
Position(x, idx) == 1 + FoldLeft(+, 0, [i \in 1..Len(idx) |-> idx[i] * x.strides[i]])
At(x, idx) == x.data[Position(x, idx)]

\* A default-constructed tensor has no element, though the product of its
\* dimensions is 1.
Hollow(x) == Len(x.data) # DataSize(x.shape)

-----------------------------------------------------------------------------
Init ==
  /\ t = [x \in Tensors |-> Empty]
  /\ meaning = [x \in Tensors |-> <<>>]
  /\ fault = [seen |-> FALSE, used |-> {}, rows |-> NoRows]

Assign(x, new, value) ==
  /\ ~fault.seen
  /\ t' = [t EXCEPT ![x] = new]
  /\ meaning' = [meaning EXCEPT ![x] =
       IF Hollow(new) THEN <<>> ELSE [idx \in Indices(new.shape) |-> value[idx]]]
  /\ UNCHANGED fault

OutOfRange(used, rows) ==
  /\ ~fault.seen
  /\ fault' = [seen |-> TRUE, used |-> used, rows |-> rows]
  /\ UNCHANGED <<t, meaning>>

Construct(x, s) == Assign(x, New(s), [idx \in Indices(s) |-> 0])
Default(x) == Assign(x, Empty, [idx \in Indices(<<>>) |-> 0])

FillAll(x, v) ==
  Assign(x, [t[x] EXCEPT !.data = [i \in DOMAIN @ |-> v]], [idx \in Indices(t[x].shape) |-> v])

\* The number of indices before idx in row-major order.
Order(s, idx) ==
  Cardinality({j \in Indices(s) :
    \E i \in 1..Len(s) : j[i] < idx[i] /\ \A k \in 1..(i - 1) : j[k] = idx[k]})

\* fill from a vector takes tensors of one dimension, or two with a 1 among
\* them; of a tensor without dimensions it reads shape[0].
TakesVector(s) == Len(s) = 1 \/ (Len(s) = 2 /\ (s[1] = 1 \/ s[2] = 1))

FilledBy(x, d) ==
  Assign(x, [t[x] EXCEPT !.data = d], [idx \in Indices(t[x].shape) |-> d[1 + Order(t[x].shape, idx)]])

\* fill that takes a vector of any length.
FillsAnyLength(x, d) ==
  \/ t[x].shape = <<>> /\ OutOfRange({x}, NoRows)
  \/ TakesVector(t[x].shape) /\ FilledBy(x, d)

Fill1(x, d) ==
  \/ t[x].shape = <<>> /\ OutOfRange({x}, NoRows)
  \/ TakesVector(t[x].shape) /\ Len(d) = Len(t[x].data) /\ FilledBy(x, d)

Create1(x, d) ==
  Assign(x, [New(<<Len(d)>>) EXCEPT !.data = d], [idx \in Indices(<<Len(d)>>) |-> d[idx[1] + 1]])

\* Storing through operator() what rows gives for each (c, r).
Stored(x, d) ==
  [x EXCEPT !.data = [n \in DOMAIN @ |->
     LET at == {idx \in Indices(x.shape) : Position(x, idx) = n}
     IN  IF at = {} THEN @[n] ELSE LET idx == CHOOSE i \in at : TRUE IN d[idx[2] + 1][idx[1] + 1]]]

\* fill that looks at no row.
CountsRows(s, d) == Len(s) = 2 /\ Len(d) = s[2] /\ d # <<>>

\* The second dimension counts rows.  Only the first row's length is compared.
AcceptsRows(s, d) == Len(s) = 2 /\ Len(d) = s[2] /\ d # <<>> /\ Len(d[1]) = s[1]
RowsLongEnough(s, d) == \A r \in DOMAIN d : Len(d[r]) >= s[1]

\* `new' is filled, tensor variables `used' have been read, and x is assigned.
FillRows(x, new, used, d) ==
  /\ AcceptsRows(new.shape, d)
  /\ \/ (Hollow(new) \/ ~RowsLongEnough(new.shape, d)) /\ OutOfRange(used, d)
     \/ /\ ~Hollow(new) /\ RowsLongEnough(new.shape, d)
        /\ Assign(x, Stored(new, d), [idx \in Indices(new.shape) |-> d[idx[2] + 1][idx[1] + 1]])

\* Without rows d[0] does not exist.
Fill2(x, d) ==
  \/ Len(t[x].shape) = 2 /\ d = <<>> /\ t[x].shape[2] = 0 /\ OutOfRange({x}, d)
  \/ FillRows(x, t[x], {x}, d)

Create2(x, d) ==
  \/ d = <<>> /\ OutOfRange({}, d)
  \/ d # <<>> /\ FillRows(x, New(<<Len(d[1]), Len(d)>>), {}, d)

Reshaped(x, s) == [shape |-> s, strides |-> Strides(s), data |-> x.data]

Reshape(x, s) ==
  /\ CanReshape(t[x].shape, s)
  /\ Assign(x, Reshaped(t[x], s),
       [idx \in Indices(s) |->
          LET old == {j \in DOMAIN meaning[x] : Order(t[x].shape, j) = Order(s, idx)}
          IN  IF old = {} THEN 0 ELSE meaning[x][CHOOSE j \in old : TRUE]])

\* transpose that copies the elements in the order they lie in.
CopiedAcross(x) == [New(Transposed(x.shape)) EXCEPT !.data = x.data]

TransposedData(x) ==
  LET out == New(Transposed(x.shape))
  IN  [out EXCEPT !.data = [n \in DOMAIN @ |->
         At(x, CHOOSE idx \in Indices(x.shape) : Position(out, <<idx[2], idx[1]>>) = n)]]

Transpose(x) ==
  /\ CanTranspose(t[x].shape)
  /\ \/ Hollow(t[x]) /\ OutOfRange({x}, NoRows)
     \/ ~Hollow(t[x]) /\ Assign(x, TransposedData(t[x]),
          [idx \in Indices(Transposed(t[x].shape)) |-> meaning[x][<<idx[2], idx[1]>>]])

\* apply, apply_idx and the operators with a scalar: x = f(y).  The result has
\* as many elements as its shape says.
Mapped(y) ==
  [New(y.shape) EXCEPT !.data = [i \in DOMAIN @ |-> IF i \in DOMAIN y.data THEN 1 - y.data[i] ELSE 0]]

Apply(x, y) ==
  Assign(x, Mapped(t[y]), [idx \in Indices(t[y].shape) |-> IF Hollow(t[y]) THEN 0 ELSE 1 - meaning[y][idx]])

\* The operators with a tensor, x = x + y, compare shapes only.
Combine(x, y) ==
  /\ t[x].shape = t[y].shape
  /\ \/ Len(t[x].data) > Len(t[y].data) /\ OutOfRange({x, y}, NoRows)
     \/ /\ Len(t[x].data) <= Len(t[y].data)
        /\ Assign(x, [New(t[x].shape) EXCEPT !.data =
                        [i \in DOMAIN @ |-> IF i \in DOMAIN t[x].data
                                            THEN (t[x].data[i] + t[y].data[i]) % 2 ELSE 0]],
             [idx \in Indices(t[x].shape) |->
                IF Hollow(t[x]) THEN 0 ELSE (meaning[x][idx] + meaning[y][idx]) % 2])

\* t(idx) = v.
Set(x, idx, v) ==
  \/ Hollow(t[x]) /\ OutOfRange({x}, NoRows)
  \/ /\ ~Hollow(t[x])
     /\ Assign(x, [t[x] EXCEPT !.data[Position(t[x], idx)] = v], [meaning[x] EXCEPT ![idx] = v])

\* to_string reads the elements of vectors and matrices.
Printed(x) == Hollow(t[x]) /\ Len(t[x].shape) \in 1..2 /\ OutOfRange({x}, NoRows)

Next ==
  \E x \in Tensors :
    \/ \E s \in Shapes : Construct(x, s) \/ Reshape(x, s)
    \/ \E v \in {0, 1} : FillAll(x, v) \/ \E idx \in Indices(t[x].shape) : Set(x, idx, v)
    \/ \E d \in Vectors : Fill1(x, d) \/ Create1(x, d)
    \/ \E d \in Matrices : Fill2(x, d) \/ Create2(x, d)
    \/ \E y \in Tensors : Apply(x, y) \/ Combine(x, y)
    \/ Default(x) \/ Transpose(x) \/ Printed(x)

Spec == Init /\ [][Next]_vars

-----------------------------------------------------------------------------
\* The number of elements is the product of the dimensions, except that a tensor
\* that was default-constructed, and perhaps reshaped to ones, has none.
TypeOK ==
  \A x \in Tensors :
    /\ t[x].data \in Seq({0, 1})
    /\ Hollow(t[x]) => t[x].data = <<>> /\ DataSize(t[x].shape) = 1

\* Through all fills, reshapes and transposes, operator() finds at every index
\* it accepts what was stored for that index (tensor.hpp:19-28, 44-56, 191-200).
ReadsWhatWasStored ==
  \A x \in Tensors : ~Hollow(t[x]) =>
    \A idx \in Indices(t[x].shape) :
      Position(t[x], idx) \in DOMAIN t[x].data /\ At(t[x], idx) = meaning[x][idx]

\* A call looks outside a vector only if a tensor it uses was default-constructed
\* (or computed from such a one, or has no dimensions), or if the vector of rows it
\* is given is empty, where d[0] is read, or has a row shorter than its first: all
\* other mistakes of the client are noticed (tensor.hpp:61-103, 170-200, 320-348).
OutOfRangeOnlyByHollowOrRagged ==
  [][fault'.seen =>
       \/ \E x \in fault'.used : Hollow(t[x]) \/ t[x].shape = <<>>
       \/ fault'.rows = <<>>
       \/ \E r \in DOMAIN fault'.rows : Len(fault'.rows[r]) < Len(fault'.rows[1])]_vars
=============================================================================
