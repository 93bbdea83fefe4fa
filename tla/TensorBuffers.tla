---------------------------- MODULE TensorBuffers --------------------------
(***************************************************************************)
(* The buffers and storages of tensor/buffer.c, as tensor/tensor.c uses     *)
(* them when no gradient is required.  A buffer is a view of a storage;      *)
(* several buffers may be views of one storage, which counts them.           *)
(*                                                                         *)
(* Buffers and storages are numbered as they are created, a new storage as   *)
(* the first buffer that views it.                                           *)
(*                                                                         *)
(* The temporaries of an operation (broadcast copies, a contiguous copy, the *)
(* intermediate results of a reduction) are created and destroyed within it, *)
(* and are not in the state.                                                 *)
(***************************************************************************)
EXTENDS Views, FiniteSets

CONSTANTS
  NewShapes,        (* shapes of the tensors a program creates             *)
  Targets,          (* shapes it expands or reshapes tensors to            *)
  SliceAgain,       (* whether a slice that does not begin at the start of *)
                    (*   its storage is sliced again                       *)
  NONE,             (* no file has been written                            *)
  MaxMade,          (* bound: buffers created                              *)
  MaxWrites         (* bound: operations that overwrite a buffer           *)

(* A size of -1 is to be inferred from the others, by which tensor_reshape   *)
(* divides without a check.                                                   *)
ASSUME ShapesAssumption ==
  /\ NewShapes \subseteq Seq(Int)
  /\ Targets \subseteq Seq(Int)
  /\ \A shape \in Targets : -1 \in Range(shape) => ArrayProduct(shape) < 0
ASSUME SliceAssumption == SliceAgain \in BOOLEAN
ASSUME BoundsAssumption == MaxMade \in Nat /\ MaxWrites \in Nat

VARIABLES
  buffers,          (* the live buffers, each with its view and storage    *)
  storages,         (* the allocated storages, each with its               *)
                    (*   reference_count and data                          *)
  file,             (* what buffer_save has written                        *)
  made,             (* the number of buffers created                       *)
  writes            (* the number of operations that overwrote a buffer    *)

vars == <<buffers, storages, file, made, writes>>

Init ==
  /\ buffers = <<>>
  /\ storages = <<>>
  /\ file = NONE
  /\ made = 0
  /\ writes = 0

ViewOf(b) == buffers[b].view
ShapeOf(b) == buffers[b].view.shape
StorageOf(b) == buffers[b].storage
DataOf(b) == storages[buffers[b].storage].data

-----------------------------------------------------------------------------
(* Creation and destruction *)

(* What malloc returns: nothing reads it before it is written. *)
Uninitialized == -1000

Empty(size) == [address \in 0..(size - 1) |-> Uninitialized]

New == made + 1

(* f with a value at the next number. *)
AddNew(f, x) == [n \in DOMAIN f \cup {New} |-> IF n = New THEN x ELSE f[n]]

Attach(view, s) ==
  /\ made' = New
  /\ buffers' = AddNew(buffers, [view |-> view, storage |-> s])

(* A mutant of buffer_create that does not count the new buffer. *)
ShareUncounted(x, view) ==
  /\ x \in DOMAIN buffers
  /\ Attach(view, StorageOf(x))
  /\ UNCHANGED <<storages, file, writes>>

(* buffer_create on the storage of x. *)
Share(x, view) ==
  /\ x \in DOMAIN buffers
  /\ Attach(view, StorageOf(x))
  /\ storages' = [storages EXCEPT ![StorageOf(x)].reference_count = @ + 1]
  /\ UNCHANGED <<file, writes>>

(* buffer_create on a new storage, after the operation has filled it. *)
Allocate(view, data) ==
  /\ Attach(view, New)
  /\ storages' = AddNew(storages, [reference_count |-> 1, data |-> data])
  /\ UNCHANGED <<file, writes>>

(* The program's own data, which COPY_OPERATION copies. *)
Given(size) == [address \in 0..(size - 1) |-> address + 1]

Create(shape) ==
  LET view == ViewCreateContiguous(shape)
  IN  /\ ViewCreateOK(shape)
      /\ Allocate(view, Given(ViewPhysicalSize(view)))

(* A mutant of storage_destroy that frees a storage one buffer too early. *)
LastReferenceEarly(s) == storages[s].reference_count <= 2

LastReference(s) == storages[s].reference_count < 2

(* buffer_destroy *)
Destroy(x) ==
  LET s == StorageOf(x)
  IN  /\ x \in DOMAIN buffers
      /\ buffers' = Restrict(buffers, DOMAIN buffers \ {x})
      /\ storages' = IF LastReference(s)
                     THEN Restrict(storages, DOMAIN storages \ {s})
                     ELSE [storages EXCEPT ![s].reference_count = @ - 1]
      /\ UNCHANGED <<file, made, writes>>

-----------------------------------------------------------------------------
(* Views of the same storage *)

As(x) == Share(x, ViewOf(x))

Expand(x, shape) ==
  /\ shape # ShapeOf(x)
  /\ IsExpandable(ShapeOf(x), shape)
  /\ ViewCreateOK(shape)
  /\ Share(x, ViewExpand(ViewOf(x), shape))

Permute(x, axes) ==
  /\ ViewPermuteOK(ViewOf(x), axes)
  /\ Share(x, ViewPermute(ViewOf(x), axes))

Slice(x, arguments) ==
  /\ SliceAgain \/ ViewOf(x).offset = 0
  /\ ViewSliceOK(ViewOf(x), arguments)
  /\ Share(x, ViewSlice(ViewOf(x), arguments))

-----------------------------------------------------------------------------
(* The loops of buffer.c over the elements of a view, which store a value    *)
(* for each.                                                                 *)

Coordinates(shape) == Range(LoopOrder(shape))

Kernel(data, view, value) ==
  LET order == LoopOrder(view.shape)
      stored[p \in 0..Len(order)] ==
        IF p = 0 THEN data
        ELSE [stored[p - 1] EXCEPT ![Address(view, order[p])] = value[order[p]]]
  IN  stored[Len(order)]

(* The same into a new storage. *)
Computed(view, value) == Kernel(Empty(ViewPhysicalSize(view)), view, value)

Element(b, index) == DataOf(b)[Address(ViewOf(b), index)]

Elements(b) == [index \in Coordinates(ShapeOf(b)) |-> Element(b, index)]

(* The element of b expanded to this shape. *)
Broadcast(b, shape, index) == DataOf(b)[Address(ViewExpand(ViewOf(b), shape), index)]

Contiguous(x) ==
  LET view == ViewCreateContiguous(ShapeOf(x))
  IN  /\ ~ViewIsContiguous(ViewOf(x))
      /\ Allocate(view, Computed(view, Elements(x)))

Negation(x) ==
  LET view == ViewCreateContiguous(ShapeOf(x))
  IN  Allocate(view, Computed(view, [index \in Coordinates(view.shape) |-> -Element(x, index)]))

(* A size of -1 stands for what is left of the elements. *)
ActualShape(shape, size) ==
  [n \in DOMAIN shape |-> IF shape[n] = -1 THEN size \div (-ArrayProduct(shape)) ELSE shape[n]]

(* tensor_reshape: its callers give it a shape with as many elements, which  *)
(* it does not check; a tensor that is not contiguous is copied first.       *)
Reshape(x, given) ==
  LET shape == ActualShape(given, ArrayProduct(ShapeOf(x)))
      row_major == ViewCreateContiguous(ShapeOf(x))
  IN  /\ ArrayProduct(shape) = ArrayProduct(ShapeOf(x))
      /\ shape # ShapeOf(x)
      /\ ViewCreateOK(shape)
      /\ \/ /\ ViewIsContiguous(ViewOf(x))
            /\ Share(x, View(ViewOf(x).offset, shape, StridesFromShape(shape)))
         \/ /\ ~ViewIsContiguous(ViewOf(x))
            /\ Allocate(ViewCreateContiguous(shape),
                        Computed(row_major, Elements(x)))

Addition(x, y) ==
  LET shape == ViewBroadcast(ShapeOf(x), ShapeOf(y))
      view == ViewCreateContiguous(shape)
      sums == [index \in Coordinates(shape) |-> Broadcast(x, shape, index) + Broadcast(y, shape, index)]
  IN  /\ ViewBroadcastOK(ShapeOf(x), ShapeOf(y))
      /\ Allocate(view, Computed(view, sums))

(* A tensor made contiguous: x itself if it is. *)
ContiguousCopy(x) ==
  LET view == ViewCreateContiguous(ShapeOf(x))
  IN  IF ViewIsContiguous(ViewOf(x))
      THEN [view |-> ViewOf(x), data |-> DataOf(x)]
      ELSE [view |-> view, data |-> Computed(view, Elements(x))]

(* An element of a matrix, whose rows the kernel takes to follow one         *)
(* another; the matrix is found by the strides of the dimensions before.      *)
MatrixElement(copy, view, index, row, column) ==
  copy.data[view.offset
            + SumFunction([n \in 1..(Rank(view) - 2) |-> index[n] * view.strides[n]])
            + row * SizeFromEnd(view.shape, 1) + column]

MatrixMultiplication(x, y) ==
  LET x_contiguous == ContiguousCopy(x)
      y_contiguous == ContiguousCopy(y)
      x_view == ViewExpand(x_contiguous.view, ViewBroadcastMatrixMultiplication(ShapeOf(x), ShapeOf(y)))
      y_view == ViewExpand(y_contiguous.view, ViewBroadcastMatrixMultiplication(ShapeOf(y), ShapeOf(x)))
      view == ViewMatrixMultiplication(x_view.shape, y_view.shape)
      sums == [index \in Coordinates(view.shape) |->
                 SumFunction([l \in 0..(SizeFromEnd(ShapeOf(x), 1) - 1) |->
                   MatrixElement(x_contiguous, x_view, index, index[Rank(view) - 1], l)
                   * MatrixElement(y_contiguous, y_view, index, l, index[Rank(view)])])]
  IN  /\ MatrixMultiplicationOK(ShapeOf(x), ShapeOf(y))
      /\ Allocate(view, Computed(view, sums))

Where(w, x, y) ==
  LET shape == ViewBroadcast(ViewBroadcast(ShapeOf(x), ShapeOf(y)), ShapeOf(w))
      view == ViewCreateContiguous(shape)
      chosen == [index \in Coordinates(shape) |->
                   IF Broadcast(w, shape, index) # 0
                   THEN Broadcast(x, shape, index)
                   ELSE Broadcast(y, shape, index)]
  IN  /\ ViewBroadcastOK(ShapeOf(x), ShapeOf(y))
      /\ ViewBroadcastOK(ViewBroadcast(ShapeOf(x), ShapeOf(y)), ShapeOf(w))
      /\ Allocate(view, Computed(view, chosen))

(* Every element has a place of its own in the storage. *)
ElementsDistinct(view) ==
  Cardinality({Address(view, LoopOrder(view.shape)[p]) : p \in DOMAIN LoopOrder(view.shape)})
    = ArrayProduct(view.shape)

(* The addition of y to z into the buffer of z.  Left out: a z whose elements *)
(* share places in the storage, to which the loops add more than once, and a  *)
(* y that changes on the way because it shares the storage.  What is left is  *)
(* added to each element once, as it was before the loops.                     *)
AddTo(z, y) ==
  LET sums == [index \in Coordinates(ShapeOf(z)) |-> Element(z, index) + Broadcast(y, ShapeOf(z), index)]
  IN  /\ writes < MaxWrites
      /\ StorageOf(y) # StorageOf(z)
      /\ ElementsDistinct(ViewOf(z))
      /\ IsExpandable(ShapeOf(y), ShapeOf(z))
      /\ writes' = writes + 1
      /\ storages' = [storages EXCEPT ![StorageOf(z)].data = Kernel(@, ViewOf(z), sums)]
      /\ UNCHANGED <<buffers, file, made>>

-----------------------------------------------------------------------------
(* Padding and reduction *)

Padding(x, arguments) ==
  LET view == ViewPadding(ViewOf(x), arguments)
      Inner(index) == [n \in DOMAIN arguments |-> index[n] - arguments[n][1]]
      Inside(index) == \A n \in DOMAIN arguments : Inner(index)[n] \in 0..(ShapeOf(x)[n] - 1)
      padded == [index \in Coordinates(view.shape) |->
                   IF Inside(index) THEN Element(x, Inner(index)) ELSE 0]
  IN  /\ Rank(ViewOf(x)) > 0
      /\ Len(arguments) = Rank(ViewOf(x))
      /\ Allocate(view, Computed(view, padded))

DescendingSort(axes) ==
  [n \in DOMAIN axes |-> CHOOSE a \in Range(axes) : Cardinality({b \in Range(axes) : b > a}) = n - 1]

(* runtime_reduction_dimension: the sums along one axis, stored as the view  *)
(* of the result says.                                                       *)
ReductionDimension(x, axis, keep_dimension, result) ==
  LET Along(index, n) == IF keep_dimension THEN [index EXCEPT ![axis + 1] = n]
                         ELSE InsertAt(index, axis + 1, n)
      sums == [index \in Coordinates(result.shape) |->
                 SumFunction([n \in 0..(x.view.shape[axis + 1] - 1) |->
                   x.data[Address(x.view, Along(index, n))]])]
  IN  [view |-> result, data |-> Computed(result, sums)]

(* buffer_reduction: one dimension after the other, the last into the        *)
(* result, which was made for all of them.                                    *)
ReductionInTurn(x, axes, keep_dimension, result) ==
  LET sorted_axis == DescendingSort(axes)
      buffer[n \in 0..Len(axes)] ==
        IF n = 0 THEN x
        ELSE ReductionDimension(buffer[n - 1], sorted_axis[n], keep_dimension,
               IF n = Len(axes) THEN result
               ELSE ViewReduce(buffer[n - 1].view, <<sorted_axis[n]>>, keep_dimension))
  IN  buffer[Len(axes)]

(* No axes stand for all of them. *)
ReduceAxes(axes, rank) ==
  IF axes = <<>> THEN [n \in 1..rank |-> n - 1]
  ELSE [n \in DOMAIN axes |-> DimensionToIndex(axes[n], rank)]

Summation(x, given, keep_dimension) ==
  LET axes == ReduceAxes(given, Rank(ViewOf(x)))
      result == ViewReduce(ViewOf(x), axes, keep_dimension)
      reduced == ReductionInTurn([view |-> ViewOf(x), data |-> DataOf(x)], axes, keep_dimension, result)
  IN  /\ ViewReduceOK(ViewOf(x), axes)
      /\ result.shape # ShapeOf(x)
      /\ Allocate(result, reduced.data)

-----------------------------------------------------------------------------
(* Files *)

(* fwrite of no elements reports that it has written none, which view_save   *)
(* takes for an error: a scalar cannot be saved.                              *)
Save(x) ==
  /\ file' = IF Rank(ViewOf(x)) = 0 THEN NONE ELSE [view |-> ViewOf(x), data |-> DataOf(x)]
  /\ UNCHANGED <<buffers, storages, made, writes>>

Load ==
  /\ file # NONE
  /\ Allocate(file.view, file.data)

-----------------------------------------------------------------------------
(* The program: any operation on the buffers it holds.  When MaxMade buffers *)
(* were created, it only overwrites and destroys.                             *)

(* Axes without repetition, in any order. *)
AxesOf == [rank \in 0..MAX_RANK |-> UNION {Injection(1..n, 0..(rank - 1)) : n \in 0..rank}]

(* All of a dimension, or all but its first or its last element. *)
SliceArguments(shape) ==
  {[n \in DOMAIN shape |-> <<cut[n][1], shape[n] - cut[n][2]>>] :
     cut \in [DOMAIN shape -> {<<0, 0>>, <<0, 1>>, <<1, 0>>}]}

(* One element more, before or after the others, as in tensor_concatenation. *)
PaddingArguments(rank) ==
  {[n \in 1..rank |-> IF n = d THEN pair ELSE <<0, 0>>] : d \in 1..rank, pair \in {<<0, 1>>, <<1, 0>>}}

Next ==
  \/ \E x \in DOMAIN buffers :
        \/ Destroy(x)
        \/ \E y \in DOMAIN buffers : AddTo(x, y)
  \/ /\ made < MaxMade
     /\ \/ Load
        \/ \E shape \in NewShapes : Create(shape)
        \/ \E x \in DOMAIN buffers :
              \/ Save(x)
              \/ As(x)
              \/ Contiguous(x)
              \/ Negation(x)
              \/ \E shape \in Targets : Expand(x, shape) \/ Reshape(x, shape)
              \/ \E arguments \in SliceArguments(ShapeOf(x)) : Slice(x, arguments)
              \/ \E arguments \in PaddingArguments(Rank(ViewOf(x))) : Padding(x, arguments)
              \/ \E axes \in AxesOf[Rank(ViewOf(x))] :
                    Permute(x, axes) \/ \E keep \in BOOLEAN : Summation(x, axes, keep)
        \/ \E x, y \in DOMAIN buffers :
              \/ Addition(x, y)
              \/ MatrixMultiplication(x, y)
              \/ \E w \in DOMAIN buffers : Where(w, x, y)

Spec == Init /\ [][Next]_vars

-----------------------------------------------------------------------------
(* Properties *)

(* A live buffer has a storage, and its view a stride for every dimension,   *)
(* of which the arrays of the code can hold MAX_RANK.                        *)
(* (buffer_create, view_create)                                              *)
TypeOK ==
  /\ made \in Nat
  /\ DOMAIN buffers \subseteq 1..made
  /\ DOMAIN storages \subseteq 1..made
  /\ \A b \in DOMAIN buffers : StorageOf(b) \in DOMAIN storages /\ IsView(ViewOf(b))
  /\ \A s \in DOMAIN storages : storages[s].reference_count \in Nat

Holders(s) == {b \in DOMAIN buffers : StorageOf(b) = s}

(* A storage is allocated as long as buffers hold it, and counts them: it is *)
(* neither freed under one of them nor left behind when they are destroyed.  *)
(* (storage_destroy, buffer_create, storage_load)                            *)
CountsMatch ==
  /\ \A b \in DOMAIN buffers : StorageOf(b) \in DOMAIN storages
  /\ \A s \in DOMAIN storages :
        /\ storages[s].reference_count = Cardinality(Holders(s))
        /\ storages[s].reference_count > 0

(* No element of a live buffer is outside its storage; as no stride is       *)
(* negative, it is enough to look at the last one. (the loops of buffer.c,   *)
(* view_physical_size)                                                        *)
InBounds ==
  \A b \in DOMAIN buffers :
    Address(ViewOf(b), [n \in DOMAIN ShapeOf(b) |-> ShapeOf(b)[n] - 1]) \in DOMAIN DataOf(b)
=============================================================================
