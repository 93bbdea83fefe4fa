------------------------------- MODULE Views -------------------------------
(***************************************************************************)
(* The views of tensor/view.c: where the elements of a tensor are in its    *)
(* storage.  A view is an offset, a shape and strides.  Dimensions are       *)
(* numbered from 1 here; an axis, as in the code, from 0, or from -1 down.   *)
(* An operator named ...OK says when the function reports no error.          *)
(***************************************************************************)
EXTENDS Integers, Sequences, FiniteSets, SequencesExt, Functions

View(offset, shape, strides) == [offset |-> offset, shape |-> shape, strides |-> strides]

Rank(v) == Len(v.shape)

(* The product of f over the indices in S. *)
ProductOf(f, S) == FoldFunctionOnSet(LAMBDA x, product : x * product, 1, f, S)

ArrayProduct(array) == ProductOf(array, DOMAIN array)

(* The elements of an array after the n-th, multiplied. *)
TailProduct(array, n) == ProductOf(array, (n + 1)..Len(array))

(* Row-major, and 0 where there is only one coordinate. *)
StridesFromShape(shape) ==
  [n \in DOMAIN shape |->
     IF shape[n] = 1 THEN 0 ELSE TailProduct(shape, n)]

MAX_RANK == 5

(* The views of the code: no stride is negative. *)
IsView(view) ==
  /\ view.offset \in Nat
  /\ view.shape \in Seq(Nat \ {0})
  /\ view.strides \in Seq(Nat)
  /\ Len(view.strides) = Len(view.shape)
  /\ Len(view.shape) <= MAX_RANK

ViewCreateOK(shape) == Len(shape) <= MAX_RANK /\ \A n \in DOMAIN shape : shape[n] > 0

ViewCreateContiguous(shape) == View(0, shape, StridesFromShape(shape))

-----------------------------------------------------------------------------
(* Addresses *)

(* The coordinates, from 0 on, that nested loops over the dimensions reach  *)
(* after p turns.                                                           *)
LoopIndex(shape, p) ==
  [n \in DOMAIN shape |-> (p \div TailProduct(shape, n)) % shape[n]]

LoopOrder(shape) == [p \in 1..ArrayProduct(shape) |-> LoopIndex(shape, p - 1)]

(* The offset the loops of buffer.c add up for an element. *)
Address(v, index) == v.offset + SumFunction([n \in 1..Rank(v) |-> index[n] * v.strides[n]])

ViewPhysicalSize(v) == ProductOf(v.shape, {n \in DOMAIN v.shape : v.strides[n] # 0})

(* A mutant of view_is_contiguous that does not look at the order of the   *)
(* elements.                                                                *)
ViewIsContiguousDense(v) == v.offset = 0 /\ ViewPhysicalSize(v) = ArrayProduct(v.shape)

ViewIsContiguous(v) ==
  /\ v.offset = 0
  /\ \A n \in DOMAIN v.shape : v.strides[n] = StridesFromShape(v.shape)[n] \/ v.shape[n] = 1

-----------------------------------------------------------------------------
(* Permutation and reduction *)

DimensionToIndex(axis, rank) == IF axis < 0 THEN rank + axis ELSE axis

Dimension(axis, rank) == DimensionToIndex(axis, rank) + 1

AxisInRange(axes, rank) == \A n \in DOMAIN axes : DimensionToIndex(axes[n], rank) \in 0..(rank - 1)

ViewPermuteOK(v, axes) ==
  /\ IsInjective(axes)
  /\ Len(axes) = Rank(v)
  /\ AxisInRange(axes, Rank(v))

ViewPermute(v, axes) ==
  LET From(array) == [n \in DOMAIN axes |-> array[Dimension(axes[n], Rank(v))]]
  IN  View(v.offset, From(v.shape), From(v.strides))

ViewReduceOK(v, axes) ==
  /\ IsInjective(axes)
  /\ Len(axes) <= Rank(v)
  /\ AxisInRange(axes, Rank(v))

Reduced(v, axes) == {Dimension(axes[n], Rank(v)) : n \in DOMAIN axes}

(* A mutant of view_reduce whose strides count the repeated elements, which *)
(* are not stored.                                                          *)
ReducedStrideLogical(v, axes, n) ==
  IF v.strides[n] = 0 \/ n \in Reduced(v, axes) THEN 0
  ELSE ProductOf(v.shape, ((n + 1)..Rank(v)) \ Reduced(v, axes))

(* A repeated dimension, whose stride is 0, stays repeated: the elements    *)
(* along it are stored once, and the strides count only those stored.       *)
ReducedStride(v, axes, n) ==
  LET stored == {m \in DOMAIN v.shape : v.strides[m] # 0} \ Reduced(v, axes)
  IN  IF n \notin stored THEN 0 ELSE ProductOf(v.shape, {m \in stored : m > n})

(* The dimensions from 1 to rank that are in S, in order. *)
Ordered(S, rank) ==
  LET first[n \in 0..rank] ==
        IF n = 0 THEN <<>> ELSE IF n \in S THEN Append(first[n - 1], n) ELSE first[n - 1]
  IN  first[rank]

ViewReduce(v, axes, keep_dimensions) ==
  LET kept == Ordered(IF keep_dimensions THEN 1..Rank(v) ELSE (1..Rank(v)) \ Reduced(v, axes), Rank(v))
  IN  View(0,
           [k \in DOMAIN kept |-> IF kept[k] \in Reduced(v, axes) THEN 1 ELSE v.shape[kept[k]]],
           [k \in DOMAIN kept |-> ReducedStride(v, axes, kept[k])])

-----------------------------------------------------------------------------
(* Expansion and broadcasting; shapes are aligned at their last dimensions *)

(* The size of the n-th last dimension, of size 1 if there is none. *)
SizeFromEnd(shape, n) == IF n > Len(shape) THEN 1 ELSE shape[Len(shape) - n + 1]

IsExpandable(original, expanded) ==
  /\ Len(expanded) >= Len(original)
  /\ \A n \in 1..Len(original) : SizeFromEnd(original, n) \in {1, SizeFromEnd(expanded, n)}

ViewExpand(v, shape) ==
  LET added == Len(shape) - Rank(v)
  IN  View(v.offset, shape,
           [n \in DOMAIN shape |->
              IF n <= added THEN 0 ELSE IF v.shape[n - added] = 1 THEN 0 ELSE v.strides[n - added]])

Longer(a, b) == IF Len(a) > Len(b) THEN Len(a) ELSE Len(b)

ViewBroadcastOK(shape_a, shape_b) ==
  \A n \in 1..Longer(shape_a, shape_b) :
     \/ 1 \in {SizeFromEnd(shape_a, n), SizeFromEnd(shape_b, n)}
     \/ SizeFromEnd(shape_a, n) = SizeFromEnd(shape_b, n)

(* The dimensions that only the longer one has, and those that both have. *)
ViewBroadcast(shape_a, shape_b) ==
  LET long == IF Len(shape_a) > Len(shape_b) THEN shape_a ELSE shape_b
      short == IF Len(shape_a) > Len(shape_b) THEN shape_b ELSE shape_a
      added == Len(long) - Len(short)
  IN  SubSeq(long, 1, added)
      \o [n \in DOMAIN short |-> IF short[n] = 1 THEN long[n + added] ELSE short[n]]

(* A shape without its last two dimensions, and those two. *)
BatchDimensions(shape) == SubSeq(shape, 1, Len(shape) - 2)
MatrixDimensions(shape) == SubSeq(shape, Len(shape) - 1, Len(shape))

MatrixMultiplicationOK(shape_a, shape_b) ==
  /\ Len(shape_a) >= 2
  /\ Len(shape_b) >= 2
  /\ ViewBroadcastOK(BatchDimensions(shape_a), BatchDimensions(shape_b))
  /\ SizeFromEnd(shape_a, 1) = SizeFromEnd(shape_b, 2)

(* The shape to which an operand is expanded. *)
ViewBroadcastMatrixMultiplication(shape, other) ==
  ViewBroadcast(BatchDimensions(shape), BatchDimensions(other)) \o MatrixDimensions(shape)

ViewMatrixMultiplication(shape_a, shape_b) ==
  ViewCreateContiguous(BatchDimensions(shape_a) \o <<SizeFromEnd(shape_a, 2), SizeFromEnd(shape_b, 1)>>)

-----------------------------------------------------------------------------
(* Slices and padding; the arguments are a pair for every dimension *)

ViewSliceOK(v, arguments) ==
  /\ Len(arguments) = Rank(v)
  /\ \A n \in DOMAIN arguments :
        /\ 0 <= arguments[n][1]
        /\ arguments[n][1] < arguments[n][2]
        /\ arguments[n][2] <= v.shape[n]

(* The offset of v itself is not part of the result. *)
ViewSlice(v, arguments) ==
  View(SumFunction([n \in DOMAIN arguments |-> arguments[n][1] * v.strides[n]]),
       [n \in DOMAIN arguments |-> arguments[n][2] - arguments[n][1]],
       v.strides)

ViewPadding(v, arguments) ==
  ViewCreateContiguous([n \in DOMAIN arguments |-> arguments[n][1] + v.shape[n] + arguments[n][2]])
-----------------------------------------------------------------------------
(* What the backward functions compute with *)

(* The shape with dimensions of size one where axes were reduced. *)
ViewRecoverDimensionsOK(shape, axes) == AxisInRange(axes, Len(shape) + Len(axes))

ViewRecoverDimensions(shape, axes) ==
  LET rank == Len(shape) + Len(axes)
      Recovered(n) == \E m \in DOMAIN axes : Dimension(axes[m], rank) = n
      Before(n) == Cardinality({m \in 1..n : ~Recovered(m)})
  IN  [n \in 1..rank |-> IF Recovered(n) THEN 1 ELSE shape[Before(n)]]

(* A mutant of view_reduce_axis that also reduces what was not expanded. *)
ReduceAxisKeepAll(original, broadcasted) ==
  SelectSeq([j \in DOMAIN broadcasted |-> Len(broadcasted) - j],
            LAMBDA axis : axis >= Len(broadcasted) - Len(original))

(* view_reduce_axis: the axes along which an expanded tensor repeats, those   *)
(* of size one in the original, and those it did not have.                    *)
ReduceAxisKeep(original, broadcasted) ==
  SelectSeq([j \in DOMAIN broadcasted |-> Len(broadcasted) - j],
            LAMBDA axis : LET n == Len(broadcasted) - axis
                          IN  n <= Len(original) /\ SizeFromEnd(original, n) # SizeFromEnd(broadcasted, n))

ReduceAxisRemove(original, broadcasted) ==
  SelectSeq([j \in DOMAIN broadcasted |-> Len(broadcasted) - j],
            LAMBDA axis : axis < Len(broadcasted) - Len(original))

ViewSlicePaddingArguments(shape, slice_arguments) ==
  [n \in DOMAIN slice_arguments |-> <<slice_arguments[n][1], shape[n] - slice_arguments[n][2]>>]

ViewPaddingSliceArguments(shape, padding_arguments) ==
  [n \in DOMAIN padding_arguments |->
     <<padding_arguments[n][1], shape[n] + padding_arguments[n][1]>>]

-----------------------------------------------------------------------------
(* buffer_structure: the view of the result.  The arguments of the last two   *)
(* types are a record of the kernel_size, stride and padding of a convolution *)
(* and the channels, height and width of its images.                          *)

OutputSize(a, size) == (size + 2 * a.padding - a.kernel_size) \div a.stride + 1

ImageToColumnShape(batch_size, a) ==
  <<batch_size, a.channels * a.kernel_size * a.kernel_size,
    OutputSize(a, a.height) * OutputSize(a, a.width)>>

StructureOK(type, v, arguments) ==
  CASE type = "permute" -> ViewPermuteOK(v, arguments)
    [] type = "reshape" -> ViewCreateOK(arguments)
    [] type = "slice" -> ViewSliceOK(v, arguments)
    [] type = "padding" -> Len(arguments) = Rank(v)
    [] OTHER -> TRUE

StructureView(type, v, arguments) ==
  CASE type = "permute" -> ViewPermute(v, arguments)
    [] type = "reshape" -> View(v.offset, arguments, StridesFromShape(arguments))
    [] type = "slice" -> ViewSlice(v, arguments)
    [] type = "padding" -> ViewPadding(v, arguments)
    [] type = "image_to_column" -> ViewCreateContiguous(ImageToColumnShape(v.shape[1], arguments))
    [] type = "column_to_image" ->
         ViewCreateContiguous(<<v.shape[1], arguments.channels, arguments.height, arguments.width>>)
=============================================================================
