---------------------------- MODULE BufferArrays ---------------------------
(***************************************************************************)
(* TensorBuffers together with what its operations mean: to every buffer     *)
(* belongs an array of the module Arrays, which each operation makes from    *)
(* the arrays of its operands without a look at views and storages.          *)
(***************************************************************************)
EXTENDS TensorBuffers

A == INSTANCE Arrays

VARIABLES
  array,            (* history: the array every live buffer stands for     *)
  value,            (* history: the values of its cells, <<storage, index>> *)
  saved             (* history: the array in the file and its cells         *)

history == <<array, value, saved>>

InitA ==
  /\ Init
  /\ array = <<>>
  /\ value = <<>>
  /\ saved = NONE

Value(cell) == value[cell[1]][cell[2]]

(* The new buffer stands for an array that shares its cells with others. *)
SharedArray(a) ==
  /\ array' = AddNew(array, a)
  /\ UNCHANGED <<value, saved>>

(* It stands for an array with cells of its own. *)
NewArray(shape, elements) ==
  /\ array' = AddNew(array, A!Array(shape, LAMBDA index : <<New, index>>))
  /\ value' = AddNew(value, elements)
  /\ UNCHANGED saved

-----------------------------------------------------------------------------
(* The operations and what they mean *)

ACreate(shape) ==
  /\ Create(shape)
  /\ NewArray(shape, [index \in A!Indices(shape) |-> 1 + A!Place(index, shape)])

ADestroy(x) ==
  /\ Destroy(x)
  /\ array' = Restrict(array, DOMAIN array \ {x})
  /\ value' = Restrict(value, DOMAIN storages')
  /\ UNCHANGED saved

AAs(x) == As(x) /\ SharedArray(array[x])

AExpand(x, shape) == Expand(x, shape) /\ SharedArray(A!ArrayExpand(array[x], shape))

APermute(x, axes) ==
  /\ Permute(x, axes)
  /\ SharedArray(A!ArrayPermute(array[x], [n \in DOMAIN axes |-> axes[n] + 1]))

ASlice(x, arguments) ==
  /\ Slice(x, arguments)
  /\ SharedArray(A!ArraySlice(array[x], [n \in DOMAIN arguments |-> arguments[n][1]],
                                           [n \in DOMAIN arguments |-> arguments[n][2]]))

(* Whether the result shares the cells of its operand depends on how the     *)
(* operand is stored.                                                         *)
AReshape(x, given) ==
  /\ Reshape(x, given)
  /\ LET reshaped == A!ArrayReshape(array[x], buffers'[New].view.shape)
     IN  IF buffers'[New].storage = StorageOf(x)
         THEN SharedArray(reshaped)
         ELSE NewArray(reshaped.shape, A!Elements(reshaped, Value))

AContiguous(x) ==
  /\ Contiguous(x)
  /\ NewArray(array[x].shape, A!Elements(array[x], Value))

ANegation(x) ==
  /\ Negation(x)
  /\ NewArray(array[x].shape, A!Elements(array[x], LAMBDA cell : -Value(cell)))

(* The value at an index of an array repeated to fill a larger shape. *)
Repeated(a, index) == Value(a.cell[A!Unexpanded(index, a.shape)])

AAddition(x, y) ==
  /\ Addition(x, y)
  /\ LET shape == A!CommonShape(array[x].shape, array[y].shape)
     IN  NewArray(shape, [index \in A!Indices(shape) |->
                                  Repeated(array[x], index) + Repeated(array[y], index)])

AMatrixMultiplication(x, y) ==
  /\ MatrixMultiplication(x, y)
  /\ LET a == array[x].shape
         b == array[y].shape
         shape == A!CommonShape(SubSeq(a, 1, Len(a) - 2), SubSeq(b, 1, Len(b) - 2))
                  \o <<a[Len(a) - 1], b[Len(b)]>>
     IN  NewArray(shape, A!ProductElements(array[x], array[y], shape, Value))

AWhere(w, x, y) ==
  /\ Where(w, x, y)
  /\ LET shape == A!CommonShape(array[w].shape, A!CommonShape(array[x].shape, array[y].shape))
     IN  NewArray(shape, [index \in A!Indices(shape) |->
                                  Repeated(IF Repeated(array[w], index) # 0 THEN array[x] ELSE array[y], index)])

APadding(x, arguments) ==
  /\ Padding(x, arguments)
  /\ LET shape == [n \in DOMAIN arguments |-> arguments[n][1] + array[x].shape[n] + arguments[n][2]]
     IN  NewArray(shape,
                  A!PaddedElements(array[x], [n \in DOMAIN arguments |-> arguments[n][1]], shape, Value))

(* Elements that sum the same cells, because the operand is repeated along a  *)
(* dimension that is kept, are stored once and change together.               *)
ASummation(x, axes, keep_dimension) ==
  /\ Summation(x, axes, keep_dimension)
  /\ LET dimensions == IF axes = <<>> THEN DOMAIN array[x].shape ELSE {a + 1 : a \in Range(axes)}
         shape == A!ReducedShape(array[x].shape, dimensions, keep_dimension)
     IN  /\ array' = AddNew(array, A!Array(shape, LAMBDA index :
                        <<New, A!SummedCell(array[x], dimensions, keep_dimension, index)>>))
         /\ value' = AddNew(value, A!SummedElements(array[x], dimensions, keep_dimension, shape, Value))
         /\ UNCHANGED saved

(* Every cell of z, once. *)
AAddTo(z, y) ==
  /\ AddTo(z, y)
  /\ LET new == [index \in DOMAIN array[z].cell |-> Value(array[z].cell[index]) + Repeated(array[y], index)]
         IndexOf(cell) == CHOOSE index \in DOMAIN new : array[z].cell[index] = cell
     IN  value' = [s \in DOMAIN value |->
                    [index \in DOMAIN value[s] |->
                       IF <<s, index>> \in Range(array[z].cell) THEN new[IndexOf(<<s, index>>)]
                       ELSE value[s][index]]]
  /\ UNCHANGED <<array, saved>>

(* The file has the cells that the buffer is a view of; a loaded array has     *)
(* cells of its own in their place.                                           *)
ASave(x) ==
  /\ Save(x)
  /\ saved' = IF array[x].shape = <<>> THEN NONE
              ELSE [array |-> array[x], value |-> value[StorageOf(x)]]
  /\ UNCHANGED <<array, value>>

ALoad ==
  /\ Load
  /\ array' = AddNew(array, A!Array(saved.array.shape, LAMBDA index : <<New, saved.array.cell[index][2]>>))
  /\ value' = AddNew(value, saved.value)
  /\ UNCHANGED saved

NextA ==
  \/ \E x \in DOMAIN buffers :
        \/ ADestroy(x)
        \/ \E y \in DOMAIN buffers : AAddTo(x, y)
  \/ /\ made < MaxMade
     /\ \/ ALoad
        \/ \E shape \in NewShapes : ACreate(shape)
        \/ \E x \in DOMAIN buffers :
              \/ ASave(x)
              \/ AAs(x)
              \/ AContiguous(x)
              \/ ANegation(x)
              \/ \E shape \in Targets : AExpand(x, shape) \/ AReshape(x, shape)
              \/ \E arguments \in SliceArguments(ShapeOf(x)) : ASlice(x, arguments)
              \/ \E arguments \in PaddingArguments(Rank(ViewOf(x))) : APadding(x, arguments)
              \/ \E axes \in AxesOf[Rank(ViewOf(x))] :
                    APermute(x, axes) \/ \E keep \in BOOLEAN : ASummation(x, axes, keep)
        \/ \E x, y \in DOMAIN buffers :
              \/ AAddition(x, y)
              \/ AMatrixMultiplication(x, y)
              \/ \E w \in DOMAIN buffers : AWhere(w, x, y)

SpecA == InitA /\ [][NextA]_<<vars, history>>

-----------------------------------------------------------------------------
(* Properties *)

(* Every buffer reads as the array it stands for, however many views,        *)
(* copies, reductions and writes through other buffers lie between. (view.c,  *)
(* buffer.c)                                                                  *)
ElementsAgree ==
  \A b \in DOMAIN buffers :
    /\ ShapeOf(b) = array[b].shape
    /\ \A index \in DOMAIN array[b].cell : Element(b, index) = Value(array[b].cell[index])

(* The offset of a view is where the first element of the tensor is, as      *)
(* view.h documents view_t.offset.  (view_slice)                              *)
OffsetIsFirst ==
  \A b \in DOMAIN buffers :
    DataOf(b)[ViewOf(b).offset] = Value(array[b].cell[[n \in DOMAIN ShapeOf(b) |-> 0]])
=============================================================================
