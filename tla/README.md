# Specifications of neuralwindow

TLA+ models of neuralwindow, a deep-learning library in C, the TLC
configurations that check them on small instances, and theorems about them
checked by TLAPS. Paths below are relative to the repository.

## The system

The library is single-threaded. A program builds tensors, applies operations
to them, calls `tensor_backward` on a scalar, and lets an optimizer update the
parameters; `fit` does all this in a loop.

| Component | Source | State it keeps | Operations | What makes it correct |
|---|---|---|---|---|
| Tensor lifetime and ids | `src/tensor/tensor.c`, `src/util/id_pool.c` | the live tensors, their ids and gradients; static pool of free ids and counter | `tensor_create`, `tensor_destroy`, `tensor_accumulate_gradient` | ids of live tensors are unique; the pool is there when a tensor is destroyed; gradients have one owner |
| Automatic differentiation | `src/tensor/function.c`, `src/tensor/tensor.c` | contexts (operation and operands) of tensors; nesting of `with_no_gradient`; visited map and stack of the sort | `apply_operation_*`, `with_no_gradient`, `topological_sort`, `tensor_backward` | each gradient is the sum over all paths, nothing is used after it is destroyed, nothing is lost, the mode is restored |
| Hash map | `src/util/map.c` | array of entries, capacity, length | `map_set`, `map_get`, `map_contains` | it is a partial function; searches end |
| Buffers and storages | `src/tensor/buffer.c` | reference counts, views on storages | `buffer_*`, `storage_*` | a storage is freed with its last buffer; every buffer reads as the array it stands for |
| Views | `src/tensor/view.c` | none (values) | permute, expand, slice, reduce, broadcast, ... | index arithmetic agrees with the definition of each operation |
| Composite operations | `src/tensor/tensor.c` | intermediate tensors | softmax, max, concatenation, where, ... | intermediates are destroyed once, on success and on every error |
| Layers and models | `src/nn/layer.c` | tree of blocks, layers, parameters | create, destroy, forward, save, load | each parameter is owned once; a loaded model equals the saved one |
| Activations, costs, initialisers, metrics | `src/nn/*.c` | none | compositions of operations | as composite operations |
| Optimizers | `src/nn/optimizer.c` | maps from ids to momentum tensors | create, update, destroy | each parameter meets its own state |
| Training loop | `src/nn/train.c` | mode flags, current batch | `fit` | gradients are zeroed, computed, clipped, applied in order; modes restored |
| Graph printer | `src/util/graph.c` | static graph, map from ids to nodes | `start_graph`, `end_graph`, `graph_*` | a node per tensor |
| Queue, stack, errors, datatypes, sort, random, measure | `src/util/` | lists; none | | small and sequential |
| Runtimes | `src/runtime/` | none | kernels on OpenBLAS, MKL, CUDA | numerical |

Interactions. `apply_operation_*` creates a result tensor (ids, buffers),
computes it through a buffer and a runtime, and records a context that points
to the operands. `tensor_backward` reads the contexts, uses the hash map keyed
by ids and the stack, calls operations again under `with_no_gradient` to compute
gradients, and destroys every tensor that does not persist. Optimizers and the
graph printer key maps by ids too.

What is hard here is not concurrency but *lifetime and order*: ids are recycled,
tensors are destroyed by the backward pass while others point to them, a static
counter says whether contexts are recorded, broadcast copies are freed in one of
two places, and most functions have error exits in the middle. `PROJECT.json`
lists the hazards line by line, with the properties aimed at them.

## Modules

### TensorHeap (and TensorHeap_proofs)

`live`, `tensor_id`, `gradient` are the tensors allocated with `->id` and
`->gradient`; `id_pool` (a sequence whose last element is the list's head),
`pool_created` and `id` are the static variables. `tensor_destroy` gives the id
back, frees the pool if it holds as many ids as were minted, and recurses into
the gradient; each call of the recursion is a step (`TensorDestroy`, then
`DestroyGradient` while `dying` is not `NULL`), so that the states in the middle
are visible. `AccumulateGradient` covers both branches of
`tensor_accumulate_gradient`: a new tensor becomes the gradient, and the old one
is destroyed. `id_pool_put` may fail, and its error is ignored, as in the code.

### Autograd (and Autograd_proofs)

`nodes[t]` is what a tensor's context says (the type of operation and the
operands) with `requires_gradient` and `persist`; a tensor is its position in
`nodes`, never reused, so that a pointer to a destroyed one is recognised (ids
are recycled in the code; that they do not collide is `UniqueIds`). The actions
of the program are the operations by their number of operands:
`ApplyCreation`, `ApplyUnary` (unary, reduction and structure operations),
`ApplyBinary`, `ApplyTernary`, each including the expanded copies that
broadcasting makes and frees, `WithNoGradient` and `TensorDestroy`.

`tensor_backward` is `BackwardCall`, then the calls of `topological_sort` step by
step on an explicit stack of frames (`SortVisited`, `SortDescend`, `SortPush`,
`SortFails`), then the loop (`Propagate`, `PropagateNull`, `PropagateFails`) and
`BackwardDone`. `BackwardRefused` is its early exit. The value of a gradient is
the number of contributions it sums, 0 standing for `NULL`: that is what tells a
missed or doubled path from a right one.

The program keeps two rules that the library does not check: it does not
differentiate a graph of which a backward pass has destroyed a part, and it
leaves recorded tensors to the backward pass to destroy. Without them the code
follows freed pointers.

### HashMap, PartialMap (and HashMap_proofs)

`HashMap` is `util/map.c`: `Probe` is the search loop, `WithEntry` is
`map_set_entry`; `map_set` is `MapSet` (the test of the load), then if needed
`ExpandAllocate`, one `ExpandEntry` per old slot and `ExpandDone`, then
`SetEntry`, with `ExpandFails` and `SetFails` where memory runs out. The hash is a
constant function; `hash & (capacity - 1)` is `%` for the powers of two the
capacity takes. `PartialMap` is the promise: a partial function, with the rule
that a lookup that misses leaves the caller's variable alone. `HashMap` refines
it under `Contents`, the function the current array represents. `last` records
the call that returned, so that a call that does nothing is not mistaken for a
stutter.

### Views, TensorBuffers, Arrays, BufferArrays (and their proofs)

`Views` holds the functions of `view.c` as operators: what the result of each is,
and (`...OK`) when it is not an error. `TensorBuffers` is `buffer.c` as `tensor.c`
calls it: `buffers[b]` is a buffer with its view and its storage, `storages[s]` a
storage with its `reference_count` and data, `file` what `buffer_save` wrote. The
actions are the operations of the program on the tensors it holds. A view
(`As`, `Expand`, `Permute`, `Slice`, `Reshape` of a contiguous tensor) goes through
`Share`, anything computed through `Allocate` after the loop of `buffer.c`
(`Computed`) has stored each element at its address; sums are taken one dimension
after the other into intermediate buffers, as in `buffer_reduction`. Elements are
integers, so that arithmetic is exact. Numbers of buffers and storages are not
reused, so that nothing is hidden by an address that `malloc` hands out again.

`Arrays` says what the operations mean, with no word on strides or storages: an
array is a function from indices to cells, a view is another function to the same
cells. `BufferArrays` carries, as history beside `TensorBuffers`, the array that
every buffer stands for and the values of the cells; each of its actions is the one
of `TensorBuffers` with its meaning. `ElementsAgree` compares the two: reading a
buffer through its view gives the array, after any views, copies, reductions and
writes. The shapes of the results are compared too. Which elements change together is
part of the meaning: where a tensor repeats along a dimension that a sum keeps, the
elements of the sum are the same cell (`SummedCell`), because the code stores them once.

The model leaves out a write in place to a tensor whose elements share places
(`ElementsDistinct`), and a reshape to another number of elements, which
`tensor_reshape` does not check.

### Procedures, TensorProcedures, FunctionProcedures, NetworkProcedures, Ownership (and Ownership_proofs)

Most of `tensor.c`, all of the backward operations of `function.c`, the costs, the
metrics and the optimizers have one form: a list of calls, each followed by `goto
cleanup` on an error, and behind `cleanup` conditions under which intermediate
results are destroyed. These functions are written down as data in the vocabulary
of `Procedures`: a procedure is an operator of what the C function knows of its
arguments (views, which are `NULL`, which require a gradient, options) and returns
its steps and its cleanup clauses. `TensorProcedures` holds the functions of
`tensor.c`, `FunctionProcedures` the backward operations, `NetworkProcedures` the
costs, metrics, forward passes of blocks, and the update of one parameter by each
optimizer. Shapes and strides are computed by `Views`, because it depends on them
whether `tensor_expand`, `tensor_contiguous` and reductions return their operand.

`Ownership` executes them. `tensors` is the heap; a tensor has a view,
`requires_gradient`, `persist`, its context (`recorded`, `operands`) and its
gradient; `stack` has a frame for each running C function, with the values of its
variables. An action takes one step of the innermost function: an operation that
succeeds (`OperationSucceeds`, with `apply_operation_*` and `apply_function`), one
that fails, a call, a return, a clause of a cleanup. A step on a destroyed tensor
or a read through `NULL` sets `fault` and halts. At the end `Release` does what the
program does: the backward pass destroys the graph of the result, the program
its arguments and results. Instead of a backward pass through a whole graph, the
backward operation of each kind is run by itself with a gradient of the result.

`Calls` are the calls a program may make, `Layers` the layers of the models among their
arguments; `CallsAssumption` and `LayersAssumption` say that a call is of one of the
procedures, a layer of one of the types of `transform_type_t`, and a block a sequence of
layers.

### Constructors, ModelFiles, Construction

Constructors and destructors of `nn/` have a form of their own: allocate, call
others, destroy on an error what has been made. `Constructors` has one definition
per C function of `layer.c`, `activation.c`, `init.c` and `optimizer.c`,
`ModelFiles` the values each type declares (`ValuesOf`) and the members each `X_save`
writes and each `X_load` reads, in order.
`Construction` executes a program that builds networks: every allocation may fail
(`AllocateFails`), `ReturnFails` does what the caller does about a failed call
(`Rescued`: what it destroys itself, given what the callee has consumed),
`Destroyed` is the recursion through the destructors, `ModelSave` writes the tree
to `file` and `ModelLoad` builds another from it, and `DestroyOne` ends the program.

### Training (and Training_proofs)

`fit` of `train.c`, one action per call it makes, in the order of the code, with
`FitFails` as the error exit of each. A model is a tree of blocks (`Blocks`,
`Root`); `zero_gradient_block`, `update_block` and `block_inference` are the
recursive walks of the code, with the layers each one enters. `value` counts the
updates of a parameter, a gradient is the sequence of the costs summed in it, and
`held` the tensors of the iteration that nobody has destroyed. `update_model` is
executed for any set of parameters whose update fails.

## Runs

| Run | Question | Bounds and why they are enough |
|---|---|---|
| `tensor_heap` | ids, pool and gradients under every order of create, accumulate, destroy | 4 tensors, 4 ids: chains of gradients of length 3, pools of up to 4 ids in every order; deadlock is checked |
| `tensor_heap_malloc` | ids stay unique and the pool outlives the tensors although memory may run out | 3 tensors, 5 ids, so that two ids may be lost |
| `autograd_graphs` | order, sums, lifetime, termination on every graph | 4 tensors: a leaf used by two results of different depth, two leaves with a broadcast copy, repeated operands, disjoint graphs one after the other; leaves with and without gradient, persistent or not |
| `autograd_modes` | mode nesting and leaks | 4 tensors, nesting 3: a backward pass inside two levels of `with_no_gradient`, graphs recorded in part |
| `autograd_failures` | partial failures and retries | 3 tensors, one failure anywhere, then more backward passes; ternary operations. Two-fold expansions of `ApplyTernary` need five tensors and are beyond these bounds |
| `hash_map` | refinement, termination of searches | 4 keys of which two collide and a third is displaced over the end of the array, capacities 2, 4, 8, every allocation may fail |
| `buffer_arrays` | buffers read as the arrays they stand for, within their storage, which is counted | 3 buffers made in all, so two operations in a row and every destruction between them, one write in place before, between or after them, shapes with different sizes and with a dimension of size one, expansion at the front and in the middle, batches of matrices, slices that drop the first or last element in any dimension, every permutation and set of axes. Two operations suffice to meet the views that can go wrong: whatever takes strides takes those of an expanded, permuted, sliced or reduced operand |
| `ownership` | intermediate results of every composed function are destroyed once, whatever step fails; modes; which arguments get a gradient, of which shape | one call in a behaviour, 1164 calls of 69 functions and of those they are composed of, on shapes with dimensions of size 1 to 4, scalars, permuted and repeated operands, subsets of the arguments requiring gradients, with recording on and off, and a failing operation at any point. What a function does depends on ranks and on which sizes are 1 or equal, so that larger ones show nothing new. Three models: a perceptron with a block in a layer, a convolutional network with every layer of images, a transformer with residual blocks |
| `construction` | what constructors own when memory runs out; files | eleven programs that between them use every constructor of a layer, activation, initialiser and optimizer, nested and residual blocks; any one allocation fails and, the program having stopped, everything is destroyed; a loaded model is compared with the saved one member by member |
| `training` | the order of `fit` and the modes of its loops | 2 epochs of 4 batches (the ninth sample is dropped) in every order, split 2, 1, 1; a network with a layer of each kind that is walked differently, in the outer block, in a block and in a residual block; up to two parameters fail to be updated, any other call fails |
| `permute_backward` | the gradient has the shape of its tensor, when axes count from the end: *violated* | one permutation by `{-1, 0}` |
| `slice_again` | the offset of a view is where its first element is, for slices of slices too: *violated* | the same; `SliceAgain` lets a slice be sliced |

The Autograd runs turn the deadlock check off: the program may stop calling, and
does when it has used `MaxTensors`. So do those of BufferArrays, where `MaxMade`
bounds the buffers created and `MaxWrites` the writes in place.

Fairness. Only `BackwardTerminates` needs it: weak fairness of the engine's
steps, which are the code of one running C function; nothing is assumed of the
program.

Properties, by hazard: `LiveIdsUnique`, `PooledIdsFree` (recycled ids);
`PoolOutlivesTensors`, `ResetOnlyWhenEmpty`, `IdsAccounted` (the pool freed on a
count); `GradientOwnership` (double free); `OperandsBelow` (topological order on
shared graphs); `GradientsComplete` (every path counted once, against the
recursive definition `FullGradient`); `NoNullGradient` (a seeded pass meets no
missing gradient); `NoUseAfterFree`; `NoOrphans` (leaks); `ModeRestored`;
`BackwardTerminates`, `BackwardProgresses` (a sort that takes every path of a shared graph); `ProbesEnd`, `LengthCounts`, `MovesOnce`, `Implements` (the
hash map); `CountsMatch` (storages freed under a view or leaked), `InBounds`
(results allocated for the elements stored), `ElementsAgree` (aliasing, strides,
contiguity, the order of reductions);
`Ownership!NoUseAfterFree`, `NoNullDereference`, `NothingLost` (which intermediate
result a cleanup may destroy), `GradientsReachInputs` (gradients cut off by the mode),
`GradientsFit` (axes of backward operations); `PointersValid`, `Construction!NothingLost`
(partial construction), `LoadedEqualsSaved` (members by position); `IterationsStartClean`,
`FreshUpdates` (modes and gradients across iterations). Each has a mutant of the code, listed in `PROJECT.json`, that breaks it.

What the models showed about the code, beyond the properties:

- `view_slice` drops the offset of the tensor it slices (`view.c:1087`, `:1101`): the
  slice of a slice that did not begin at the start of the storage reads the wrong
  elements. `slice_again` is the counterexample; all other runs slice only tensors
  whose offset is 0 (`SliceAgain = FALSE`).
- The result of a sum is not always a tensor with places of its own: along a dimension that
  the operand repeats, `view_reduce` keeps the stride 0 (`view.c:660`), so a write in place
  to a slice of the sum of an expanded tensor changes elements outside the slice. Arrays
  first gave every element of a sum its own cell; the attempt to prove `ElementsAgree`, and
  a run with four buffers, showed that it does not have one (`SummedCell`).
- A scalar tensor cannot be saved, because `fwrite` of no elements returns 0
  (`Save`).
- `tensor_backward` ignores the value of its `gradient` argument: with one given,
  `x->gradient` stays `NULL` and the first `apply_backward` reports an error
  (`BackwardCall(x, TRUE)`, `PropagateNull`).
- `topological_sort` has no case for ternary operations, so a graph with
  `tensor_where` cannot be differentiated (`SortFails`).
- Early exits of `tensor_backward` and of `tensor_as_tensor` leave the
  no-gradient mode on (`BackwardRefused`, `PropagateFails`); `ModeRestored` is
  therefore stated for behaviours in which no call has failed.
- A ternary operation with operands of mixed `requires_gradient` that expands
  one twice never frees the first copy; `NoOrphans` is not claimed of ternary
  operations.

- `permute_operation_backward` inverts a permutation by sorting its axes as given,
  which is wrong for axes that count from the end (`permute_backward`).
- The inputs that `ownership` leaves out, since the code frees wrongly for them. A
  constant is lost by `tensor_tanh` and `tensor_leaky_rectified_linear` of scalars that
  are not recorded. `tensor_logsoftmax` along an axis of size 1 frees twice (`:3178`).
  Arguments that require gradients in part: `tensor_layer_normalization`,
  `tensor_batch_normalization_2d`, `tensor_matrix_multiplication` with a recorded and a
  strided operand (`:1272`), `tensor_linear`, the convolutions, attention and
  `tensor_embedding` then destroy what was recorded, or lose it. `tensor_dropout` of a
  recorded scalar destroys its recorded `scale` (`:4493`). The cleanups of
  `tensor_concatenation`, `tensor_linear`, the two convolutions, `block_forward` and the
  optimizers follow the pointers a failed step left `NULL` or destroy what the caller
  or the optimizer's map still has (`Fragile`). What was recorded before a failure is
  lost, so that `NothingLost` is not claimed of failed calls with recording on.
  `tensor_where` with mixed operands, costs on recorded labels and metrics with
  recording on lose copies. In a block, a layer that returns its input
  (dropout at inference) must not come first, and not alone in a residual block.
- `layer_normalization_layer_create` swaps its two flags (`layer.c:1100` against `:503`):
  asked for weights without a bias, as `example/transformer.c` does, it makes a bias without
  weights, against what `layer.h:183` and `:215` declare; `construction` makes what the code makes.
  Destruction, saving and loading treat the two alike, so that the properties of
  `construction` hold all the same.
- `tensor_backward` of a persistent scalar that has a gradient loses it: `tensor_ones_like`
  overwrites the pointer (`tensor.c:5230`). Autograd, where a gradient is a number, does not
  show this leak, and `NoOrphans` says nothing of gradients.
- The constructors that `construction` does not let fail (`Fragile`):
  `leaky_rectified_linear_create` tests the wrong pointer (`activation.c:142`);
  the optimizers' destructors follow members not yet set (`optimizer.c:297`, `:434`,
  `:569`); `block_layer_create` and `residual_block_layer_create` leave the block to the
  caller or destroy it, depending on what failed; three of the
  `..._create_from_parameters` keep or destroy the parameters likewise. Files
  that cannot be read are freed twice by every `X_load` and its caller.
- `fit` clips the gradients before `tensor_backward`, so that none is ever clipped;
  it leaves the model in inference mode after the test loop; on an error it leaves
  all modes as they are. `block_inference` does not enter residual blocks: a
  transformer validates with dropout on. `update_block` forgets the error of every
  layer but the last (`swallowed`); the optimizer has then left the no-gradient mode on,
  nothing is recorded in the next iteration, and the update that finds no gradients
  ends the training.

## Theorems

`TensorHeap_proofs` proves, for any finite set of tensors, any bound on ids and
allocations that may fail, that `TypeOK`, `LiveIdsUnique`, `PooledIdsFree`,
`PoolOutlivesTensors`, `GradientOwnership` and `ResetOnlyWhenEmpty` hold of `Spec`.
None of the safety properties is inductive alone. Uniqueness needs that ids in
the pool are distinct, carried by no live tensor and below the counter; that the
pool is not freed early needs a counting argument, for which `IInv` adds that all
ids, carried or pooled, are below the counter: were a tensor left, the pool could
hold at most `id - 1` of them (`PoolNotFull`, by the pigeonhole principle). While no
allocation fails, `IdsAccounted` (`AccountedIds`) says more: the test `id_pool->size ==
id` is true exactly when no tensor is left.
`NextIInv` goes through the actions; all theorems follow from `HeapInvariant`.
The assumptions are those of `TensorHeap` on its constants.

`HashMap_proofs` proves, for any set of keys, any hash function into the natural
numbers, any positive initial capacity and with allocations that fail, that
`TypeOK`, `ProbesEnd`, `LengthCounts` and `MovesOnce` hold, and `Refinement`:
`Spec => Implements`, the hash map implements `PartialMap`. The argument rests on
one notion, `WellPlaced`: each entry sits where a search for its key stops first.
`WithEntryFacts` shows that entering a key keeps it, `FreeSlotEnds` that a table
with a free slot ends every search, and `WellPlacedFacts` that a well-placed
table has each key once, where `Probe` looks. `HalfMoved` is what `map_expand`
needs: the new array holds the old entries before `i` and no others, so the key
it moves is never there yet. The new array is an invariant of its own because
`WellPlaced` depends on the capacity: the entries move to other places.
`NextAbstract` maps each step to one of `PartialMap` or to a stutter; that
`ExpandDone` changes no contents is `MovedFacts`.

`TensorBuffers_proofs` proves, for any shapes, any number of buffers and any sequence
of operations, under the assumptions of `TensorBuffers` on its constants:

- `StoragesCounted`: `CountsMatch`, so a storage is freed exactly with its last
  buffer. What an operation computes does not matter: `UnaryCounts` and
  `BinaryCounts` reduce every operation to `Share` or `Allocate`. `CountsMatch` is
  inductive together with `Numbered`, that numbers are not reused: otherwise a new
  storage could already have holders.
- `BuffersTyped` and `ViewsInBounds`: `TypeOK` and `InBounds`. The invariant
  `BoundsInv` says of every buffer, and of the file, that its view `Fits` its data:
  the view has one non-negative stride per dimension and its last element a place.
  Every operation has a lemma of its own (`ExpandBounds` to `LoadBounds`): a view of the
  same storage ends where its operand ends or before, and a result is `IsDense`, its
  strides counting exactly the elements stored, so that its last element is the last
  place of a storage of `ViewPhysicalSize`.
- `ElementsInBounds`: not only the last element, every element of a live buffer has a
  place in its storage.

In `SummationBounds`, `ReductionLoop` says what the loop of `buffer_reduction` over the
dimensions is, a function that exists (`LoopExists`) and of which only the last buffer
counts; `KernelStores`, that a loop over all coordinates leaves at each place the value
of an element there.

`ShapesAssumption` is used: a shape with a size of -1 given to `tensor_reshape` has no
other negative size and no 0, by whose product the code divides.

The first part of the module holds the facts about views of any shape: products over the dimensions
(`ProductRemove`, `ProductSkip`), `Telescope` (row-major strides leave no gap:
the sum of (size - 1) * stride is the product of the sizes minus one), `DenseReach`, where
the last element of an expanded, permuted or sliced view is (`ExpandLast`,
`PermuteLast`, `SliceLast`), the shapes of broadcasts and matrix products, and
`EveryAddress`. For `BufferArrays_proofs` it says which element of the operand is at an
address of the view (`ExpandAddress`, `PermuteAddress`, `SliceAddress`), that the
elements of a dense view are at one address exactly when they agree in the dimensions
stored (`DenseAddress`), that row-major order visits every index once, at the position its
digits say (`LoopVisits`, `PositionOfDigits`), and which dimension is which after others
are reduced (`ViewReduceIs`, `OrderedWithout`).

`BufferArrays_proofs` proves `BuffersAgree`: for any shapes, any number of buffers and any
sequence of operations, under the assumptions of `TensorBuffers` and where `SliceAgain` is
`FALSE`, `ElementsAgree` holds: every live buffer reads as the array it stands for. Where
`SliceAgain` is `TRUE` it does not hold (`slice_again`), and the only lemma that needs the
hypothesis is that of `tensor_slice`, `SliceAgrees`.

The invariant `AgreeInv` adds to `BoundsInv` that a buffer's array has its shape and cells
of its storage (`Stands`), that the data has the values of the cells (`ReadsAs`), and, for
any two buffers of one storage, that two elements are the same cell exactly when they
have the same address (`CellsArePlaces`). Without the last part a write in place,
which changes cells in the one and addresses in the other, would not preserve `ReadsAs`
for the other views of its storage (`AddToAgrees`). `ShareAgrees` covers the operations
that make a view, given the element of the operand each element of the view is, and
`AllocateAgrees` those that make a storage. What remains is one lemma per operation: that a
reshape keeps the order of elements (`PlaceIs`: the number of indices before one is its
position), that operands of different rank are repeated to the shape `CommonShape` gives
(`BroadcastIs`), that a product finds rows and columns with the strides of the broadcast
operands (`MatrixElementIs`), and that a sum over several dimensions, which the code
takes one at a time from the last down, in intermediate buffers whose dimensions
have moved, is the sum over all of them at once (`ReductionSums`). For the last,
`IsReduced` says of the intermediate buffer which dimensions of the operand are left
(`q`) and that it holds the sums over the others; `ReductionStep` adds one dimension, by
`SumParts`, and `SortedAre` that the order by size is a descent through all of them.
`SummedPlaces` shows that the sums which share a place are the ones that sum the same cells.
The history only watches (`SpecASpec`: `SpecA => Spec`), so that the theorems of
`TensorBuffers_proofs` hold of `BufferArrays` as well.

`FoldFacts` holds what these and the proofs about gradients need of the sums and folds of
the community modules: a fold over a finite set exists and does not depend on the
order (`FoldExists`, `FoldUnique`, `SumRemove`), sums can be split, skipped, renumbered and
taken in parts (`SumOfTwo`, `SumSkip`, `SumImage`, `SumParts`), and a loop is a function (`LoopExists`). Where a textbook
would use induction, these proofs take a least counterexample (`LeastElement`,
`SmallestSet`), because the library's induction theorems are out of the provers' reach.

`Autograd_proofs` proves, for any number of tensors, any nesting of modes, any number
of failures and of backward passes, the safety of the backward pass: `TypeOK`
(`AutogradTypes`), `NoUseAfterFree` (`BackwardMemorySafety`), `OperandsBelow`
(`TopologicalOrder`), `BackwardProgresses` (`EveryStepProgresses`), `NoNullGradient` (`GradientsPresent`), `ModeRestored`
(`ModeIsRestored`), `GradientsComplete` (`GradientsAreComplete`), and `NoOrphans` (`NothingLeaks`) where no ternary operation is
used: those leak, see above. The assumptions are those of `Autograd` on its constants.

The inductive invariant `GraphInv` has five parts. `HeapInv`: a context points to older
tensors only, and a live tensor that persists is the program's. `EngineInv`: what the
engine's variables hold in each phase. `StackInv`: `OperandsBelow` and that what is on
the stack is visited. `SortInv`: while the graph is sorted, all that the root reaches is
live; the frames go down from the root, each on an operand of the one before, and each
has visited the operands before its `next` or is in the call on the last of them
(`Dealt`). `PropagateInv`: while gradients are propagated, what waits on the stack is
live, and what was popped has been destroyed unless it persists and has given its
operands their gradients. The parts need each other: that the operands of the tensor
popped next are still live follows from the order of the stack, which follows from what
the frames have visited when a tensor is pushed.

`Reachable` is a recursive function. That it unfolds, is closed under operands, is the
least such set, and that a tensor other than the root is in it only as the operand of
another one, is shown from a least counterexample (`LeastElement`), because the library's
induction theorems are out of the provers' reach. `ModeInv` and `FlagInv` say what the
nesting is in each phase. `OrphanInv` says that the tensors an operation creates are all
operands of its result (`Used`), so that a backward pass reaches what it must destroy;
`BinaryMakes` and `TernaryMakes` show it of the expanded copies.

That gradients are complete is the invariant `SharesInv`: while gradients are propagated,
each tensor has its seed and the full share of every user that was popped, no more and no
less. Since a tensor is popped after its users (`OperandsBelow`), its gradient is then
`FullGradient` (`AllPaid`), which is a recursive function on the graph (`FullExists`
shows that it is one, because operands are older) and says nothing of the order of the
pass. `PropagateShares` shows that one turn of the loop, which may meet the same operand
twice, adds each share once.

`EveryStepProgresses` is what can be proved here of termination: every step the engine
takes, a failure included, lowers `Work`, a natural number at most linear in the operands
and tensors of the graph. What makes it more than a count of steps is `SortDescendWork`: the
place of an operand is taken from `OperandsLeft` once and never comes back, because no two calls
of `topological_sort` are on the same tensor (`FramesInv`) and a tensor is pushed with all its places
dealt with. That the pass returns (`BackwardTerminates`) follows by fairness and by a step being
always possible, which TLC checks.

`Training_proofs` proves, for every network of nested and residual blocks, any number
of epochs and samples, every split, every combination of arguments and every failure, that
`IterationsStartClean` (`IterationsAreClean`) and `FreshUpdates` (`UpdatesAreFresh`) hold.
The assumption on the network, `NetworkAssumption`, is that blocks are nested to a finite
depth and no layer is at two places, which holds of whatever `block_create` and
`layer_create` build. The invariant `TrainingInv` says, phase by phase, which modes are on
(`ModesInv`), what an iteration holds (`HeldInv`) and where gradients come from
(`GradientsInv`); once an update was lost (`swallowed`) nothing is claimed of modes and
tensors. The walks over blocks are recursive functions: `NestingRecursion` shows that they
exist, `NestingInduction` is what their properties are proved by. `ZeroesAll` says
that `zero_gradient_block` reaches exactly the parameters in the tree, and
`ModelUpdates` that `update_block`, whatever fails, updates nothing without a gradient
and, if nothing failed, all parameters.

`Ownership_proofs` proves, for any calls, layers and models and any failures, that
`ModeRestored` (`CallsRestoreMode`) holds of `Ownership`: a call that succeeds leaves the
recording of contexts as it found it. The assumptions are `LayersAssumption` and
`CallsAssumption`. `with_no_gradient` keeps a counter, so that the question is whether
every `with_no_gradient(true)` on the way is met by one `with_no_gradient(false)`, in the body
or in the cleanup, which are in different functions of the model as in C. A procedure is
`Balanced` if along its body there is a sequence of depths, each what the step before
makes of the last (`IsPath`), that comes back to where it began, or one deeper if the cleanup leaves the
mode. There is a lemma for each of the procedures, in whatever context it runs (`TanhBalanced` to
`AdamBalanced`); the loop over the layers of a block is `FlattenSeq` of any length
(`PlainFlattened`, `BlockForwardBalanced`). A call is a step that keeps the depth only because the procedure it names is
balanced, and that is known only while the callee runs: the invariant `ModeInvariant` has for
every frame the depth at which it was entered, from which the rest of its caller's body
comes to what the caller promises (`Bases`), and says of the innermost frame that its
rest starts at the counter's value (`Depths`). It is needed because the flag alone does
not tell how many callers are inside a mode. Once a function has failed nothing is said of depths, because
`tensor_as_tensor` returns an error with the mode still on (`AccumulateFails`), and the error goes up to
the program.

## Only model-checked, or not modelled

Model-checked only: termination (`BackwardTerminates`), since liveness is out of the prover's
reach, but for the measure (`BackwardProgresses`); of Ownership, which pointers are followed and what is left at the end
(`NoUseAfterFree`, `NoNullDereference`, `NothingLost`, `GradientsReachInputs`,
`GradientsFit`): they depend on which of more than a hundred procedures returns one of its
operands for which shapes, and hold only of the arguments that `MCOwnership` enumerates,
for the code is known to free wrongly for others (above); everything
about Construction, whose destructors, saves and loads are recursive operators, which are out
of the prover's reach as well.

Not modelled: numerical values and kernels (`src/runtime`); operations that fail after
they have made their result; failures of `map_set` in the optimizers, and the errors of
`tensor_constant` that `adam` overwrites with those of the next call (`optimizer.c:1640`);
failing loads; error formatting, random
numbers, sorting; the graph printer, which draws through Graphviz; queue and stack
as data structures; plotting and the examples.

## Plan

1. *Done*: TensorHeap with its theorems, Autograd, HashMap refining PartialMap
   with its theorems, Views, TensorBuffers with its theorem, BufferArrays.
2. *Done*: the composed functions and their ownership (Procedures to Ownership),
   constructors and files (Construction), the training loop (Training).
3. *Done*: the safety of the backward pass and the completeness of gradients proved
   (Autograd_proofs), the bounds of views (TensorBuffers_proofs), what all operations on
   buffers mean (BufferArrays_proofs), the training loop (Training_proofs), the mode of
   all composed functions (Ownership_proofs).
4. `graph.c` on top of TensorHeap; MAXIMUM_OPERATION and `image_to_column` in
   TensorBuffers.
