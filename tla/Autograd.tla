------------------------------ MODULE Autograd ------------------------------
(***************************************************************************)
(* The automatic differentiation engine: the graph of contexts that the     *)
(* apply_operation_* functions record (tensor/function.c) and               *)
(* tensor_backward, which sorts it, propagates gradients through it and     *)
(* destroys it (tensor/tensor.c).                                           *)
(*                                                                         *)
(* A tensor is the position of its node in `nodes`.  Positions are never    *)
(* reused, so a pointer to a destroyed tensor stays recognisable; that the  *)
(* `visited` map, keyed by the recycled id, tells live tensors apart is     *)
(* theorem UniqueIds of TensorHeap_proofs.  The value of a gradient is      *)
(* abstracted to the number of paths that contributed to it, 0 standing for *)
(* the NULL pointer: every derivative counts as 1.                          *)
(*                                                                         *)
(* The environment is a program that calls the library.  It keeps to two    *)
(* rules the library does not check: a tensor whose operands were destroyed *)
(* by an earlier backward pass is not differentiated again, and a tensor    *)
(* with a recorded operation, or that is an operand of one, is destroyed    *)
(* by the backward pass and not by hand.                                    *)
(***************************************************************************)
EXTENDS Naturals, Sequences, FiniteSets, SequencesExt

CONSTANTS
  MaxTensors,    (* bound: tensors created in a behaviour                  *)
  MaxPrevious,   (* bound: calls of with_no_gradient(true) not yet undone   *)
  Operations,    (* the operation types the program applies                *)
  LeafKinds,     (* the <<requires_gradient, persist>> of the tensors it   *)
                 (* creates from data                                      *)
  MaxFailures    (* bound: calls of the library that return an error       *)

(* The operation types, but for creation, and their number of operands. *)
UnaryTypes == {"unary", "reduction", "structure"}
AllOperations == UnaryTypes \cup {"binary", "ternary"}

ASSUME BoundsAssumption == MaxTensors \in Nat /\ MaxPrevious \in Nat \ {0}
ASSUME OperationsAssumption == Operations \subseteq AllOperations
ASSUME LeafKindsAssumption == LeafKinds \subseteq BOOLEAN \X BOOLEAN
ASSUME MaxFailuresAssumption == MaxFailures \in Nat

VARIABLES
  nodes,         (* the tensors created so far: context, requires_gradient *)
                 (* and persist                                            *)
  live,          (* those not yet destroyed                                *)
  gradient,      (* tensor->gradient                                       *)
  client,        (* the tensors the program holds a pointer to             *)
  previous,      (* the nesting counter of with_no_gradient                *)
  no_gradient,   (* the flag it maintains                                  *)
  phase,         (* what tensor_backward is doing, if it runs              *)
  root,          (* its argument x                                         *)
  frames,        (* the calls of topological_sort in progress, each with   *)
                 (* the operand it visits next                             *)
  visited,       (* the map of the tensors topological_sort has pushed     *)
  tensors,       (* the stack of tensors it fills, the top last            *)
  seed,          (* history: the gradients when the sort began             *)
  depth,         (* history: the nesting the program itself asked for      *)
  failures       (* history: the calls that have returned an error         *)

heap == <<nodes, live, gradient, client>>
mode == <<previous, no_gradient, depth>>
engine == <<phase, root, frames, visited, tensors, seed>>
vars == <<heap, mode, engine, failures>>

Tensors == 1..MaxTensors

Kind(t) == nodes[t].kind
Operands(t) == nodes[t].operands
RequiresGradient(t) == nodes[t].requires_gradient
Persist(t) == nodes[t].persist

(* The tensors reachable from t through contexts.  Operands are always      *)
(* older than the result, so the recursion is well founded.                 *)
Reachable(t) ==
  LET reach[s \in DOMAIN nodes] == {s} \cup UNION {reach[o] : o \in ToSet(Operands(s))}
  IN  reach[t]

Init ==
  /\ nodes = <<>>
  /\ live = {}
  /\ gradient = [t \in Tensors |-> 0]
  /\ client = {}
  /\ previous = 0
  /\ no_gradient = FALSE
  /\ phase = "idle"
  /\ root = 0
  /\ frames = <<>>
  /\ visited = {}
  /\ tensors = <<>>
  /\ seed = [t \in Tensors |-> 0]
  /\ depth = 0
  /\ failures = 0

-----------------------------------------------------------------------------
(* with_no_gradient *)

EnterNoGradient ==
  /\ previous' = previous + 1
  /\ no_gradient' = TRUE

LeaveNoGradient ==
  /\ previous' = IF previous > 0 THEN previous - 1 ELSE 0
  /\ no_gradient' = IF previous = 1 THEN FALSE ELSE no_gradient

(* The program switches the recording of contexts off or on again. *)
WithNoGradient(flag) ==
  /\ IF flag
     THEN previous + 1 < MaxPrevious /\ EnterNoGradient /\ depth' = depth + 1
     ELSE depth > 0 /\ LeaveNoGradient /\ depth' = depth - 1
  /\ UNCHANGED <<heap, engine, failures>>

-----------------------------------------------------------------------------
(* The forward operations *)

Leaf(requires_gradient, persist) ==
  [kind |-> IF requires_gradient /\ ~no_gradient THEN "creation" ELSE "none",
   operands |-> <<>>, requires_gradient |-> requires_gradient, persist |-> persist]

(* apply_function: the operation becomes the context of its result if the   *)
(* result requires a gradient and contexts are being recorded.              *)
Result(kind, operands, requires_gradient) ==
  IF requires_gradient /\ ~no_gradient
  THEN [kind |-> kind, operands |-> operands, requires_gradient |-> TRUE, persist |-> FALSE]
  ELSE [kind |-> "none", operands |-> <<>>, requires_gradient |-> requires_gradient,
        persist |-> FALSE]

(* The tensors in `new` are created; the program gets hold of the last.     *)
Create(new) ==
  /\ Len(nodes) + Len(new) <= MaxTensors
  /\ nodes' = nodes \o new
  /\ live' = live \cup (Len(nodes) + 1)..(Len(nodes) + Len(new))
  /\ client' = client \cup {Len(nodes) + Len(new)}
  /\ UNCHANGED <<gradient, mode, engine, failures>>

(* apply_operation_creation: tensor_from_data, tensor_create_zeroes, ...    *)
ApplyCreation(requires_gradient, persist) == Create(<<Leaf(requires_gradient, persist)>>)

(* apply_operation_unary, apply_operation_reduction and                     *)
(* apply_operation_structure, where they make a new tensor.                 *)
ApplyUnary(kind, x) == Create(<<Result(kind, <<x>>, RequiresGradient(x))>>)

(* tensor_expand, as tensor_broadcast calls it: the expanded copy of x if   *)
(* its shape must change, else x itself.                                    *)
Expansion(x, expands) ==
  IF expands THEN <<Result("structure", <<x>>, RequiresGradient(x))>> ELSE <<>>

(* A mutant of apply_operation_binary that never frees its expanded copies  *)
(* when no context was recorded.                                            *)
ApplyBinaryLeaks(x, y, x_expands, y_expands) ==
  LET x_copy == Expansion(x, x_expands)
      y_copy == Expansion(y, y_expands)
      first == Len(nodes) + 1
      x_broadcasted == IF x_expands THEN first ELSE x
      y_broadcasted == IF y_expands THEN first + Len(x_copy) ELSE y
      requires_gradient == RequiresGradient(x) \/ RequiresGradient(y)
      result == Result("binary", <<x_broadcasted, y_broadcasted>>, requires_gradient)
  IN  /\ x = y => ~x_expands /\ ~y_expands
      /\ Create(x_copy \o y_copy \o <<result>>)

(* A mutant of apply_operation_binary that takes the wrong copy of y. *)
ApplyBinaryMixup(x, y, x_expands, y_expands) ==
  LET x_copy == Expansion(x, x_expands)
      y_copy == Expansion(y, y_expands)
      first == Len(nodes) + 1
      x_broadcasted == IF x_expands THEN first ELSE x
      y_broadcasted == IF y_expands THEN first + 1 ELSE y
      requires_gradient == RequiresGradient(x) \/ RequiresGradient(y)
      result == Result("binary", <<x_broadcasted, y_broadcasted>>, requires_gradient)
  IN  /\ x = y => ~x_expands /\ ~y_expands
      /\ IF ~requires_gradient \/ no_gradient
         THEN Create(<<result>>)
         ELSE Create(x_copy \o y_copy \o <<result>>)

(* apply_operation_binary: the operands are broadcast to a common shape.    *)
(* The expanded copies stay for the backward pass if the operation was      *)
(* recorded, and are destroyed before the call returns if not.              *)
ApplyBinary(x, y, x_expands, y_expands) ==
  LET x_copy == Expansion(x, x_expands)
      y_copy == Expansion(y, y_expands)
      first == Len(nodes) + 1
      x_broadcasted == IF x_expands THEN first ELSE x
      y_broadcasted == IF y_expands THEN first + Len(x_copy) ELSE y
      requires_gradient == RequiresGradient(x) \/ RequiresGradient(y)
      result == Result("binary", <<x_broadcasted, y_broadcasted>>, requires_gradient)
  IN  /\ x = y => ~x_expands /\ ~y_expands
      /\ IF ~requires_gradient \/ no_gradient
         THEN Create(<<result>>)
         ELSE Create(x_copy \o y_copy \o <<result>>)

(* apply_operation_ternary: x and y are broadcast to a common shape, then w *)
(* and that shape, then w's new shape and y's.  If the shape of x and y     *)
(* grows in the second step, y is expanded a second time in the third.      *)
ApplyTernary(w, x, y, x_expands, y_expands, w_expands, both_expand) ==
  LET x_copy_ == Expansion(x, x_expands)
      y_copy_ == Expansion(y, y_expands)
      first == Len(nodes) + 1
      x_broadcasted_ == IF x_expands THEN first ELSE x
      y_broadcasted_ == IF y_expands THEN first + Len(x_copy_) ELSE y
      w_copy == Expansion(w, w_expands)
      second == first + Len(x_copy_ \o y_copy_)
      w_broadcasted == IF w_expands THEN second ELSE w
      again(t, requires_gradient) ==
        IF both_expand THEN <<Result("structure", <<t>>, requires_gradient)>> ELSE <<>>
      x_copy == again(x_broadcasted_, RequiresGradient(x))
      y_copy == again(y_broadcasted_, RequiresGradient(y))
      third == second + Len(w_copy)
      x_broadcasted == IF both_expand THEN third ELSE x_broadcasted_
      y_broadcasted == IF both_expand THEN third + 1 ELSE y_broadcasted_
      requires_gradient == \E t \in {w, x, y} : RequiresGradient(t)
      result == Result("ternary", <<w_broadcasted, x_broadcasted, y_broadcasted>>,
                       requires_gradient)
  IN  /\ x = y => ~x_expands /\ ~y_expands
      /\ w = x => w_expands = x_expands
      /\ w = y => w_expands = y_expands
      /\ w \in {x, y} => ~both_expand
      /\ IF ~requires_gradient \/ no_gradient
         THEN Create(<<result>>)
         ELSE Create(x_copy_ \o y_copy_ \o w_copy \o x_copy \o y_copy \o <<result>>)

(* The program destroys a tensor that takes part in no recorded operation.  *)
TensorDestroy(t) ==
  /\ Kind(t) \in {"none", "creation"}
  /\ \A s \in live : t \notin ToSet(Operands(s))
  /\ live' = live \ {t}
  /\ client' = client \ {t}
  /\ UNCHANGED <<nodes, gradient, mode, engine, failures>>

-----------------------------------------------------------------------------
(* tensor_backward *)

NoSeed == [t \in Tensors |-> 0]

(* tensor_backward frees its map and its stack. *)
Cleanup(error) ==
  /\ phase' = "idle"
  /\ root' = 0
  /\ frames' = <<>>
  /\ visited' = {}
  /\ tensors' = <<>>
  /\ seed' = NoSeed
  /\ failures' = failures + (IF error THEN 1 ELSE 0)
  /\ UNCHANGED depth

(* A mutant of tensor_backward that does not switch the recording of        *)
(* contexts on again.                                                       *)
BackwardReturnsInMode(error) == Cleanup(error) /\ UNCHANGED <<previous, no_gradient>>

(* The end of tensor_backward, which its errors jump to. *)
BackwardReturns(error) == Cleanup(error) /\ LeaveNoGradient

(* tensor_backward(x, NULL) on a scalar x seeds x->gradient with a one;     *)
(* a gradient the caller supplies (given) is not looked at again, so that   *)
(* x->gradient stays what it was.                                           *)
BackwardCall(x, given) ==
  LET seeded == IF given THEN gradient ELSE [gradient EXCEPT ![x] = 1]
  IN  /\ Reachable(x) \subseteq live
      /\ previous < MaxPrevious
      /\ failures <= MaxFailures
      /\ EnterNoGradient
      /\ gradient' = seeded
      /\ phase' = "sort"
      /\ root' = x
      /\ frames' = <<[tensor |-> x, next |-> 1]>>
      /\ seed' = seeded
      /\ UNCHANGED <<nodes, live, client, visited, tensors, depth, failures>>

(* tensor_backward(x, NULL) when x is not a scalar, or when the one cannot   *)
(* be allocated: it returns before its cleanup.                             *)
BackwardRefused(x) ==
  /\ failures < MaxFailures
  /\ previous < MaxPrevious
  /\ EnterNoGradient
  /\ failures' = failures + 1
  /\ UNCHANGED <<heap, engine, depth>>

Frame == Last(frames)

(* topological_sort has nothing to do for a tensor it has pushed before.    *)
SortVisited ==
  /\ phase = "sort"
  /\ frames # <<>>
  /\ Frame.next = 1
  /\ Frame.tensor \in visited
  /\ frames' = Front(frames)
  /\ UNCHANGED <<heap, mode, phase, root, visited, tensors, seed, failures>>

(* A mutant of topological_sort that visits the first operand only. *)
UnvisitedFirst(frame) == frame.next <= 1 /\ Operands(frame.tensor) # <<>>

(* An operand of the frame's tensor is still to be visited. *)
Unvisited(frame) == frame.next <= Len(Operands(frame.tensor))

(* A mutant of topological_sort that goes back to the operand it has come from. *)
SortDescendAgain ==
  /\ phase = "sort"
  /\ frames # <<>>
  /\ ~(Frame.next = 1 /\ Frame.tensor \in visited)
  /\ Kind(Frame.tensor) # "ternary"
  /\ Unvisited(Frame)
  /\ frames' = Append(frames, [tensor |-> Operands(Frame.tensor)[Frame.next], next |-> 1])
  /\ UNCHANGED <<heap, mode, phase, root, visited, tensors, seed, failures>>

(* The recursive call on the next operand. *)
SortDescend ==
  /\ phase = "sort"
  /\ frames # <<>>
  /\ ~(Frame.next = 1 /\ Frame.tensor \in visited)
  /\ Kind(Frame.tensor) # "ternary"
  /\ Unvisited(Frame)
  /\ frames' = Append([frames EXCEPT ![Len(frames)].next = @ + 1],
                      [tensor |-> Operands(Frame.tensor)[Frame.next], next |-> 1])
  /\ UNCHANGED <<heap, mode, phase, root, visited, tensors, seed, failures>>

(* A mutant of topological_sort that forgets to enter the tensor in the map. *)
SortPushUnmarked ==
  /\ phase = "sort"
  /\ frames # <<>>
  /\ ~(Frame.next = 1 /\ Frame.tensor \in visited)
  /\ Kind(Frame.tensor) # "ternary"
  /\ ~Unvisited(Frame)
  /\ tensors' = Append(tensors, Frame.tensor)
  /\ frames' = Front(frames)
  /\ UNCHANGED <<heap, mode, phase, root, visited, seed, failures>>

(* All operands are on the stack: the tensor follows. *)
SortPush ==
  /\ phase = "sort"
  /\ frames # <<>>
  /\ ~(Frame.next = 1 /\ Frame.tensor \in visited)
  /\ Kind(Frame.tensor) # "ternary"
  /\ ~Unvisited(Frame)
  /\ tensors' = Append(tensors, Frame.tensor)
  /\ visited' = visited \cup {Frame.tensor}
  /\ frames' = Front(frames)
  /\ UNCHANGED <<heap, mode, phase, root, seed, failures>>

(* topological_sort has no case for a ternary operation; or it runs out of   *)
(* memory.  The error unwinds all its calls, and nothing is destroyed.       *)
SortFails ==
  /\ phase = "sort"
  /\ frames # <<>>
  /\ ~(Frame.next = 1 /\ Frame.tensor \in visited)
  /\ failures < MaxFailures \/ Kind(Frame.tensor) = "ternary"
  /\ BackwardReturns(TRUE)
  /\ UNCHANGED heap

SortDone ==
  /\ phase = "sort"
  /\ frames = <<>>
  /\ phase' = "propagate"
  /\ UNCHANGED <<heap, mode, root, frames, visited, tensors, seed, failures>>

(* The places among the first n operands of y that t occupies, if it needs  *)
(* a gradient.                                                              *)
Places(t, y, n) ==
  {i \in DOMAIN Operands(y) : i <= n /\ Operands(y)[i] = t /\ RequiresGradient(t)}

(* A mutant of tensor_accumulate_gradient that replaces the gradient. *)
AccumulateReplaces(y, n) ==
  [t \in Tensors |-> IF Places(t, y, n) # {} THEN gradient[y] ELSE gradient[t]]

(* A mutant of the backward operations: the second operand gets a gradient  *)
(* only if the first does not (an else too many).                           *)
AccumulateEither(y, n) ==
  [t \in Tensors |->
     IF \E i \in Places(t, y, n) : \A j \in 1..(i - 1) : ~RequiresGradient(Operands(y)[j])
     THEN gradient[t] + gradient[y]
     ELSE gradient[t]]

(* apply_backward: <type>_operation_backward adds y's gradient to its first *)
(* n operands in turn, as far as they require one.                          *)
Accumulate(y, n) ==
  [t \in Tensors |-> gradient[t] + Cardinality(Places(t, y, n)) * gradient[y]]

(* A mutant of tensor_backward that only destroys the tensors an operation  *)
(* made, and leaves its constants behind.                                   *)
DestroyedAfterResults(y) == IF Persist(y) \/ Kind(y) = "none" THEN {} ELSE {y}

(* tensor_backward destroys what does not persist. *)
DestroyedAfter(y) == IF Persist(y) THEN {} ELSE {y}

(* The loop of tensor_backward: pop a tensor, propagate its gradient if an  *)
(* operation made it, and destroy it unless it persists.                    *)
Propagate ==
  LET y == Last(tensors)
  IN  /\ phase = "propagate"
      /\ tensors # <<>>
      /\ Kind(y) # "none" => gradient[y] > 0
      /\ gradient' = IF Kind(y) # "none" THEN Accumulate(y, Len(Operands(y))) ELSE gradient
      /\ live' = live \ DestroyedAfter(y)
      /\ client' = client \ DestroyedAfter(y)
      /\ tensors' = Front(tensors)
      /\ UNCHANGED <<nodes, mode, phase, root, frames, visited, seed, failures>>

(* apply_backward on a tensor without a gradient returns an error. *)
PropagateNull ==
  LET y == Last(tensors)
  IN  /\ phase = "propagate"
      /\ tensors # <<>>
      /\ Kind(y) # "none" /\ gradient[y] = 0
      /\ BackwardReturns(TRUE)
      /\ UNCHANGED heap

(* apply_backward fails after the first n operands have their gradient.     *)
(* If it was the first gradient of the next one that could not be           *)
(* allocated, tensor_as_tensor returned without leaving the mode it entered. *)
PropagateFails(n, in_as_tensor) ==
  LET y == Last(tensors)
  IN  /\ phase = "propagate"
      /\ tensors # <<>>
      /\ failures < MaxFailures
      /\ gradient[y] > 0
      /\ n < Len(Operands(y))
      /\ gradient' = Accumulate(y, n)
      /\ RequiresGradient(Operands(y)[n + 1])
      /\ IF in_as_tensor
         THEN gradient'[Operands(y)[n + 1]] = 0 /\ Cleanup(TRUE)
                /\ UNCHANGED <<previous, no_gradient>>
         ELSE BackwardReturns(TRUE)
      /\ UNCHANGED <<nodes, live, client>>

BackwardDone ==
  /\ phase = "propagate"
  /\ tensors = <<>>
  /\ BackwardReturns(FALSE)
  /\ UNCHANGED heap

Engine ==
  \/ SortVisited \/ SortDescend \/ SortPush \/ SortFails \/ SortDone
  \/ Propagate \/ PropagateNull \/ BackwardDone
  \/ \E n \in 0..2, in_as_tensor \in BOOLEAN : PropagateFails(n, in_as_tensor)

(* The library is single-threaded: the program makes a call when the one    *)
(* before has returned.                                                     *)
Idle == phase = "idle"

Program ==
  \/ Idle /\ \E flag \in BOOLEAN : WithNoGradient(flag)
  \/ Idle /\ \E leaf \in LeafKinds : ApplyCreation(leaf[1], leaf[2])
  \/ Idle /\ \E kind \in Operations \cap UnaryTypes, x \in client : ApplyUnary(kind, x)
  \/ Idle /\ "binary" \in Operations
       /\ \E x, y \in client, x_expands, y_expands \in BOOLEAN :
            ApplyBinary(x, y, x_expands, y_expands)
  \/ Idle /\ "ternary" \in Operations
       /\ \E w, x, y \in client, x_expands, y_expands, w_expands, both_expand \in BOOLEAN :
            ApplyTernary(w, x, y, x_expands, y_expands, w_expands, both_expand)
  \/ Idle /\ \E t \in client : TensorDestroy(t)
  \/ Idle /\ \E x \in client, given \in {FALSE, MaxFailures > 0} : BackwardCall(x, given)
  \/ Idle /\ \E x \in client : BackwardRefused(x)

Next == Program \/ Engine

Spec == Init /\ [][Next]_vars /\ WF_vars(Engine)

-----------------------------------------------------------------------------
(* Properties *)

Node == [kind : AllOperations \cup {"none", "creation"}, operands : Seq(Tensors),
         requires_gradient : BOOLEAN, persist : BOOLEAN]

TypeOK ==
  /\ nodes \in Seq(Node)
  /\ Len(nodes) <= MaxTensors
  /\ \A t \in DOMAIN nodes : ToSet(Operands(t)) \subseteq 1..(t - 1)
  /\ client \subseteq live
  /\ live \subseteq DOMAIN nodes
  /\ gradient \in [Tensors -> Nat]
  /\ previous \in 0..MaxPrevious
  /\ no_gradient \in BOOLEAN
  /\ phase \in {"idle", "sort", "propagate"}
  /\ root \in Tensors \cup {0}
  /\ frames \in Seq([tensor : Tensors, next : Nat])
  /\ visited \subseteq Tensors
  /\ tensors \in Seq(Tensors)
  /\ seed \in [Tensors -> Nat]
  /\ depth \in 0..MaxPrevious
  /\ failures \in 0..(MaxFailures + 1)

(* tensor_backward never follows a pointer to a tensor it, or anybody, has  *)
(* destroyed: what waits on its stack, what its sort is visiting and the    *)
(* operands of all these are live, though it destroys tensors as it goes.   *)
NoUseAfterFree ==
  \A t \in ToSet(tensors) \cup {frames[i].tensor : i \in DOMAIN frames} :
    t \in live /\ ToSet(Operands(t)) \subseteq live

(* topological_sort puts every tensor on the stack once, above all of its   *)
(* operands, however the graph shares them: each is popped after all the    *)
(* tensors computed from it.                                                *)
OperandsBelow ==
  /\ \A i, j \in DOMAIN tensors : tensors[i] = tensors[j] => i = j
  /\ \A i \in DOMAIN tensors :
       ToSet(Operands(tensors[i])) \subseteq {tensors[j] : j \in 1..(i - 1)}

(* The gradient t has when every path from the root has contributed: what   *)
(* it had before, plus the full gradient of every recorded result it is an  *)
(* operand of.                                                              *)
FullGradient ==
  LET full[t \in Tensors] ==
        LET users == {y \in visited : y > t /\ t \in ToSet(Operands(y))}
        IN  seed[t] + SumFunction([y \in users |->
                        Cardinality(Places(t, y, Len(Operands(y)))) * full[y]])
  IN  full

(* When a tensor is popped its gradient is already complete, and it stays   *)
(* so: no path is missed, counted twice or taken after the gradient was     *)
(* passed on.  At the end the leaves hold the derivative of the root added  *)
(* to the gradient they had.                                                *)
GradientsComplete ==
  phase = "propagate" =>
    LET waiting == IF tensors = <<>> THEN {} ELSE ToSet(Front(tensors))
        full == [t \in visited |-> FullGradient[t]]
    IN  \A t \in visited \ waiting : gradient[t] = full[t]

(* A seeded backward pass never meets a recorded result without a gradient, *)
(* the error apply_backward reports.                                        *)
NoNullGradient ==
  phase = "propagate" /\ tensors # <<>> /\ seed[root] > 0 =>
    (Kind(Last(tensors)) # "none" => gradient[Last(tensors)] > 0)

(* Nothing the library allocates is lost: while no call has failed, a live  *)
(* tensor is in the program's hands or recorded in the context of one that  *)
(* is, and the backward pass has destroyed the rest, broadcast copies       *)
(* included.                                                                *)
NoOrphans ==
  phase = "idle" /\ failures = 0 =>
    live \subseteq UNION {Reachable(c) : c \in client}

(* Between calls of the library the recording of contexts is off exactly if *)
(* the program asked for it, unless a call has failed.                      *)
ModeRestored ==
  phase = "idle" /\ failures = 0 => previous = depth /\ no_gradient = (depth > 0)

(* The operands of tensors not yet pushed to which topological_sort has not   *)
(* yet come, by their places.                                               *)
OperandsLeft ==
  UNION {{<<t, n>> : n \in {k \in DOMAIN Operands(t) :
                             \A i \in DOMAIN frames : frames[i].tensor = t => frames[i].next <= k}} :
         t \in DOMAIN nodes \ visited}

(* What tensor_backward has still to do: every operand is come to once, every  *)
(* tensor pushed and popped once.                                            *)
Work ==
  CASE phase = "sort" -> 2 * Cardinality(OperandsLeft) + 2 * Cardinality(DOMAIN nodes \ visited)
                         + Len(frames) + Len(tensors) + 2
    [] phase = "propagate" -> Len(tensors) + 1
    [] phase = "idle" -> 0

(* Whatever the library does while tensor_backward runs brings its end nearer, *)
(* errors included: on a graph in which tensors are shared the sort comes to   *)
(* an operand as often as it occurs in a context, and not once for every path  *)
(* from the root, of which there may be exponentially many.                    *)
BackwardProgresses == [][phase # "idle" => Work' < Work]_vars

(* tensor_backward returns. *)
BackwardTerminates == phase # "idle" ~> phase = "idle"
=============================================================================
