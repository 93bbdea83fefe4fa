------------------------------ MODULE Ownership -----------------------------
(***************************************************************************)
(* Who destroys the tensors that the functions composed of operations make  *)
(* on the way.  The machine executes a procedure of TensorProcedures,       *)
(* FunctionProcedures or NetworkProcedures as the C program does: operations *)
(* create tensors and record contexts (apply_operation_* and apply_function  *)
(* of tensor/function.c), any of them may report an error, the clauses       *)
(* behind `cleanup` destroy what they find, and the caller goes on with what *)
(* its pointers then point to.  At the end the program differentiates the    *)
(* result, if contexts were recorded, which destroys the graph, and destroys *)
(* what it holds itself.                                                     *)
(*                                                                         *)
(* A tensor is a position in `tensors`, never reused, so that a pointer to a *)
(* destroyed one stays recognisable; NULL is 0.                              *)
(***************************************************************************)
EXTENDS NetworkProcedures

CONSTANTS
  Calls,      (* the calls the program makes, one in a behaviour: the name   *)
              (* of the procedure, its tensors, options and results, and     *)
              (* whether the recording of contexts is off                    *)
  Layers,     (* the layers of the models among the arguments of the calls,  *)
              (* those of blocks included                                    *)
  Fragile     (* the procedures in which no operation reports an error but    *)
              (* those that its arguments make certain                        *)

(* The arguments of a procedure: blocks are made of layers.                   *)
IsArgued(name, options) == name \in BlockNames => options.layers \in Seq(Layers)

(* A layer has one of the types of transforms, and so have those of a block.  *)
ASSUME LayersAssumption ==
  \A layer \in Layers :
    /\ layer.type \in LayerTypes
    /\ layer.type = "ACTIVATION" => layer.options.type \in ActivationTypes
    /\ layer.type \in BlockTypes => layer.options.layers \in Seq(Layers)

(* What is called is one of the procedures, or a backward function.           *)
ASSUME CallsAssumption ==
  \A c \in Calls :
    /\ c.name \in NetworkProcedureNames \cup BackwardNames
    /\ IsArgued(c.name, c.options)
    /\ c.no_gradient \in BOOLEAN

VARIABLES
  tensors,    (* the tensors made so far                                     *)
  previous,   (* the nesting counter of with_no_gradient                     *)
  no_gradient,(* the flag it maintains                                       *)
  stack,      (* the frames of the functions that run, the innermost last    *)
  call,       (* the call the program makes                                  *)
  phase,      (* "run", then "release", then "over"                          *)
  fault       (* "null" or "freed" once such a pointer was followed          *)

vars == <<tensors, previous, no_gradient, stack, call, phase, fault>>

NULL == 0

Lookup(variables, v) == IF v \in DOMAIN variables THEN variables[v] ELSE NULL

Bind(variables, v, t) == [w \in DOMAIN variables \cup {v} |-> IF w = v THEN t ELSE variables[w]]

Alive(t) == tensors[t].alive

(* A tensor as tensor_create and the operation leave it. *)
Tensor(view, requires_gradient, persist, recorded, operands) ==
  [alive |-> TRUE, view |-> view, requires_gradient |-> requires_gradient, persist |-> persist,
   recorded |-> recorded, operands |-> IF recorded THEN operands ELSE <<>>, gradient |-> NULL]

Frame(name, context, variables, out) ==
  [name |-> name, context |-> context, variables |-> variables, pc |-> 1, out |-> out,
   failed |-> FALSE]

(* The program's own frame, whose only step is the call. *)
Main(c) == Wrapper(<<c.options>>)

ProcedureOf(frame) ==
  CASE frame.name = "main" -> Main(frame.context)
    [] frame.name \in BackwardNames -> FunctionBackward(frame.name, frame.context)
    [] OTHER -> NetworkProcedure(frame.name, frame.context)

(* What a procedure knows of its arguments, a function from parameters to    *)
(* tensors.                                                                  *)
Context(heap, arguments, options) ==
  LET given == {p \in DOMAIN arguments : arguments[p] # NULL}
  IN  [view |-> [p \in given |-> heap[arguments[p]].view],
       given |-> given,
       requires_gradient |-> {p \in given : heap[arguments[p]].requires_gradient},
       options |-> options]

(* The call's tensors are leaves that outlive it. *)
Leaf(argument) == Tensor(argument.view, argument.requires_gradient, argument.persist, FALSE, <<>>)

Arguments(c) ==
  [p \in UNION {c.arguments[n].parameters : n \in DOMAIN c.arguments} |->
     CHOOSE n \in DOMAIN c.arguments : p \in c.arguments[n].parameters]

MainFrame(c) ==
  Frame("main",
        [view |-> <<>>, given |-> {}, requires_gradient |-> {},
         options |-> Call(c.name, [p \in DOMAIN Arguments(c) |-> p], c.options, [r \in c.results |-> r])],
        Arguments(c), <<>>)

Init ==
  \E c \in Calls :
    /\ call = c
    /\ tensors = [n \in DOMAIN c.arguments |-> Leaf(c.arguments[n])]
    /\ previous = IF c.no_gradient THEN 1 ELSE 0
    /\ no_gradient = c.no_gradient
    /\ stack = <<MainFrame(c)>>
    /\ phase = "run"
    /\ fault = "none"

-----------------------------------------------------------------------------
(* Operations (function.c).  Each returns the tensors afterwards and its     *)
(* result, NULL if it reports an error: the shapes do not fit.               *)

Outcome(heap, result) == [heap |-> heap, result |-> result]
Refused == Outcome(<<>>, NULL)

(* The tensor is made, or the one the result points to is overwritten, whose *)
(* context is replaced if there is a new one.                                *)
Write(heap, result, t) ==
  IF result = NULL THEN Outcome(Append(heap, t), Len(heap) + 1)
  ELSE Outcome([heap EXCEPT ![result].requires_gradient = t.requires_gradient,
                            ![result].recorded = t.recorded \/ @,
                            ![result].operands = IF t.recorded THEN t.operands ELSE @],
               result)

(* apply_function: the operation becomes the context of its result if that   *)
(* requires a gradient and contexts are recorded.                            *)
Record(heap, result, view, requires_gradient, operands) ==
  Write(heap, result,
        Tensor(view, requires_gradient, FALSE, requires_gradient /\ ~no_gradient, operands))

(* tensor_expand: x itself if it has the shape. *)
Expanded(heap, result, x, shape) ==
  IF heap[x].view.shape = shape THEN Outcome(heap, x)
  ELSE IF ~(IsExpandable(heap[x].view.shape, shape) /\ ViewCreateOK(shape)) THEN Refused
  ELSE Record(heap, result, ViewExpand(heap[x].view, shape), heap[x].requires_gradient, <<x>>)

(* apply_operation_unary *)
AppliedUnary(heap, result, x) ==
  Record(heap, result, ViewCreateContiguous(heap[x].view.shape), heap[x].requires_gradient, <<x>>)

(* AS_OPERATION: another tensor on the same storage, never recorded. *)
Shared(heap, result, x) ==
  Write(heap, result, Tensor(heap[x].view, heap[x].requires_gradient, FALSE, FALSE, <<>>))

(* tensor_contiguous *)
Contiguous(heap, result, x) ==
  IF ViewIsContiguous(heap[x].view) THEN Outcome(heap, x) ELSE AppliedUnary(heap, result, x)

(* apply_operation_binary, once it is known what shapes the operands are     *)
(* broadcast to: the expanded copies stay if they are recorded.              *)
AppliedBinary(heap, result, x, y, x_shape, y_shape, view) ==
  LET x_broadcasted == Expanded(heap, NULL, x, x_shape)
      y_broadcasted == Expanded(x_broadcasted.heap, NULL, y, y_shape)
      requires_gradient == heap[x].requires_gradient \/ heap[y].requires_gradient
      kept == IF requires_gradient /\ ~no_gradient THEN y_broadcasted.heap ELSE heap
  IN  Record(kept, result, view, requires_gradient, <<x_broadcasted.result, y_broadcasted.result>>)

(* tensor_broadcast *)
AppliedElementwise(heap, result, x, y) ==
  LET shape == ViewBroadcast(heap[x].view.shape, heap[y].view.shape)
  IN  IF ViewBroadcastOK(heap[x].view.shape, heap[y].view.shape)
      THEN AppliedBinary(heap, result, x, y, shape, shape, ViewCreateContiguous(shape))
      ELSE Refused

(* tensor_broadcast_matrix_multiplication *)
AppliedMatrixProduct(heap, result, x, y) ==
  LET x_shape == heap[x].view.shape
      y_shape == heap[y].view.shape
      x_broadcasted == ViewBroadcastMatrixMultiplication(x_shape, y_shape)
      y_broadcasted == ViewBroadcastMatrixMultiplication(y_shape, x_shape)
  IN  IF MatrixMultiplicationOK(x_shape, y_shape)
      THEN AppliedBinary(heap, result, x, y, x_broadcasted, y_broadcasted,
                         ViewMatrixMultiplication(x_broadcasted, y_broadcasted))
      ELSE Refused

(* apply_operation_ternary: x with y, w with x, then w with y. *)
AppliedTernary(heap, result, w, x, y) ==
  LET ShapeOf(t) == heap[t].view.shape
      shape_xy == ViewBroadcast(ShapeOf(x), ShapeOf(y))
      shape == ViewBroadcast(ShapeOf(w), shape_xy)
      x_first == Expanded(heap, NULL, x, shape_xy)
      y_first == Expanded(x_first.heap, NULL, y, shape_xy)
      w_broadcasted == Expanded(y_first.heap, NULL, w, shape)
      x_broadcasted == Expanded(w_broadcasted.heap, NULL, x_first.result, shape)
      y_broadcasted == Expanded(x_broadcasted.heap, NULL, y_first.result, shape)
      requires_gradient == \E t \in {w, x, y} : heap[t].requires_gradient
      kept == IF requires_gradient /\ ~no_gradient THEN y_broadcasted.heap ELSE heap
  IN  IF ViewBroadcastOK(ShapeOf(x), ShapeOf(y)) /\ ViewBroadcastOK(ShapeOf(w), shape_xy)
      THEN Record(kept, result, ViewCreateContiguous(shape), requires_gradient,
                  <<w_broadcasted.result, x_broadcasted.result, y_broadcasted.result>>)
      ELSE Refused

(* apply_operation_reduction: x itself if nothing is reduced. *)
AppliedReduction(heap, result, x, given, keep_dimension) ==
  LET view == heap[x].view
      axes == IF given = <<>> THEN [n \in 1..Rank(view) |-> n - 1] ELSE given
      reduced == ViewReduce(view, axes, keep_dimension)
  IN  IF ~ViewReduceOK(view, axes) THEN Refused
      ELSE IF reduced.shape = view.shape THEN Outcome(heap, x)
      ELSE Record(heap, result, reduced, heap[x].requires_gradient, <<x>>)

(* apply_operation_structure *)
AppliedStructure(heap, result, x, type, arguments) ==
  LET view == heap[x].view
  IN  IF ~StructureOK(type, view, arguments) THEN Refused
      ELSE Record(heap, result, StructureView(type, view, arguments), heap[x].requires_gradient, <<x>>)

(* apply_operation_creation *)
AppliedCreation(heap, result, shape, requires_gradient, persist) ==
  Write(heap, result,
        Tensor(ViewCreateContiguous(shape), requires_gradient, persist,
               requires_gradient /\ ~no_gradient, <<>>))

Applied(step, in, result) ==
  CASE step.do = "unary" -> AppliedUnary(tensors, result, in[1])
    [] step.do = "binary" -> AppliedElementwise(tensors, result, in[1], in[2])
    [] step.do = "matrix product" -> AppliedMatrixProduct(tensors, result, in[1], in[2])
    [] step.do = "ternary" -> AppliedTernary(tensors, result, in[1], in[2], in[3])
    [] step.do = "reduction" -> AppliedReduction(tensors, result, in[1], step.axes, step.keep_dimension)
    [] step.do = "expand" -> Expanded(tensors, result, in[1], step.shape)
    [] step.do = "expand like" -> Expanded(tensors, result, in[1], tensors[in[2]].view.shape)
    [] step.do = "as" -> Shared(tensors, result, in[1])
    [] step.do = "contiguous" -> Contiguous(tensors, result, in[1])
    [] step.do = "structure" -> AppliedStructure(tensors, result, in[1], step.type, step.arguments)
    [] step.do = "creation" -> AppliedCreation(tensors, result, step.shape, step.requires_gradient,
                                               step.persist)

Operations == {"unary", "binary", "matrix product", "ternary", "reduction", "expand", "expand like",
               "as", "contiguous", "structure", "creation"}

-----------------------------------------------------------------------------
(* tensor_destroy, on tensors and fault as a value *)

Heap(h, f) == [tensors |-> h, fault |-> f]

Destroyed(state, t) ==
  IF state.fault # "none" \/ t = NULL THEN state
  ELSE IF ~state.tensors[t].alive THEN Heap(state.tensors, "freed")
  ELSE Heap([n \in DOMAIN state.tensors |->
               IF n \in {t, state.tensors[t].gradient}
               THEN [state.tensors[n] EXCEPT !.alive = FALSE]
               ELSE state.tensors[n]],
            "none")

(* What following the pointer t does. *)
Following(state, t) ==
  IF t = NULL THEN "null" ELSE IF ~state.tensors[t].alive THEN "freed" ELSE "none"

(* A condition: "true", "false" or the fault met before it is decided.        *)
(* tensors[1] || tensors[2] || ... are read up to the first that is true.     *)
NoneRequiresGradient(state, of) ==
  FoldLeft(LAMBDA result, t :
             IF result # "true" THEN result
             ELSE IF Following(state, t) # "none" THEN Following(state, t)
             ELSE IF state.tensors[t].requires_gradient THEN "false" ELSE "true",
           "true", of)

Truth(condition) == IF condition THEN "true" ELSE "false"

Test(state, condition, variables) ==
  LET of == [n \in DOMAIN condition.of |-> Lookup(variables, condition.of[n])]
  IN  CASE condition.test = "no requires_gradient" -> NoneRequiresGradient(state, of)
        [] condition.test = "untracked" ->
             IF NoneRequiresGradient(state, of) = "false" THEN Truth(no_gradient)
             ELSE NoneRequiresGradient(state, of)
        [] condition.test = "no_gradient" -> Truth(no_gradient)
        [] condition.test = "null" -> Truth(of[1] = NULL)
        [] condition.test = "shapes differ" ->
             IF NULL \in Range(of) THEN "true"
             ELSE IF \E n \in DOMAIN of : ~state.tensors[of[n]].alive THEN "freed"
             ELSE Truth(state.tensors[of[1]].view.shape # state.tensors[of[2]].view.shape)

(* condition || condition || ... *)
Decide(state, conditions, variables) ==
  FoldLeft(LAMBDA result, condition :
             IF result # "false" THEN result ELSE Test(state, condition, variables),
           Truth(conditions = Always), conditions)

DestroyItem(state, item, variables) ==
  LET t == Lookup(variables, item.variable)
      others == {Lookup(variables, item.unless[n]) : n \in DOMAIN item.unless}
  IN  IF t \in others THEN state ELSE Destroyed(state, t)

CleanupClause(state, clause, variables) ==
  LET decided == IF state.fault = "none" THEN Decide(state, clause.conditions, variables) ELSE "false"
  IN  CASE decided = "true" ->
             FoldLeft(LAMBDA s, item : DestroyItem(s, item, variables), state, clause.destroyed)
        [] decided = "false" -> state
        [] OTHER -> Heap(state.tensors, decided)

Cleanup(clauses, variables) ==
  FoldLeft(LAMBDA state, clause : CleanupClause(state, clause, variables),
           Heap(tensors, "none"), clauses)

-----------------------------------------------------------------------------
(* The steps of the innermost function *)

Top == stack[Len(stack)]
Below == SubSeq(stack, 1, Len(stack) - 1)
Body == ProcedureOf(Top).body

InBody == phase = "run" /\ ~Top.failed /\ Top.pc <= Len(Body)

Step == Body[Top.pc]

Value(v) == Lookup(Top.variables, v)

Ids(names) == [n \in DOMAIN names |-> Value(names[n])]

Proceed(variables) ==
  stack' = Append(Below, [Top EXCEPT !.variables = variables, !.pc = @ + 1])

Jump(variables) ==
  stack' = Append(Below, [Top EXCEPT !.variables = variables, !.failed = TRUE])

(* The tensors a step reads, and the one it overwrites. *)
Touched == {Ids(Step.in)[n] : n \in DOMAIN Step.in}
           \cup (IF Step.do \in Operations THEN {Value(Step.out)} ELSE {})

TouchesFreed == \E t \in Touched \ {NULL} : ~Alive(t)

(* A NULL argument is an error, not a fault: CHECK_NULL_ARGUMENT. *)
TakesNull == NULL \in {Ids(Step.in)[n] : n \in DOMAIN Step.in}

MayFail == \A n \in 2..Len(stack) : stack[n].name \notin Fragile

Halt(kind) ==
  /\ fault' = kind
  /\ phase' = "over"
  /\ UNCHANGED <<tensors, previous, no_gradient, stack, call>>

(* An operation that reads what is destroyed ends the program. *)
OperationSucceeds ==
  /\ InBody
  /\ Step.do \in Operations
  /\ ~TakesNull
  /\ IF TouchesFreed THEN Halt("freed")
     ELSE LET outcome == Applied(Step, Ids(Step.in), Value(Step.out))
          IN  /\ IF outcome.result = NULL
                 THEN Jump(Top.variables) /\ UNCHANGED tensors
                 ELSE Proceed(Bind(Top.variables, Step.out, outcome.result)) /\ tensors' = outcome.heap
              /\ UNCHANGED <<previous, no_gradient, call, phase, fault>>

(* The operation, or an allocation before it, reports an error with nothing  *)
(* assigned.                                                                 *)
OperationFails ==
  /\ InBody
  /\ Step.do \in Operations \cup {"store"}
  /\ TakesNull \/ (MayFail /\ ~TouchesFreed)
  /\ Jump(Top.variables)
  /\ UNCHANGED <<tensors, previous, no_gradient, call, phase, fault>>

AssignPointer ==
  /\ InBody
  /\ Step.do \in {"assign", "store"}
  /\ Proceed(Bind(Top.variables, Step.out, Value(Step.in[1])))
  /\ UNCHANGED <<tensors, previous, no_gradient, call, phase, fault>>

(* with_no_gradient *)
EnterNoGradient ==
  /\ previous' = previous + 1
  /\ no_gradient' = TRUE

LeaveNoGradient ==
  /\ previous' = IF previous > 0 THEN previous - 1 ELSE 0
  /\ no_gradient' = IF previous = 1 THEN FALSE ELSE no_gradient

SwitchMode ==
  /\ InBody
  /\ Step.do = "with_no_gradient"
  /\ IF Step.flag THEN EnterNoGradient ELSE LeaveNoGradient
  /\ Proceed(Top.variables)
  /\ UNCHANGED <<tensors, call, phase, fault>>

CleansUp ==
  /\ InBody
  /\ Step.do = "clean up"
  /\ LET state == Cleanup(Step.clauses, Top.variables)
     IN  IF state.fault # "none" THEN Halt(state.fault)
         ELSE /\ tensors' = state.tensors
              /\ Proceed(Top.variables)
              /\ UNCHANGED <<previous, no_gradient, call, phase, fault>>

ReportError ==
  /\ InBody
  /\ Step.do = "error"
  /\ Jump(Top.variables)
  /\ UNCHANGED <<tensors, previous, no_gradient, call, phase, fault>>

(* tensor_accumulate_gradient: the first gradient shares the storage of what  *)
(* is accumulated, later ones are sums.                                      *)
Accumulate ==
  /\ InBody
  /\ Step.do = "accumulate"
  /\ ~TakesNull
  /\ LET x == Value(Step.in[1])
         gradient == Value(Step.in[2])
         old == tensors[x].gradient
         outcome == IF old = NULL THEN Shared(tensors, NULL, gradient)
                    ELSE AppliedElementwise(tensors, NULL, old, gradient)
     IN  IF TouchesFreed THEN Halt("freed")
         ELSE /\ IF outcome.result = NULL
                 THEN Jump(Top.variables) /\ UNCHANGED tensors
                 ELSE /\ tensors' = [Destroyed(Heap(outcome.heap, "none"), old).tensors
                                       EXCEPT ![x].gradient = outcome.result]
                      /\ Proceed(Top.variables)
              /\ UNCHANGED <<previous, no_gradient, call, phase, fault>>

(* tensor_as_tensor returns an error with the mode still on. *)
AccumulateFails ==
  /\ InBody
  /\ Step.do = "accumulate"
  /\ TakesNull \/ (MayFail /\ ~TouchesFreed)
  /\ Jump(Top.variables)
  /\ IF ~TakesNull /\ tensors[Value(Step.in[1])].gradient = NULL THEN EnterNoGradient
     ELSE UNCHANGED <<previous, no_gradient>>
  /\ UNCHANGED <<tensors, call, phase, fault>>

CallProcedure ==
  /\ InBody
  /\ Step.do = "call"
  /\ LET arguments == [p \in DOMAIN Step.in |-> Value(Step.in[p])]
         context == Context(tensors, arguments, Step.options)
         variables == [v \in DOMAIN Step.in \cup DOMAIN Step.out |->
                         IF v \in DOMAIN Step.in THEN arguments[v] ELSE Value(Step.out[v])]
     IN  IF \E p \in DOMAIN arguments : arguments[p] # NULL /\ ~Alive(arguments[p])
         THEN Halt("freed")
         ELSE /\ stack' = Append(stack, Frame(Step.name, context, variables, Step.out))
              /\ UNCHANGED <<tensors, previous, no_gradient, call, phase, fault>>

(* The function has come to its end, or has jumped to its cleanup: it         *)
(* destroys what that says and returns.  What it has set through its pointers *)
(* stays set, error or not.                                                   *)
Return ==
  /\ phase = "run"
  /\ Len(stack) > 1
  /\ Top.failed \/ Top.pc > Len(Body)
  /\ LET state == Cleanup(ProcedureOf(Top).cleanup, Top.variables)
         caller == Below[Len(Below)]
         variables == [v \in DOMAIN caller.variables \cup Range(Top.out) |->
                         IF v \in Range(Top.out)
                         THEN Value(CHOOSE r \in DOMAIN Top.out : Top.out[r] = v)
                         ELSE caller.variables[v]]
         returned == [caller EXCEPT !.variables = variables,
                                    !.pc = IF Top.failed THEN @ ELSE @ + 1,
                                    !.failed = Top.failed]
     IN  IF state.fault # "none" THEN Halt(state.fault)
         ELSE /\ tensors' = state.tensors
              /\ stack' = Append(SubSeq(Below, 1, Len(Below) - 1), returned)
              /\ IF ProcedureOf(Top).leaves_mode THEN LeaveNoGradient
                 ELSE UNCHANGED <<previous, no_gradient>>
              /\ UNCHANGED <<call, phase, fault>>

Executes ==
  \/ OperationSucceeds \/ OperationFails \/ AssignPointer \/ SwitchMode \/ CleansUp \/ ReportError
  \/ Accumulate \/ AccumulateFails \/ CallProcedure \/ Return

-----------------------------------------------------------------------------
(* The program afterwards *)

Inputs == DOMAIN call.arguments

Results == {Value(r) : r \in call.results} \ {NULL}

MainReturns ==
  /\ phase = "run"
  /\ Len(stack) = 1
  /\ Top.failed \/ Top.pc > 1
  /\ phase' = "release"
  /\ UNCHANGED <<tensors, previous, no_gradient, stack, call, fault>>

(* What is reachable through contexts; operands are older than results,      *)
(* except where a result was overwritten.                                     *)
Reachable(from, operands) ==
  LET Grow(reached, n) == reached \cup UNION {Range(operands[t]) : t \in reached}
  IN  FoldLeft(Grow, from, [n \in DOMAIN tensors |-> n])

Operands == [t \in DOMAIN tensors |-> tensors[t].operands]

(* The operands to which the backward functions pass a gradient. *)
DifferentiatedOperands ==
  [t \in DOMAIN tensors |->
     SelectSeq(tensors[t].operands, LAMBDA o : tensors[o].requires_gradient)]

Graph == IF no_gradient THEN {} ELSE Reachable({r \in Results : tensors[r].recorded}, Operands)

(* What the program's variables point to at the end. *)
Held == {Value(v) : v \in DOMAIN Top.variables} \ {NULL}

(* The backward pass reads the graph of the result and destroys it, but for  *)
(* what persists.  Then the program destroys what it holds, its results, if   *)
(* they are left, and its arguments, as it does if the call failed: a result  *)
(* may be set by then.                                                       *)
Release ==
  /\ phase = "release"
  /\ phase' = "over"
  /\ LET given_up == IF Top.failed THEN Held ELSE Held \cup Graph
     IN  /\ fault' = IF \E t \in given_up : ~Alive(t) THEN "freed" ELSE fault
         /\ tensors' = [t \in DOMAIN tensors |->
                          IF \E o \in given_up : t \in {o, tensors[o].gradient}
                          THEN [tensors[t] EXCEPT !.alive = FALSE]
                          ELSE tensors[t]]
  /\ UNCHANGED <<previous, no_gradient, stack, call>>

(* The program has ended. *)
Over ==
  /\ phase = "over"
  /\ UNCHANGED vars

Next == Executes \/ MainReturns \/ Release \/ Over

Spec == Init /\ [][Next]_vars

-----------------------------------------------------------------------------
(* Properties *)

(* No function follows a pointer to a tensor that a function has destroyed:   *)
(* none is destroyed twice, used after it, or left in a graph that the        *)
(* backward pass follows, whichever operation failed and whatever tensors     *)
(* turned out to be the same one.                                             *)
NoUseAfterFree == fault # "freed"

(* No cleanup reads through a pointer that a failed step has left NULL. *)
NoNullDereference == fault # "null"

(* Nothing is lost: once the program has differentiated or destroyed the      *)
(* result, and destroyed its arguments, no tensor is left.  If the call       *)
(* failed, the same holds where no contexts were recorded.                    *)
NothingLost ==
  phase = "over" /\ fault = "none" =>
    \/ \A t \in DOMAIN tensors : ~Alive(t)
    \/ Top.failed /\ ~call.no_gradient /\ \E t \in Inputs : tensors[t].requires_gradient

(* A call that reports no error leaves the recording of contexts as it was.   *)
ModeRestored ==
  phase = "release" /\ ~Top.failed => no_gradient = call.no_gradient

(* Differentiating the result reaches every argument that requires a          *)
(* gradient and on which the result depends smoothly; the backward function   *)
(* of an operation gives each of its operands one.                            *)
GradientsReachInputs ==
  phase = "release" /\ ~Top.failed =>
    \A n \in Inputs :
      call.arguments[n].differentiable /\ tensors[n].requires_gradient =>
        \/ tensors[n].gradient # NULL
        \/ n \in Reachable(Results, DifferentiatedOperands)

(* A gradient has the shape of its tensor. *)
GradientsFit ==
  \A t \in DOMAIN tensors :
    Alive(t) /\ tensors[t].gradient # NULL =>
      tensors[tensors[t].gradient].view.shape = tensors[t].view.shape
=============================================================================
