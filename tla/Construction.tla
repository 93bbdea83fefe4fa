----------------------------- MODULE Construction ---------------------------
(***************************************************************************)
(* Who destroys what the constructors of nn/ have allocated when memory runs *)
(* out.  The machine executes the constructors of Constructors as a program  *)
(* calls them: any allocation may fail, the function that notices destroys    *)
(* what it lists and returns an error, and so do its callers.  A program that *)
(* has made a model saves it and loads another from the file.  At the end it  *)
(* destroys what it holds: what it made itself, results it was given, and     *)
(* arguments that a failed constructor has left to it.                       *)
(*                                                                         *)
(* An object is a position in `heap`, never reused; NULL is 0.               *)
(***************************************************************************)
EXTENDS ModelFiles, SequencesExt

CONSTANTS
  Programs,   (* the sequences of calls a program makes                       *)
  Fragile     (* the constructors in which no allocation fails                *)

VARIABLES
  heap,       (* the objects allocated so far                                *)
  file,       (* what model_save has written and model_load has not read      *)
  stack,      (* the frames of the functions that run, the innermost last     *)
  phase,      (* "run", "save", "load", "destroy", "over"                     *)
  fault       (* "freed", "null" or "type" once such a pointer was followed   *)

vars == <<heap, file, stack, phase, fault>>

NULL == 0

Lookup(variables, v) == IF v \in DOMAIN variables THEN variables[v] ELSE NULL

Bind(variables, v, x) == [w \in DOMAIN variables \cup {v} |-> IF w = v THEN x ELSE variables[w]]

Forget(variables, names) == [w \in DOMAIN variables |-> IF w \in names THEN NULL ELSE variables[w]]

Object(kind, owns, values) == [alive |-> TRUE, kind |-> kind, owns |-> owns, values |-> values]

Frame(name, context, variables) ==
  [name |-> name, context |-> context, variables |-> variables, pc |-> 1, failed |-> FALSE]

ConstructorOf(name, c) ==
  CASE name = "main" -> Constructor("none", c.options)
    [] name = "model_create" -> model_create(c)
    [] name = "block_create" -> block_create(c)
    [] name = "block_create_from_array" -> block_create_from_array(c)
    [] name = "layer_create" -> layer_create(c)
    [] name = "transform_create" -> transform_create(c)
    [] name = "linear_create" -> linear_create(c)
    [] name = "convolution_2d_create" -> convolution_2d_create(c)
    [] name = "pooling_2d_create" -> pooling_2d_create(c)
    [] name = "dropout_create" -> dropout_create(c)
    [] name = "batch_normalization_2d_create" -> batch_normalization_2d_create(c)
    [] name = "layer_normalization_create" -> layer_normalization_create(c)
    [] name = "reshape_create" -> reshape_create(c)
    [] name = "embedding_create" -> embedding_create(c)
    [] name = "embedding_initialize" -> embedding_initialize(c)
    [] name = "embedding_create_from_parameters" -> embedding_create_from_parameters(c)
    [] name = "vocabulary_count_create" -> vocabulary_count_create(c)
    [] name = "transformer_embedding_create" -> transformer_embedding_create(c)
    [] name = "causal_multihead_self_attention_create" -> causal_multihead_self_attention_create(c)
    [] name = "linear_layer_create" -> linear_layer_create(c)
    [] name = "linear_layer_create_from_parameters" -> linear_layer_create_from_parameters(c)
    [] name = "convolution_2d_layer_create" -> convolution_2d_layer_create(c)
    [] name = "convolution_2d_layer_create_from_parameters" -> convolution_2d_layer_create_from_parameters(c)
    [] name = "convolution_transpose_2d_layer_create" -> convolution_transpose_2d_layer_create(c)
    [] name = "convolution_transpose_2d_layer_create_from_parameters" ->
         convolution_transpose_2d_layer_create_from_parameters(c)
    [] name = "max_pooling_2d_layer_create" -> max_pooling_2d_layer_create(c)
    [] name = "average_pooling_2d_layer_create" -> average_pooling_2d_layer_create(c)
    [] name = "dropout_layer_create" -> dropout_layer_create(c)
    [] name = "batch_normalization_2d_layer_create" -> batch_normalization_2d_layer_create(c)
    [] name = "layer_normalization_layer_create" -> layer_normalization_layer_create(c)
    [] name = "reshape_layer_create" -> reshape_layer_create(c)
    [] name = "embedding_layer_create" -> embedding_layer_create(c)
    [] name = "embedding_layer_create_from_parameters" -> embedding_layer_create_from_parameters(c)
    [] name = "transformer_embedding_layer_create" -> transformer_embedding_layer_create(c)
    [] name = "transformer_embedding_layer_create_from_parameters" ->
         transformer_embedding_layer_create_from_parameters(c)
    [] name = "causal_multihead_self_attention_layer_create" ->
         causal_multihead_self_attention_layer_create(c)
    [] name = "causal_multihead_self_attention_layer_create_from_parameters" ->
         causal_multihead_self_attention_layer_create_from_parameters(c)
    [] name = "residual_block_layer_create" -> residual_block_layer_create(c)
    [] name = "block_layer_create" -> block_layer_create(c)
    [] name = "rectified_linear_activation_layer_create" -> rectified_linear_activation_layer_create(c)
    [] name = "sigmoid_activation_layer_create" -> sigmoid_activation_layer_create(c)
    [] name = "softmax_activation_layer_create" -> softmax_activation_layer_create(c)
    [] name = "logsoftmax_activation_layer_create" -> logsoftmax_activation_layer_create(c)
    [] name = "leaky_rectified_linear_activation_layer_create" ->
         leaky_rectified_linear_activation_layer_create(c)
    [] name = "tanh_activation_layer_create" -> tanh_activation_layer_create(c)
    [] name = "gelu_activation_layer_create" -> gelu_activation_layer_create(c)
    [] name = "activation_create" -> activation_create(c)
    [] name = "activation_function_create" -> activation_function_create(c)
    [] name = "softmax_create" -> softmax_create(c)
    [] name = "leaky_rectified_linear_create" -> leaky_rectified_linear_create(c)
    [] name = "rectified_linear_activation_create" -> rectified_linear_activation_create(c)
    [] name = "sigmoid_activation_create" -> sigmoid_activation_create(c)
    [] name = "tanh_activation_create" -> tanh_activation_create(c)
    [] name = "gelu_activation_create" -> gelu_activation_create(c)
    [] name = "softmax_activation_create" -> softmax_activation_create(c)
    [] name = "logsoftmax_activation_create" -> logsoftmax_activation_create(c)
    [] name = "leaky_rectified_linear_activation_create" -> leaky_rectified_linear_activation_create(c)
    [] name = "parameter_init_create" -> parameter_init_create(c)
    [] name = "init_create" -> init_create(c)
    [] name = "uniform_init_create" -> uniform_init_create(c)
    [] name = "normal_init_create" -> normal_init_create(c)
    [] name = "kaiming_init_create" -> kaiming_init_create(c)
    [] name = "glorot_init_create" -> glorot_init_create(c)
    [] name = "zeroes_parameter_init" -> zeroes_parameter_init(c)
    [] name = "ones_parameter_init" -> ones_parameter_init(c)
    [] name = "uniform_parameter_init" -> uniform_parameter_init(c)
    [] name = "normal_parameter_init" -> normal_parameter_init(c)
    [] name = "kaiming_uniform_parameter_init" -> kaiming_uniform_parameter_init(c)
    [] name = "kaiming_normal_parameter_init" -> kaiming_normal_parameter_init(c)
    [] name = "glorot_uniform_parameter_init" -> glorot_uniform_parameter_init(c)
    [] name = "glorot_normal_parameter_init" -> glorot_normal_parameter_init(c)
    [] name = "optimizer_create" -> optimizer_create(c)
    [] name = "algorithm_create" -> algorithm_create(c)
    [] name = "stochastic_gradient_descent_create" -> stochastic_gradient_descent_create(c)
    [] name = "rms_prop_create" -> rms_prop_create(c)
    [] name = "adam_create" -> adam_create(c)
    [] name = "optimizer_stochastic_gradient_descent_create" ->
         optimizer_stochastic_gradient_descent_create(c)
    [] name = "optimizer_rms_prop_create" -> optimizer_rms_prop_create(c)
    [] name = "optimizer_adam_create" -> optimizer_adam_create(c)

Init ==
  \E program \in Programs :
    /\ heap = <<>>
    /\ file = <<>>
    /\ stack = <<Frame("main", [given |-> {}, options |-> program], [v \in {} |-> NULL])>>
    /\ phase = "run"
    /\ fault = "none"

-----------------------------------------------------------------------------
(* Destruction, on heap and fault as a value *)

State(h, f) == [heap |-> h, fault |-> f]

(* The structures whose destructor does not test the pointer, and the maps     *)
(* whose entries are read without a test, by the name of the pointer.         *)
Untested ==
  {"embedding", "token_embedding", "position_embedding", "transformer_embedding", "momentum_buffer",
   "square_average", "average_gradient", "first_moment", "second_moment", "iteration"}

(* The kind of the member that a union's type selects.                        *)
ContentKind(union, type) ==
  CASE union = "transform" -> TransformKind(type)
    [] union = "activation_function" -> ActivationKind(type)
    [] union = "init" -> InitKind(type)
    [] union = "algorithm" -> AlgorithmKind(type)

Unions == {"transform", "activation_function", "init", "algorithm"}

(* Where a structure keeps the type of the union it owns. *)
TypeField(kind) ==
  CASE kind = "layer" -> "transform_type"
    [] kind = "activation" -> "activation_function_type"
    [] kind = "parameter_init" -> "init_type"
    [] kind = "optimizer" -> "algorithm_type"
    [] kind = "block" -> "depth"
    [] OTHER -> "none"

TypeOf(values, kind) == IF TypeField(kind) = "none" THEN Tag("none") ELSE values[TypeField(kind)]

DestructorOf(kind) ==
  CASE kind = "model" -> model_destroy
    [] kind = "block" -> block_destroy
    [] kind = "layer" -> layer_destroy
    [] kind = "linear" -> linear_destroy
    [] kind = "convolution_2d" -> convolution_2d_destroy
    [] kind = "dropout" -> dropout_destroy
    [] kind = "batch_normalization_2d" -> batch_normalization_2d_destroy
    [] kind = "layer_normalization" -> layer_normalization_destroy
    [] kind = "reshape" -> reshape_destroy
    [] kind = "embedding" -> embedding_destroy
    [] kind = "transformer_embedding" -> transformer_embedding_destroy
    [] kind = "causal_multihead_self_attention" -> causal_multihead_self_attention_destroy
    [] kind = "activation" -> activation_destroy
    [] kind = "leaky_rectified_linear" -> leaky_rectified_linear_destroy
    [] kind = "parameter_init" -> parameter_init_destroy
    [] kind = "uniform_init" -> uniform_init_destroy
    [] kind = "normal_init" -> normal_init_destroy
    [] kind = "kaiming_init" -> kaiming_init_destroy
    [] kind = "glorot_init" -> glorot_init_destroy
    [] kind = "optimizer" -> optimizer_destroy
    [] kind = "stochastic_gradient_descent" -> stochastic_gradient_descent_destroy
    [] kind = "rms_prop" -> rms_prop_destroy
    [] kind = "adam" -> adam_destroy
    [] kind \in {"pooling_2d", "softmax", "tensor", "memory", "map"} -> <<>>

(* What X_destroy(x, type) does: the fields one after the other, each to the   *)
(* bottom, then the structure itself.                                        *)
RECURSIVE Destroyed(_, _, _)
Destroyed(state, x, type) ==
  LET object == state.heap[x]
      Field(f) == Lookup(object.owns, f)
      DestroyField(s, f) ==
        IF s.fault # "none" THEN s
        ELSE IF Field(f) # NULL THEN Destroyed(s, Field(f), TypeOf(object.values, object.kind)[1])
        ELSE IF f \in Untested THEN State(s.heap, "null")
        ELSE s
      emptied ==
        CASE object.kind \in Unions ->
               IF ContentKind(object.kind, type) = "none" THEN state
               ELSE IF state.heap[Field("content")].kind # ContentKind(object.kind, type)
               THEN State(state.heap, "type")
               ELSE Destroyed(state, Field("content"), "none")
          [] object.kind = "layers" -> FoldLeft(DestroyField, state, [n \in DOMAIN object.owns |-> n])
          [] OTHER -> FoldLeft(DestroyField, state, DestructorOf(object.kind))
  IN  IF state.fault # "none" THEN state
      ELSE IF ~object.alive THEN State(state.heap, "freed")
      ELSE State([emptied.heap EXCEPT ![x].alive = FALSE], emptied.fault)

Freed(state, x) ==
  IF state.fault # "none" \/ x = NULL THEN state
  ELSE IF ~state.heap[x].alive THEN State(state.heap, "freed")
  ELSE State([state.heap EXCEPT ![x].alive = FALSE], "none")

DestroyItem(state, item, variables) ==
  LET x == Lookup(variables, item.variable)
  IN  IF item.shallow THEN Freed(state, x)
      ELSE IF x # NULL THEN Destroyed(state, x, item.tag)
      ELSE IF state.fault = "none" /\ item.variable \in Untested THEN State(state.heap, "null")
      ELSE state

Rescued(rescue, variables) ==
  FoldLeft(LAMBDA state, item : DestroyItem(state, item, variables), State(heap, "none"), rescue)

-----------------------------------------------------------------------------
(* The steps of the innermost function *)

Top == stack[Len(stack)]
Below == SubSeq(stack, 1, Len(stack) - 1)
Steps == ConstructorOf(Top.name, Top.context).steps

Running == phase = "run" /\ ~Top.failed /\ Top.pc <= Len(Steps)

Step == Steps[Top.pc]

Pointer(v) == Lookup(Top.variables, v)

Proceed(variables) ==
  stack' = Append(Below, [Top EXCEPT !.variables = variables, !.pc = @ + 1])

Halt(kind) ==
  /\ fault' = kind
  /\ phase' = "over"
  /\ UNCHANGED <<heap, file, stack>>

MayFail == \A n \in 2..Len(stack) : stack[n].name \notin Fragile

(* The new object: its fields point to what the variables point to, its other  *)
(* fields hold values of its own.                                            *)
Made(step) ==
  LET x == Len(heap) + 1
  IN  Object(step.kind,
             [f \in DOMAIN step.owns |-> Pointer(step.owns[f])],
             [f \in ValuesOf(step.kind) \cup DOMAIN step.tags |->
                IF f \in DOMAIN step.tags THEN step.tags[f] ELSE <<f, x>>])

AllocateSucceeds ==
  /\ Running
  /\ Step.do = "new"
  /\ IF Step.reads # "none" /\ ~heap[Pointer(Step.reads)].alive THEN Halt("freed")
     ELSE /\ IF Step.field = "none"
             THEN /\ heap' = Append(heap, Made(Step))
                  /\ Proceed(Bind(Top.variables, Step.out, Len(heap) + 1))
             ELSE /\ heap' = Append([heap EXCEPT ![Pointer(Step.out)].owns = Bind(@, Step.field, Len(heap) + 1)],
                                    Made(Step))
                  /\ Proceed(Top.variables)
          /\ UNCHANGED <<file, phase, fault>>

(* The function has destroyed what it lists and returns an error.             *)
Fails(rescue) ==
  LET state == Rescued(rescue, Top.variables)
  IN  IF state.fault # "none" THEN Halt(state.fault)
      ELSE /\ heap' = state.heap
           /\ stack' = Append(Below, [Top EXCEPT !.failed = TRUE])
           /\ UNCHANGED <<file, phase, fault>>

AllocateFails ==
  /\ Running
  /\ Step.do = "new"
  /\ MayFail
  /\ Fails(Step.rescue)

ReleaseVariables ==
  /\ Running
  /\ Step.do = "release"
  /\ LET state == FoldLeft(LAMBDA s, v : Freed(s, Pointer(v)), State(heap, "none"), Step.variables)
     IN  IF state.fault # "none" THEN Halt(state.fault)
         ELSE heap' = state.heap /\ Proceed(Top.variables) /\ UNCHANGED <<file, phase, fault>>

RetypeLayer ==
  /\ Running
  /\ Step.do = "retype"
  /\ heap' = [heap EXCEPT ![Pointer(Step.out)].values[Step.field] = Step.tag]
  /\ Proceed(Top.variables)
  /\ UNCHANGED <<file, phase, fault>>

CallConstructor ==
  /\ Running
  /\ Step.do = "call"
  /\ LET arguments == [p \in DOMAIN Step.in |-> Pointer(Step.in[p])]
         context == [given |-> {p \in DOMAIN arguments : arguments[p] # NULL}, options |-> Step.options]
     IN  stack' = Append(stack, Frame(Step.name, context, arguments))
  /\ UNCHANGED <<heap, file, phase, fault>>

(* The constructors that destroy what they were given when they fail.         *)
Consumes ==
  {"linear_layer_create_from_parameters", "convolution_2d_layer_create_from_parameters",
   "convolution_transpose_2d_layer_create_from_parameters"}

(* What is no longer the program's once the constructor has returned: the     *)
(* arguments that its result owns, or that it has destroyed.                  *)
TakenOver(in, failed) ==
  {in[p] : p \in {q \in DOMAIN in :
     IF failed THEN Top.name \in Consumes
     ELSE LET x == Lookup(Below[Len(Below)].variables, in[q])
          IN  x # NULL /\ heap[x].kind # "parameter_init"}}

ReturnSucceeds ==
  /\ phase = "run"
  /\ Len(stack) > 1
  /\ ~Top.failed
  /\ Top.pc > Len(Steps)
  /\ LET caller == Below[Len(Below)]
         step == ConstructorOf(caller.name, caller.context).steps[caller.pc]
         kept == IF Len(Below) = 1 THEN Forget(caller.variables, TakenOver(step.in, FALSE))
                 ELSE caller.variables
     IN  stack' = Append(SubSeq(Below, 1, Len(Below) - 1),
                         [caller EXCEPT !.pc = @ + 1,
                                        !.variables = Bind(kept, step.out,
                                          Pointer(ConstructorOf(Top.name, Top.context).out))])
  /\ UNCHANGED <<heap, file, phase, fault>>

(* The caller destroys what its step lists, and fails too; the program forgets *)
(* what has been destroyed.                                                  *)
ReturnFails ==
  /\ phase = "run"
  /\ Len(stack) > 1
  /\ Top.failed
  /\ LET caller == Below[Len(Below)]
         step == ConstructorOf(caller.name, caller.context).steps[caller.pc]
         state == Rescued(step.rescue, caller.variables)
         kept == IF Len(Below) = 1 THEN Forget(caller.variables, TakenOver(step.in, TRUE))
                 ELSE caller.variables
     IN  IF state.fault # "none" THEN Halt(state.fault)
         ELSE /\ heap' = state.heap
              /\ stack' = Append(SubSeq(Below, 1, Len(Below) - 1),
                                 [caller EXCEPT !.failed = TRUE, !.variables = kept])
              /\ UNCHANGED <<file, phase, fault>>

Executes ==
  \/ AllocateSucceeds \/ AllocateFails \/ ReleaseVariables \/ RetypeLayer \/ CallConstructor
  \/ ReturnSucceeds \/ ReturnFails

-----------------------------------------------------------------------------
(* Files *)

Concatenated(sequences) == FoldLeft(LAMBDA all, s : all \o s, <<>>, sequences)

(* X_save *)
RECURSIVE Written(_, _)
Written(x, type) ==
  LET object == heap[x]
      Entry(entry) ==
        LET y == Lookup(object.owns, entry.field)
        IN  CASE entry.how = "value" -> <<object.values[entry.field]>>
              [] entry.how = "tensor" ->
                   IF y = NULL THEN <<Tag("FALSE")>> ELSE <<Tag("TRUE")>> \o Written(y, "none")
              [] OTHER -> Written(y, TypeOf(object.values, object.kind)[1])
  IN  CASE object.kind \in Unions ->
             IF ContentKind(object.kind, type) = "none" THEN <<>>
             ELSE Written(object.owns["content"], "none")
        [] object.kind = "layers" ->
             Concatenated([n \in DOMAIN object.owns |-> Written(object.owns[n], "none")])
        [] OTHER ->
             LET order == Orders(object.kind).save
             IN  Concatenated([n \in DOMAIN order |-> Entry(order[n])])

(* X_load, on heap and file as a value, which allocates and reads.            *)
Reading(h, f, owns, values) == [heap |-> h, file |-> f, owns |-> owns, values |-> values]

Closed(state, kind) ==
  [heap |-> Append(state.heap, Object(kind, state.owns, state.values)), file |-> state.file,
   object |-> Len(state.heap) + 1]

RECURSIVE Loaded(_, _, _, _)
Loaded(h, f, kind, type) ==
  LET Owning(state, field, loaded) ==
        Reading(loaded.heap, loaded.file, Bind(state.owns, field, loaded.object), state.values)
      Entry(state, entry) ==
        CASE entry.how = "value" ->
               Reading(state.heap, Tail(state.file), state.owns,
                       Bind(state.values, entry.field, Head(state.file)))
          [] entry.how = "tensor" /\ Head(state.file) = Tag("FALSE") ->
               [state EXCEPT !.file = Tail(@)]
          [] entry.how = "tensor" /\ Head(state.file) # Tag("FALSE") ->
               Owning(state, entry.field, Loaded(state.heap, Tail(state.file), "tensor", Tag("none")))
          [] OTHER ->
               Owning(state, entry.field,
                      Loaded(state.heap, state.file, entry.kind, TypeOf(state.values, kind)))
      opened == Reading(h, f, NoFields, NoTags)
  IN  CASE kind \in Unions ->
             IF ContentKind(kind, type[1]) = "none" THEN Closed(opened, kind)
             ELSE Closed(Owning(opened, "content", Loaded(h, f, ContentKind(kind, type[1]), Tag("none"))), kind)
        [] kind = "layers" ->
             Closed(FoldLeft(LAMBDA state, n : Owning(state, n, Loaded(state.heap, state.file, "layer", Tag("none"))),
                             Reading(h, f, <<>>, NoTags), [n \in 1..type[2] |-> n]),
                    kind)
        [] OTHER -> Closed(FoldLeft(Entry, opened, Orders(kind).load), kind)

MainReturns ==
  /\ phase = "run"
  /\ Len(stack) = 1
  /\ Top.failed \/ Top.pc > Len(Steps)
  /\ phase' = IF ~Top.failed /\ Pointer("model") # NULL THEN "save" ELSE "destroy"
  /\ UNCHANGED <<heap, file, stack, fault>>

ModelSave ==
  /\ phase = "save"
  /\ file' = Written(Pointer("model"), "none")
  /\ phase' = "load"
  /\ UNCHANGED <<heap, stack, fault>>

ModelLoad ==
  /\ phase = "load"
  /\ LET loaded == Loaded(heap, file, "model", Tag("none"))
     IN  /\ heap' = loaded.heap
         /\ file' = loaded.file
         /\ Proceed(Bind(Top.variables, "loaded", loaded.object))
  /\ phase' = "destroy"
  /\ UNCHANGED fault

(* The program destroys one of the things it holds.                           *)
Held == {v \in DOMAIN Top.variables : Top.variables[v] # NULL}

DestroyOne ==
  /\ phase = "destroy"
  /\ Held # {}
  /\ LET v == CHOOSE w \in Held : TRUE
         state == Destroyed(State(heap, "none"), Top.variables[v], "none")
     IN  IF state.fault # "none" THEN Halt(state.fault)
         ELSE /\ heap' = state.heap
              /\ stack' = <<[Top EXCEPT !.variables = Forget(@, {v})]>>
              /\ UNCHANGED <<file, phase, fault>>

Ends ==
  /\ phase = "destroy"
  /\ Held = {}
  /\ phase' = "over"
  /\ UNCHANGED <<heap, file, stack, fault>>

Over ==
  /\ phase = "over"
  /\ UNCHANGED vars

Next == Executes \/ MainReturns \/ ModelSave \/ ModelLoad \/ DestroyOne \/ Ends \/ Over

Spec == Init /\ [][Next]_vars

-----------------------------------------------------------------------------
(* Properties *)

(* Whichever allocation fails, no function destroys what another has          *)
(* destroyed, follows NULL, or destroys the member of a union that is not     *)
(* there.                                                                    *)
PointersValid == fault = "none"

(* Whichever allocation fails, nothing is lost: when the program has          *)
(* destroyed what it holds, no object is left.                               *)
NothingLost == phase = "over" /\ fault = "none" => \A x \in DOMAIN heap : ~heap[x].alive

(* What can be read from a structure, by the path to it.                      *)
RECURSIVE Described(_, _)
Described(x, path) ==
  LET object == heap[x]
      Named(f) == IF object.kind = "layers" THEN <<"layers", f>> ELSE <<f, 0>>
  IN  {<<path, Tag(object.kind)>>}
      \cup {<<Append(path, <<f, 0>>), object.values[f]>> : f \in DOMAIN object.values}
      \cup UNION {Described(object.owns[f], Append(path, Named(f))) :
                    f \in {g \in DOMAIN object.owns : object.owns[g] # NULL}}

(* A model that is loaded from what a model was saved to is the same: every    *)
(* layer, tensor and setting is in its place, and nothing is left in the file. *)
LoadedEqualsSaved ==
  phase = "destroy" /\ ~Top.failed /\ {"model", "loaded"} \subseteq Held =>
    /\ file = <<>>
    /\ Described(Pointer("loaded"), <<>>) = Described(Pointer("model"), <<>>)
=============================================================================
