------------------------------- MODULE Training -------------------------------
(***************************************************************************)
(* nn/train.c with what it calls on a model: zero_gradient_model,           *)
(* clip_gradient_norm_model and update_model of nn/optimizer.c and          *)
(* model_inference of nn/layer.c.  One action per call that fit makes; any   *)
(* of them may report an error, upon which fit returns at once.             *)
(*                                                                         *)
(* The value of a parameter is the number of times it was updated.  A cost   *)
(* is the batch and the values it was computed from, and a gradient the      *)
(* sequence of the costs that were added up in it, <<>> standing for NULL.   *)
(* What happens to the tensors between a parameter and the cost is the       *)
(* matter of Autograd and Ownership.                                        *)
(***************************************************************************)
EXTENDS Integers, FiniteSets, SequencesExt

CONSTANTS
  Blocks,      (* Blocks[b]: the layers of the block b, each with its type    *)
               (* and its name or, for a block in a layer, that block         *)
  Root,        (* the block of the model                                     *)
  Epochs, NumberOfSamples, BatchSize,
  TrainPercent, ValidPercent, TestPercent,
  Generate, Checkpoint, ClipGradientNorm,   (* the arguments of fit that may *)
                                            (* be NULL or false: are they    *)
                                            (* given?                        *)
  MaxFailing   (* bound: parameters whose update fails, until a failure was  *)
               (* lost                                                       *)

ASSUME TrainingAssumption ==
  /\ {Epochs, NumberOfSamples, BatchSize, TrainPercent, ValidPercent, TestPercent, MaxFailing} \subseteq Nat
  /\ BatchSize > 0
  /\ TrainPercent + ValidPercent + TestPercent <= 100
  /\ {Generate, Checkpoint, ClipGradientNorm} \subseteq BOOLEAN

VARIABLES
  phase,        (* the call that fit makes next                              *)
  dataset,      (* "TRAIN", "VALID" or "TEST": the loop it is in              *)
  epoch, j,     (* fit's counters; in the loop over the test set j is its i   *)
  indicies,     (* the order of the batches                                  *)
  held,         (* the tensors made and not destroyed: those that fit's       *)
                (* variables point to, and "graph", those recorded between    *)
  recorded,     (* whether the cost has a context                            *)
  cost,         (* what it was computed from                                 *)
  value, gradient,           (* of the parameters                            *)
  inference,                 (* of the layers that have this flag            *)
  no_gradient, previous,     (* as with_no_gradient keeps them               *)
  updated,      (* history: the gradients that the last update_model used    *)
  swallowed     (* history: update_model has lost an error                   *)

place == <<dataset, epoch, j, indicies>>
pass == <<held, recorded, cost>>
parameters == <<value, gradient, updated, swallowed>>
modes == <<inference, no_gradient, previous>>
vars == <<phase, place, pass, parameters, modes>>

-----------------------------------------------------------------------------
(* The tree of layers *)

IsBlock(layer) == layer.type \in {"BLOCK", "RESIDUAL_BLOCK"}

(* The layers of a model are allocated one by one, a block in a layer before  *)
(* that layer: no block is within itself, and no layer is at two places.       *)
ASSUME NetworkAssumption ==
  /\ Root \in DOMAIN Blocks /\ IsFiniteSet(DOMAIN Blocks)
  /\ \A b \in DOMAIN Blocks : Blocks[b] \in Seq(Range(Blocks[b]))
  /\ \E height \in [DOMAIN Blocks -> 0..Cardinality(DOMAIN Blocks)] :
       \A b \in DOMAIN Blocks : \A layer \in Range(Blocks[b]) :
         IsBlock(layer) => layer.block \in DOMAIN Blocks /\ height[layer.block] < height[b]
  /\ \A a, b \in DOMAIN Blocks : \A m \in DOMAIN Blocks[a], n \in DOMAIN Blocks[b] :
       Blocks[a][m] = Blocks[b][n] => a = b /\ m = n

(* The layers a loop reaches that calls itself for the blocks of a block. *)
LayersOf[b \in DOMAIN Blocks] ==
  UNION {IF IsBlock(layer) THEN LayersOf[layer.block] ELSE {layer} : layer \in Range(Blocks[b])}

(* The tensors that update_linear and the others pass to the optimizer, in    *)
(* this order.                                                              *)
Fields(type) ==
  CASE type = "LINEAR" -> <<"weights", "bias">>
    [] type \in {"CONVOLUTION_2D", "CONVOLUTION_TRANSPOSE_2D"} -> <<"kernel", "bias">>
    [] type \in {"BATCH_NORMALIZATION_2D", "LAYER_NORMALIZATION"} -> <<"weights", "bias">>
    [] type = "EMBEDDING" -> <<"weights">>
    [] type = "TRANSFORMER_EMBEDDING" -> <<"position_weights", "token_weights">>
    [] type = "CAUSAL_MULTIHEAD_SELF_ATTENTION" ->
         <<"input_weights", "input_bias", "output_weights", "output_bias">>
    [] OTHER -> <<>>

ParametersOf(layer) == {<<layer.name, field>> : field \in Range(Fields(layer.type))}
Parameters == UNION {ParametersOf(layer) : layer \in LayersOf[Root]}

HasInferenceFlag(layer) ==
  layer.type \in {"DROPOUT", "BATCH_NORMALIZATION_2D", "CAUSAL_MULTIHEAD_SELF_ATTENTION"}

-----------------------------------------------------------------------------
(* Modes *)

with_no_gradient(flag) ==
  IF flag THEN previous' = previous + 1 /\ no_gradient' = TRUE
  ELSE /\ previous' = IF previous > 0 THEN previous - 1 ELSE 0
       /\ no_gradient' = (no_gradient /\ previous # 1)

(* The layers whose flag block_inference sets: it does not enter the blocks   *)
(* of residual layers.                                                      *)
block_inference[b \in DOMAIN Blocks] ==
  UNION {IF layer.type = "BLOCK" THEN block_inference[layer.block]
         ELSE IF HasInferenceFlag(layer) THEN {layer.name}
         ELSE {} : layer \in Range(Blocks[b])}

(* Mutant: the layers in blocks are forgotten. *)
InferenceOfOuterLayers(flag) ==
  LET outer == {layer.name : layer \in {l \in Range(Blocks[Root]) : HasInferenceFlag(l)}} IN
  inference' = [l \in DOMAIN inference |-> IF l \in outer THEN flag ELSE inference[l]]

model_inference(flag) ==
  inference' = [l \in DOMAIN inference |->
                  IF l \in block_inference[Root] THEN flag ELSE inference[l]]

-----------------------------------------------------------------------------
(* Gradients and updates *)

(* The parameters whose gradients it destroys. *)
zero_gradient_block[b \in DOMAIN Blocks] ==
  UNION {IF IsBlock(layer) THEN zero_gradient_block[layer.block] ELSE ParametersOf(layer) :
         layer \in Range(Blocks[b])}

(* Mutant: blocks in layers are skipped. *)
ZeroesOuterLayers(g) ==
  LET outer == {layer \in Range(Blocks[Root]) : ~IsBlock(layer)} IN
  [p \in DOMAIN g |-> IF \E layer \in outer : p \in ParametersOf(layer) THEN <<>> ELSE g[p]]

zero_gradient_model(g) ==
  [p \in DOMAIN g |-> IF p \in zero_gradient_block[Root] THEN <<>> ELSE g[p]]

(* The optimizer fails on a gradient that is NULL. *)
update_parametersOK(p, failing) == p \notin failing /\ gradient[p] # <<>>

(* The parameters of a layer up to the first that is not updated. *)
update_layer(layer, failing) ==
  LET fields == Fields(layer.type)
      Parameter(n) == <<layer.name, fields[n]>>
      wrong == {n \in DOMAIN fields : ~update_parametersOK(Parameter(n), failing)}
  IN  [updated |-> {Parameter(n) : n \in {k \in DOMAIN fields : \A m \in wrong : k < m}},
       failed |-> {Parameter(n) : n \in {k \in wrong : \A m \in wrong : k <= m}},
       error |-> wrong # {}]

(* What a loop over layers returns, given their results: the error of a layer *)
(* is overwritten by what the next one returns, if that has parameters; only  *)
(* that of a block is returned at once.                                       *)
LoopResult(layers, result) ==
  LET returning == {n \in DOMAIN layers : IsBlock(layers[n]) /\ result[n].error}
      reached == {n \in DOMAIN layers : \A m \in returning : n <= m}
      assigning == {n \in reached : IsBlock(layers[n]) \/ Fields(layers[n].type) # <<>>}
      results == {result[n] : n \in reached}
  IN  [updated |-> UNION {r.updated : r \in results},
       failed |-> UNION {r.failed : r \in results},
       error |-> \/ returning # {}
                 \/ \E n \in assigning : /\ \A m \in assigning : m <= n
                                         /\ ~IsBlock(layers[n]) /\ result[n].error]

update_block(failing) ==
  LET of[b \in DOMAIN Blocks] ==
        LoopResult(Blocks[b],
          [n \in DOMAIN Blocks[b] |->
             IF IsBlock(Blocks[b][n]) THEN of[Blocks[b][n].block] ELSE update_layer(Blocks[b][n], failing)])
  IN  of

update_model(failing) == update_block(failing)[Root]

-----------------------------------------------------------------------------
(* The splits *)

iterations == NumberOfSamples \div BatchSize
train_iterations == (TrainPercent * iterations) \div 100
valid_iterations == (ValidPercent * iterations) \div 100
test_iterations == (TestPercent * iterations) \div 100

First(set) == CASE set = "TRAIN" -> 0
                [] set = "VALID" -> train_iterations
                [] set = "TEST" -> train_iterations + valid_iterations

End(set) == CASE set = "TRAIN" -> train_iterations
              [] set = "VALID" -> train_iterations + valid_iterations
              [] set = "TEST" -> train_iterations + valid_iterations + test_iterations

NoCost == [batch |-> -1, value |-> <<>>]

(* fit enters its loop; shuffle_array may have put the batches in any order. *)
Init ==
  /\ phase = "epoch"
  /\ dataset = "TRAIN"
  /\ epoch = 1
  /\ j = 0
  /\ indicies \in {s \in [1..iterations -> 0..iterations - 1] : IsInjective(s)}
  /\ held = {}
  /\ recorded = FALSE
  /\ cost = NoCost
  /\ value = [p \in Parameters |-> 0]
  /\ gradient = [p \in Parameters |-> <<>>]
  /\ inference = [l \in {layer.name : layer \in {k \in LayersOf[Root] : HasInferenceFlag(k)}} |-> FALSE]
  /\ no_gradient = FALSE
  /\ previous = 0
  /\ updated = {}
  /\ swallowed = FALSE

Enter(set) == dataset' = set /\ j' = First(set)

EpochBegins ==
  /\ phase = "epoch"
  /\ epoch <= Epochs
  /\ phase' = "iterate"
  /\ Enter("TRAIN")
  /\ UNCHANGED <<epoch, indicies, pass, parameters, modes>>

Iterate ==
  /\ phase = "iterate"
  /\ j < End(dataset)
  /\ phase' = IF dataset = "TRAIN" THEN "zero_gradient" ELSE "dataloader"
  /\ UNCHANGED <<place, pass, parameters, modes>>

ZeroGradient ==
  /\ phase = "zero_gradient"
  /\ phase' = "dataloader"
  /\ gradient' = zero_gradient_model(gradient)
  /\ UNCHANGED <<place, pass, value, updated, swallowed, modes>>

Dataloader ==
  /\ phase = "dataloader"
  /\ phase' = "forward"
  /\ held' = held \union {"x", "y"}
  /\ UNCHANGED <<place, recorded, cost, parameters, modes>>

ModelForward ==
  /\ phase = "forward"
  /\ phase' = "criterion"
  /\ held' = held \union {"y_pred"} \union (IF no_gradient THEN {} ELSE {"graph"})
  /\ UNCHANGED <<place, recorded, cost, parameters, modes>>

Criterion ==
  /\ phase = "criterion"
  /\ phase' = "metrics"
  /\ held' = held \union {"cost"}
  /\ recorded' = ~no_gradient
  /\ cost' = [batch |-> indicies[j + 1] * BatchSize, value |-> value]
  /\ UNCHANGED <<place, parameters, modes>>

(* In the training loop between with_no_gradient(true) and (false). *)
Metrics ==
  /\ phase = "metrics"
  /\ phase' = IF dataset # "TRAIN" THEN "release" ELSE IF ClipGradientNorm THEN "clip" ELSE "backward"
  /\ no_gradient' = (no_gradient /\ ~(dataset = "TRAIN" /\ previous = 0))
  /\ UNCHANGED <<place, pass, parameters, inference, previous>>

(* The gradients that are there are brought below the threshold.  That is     *)
(* before the backward pass, so there is none in this program.               *)
ClipGradientNormModel ==
  /\ phase = "clip"
  /\ phase' = "backward"
  /\ gradient' = [p \in Parameters |->
                    [n \in DOMAIN gradient[p] |-> [gradient[p][n] EXCEPT !.clipped = TRUE]]]
  /\ UNCHANGED <<place, pass, value, updated, swallowed, modes>>

(* Every parameter is an operand in the graph of the cost.  The pass destroys *)
(* what does not persist of the graph that it finds.                         *)
Backward ==
  /\ phase = "backward"
  /\ phase' = "update"
  /\ held' = held \ (IF recorded THEN {"graph", "y_pred", "cost"} ELSE {"cost"})
  /\ gradient' = IF recorded THEN [p \in Parameters |-> Append(gradient[p], [of |-> cost, clipped |-> FALSE])]
                 ELSE gradient
  /\ UNCHANGED <<place, recorded, cost, value, updated, swallowed, modes>>

(* A failure after the with_no_gradient(true) of an optimizer leaves the mode  *)
(* on; adam may fail early, before it.                                        *)
UpdateModel ==
  /\ phase = "update"
  /\ \E failing \in IF swallowed THEN {{}} ELSE UNION {kSubset(n, Parameters) : n \in 0..MaxFailing} :
       LET s == update_model(failing) IN
       /\ phase' = IF s.error THEN "failed" ELSE "release"
       /\ value' = [p \in DOMAIN value |-> IF p \in s.updated THEN value[p] + 1 ELSE value[p]]
       /\ updated' = {<<p, gradient[p]>> : p \in s.updated}
       /\ swallowed' = (swallowed \/ (s.failed # {} /\ ~s.error))
       /\ \E early \in SUBSET failing :
            LET left == s.failed \ early
            IN  /\ previous' = previous + Cardinality(left)
                /\ no_gradient' = (no_gradient \/ left # {})
  /\ UNCHANGED <<place, pass, gradient, inference>>

Release ==
  /\ phase = "release"
  /\ phase' = "iterate"
  /\ held' = held \ (IF dataset = "TRAIN" THEN {"x", "y"} ELSE {"x", "y", "y_pred", "cost"})
  /\ j' = j + 1
  /\ UNCHANGED <<dataset, epoch, indicies, recorded, cost, parameters, modes>>

(* generate is the program's: that of example/transformer.c turns inference   *)
(* on and off again.                                                        *)
TrainLoopEnds ==
  /\ phase = "iterate"
  /\ dataset = "TRAIN"
  /\ j >= End("TRAIN")
  /\ phase' = "checkpoint"
  /\ IF Generate THEN model_inference(FALSE) ELSE UNCHANGED inference
  /\ UNCHANGED <<place, pass, parameters, no_gradient, previous>>

CheckpointAndValidate ==
  /\ phase = "checkpoint"
  /\ phase' = "iterate"
  /\ with_no_gradient(TRUE)
  /\ model_inference(TRUE)
  /\ Enter("VALID")
  /\ UNCHANGED <<epoch, indicies, pass, parameters>>

ValidLoopEnds ==
  /\ phase = "iterate"
  /\ dataset = "VALID"
  /\ j >= End("VALID")
  /\ phase' = "epoch"
  /\ epoch' = epoch + 1
  /\ model_inference(FALSE)
  /\ with_no_gradient(FALSE)
  /\ UNCHANGED <<dataset, j, indicies, pass, parameters>>

TestBegins ==
  /\ phase = "epoch"
  /\ epoch > Epochs
  /\ phase' = "iterate"
  /\ with_no_gradient(TRUE)
  /\ model_inference(TRUE)
  /\ Enter("TEST")
  /\ UNCHANGED <<epoch, indicies, pass, parameters>>

(* The flags of the layers stay as they are. *)
TestLoopEnds ==
  /\ phase = "iterate"
  /\ dataset = "TEST"
  /\ j >= End("TEST")
  /\ phase' = "returned"
  /\ with_no_gradient(FALSE)
  /\ UNCHANGED <<place, pass, parameters, inference>>

(* A call reports an error, and fit returns without undoing anything. *)
FitFails ==
  /\ \/ phase \in {"zero_gradient", "dataloader", "forward", "criterion", "metrics", "clip", "backward"}
     \/ phase = "iterate" /\ dataset = "TRAIN" /\ j >= End("TRAIN") /\ Generate
     \/ phase = "checkpoint" /\ Checkpoint
  /\ phase' = "failed"
  /\ IF phase = "metrics" /\ dataset = "TRAIN" THEN with_no_gradient(TRUE)
     ELSE UNCHANGED <<no_gradient, previous>>
  /\ UNCHANGED <<place, pass, parameters, inference>>

Returned == phase \in {"returned", "failed"} /\ UNCHANGED vars

Next ==
  \/ EpochBegins \/ Iterate \/ ZeroGradient \/ Dataloader \/ ModelForward \/ Criterion \/ Metrics
  \/ ClipGradientNormModel \/ Backward \/ UpdateModel \/ Release \/ TrainLoopEnds
  \/ CheckpointAndValidate \/ ValidLoopEnds \/ TestBegins \/ TestLoopEnds \/ FitFails \/ Returned

Spec == Init /\ [][Next]_vars

-----------------------------------------------------------------------------
(* Properties *)

(* When an iteration fetches its batch, no tensor of an earlier one is left,   *)
(* and the modes are those of its data set: operations are recorded and        *)
(* dropout and batch statistics are on exactly in training, whatever was run   *)
(* before.  Residual blocks are excepted, whose layers keep their flags, and   *)
(* so is what follows an update that failed without notice.                   *)
IterationsStartClean ==
  phase = "dataloader" /\ ~swallowed =>
    /\ held = {}
    /\ no_gradient = (dataset # "TRAIN")
    /\ \A layer \in LayersOf[Root] :
         HasInferenceFlag(layer) /\ layer.name \in block_inference[Root]
           => inference[layer.name] = (dataset # "TRAIN")

(* update_model changes every parameter once, by the gradient of this          *)
(* iteration's cost alone, computed at the values it changes: nothing is left  *)
(* over from earlier iterations, in whatever block the parameter is.  Only a   *)
(* failure that was lost lets parameters stay behind.                         *)
FreshUpdates ==
  phase = "release" /\ dataset = "TRAIN" =>
    /\ \A u \in updated :
         /\ Len(u[2]) = 1
         /\ u[2][1].of = cost
         /\ value[u[1]] = cost.value[u[1]] + 1
    /\ cost.batch = indicies[j + 1] * BatchSize
    /\ ~swallowed => {u[1] : u \in updated} = Parameters
=============================================================================
