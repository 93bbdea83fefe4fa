-------------------------- MODULE NetworkProcedures --------------------------
(***************************************************************************)
(* The functions of nn/ that are composed of operations on tensors, as        *)
(* procedures: costs and metrics (cost.c, metric.c), the forward functions of  *)
(* activations and layers (activation.c, layer.c), and what the optimizers do  *)
(* to one parameter (optimizer.c).                                            *)
(*                                                                         *)
(* A layer is a record of its type, of the names the block's procedure gives   *)
(* to the layer's tensors, and of what it passes on to the function it calls.  *)
(* A map of an optimizer is, for one parameter, a variable: NULL, or the       *)
(* tensor kept under the parameter's id.                                      *)
(***************************************************************************)
EXTENDS FunctionProcedures

tensor_max(x, y, z) == Call("tensor_max", [x |-> x, y |-> y], NoOptions, [z |-> z])
tensor_absolute(x, y) == Call("tensor_absolute", [x |-> x], NoOptions, [y |-> y])
tensor_gelu(x, y) == Call("tensor_gelu", [x |-> x], NoOptions, [y |-> y])
tensor_leaky_rectified_linear(x, y) ==
  Call("tensor_leaky_rectified_linear", [x |-> x], NoOptions, [y |-> y])
tensor_logsoftmax(x, y, axis) == Call("tensor_logsoftmax", [x |-> x], [axis |-> axis], [y |-> y])
tensor_argument_maximum(x, y, axis, keep_dimension) ==
  Call("tensor_argument_maximum", [x |-> x], [axis |-> axis, keep_dimension |-> keep_dimension],
       [y |-> y])
tensor_magnitude(x, y) == Call("tensor_magnitude", [x |-> x], NoOptions, [y |-> y])
tensor_as_tensor(x, y) == Call("tensor_as_tensor", [x |-> x], NoOptions, [y |-> y])

(* An error leaves the mode switched on. *)
AsTensor(c) == Wrapper(<<WithNoGradient(TRUE), As("x", "y"), WithNoGradient(FALSE)>>)

(* A reduction over no axes is one over all. *)
Every == <<>>

-----------------------------------------------------------------------------
(* Costs *)

(* The mean of -log_softmax(y_prediction) where the label is y_true. *)
CategoricalCrossEntropy(c) ==
  LET y == Shape(c, "y_prediction")
  IN  Procedure(
        If(Len(y) # 2, <<Error>>)
        \o <<tensor_arange("counter", y[2]),
             tensor_reshape("counter", "counter_reshaped", <<1, y[2]>>),
             tensor_reshape("y_true", "y_i", <<y[1], 1>>),
             tensor_compare_equal("counter_reshaped", "y_i", "y"),
             tensor_logsoftmax("y_prediction", "cost_i", -1),
             tensor_multiplication("cost_i", "y", "cost_j"),
             tensor_summation("cost_j", "cost_k", <<Len(y) - 1>>, FALSE),
             tensor_negation("cost_k", "cost_l"),
             tensor_mean("cost_l", "cost", Every, FALSE)>>,
        <<When(Always,
               <<Free("counter"), Free("counter_reshaped"), FreeUnless("y_i", <<"y_true">>)>>),
          When(<<Untracked(<<"y_prediction">>)>>,
               FreeAll(<<"y", "cost_i", "cost_j", "cost_k", "cost_l">>))>>)

(* -y_true log(y_prediction) - (1 - y_true) log(1 - y_prediction) *)
BinaryCrossEntropy(c) ==
  Procedure(
    <<constant("one_constant"),
      tensor_logarithm("y_prediction", "cost_i"),
      tensor_multiplication("y_true", "cost_i", "cost_j"),
      tensor_negation("cost_j", "cost_k"),
      tensor_subtraction("one_constant", "y_true", "cost_l"),
      tensor_subtraction("one_constant", "y_prediction", "cost_m"),
      tensor_logarithm("cost_m", "cost_n"),
      tensor_multiplication("cost_l", "cost_n", "cost_o"),
      tensor_subtraction("cost_k", "cost_o", "cost_p"),
      tensor_mean("cost_p", "cost", Every, FALSE)>>,
    <<When(Always, <<Free("one_constant")>>),
      When(<<Untracked(<<"y_prediction">>)>>,
           FreeAll(<<"cost_i", "cost_j", "cost_k", "cost_l", "cost_m", "cost_n", "cost_o",
                     "cost_p">>))>>)

(* max(y_prediction, 0) - y_true y_prediction + log(1 + exp(-|y_prediction|)) *)
BinaryCrossEntropyLogits(c) ==
  Procedure(
    <<constant("zero_constant"),
      constant("one_constant"),
      tensor_max("y_prediction", "zero_constant", "cost_i"),
      tensor_multiplication("y_true", "y_prediction", "cost_j"),
      tensor_subtraction("cost_i", "cost_j", "cost_k"),
      tensor_absolute("y_prediction", "cost_l"),
      tensor_negation("cost_l", "cost_m"),
      tensor_exponential("cost_m", "cost_n"),
      tensor_addition("one_constant", "cost_n", "cost_o"),
      tensor_logarithm("cost_o", "cost_p"),
      tensor_addition("cost_k", "cost_p", "cost_q"),
      tensor_mean("cost_q", "cost", Every, FALSE)>>,
    <<When(<<Untracked(<<"y_prediction">>)>>,
           FreeAll(<<"zero_constant", "one_constant", "cost_i", "cost_j", "cost_k", "cost_l",
                     "cost_m", "cost_n", "cost_o", "cost_p", "cost_q">>))>>)

-----------------------------------------------------------------------------
(* Metrics *)

BinaryAccuracy(c) ==
  Procedure(
    <<tensor_compare_greater("y_pred", "threshold", "y_i"),
      tensor_compare_equal("y_i", "y_true", "y_j"),
      tensor_mean("y_j", "accuracy", Every, FALSE)>>,
    <<When(<<Untracked(<<"y_pred">>)>>, <<Free("y_i"), FreeUnless("y_j", <<"accuracy">>)>>)>>)

MulticlassAccuracy(c) ==
  Procedure(
    <<tensor_argument_maximum("y_pred", "y_i", Rank(c.view.y_pred) - 1, TRUE),
      tensor_compare_equal("y_i", "y_true", "y_j"),
      tensor_mean("y_j", "accuracy", Every, FALSE)>>,
    <<When(<<Untracked(<<"y_pred">>)>>,
           <<FreeUnless("y_j", <<"accuracy">>), FreeUnless("y_i", <<"y_pred">>)>>)>>)

-----------------------------------------------------------------------------
(* Layers *)

ActivationTypes ==
  {"ACTIVATION_RECTIFIED_LINEAR", "ACTIVATION_SIGMOID", "ACTIVATION_TANH", "ACTIVATION_GELU",
   "ACTIVATION_SOFTMAX", "ACTIVATION_LOGSOFTMAX", "ACTIVATION_LEAKY_RECTIFIED_LINEAR"}

ActivationForward(type, x, y) ==
  CASE type = "ACTIVATION_RECTIFIED_LINEAR" -> tensor_rectified_linear(x, y)
    [] type = "ACTIVATION_SIGMOID" -> tensor_sigmoid(x, y)
    [] type = "ACTIVATION_TANH" -> tensor_tanh(x, y)
    [] type = "ACTIVATION_GELU" -> tensor_gelu(x, y)
    [] type = "ACTIVATION_SOFTMAX" -> tensor_softmax(x, y, -1)
    [] type = "ACTIVATION_LOGSOFTMAX" -> tensor_logsoftmax(x, y, -1)
    [] type = "ACTIVATION_LEAKY_RECTIFIED_LINEAR" -> tensor_leaky_rectified_linear(x, y)

embedding_forward(embedding, x, y) ==
  Call("tensor_embedding",
       [x |-> x, weights |-> embedding.weights, vocabulary_counter |-> embedding.vocabulary_counter],
       NoOptions, [z |-> y])

(* The embeddings of the words and of their positions, added. *)
TransformerEmbeddingForward(c) ==
  LET token == [weights |-> "token_weights", vocabulary_counter |-> "token_counter"]
      position == [weights |-> "position_weights", vocabulary_counter |-> "position_counter"]
      block_size == Shape(c, "x")[2]
  IN  Procedure(
        <<tensor_arange("positions", block_size),
          tensor_expand("positions", <<1, block_size>>, "positions_expand"),
          embedding_forward(token, "x", "token_embedding"),
          embedding_forward(position, "positions_expand", "position_embedding"),
          tensor_addition("token_embedding", "position_embedding", "y")>>,
        <<When(Always, FreeAll(<<"positions", "positions_expand">>)),
          When(<<Untracked(<<"x", "token_weights", "position_weights">>)>>,
               FreeAll(<<"token_embedding", "position_embedding">>))>>)

(* The forward functions of the layers.  The statistics of a batch              *)
(* normalization that keeps none are NULL, as a bias that is not there.        *)
Images(convolution_2d, x) == [w |-> x, x |-> convolution_2d.kernel, y |-> convolution_2d.bias]

(* The tensors x and, under the names of their roles, of the layer. *)
With(tensors_of_layer, roles, x) ==
  [r \in roles \cup {"x"} |-> IF r = "x" THEN x ELSE tensors_of_layer[r]]

linear_forward(layer, x, y) == tensor_linear(x, layer.tensors.weights, layer.tensors.bias, y)
convolution_2d_forward(layer, x, y) ==
  Call("tensor_convolution_2d", Images(layer.tensors, x), layer.options, [z |-> y])
convolution_transpose_2d_forward(layer, x, y) ==
  Call("tensor_convolution_transpose_2d", Images(layer.tensors, x), layer.options, [z |-> y])
max_pooling_2d_forward(layer, x, y) ==
  Call("tensor_max_pool_2d", [x |-> x], layer.options, [y |-> y])
average_pooling_2d_forward(layer, x, y) ==
  Call("tensor_average_pool_2d", [x |-> x], layer.options, [y |-> y])
dropout_forward(layer, x, y) == tensor_dropout(x, y, layer.options)
batch_normalization_2d_forward(layer, x, y) ==
  Call("tensor_batch_normalization_2d",
       With(layer.tensors, {"weights", "bias", "running_mean", "running_variance"}, x),
       layer.options, [y |-> y])
layer_normalization_forward(layer, x, y) ==
  Call("tensor_layer_normalization", With(layer.tensors, {"weights", "bias"}, x), layer.options,
       [y |-> y])
reshape_forward(layer, x, y) == tensor_reshape(x, y, layer.options.shape)
causal_multihead_self_attention_forward(layer, x, y) ==
  Call("tensor_causal_multihead_self_attention",
       With(layer.tensors, {"input_weights", "input_bias", "output_weights", "output_bias"}, x),
       layer.options, [y |-> y])
transformer_embedding_forward(layer, x, y) ==
  Call("transformer_embedding_forward",
       With(layer.tensors,
            {"token_weights", "token_counter", "position_weights", "position_counter"}, x),
       NoOptions, [y |-> y])

(* A block's procedure is given the tensors of all its layers. *)
block_forward(c, name, layer, x, y) ==
  Call(name, [p \in c.given \cup {"x"} |-> p], layer.options, [y |-> y])

BlockTypes == {"BLOCK", "RESIDUAL_BLOCK"}

LayerTypes ==
  {"LINEAR", "CONVOLUTION_2D", "CONVOLUTION_TRANSPOSE_2D", "MAX_POOLING_2D", "AVERAGE_POOLING_2D",
   "DROPOUT", "BATCH_NORMALIZATION_2D", "LAYER_NORMALIZATION", "RESHAPE", "EMBEDDING",
   "TRANSFORMER_EMBEDDING", "CAUSAL_MULTIHEAD_SELF_ATTENTION", "ACTIVATION"} \cup BlockTypes

(* The call by which a layer computes y, by the type of its transform. *)
LayerForward(c, layer, x, y) ==
  CASE layer.type = "LINEAR" -> linear_forward(layer, x, y)
    [] layer.type = "CONVOLUTION_2D" -> convolution_2d_forward(layer, x, y)
    [] layer.type = "CONVOLUTION_TRANSPOSE_2D" -> convolution_transpose_2d_forward(layer, x, y)
    [] layer.type = "MAX_POOLING_2D" -> max_pooling_2d_forward(layer, x, y)
    [] layer.type = "AVERAGE_POOLING_2D" -> average_pooling_2d_forward(layer, x, y)
    [] layer.type = "DROPOUT" -> dropout_forward(layer, x, y)
    [] layer.type = "BATCH_NORMALIZATION_2D" -> batch_normalization_2d_forward(layer, x, y)
    [] layer.type = "LAYER_NORMALIZATION" -> layer_normalization_forward(layer, x, y)
    [] layer.type = "RESHAPE" -> reshape_forward(layer, x, y)
    [] layer.type = "EMBEDDING" -> embedding_forward(layer.tensors, x, y)
    [] layer.type = "TRANSFORMER_EMBEDDING" -> transformer_embedding_forward(layer, x, y)
    [] layer.type = "CAUSAL_MULTIHEAD_SELF_ATTENTION" ->
         causal_multihead_self_attention_forward(layer, x, y)
    [] layer.type = "ACTIVATION" -> ActivationForward(layer.options.type, x, y)
    [] layer.type = "RESIDUAL_BLOCK" -> block_forward(c, "residual_block_forward", layer, x, y)
    [] layer.type = "BLOCK" -> block_forward(c, "block_forward", layer, x, y)

(* What a layer computes replaces what it was computed from, which is           *)
(* destroyed unless it is recorded or is what the block was given.             *)
BlockForward(c) ==
  LET layers == c.options.layers
      Layer(i) ==
        <<LayerForward(c, layers[i], "x", "feature_map")>>
        \o If(i > 1, <<CleanUp(<<When(<<Untracked(<<"feature_map">>)>>,
                                     <<FreeUnless("x", <<"feature_map">>)>>)>>)>>)
        \o <<Assign("feature_map", "x"), Assign("NULL", "feature_map")>>
  IN  Wrapper(FlattenSeq([i \in DOMAIN layers |-> Layer(i)]) \o <<Assign("x", "y")>>)

ResidualBlockForward(c) ==
  Wrapper(
    <<Call("block_forward", [p \in c.given |-> p], c.options, [y |-> "z"]),
      tensor_addition("x", "z", "y"),
      CleanUp(<<When(<<Untracked(<<"x", "z">>)>>, <<Free("z")>>)>>)>>)

-----------------------------------------------------------------------------
(* Optimizers: one step for one parameter, whose gradient is a parameter here.  *)

(* The gradient, to which the parameter is added if weights decay. *)
DecayedGradient(c, sum) ==
  IF c.options.weight_decay
  THEN <<constant("weight_decay"),
         tensor_multiplication("weight_decay", "parameters", "weight_decay_product"),
         tensor_addition("weight_decay_product", "parameters_gradient", sum),
         tensor_as_tensor(sum, "gradient")>>
  ELSE <<tensor_as_tensor("parameters_gradient", "gradient")>>

FreeNow(x) == <<CleanUp(<<When(Always, <<Free(x)>>)>>), Assign("NULL", x)>>

(* A mutant that does not destroy what the map kept. *)
MovingAverageKeeps(c, map, initial, factor, product, new, updated) ==
  (IF Given(c, map)
   THEN <<Assign(map, initial),
          tensor_multiplication(factor, initial, product),
          tensor_addition(product, new, updated),
          Assign("NULL", initial)>>
   ELSE <<tensor_as_tensor(new, updated)>>)
  \o <<Store(updated, map)>>

(* What a map keeps under the parameter's id, averaged with a new value.  The   *)
(* tensor that was kept is destroyed before its successor is stored.           *)
MovingAverage(c, map, initial, factor, product, new, updated) ==
  (IF Given(c, map)
   THEN <<Assign(map, initial),
          tensor_multiplication(factor, initial, product),
          tensor_addition(product, new, updated)>>
        \o FreeNow(initial)
   ELSE <<tensor_as_tensor(new, updated)>>)
  \o <<Store(updated, map)>>

UpdateParameters == tensor_subtraction("parameters", "parameter_update", "parameters")

(* updated_momentum belongs to the map. *)
StochasticGradientDescent(c) ==
  LET first == <<tensor_as_tensor("gradient", "updated_momentum"),
                 Store("updated_momentum", "momentum_buffer")>>
      later == <<constant("momentum_constant"),
                 Assign("momentum_buffer", "initial_momentum"),
                 tensor_multiplication("momentum_constant", "initial_momentum", "momentum_product"),
                 constant("dampening_constant"),
                 tensor_multiplication("dampening_constant", "gradient", "dampening_gradient"),
                 tensor_addition("dampening_gradient", "momentum_product", "updated_momentum")>>
               \o FreeNow("initial_momentum")
               \o <<Store("updated_momentum", "momentum_buffer")>>
      nesterov == If(~Given(c, "momentum_buffer"), <<constant("momentum_constant")>>)
                  \o <<tensor_multiplication("momentum_constant", "updated_momentum",
                                             "modified_momentum"),
                       tensor_addition("modified_momentum", "gradient", "nesterov_momentum")>>
                  \o FreeNow("gradient")
                  \o <<tensor_as_tensor("nesterov_momentum", "gradient")>>
      plain == FreeNow("gradient") \o <<tensor_as_tensor("updated_momentum", "gradient")>>
  IN  Procedure(
        <<WithNoGradient(TRUE)>>
        \o DecayedGradient(c, "weight_decay_sum")
        \o If(c.options.momentum,
              (IF Given(c, "momentum_buffer") THEN later ELSE first)
              \o (IF c.options.nesterov THEN nesterov ELSE plain))
        \o <<constant("learning_rate"),
             tensor_multiplication("learning_rate", "gradient", "parameter_update"),
             UpdateParameters,
             WithNoGradient(FALSE)>>,
        <<When(Always,
               FreeAll(<<"learning_rate", "weight_decay", "weight_decay_product", "parameter_update",
                         "momentum_constant", "momentum_product", "dampening_constant",
                         "dampening_gradient", "modified_momentum", "initial_momentum",
                         "nesterov_momentum", "weight_decay_sum", "gradient">>))>>)

RmsPropCleanup ==
  <<When(Always,
         FreeAll(<<"learning_rate", "weight_decay", "weight_decay_product", "alpha_constant",
                   "alpha_product", "one_minus_alpha_constant", "squared_current_gradient",
                   "square_average_initial", "one_minus_alpha_product", "square_average_telda",
                   "square_average_telda_root", "epsilon_constant", "square_average_telda_epsilon",
                   "parameter_update", "momentum_const_buffer", "temp_gradient", "momentum_constant",
                   "momentum_product", "centered_grad", "alpha_average_grad",
                   "average_gradient_squared", "average_gradient_initial", "weight_decay_sum",
                   "initial_momentum", "gradient">>))>>

(* The average of the squared gradients, less the square of the average. *)
RmsPropAverages(c) ==
  <<constant("alpha_constant"),
    constant("one_minus_alpha_constant"),
    tensor_multiplication("gradient", "gradient", "squared_current_gradient"),
    tensor_multiplication("one_minus_alpha_constant", "squared_current_gradient",
                          "one_minus_alpha_product")>>
  \o MovingAverage(c, "square_average_map", "square_average_initial", "alpha_constant", "alpha_product",
                   "one_minus_alpha_product", "square_average")
  \o (IF c.options.centered
      THEN <<tensor_multiplication("one_minus_alpha_constant", "gradient", "centered_grad")>>
           \o MovingAverage(c, "average_gradient_map", "average_gradient_initial", "alpha_constant",
                            "alpha_average_grad", "centered_grad", "updated_average_grad")
           \o <<tensor_multiplication("updated_average_grad", "updated_average_grad",
                                      "average_gradient_squared"),
                tensor_subtraction("square_average", "average_gradient_squared",
                                   "square_average_telda")>>
      ELSE <<tensor_as_tensor("square_average", "square_average_telda")>>)

RmsProp(c) ==
  Procedure(
    <<WithNoGradient(TRUE)>>
    \o DecayedGradient(c, "weight_decay_sum")
    \o RmsPropAverages(c)
    \o <<tensor_square_root("square_average_telda", "square_average_telda_root"),
         constant("epsilon_constant"),
         tensor_addition("square_average_telda_root", "epsilon_constant",
                         "square_average_telda_epsilon"),
         tensor_division("gradient", "square_average_telda_epsilon", "temp_gradient"),
         constant("learning_rate")>>
    \o (IF c.options.momentum
        THEN If(Given(c, "momentum_buffer"), <<constant("momentum_constant")>>)
             \o MovingAverage(c, "momentum_buffer", "initial_momentum", "momentum_constant",
                              "momentum_const_buffer", "temp_gradient", "updated_momentum")
             \o <<tensor_multiplication("learning_rate", "updated_momentum", "parameter_update")>>
        ELSE <<tensor_multiplication("learning_rate", "temp_gradient", "parameter_update")>>)
    \o <<UpdateParameters, WithNoGradient(FALSE)>>,
    RmsPropCleanup)

AdamConstants ==
  <<"one_minus_beta_1_constant", "beta_1_constant", "beta_1_constant_squared",
    "one_minus_beta_2_constant", "beta_2_constant", "beta_2_constant_squared">>

AdamCleanup ==
  <<When(Always,
         FreeAll(<<"learning_rate", "weight_decay", "weight_decay_product">> \o AdamConstants
                 \o <<"first_moment_part_0", "first_moment_part_1", "first_moment_part_2",
                      "gradient_squared", "second_moment_part_0", "second_moment_part_1",
                      "second_moment_part_2", "first_momentum_telda", "second_momentum_telda",
                      "epsilon_constant", "square_root_max_moment", "square_root_plus_epsilon",
                      "modified_learning_rate", "parameter_update", "temp_gradient_addition",
                      "gradient">>))>>

AdamMoments(c) ==
  <<tensor_multiplication("one_minus_beta_1_constant", "gradient", "first_moment_part_0")>>
  \o MovingAverage(c, "first_moment_map", "first_moment_part_1", "beta_1_constant",
                   "first_moment_part_2", "first_moment_part_0", "first_moment")
  \o <<tensor_multiplication("gradient", "gradient", "gradient_squared"),
       tensor_multiplication("one_minus_beta_2_constant", "gradient_squared", "second_moment_part_0")>>
  \o MovingAverage(c, "second_moment_map", "second_moment_part_1", "beta_2_constant",
                   "second_moment_part_2", "second_moment_part_0", "second_moment")

(* The count of the iterations is no tensor. *)
Adam(c) ==
  Procedure(
    <<constant("learning_rate"), WithNoGradient(TRUE)>>
    \o DecayedGradient(c, "temp_gradient_addition")
    \o [n \in DOMAIN AdamConstants |-> constant(AdamConstants[n])]
    \o AdamMoments(c)
    \o <<tensor_division("first_moment", "beta_1_constant_squared", "first_momentum_telda"),
         tensor_division("second_moment", "beta_2_constant_squared", "second_momentum_telda"),
         constant("epsilon_constant"),
         tensor_square_root("second_momentum_telda", "square_root_max_moment"),
         tensor_addition("square_root_max_moment", "epsilon_constant", "square_root_plus_epsilon"),
         tensor_multiplication("learning_rate", "first_momentum_telda", "modified_learning_rate"),
         tensor_division("modified_learning_rate", "square_root_plus_epsilon", "parameter_update"),
         UpdateParameters,
         WithNoGradient(FALSE)>>,
    AdamCleanup)

(* The gradient is scaled in place if its norm exceeds the threshold. *)
ClipGradientNormParameters(c) ==
  IF ~Given(c, "parameters_gradient") THEN Wrapper(<<>>)
  ELSE Procedure(
         <<tensor_magnitude("parameters_gradient", "magnitude")>>
         \o If(c.options.exceeds,
               <<constant("threshold_constant"),
                 tensor_division("threshold_constant", "magnitude", "scale"),
                 tensor_multiplication("parameters_gradient", "scale", "parameters_gradient")>>),
         <<When(Always, FreeAll(<<"threshold_constant", "magnitude", "scale">>))>>)

-----------------------------------------------------------------------------

(* The procedures that are given the layers of a block. *)
BlockNames == {"block_forward", "residual_block_forward"}

NetworkProcedureNames ==
  {"tensor_as_tensor", "categorical_cross_entropy", "binary_cross_entropy",
   "binary_cross_entropy_logits", "binary_accuracy", "multiclass_accuracy",
   "transformer_embedding_forward", "stochastic_gradient_descent", "rms_prop", "adam",
   "clip_gradient_norm_parameters"}
  \cup BlockNames \cup TensorProcedureNames

NetworkProcedure(name, c) ==
  CASE name = "tensor_as_tensor" -> AsTensor(c)
    [] name = "categorical_cross_entropy" -> CategoricalCrossEntropy(c)
    [] name = "binary_cross_entropy" -> BinaryCrossEntropy(c)
    [] name = "binary_cross_entropy_logits" -> BinaryCrossEntropyLogits(c)
    [] name = "binary_accuracy" -> BinaryAccuracy(c)
    [] name = "multiclass_accuracy" -> MulticlassAccuracy(c)
    [] name = "transformer_embedding_forward" -> TransformerEmbeddingForward(c)
    [] name = "block_forward" -> BlockForward(c)
    [] name = "residual_block_forward" -> ResidualBlockForward(c)
    [] name = "stochastic_gradient_descent" -> StochasticGradientDescent(c)
    [] name = "rms_prop" -> RmsProp(c)
    [] name = "adam" -> Adam(c)
    [] name = "clip_gradient_norm_parameters" -> ClipGradientNormParameters(c)
    [] OTHER -> TensorProcedure(name, c)
=============================================================================
