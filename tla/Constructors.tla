---------------------------- MODULE Constructors ----------------------------
(***************************************************************************)
(* The constructors and destructors of nn/layer.c, nn/activation.c,          *)
(* nn/init.c and nn/optimizer.c, and the order in which layers are written   *)
(* to a file and read back, as data to be executed by module Construction.   *)
(*                                                                         *)
(* A constructor is an operator of the context c of its call: c.given are the *)
(* parameters that are not NULL, c.options the arguments that are not        *)
(* pointers.  Its steps allocate, or call other constructors; each carries   *)
(* what the function destroys before it returns if the step fails.  A        *)
(* structure owns what its fields point to; a destructor is the sequence of  *)
(* the fields it destroys before it frees the structure.                     *)
(***************************************************************************)
EXTENDS Sequences, Integers

Constructor(out, steps) == [out |-> out, steps |-> steps]

If(condition, steps) == IF condition THEN steps ELSE <<>>

Given(c, p) == p \in c.given

-----------------------------------------------------------------------------
(* Steps *)

(* Destruction of what the variable points to, and of a union, whose type is  *)
(* kept beside it: the tag says which of its members is destroyed.            *)
Destroy(x) == [variable |-> x, tag |-> "none", shallow |-> FALSE]
DestroyUnion(x, tag) == [variable |-> x, tag |-> tag, shallow |-> FALSE]

(* free(x) *)
Free(x) == [variable |-> x, tag |-> "none", shallow |-> TRUE]

Nothing == <<>>

(* The fields of the new structure that own what the variables point to.      *)
NoFields == [f \in {} |-> ""]

(* The enumerations, flags and lengths that decide what is done later.        *)
NoTags == [f \in {} |-> <<"", 0>>]
Tag(value) == <<value, 0>>

(* x = malloc(...), with all fields assigned. *)
New(kind, owns, tags, x, rescue) ==
  [do |-> "new", kind |-> kind, owns |-> owns, tags |-> tags, out |-> x, field |-> "none",
   reads |-> "none", rescue |-> rescue]

(* x->field = malloc(...) *)
Attach(kind, owns, x, field, rescue) ==
  [New(kind, owns, NoTags, x, rescue) EXCEPT !.field = field]

(* A tensor made, and stored in x or in x->field. *)
TensorTags(requires_gradient) ==
  [requires_gradient |-> Tag(requires_gradient), persist |-> Tag("TRUE")]

NewTensor(requires_gradient, x, rescue) ==
  New("tensor", NoFields, TensorTags(requires_gradient), x, rescue)

AttachTensor(requires_gradient, x, field, rescue) ==
  [Attach("tensor", NoFields, x, field, rescue) EXCEPT !.tags = TensorTags(requires_gradient)]

(* The call of another constructor: its pointers, its other arguments, and    *)
(* the variable whose address it is given.                                   *)
Construct(name, in, options, x, rescue) ==
  [do |-> "call", name |-> name, in |-> in, options |-> options, out |-> x, rescue |-> rescue]

NoOptions == <<>>
NoArguments == [p \in {} |-> ""]

(* Variables freed on the way, and a type replaced. *)
Release(variables) == [do |-> "release", variables |-> variables]
Retype(x, field, tag) == [do |-> "retype", out |-> x, field |-> field, tag |-> tag]

-----------------------------------------------------------------------------
(* Initialisers (nn/init.c) *)

(* initialize makes the tensor as parameter_init says.                        *)
Initialize(init, x, rescue) == [NewTensor("TRUE", x, rescue) EXCEPT !.reads = init]

parameter_init_create(c) ==
  Constructor("parameter_init",
    <<New("parameter_init", [init |-> "init"], [init_type |-> Tag(c.options)], "parameter_init", Nothing)>>)

parameter_init_destroy == <<"init">>

(* The member of the union that the type selects, "none" if none. *)
InitKind(init_type) ==
  CASE init_type \in {"ZEROES", "ONES"} -> "none"
    [] init_type = "UNIFORM" -> "uniform_init"
    [] init_type = "NORMAL" -> "normal_init"
    [] init_type \in {"KAIMING_UNIFORM", "KAIMING_NORMAL"} -> "kaiming_init"
    [] init_type \in {"GLOROT_UNIFORM", "GLOROT_NORMAL"} -> "glorot_init"

init_create(c) ==
  Constructor("init", <<New("init", [content |-> "type_init"], NoTags, "init", Nothing)>>)

uniform_init_create(c) ==
  Constructor("uniform_init",
    <<New("uniform_init", NoFields, NoTags, "uniform_init", Nothing),
      Attach("memory", NoFields, "uniform_init", "upper_bound", <<Destroy("uniform_init")>>),
      Attach("memory", NoFields, "uniform_init", "lower_bound", <<Destroy("uniform_init")>>)>>)

uniform_init_destroy == <<"lower_bound", "upper_bound">>

normal_init_create(c) ==
  Constructor("normal_init",
    <<New("normal_init", NoFields, NoTags, "normal_init", Nothing),
      Attach("memory", NoFields, "normal_init", "standard_deviation", <<Destroy("normal_init")>>),
      Attach("memory", NoFields, "normal_init", "mean", <<Destroy("normal_init")>>)>>)

normal_init_destroy == <<"mean", "standard_deviation">>

kaiming_init_create(c) ==
  Constructor("kaiming_init",
    <<New("kaiming_init", NoFields, NoTags, "kaiming_init", Nothing),
      Attach("memory", NoFields, "kaiming_init", "gain", <<Destroy("kaiming_init")>>)>>)

kaiming_init_destroy == <<"gain">>

glorot_init_create(c) ==
  Constructor("glorot_init",
    <<New("glorot_init", NoFields, NoTags, "glorot_init", Nothing),
      Attach("memory", NoFields, "glorot_init", "gain", <<Destroy("glorot_init")>>)>>)

glorot_init_destroy == <<"gain">>

(* init_create and parameter_init_create, once the member is made. *)
InitAround(init_type, in, rescue) ==
  <<Construct("init_create", in, init_type, "init", rescue),
    Construct("parameter_init_create", [init |-> "init"], init_type, "parameter_init",
              <<DestroyUnion("init", init_type)>>)>>

InitOf(init_type, name, type_init) ==
  Constructor("parameter_init",
    <<Construct(name, NoArguments, NoOptions, type_init, Nothing)>>
    \o InitAround(init_type, [type_init |-> type_init], <<Destroy(type_init)>>))

zeroes_parameter_init(c) == Constructor("parameter_init", InitAround("ZEROES", NoArguments, Nothing))
ones_parameter_init(c) == Constructor("parameter_init", InitAround("ONES", NoArguments, Nothing))
uniform_parameter_init(c) == InitOf("UNIFORM", "uniform_init_create", "uniform_init")
normal_parameter_init(c) == InitOf("NORMAL", "normal_init_create", "normal_init")
kaiming_uniform_parameter_init(c) == InitOf("KAIMING_UNIFORM", "kaiming_init_create", "kaiming_init")
kaiming_normal_parameter_init(c) == InitOf("KAIMING_NORMAL", "kaiming_init_create", "kaiming_init")
glorot_uniform_parameter_init(c) == InitOf("GLOROT_UNIFORM", "glorot_init_create", "glorot_init")
glorot_normal_parameter_init(c) == InitOf("GLOROT_NORMAL", "glorot_init_create", "glorot_init")

-----------------------------------------------------------------------------
(* Activations (nn/activation.c) *)

activation_create(c) ==
  Constructor("activation",
    <<New("activation", [activation_function |-> "activation_function"],
          [activation_function_type |-> Tag(c.options)], "activation", Nothing)>>)

activation_destroy == <<"activation_function">>

activation_function_create(c) ==
  Constructor("activation_function",
    <<New("activation_function", [content |-> "type_activation_function"], NoTags,
          "activation_function", Nothing)>>)

ActivationKind(activation_function_type) ==
  CASE activation_function_type \in {"ACTIVATION_SOFTMAX", "ACTIVATION_LOGSOFTMAX"} -> "softmax"
    [] activation_function_type = "ACTIVATION_LEAKY_RECTIFIED_LINEAR" -> "leaky_rectified_linear"
    [] OTHER -> "none"

softmax_create(c) == Constructor("softmax", <<New("softmax", NoFields, NoTags, "softmax", Nothing)>>)

(* The test after the second malloc is of the first pointer: without memory    *)
(* c is copied to NULL.                                                      *)
leaky_rectified_linear_create(c) ==
  Constructor("leaky_rectified_linear",
    <<New("leaky_rectified_linear", NoFields, NoTags, "leaky_rectified_linear", Nothing),
      Attach("memory", NoFields, "leaky_rectified_linear", "c", Nothing)>>)

leaky_rectified_linear_destroy == <<"c">>

ActivationAround(type, in, rescue) ==
  <<Construct("activation_function_create", in, type, "activation_function", rescue),
    Construct("activation_create", [activation_function |-> "activation_function"], type, "activation",
              <<DestroyUnion("activation_function", type)>>)>>

rectified_linear_activation_create(c) ==
  Constructor("activation", ActivationAround("ACTIVATION_RECTIFIED_LINEAR", NoArguments, Nothing))
sigmoid_activation_create(c) ==
  Constructor("activation", ActivationAround("ACTIVATION_SIGMOID", NoArguments, Nothing))
tanh_activation_create(c) ==
  Constructor("activation", ActivationAround("ACTIVATION_TANH", NoArguments, Nothing))
gelu_activation_create(c) ==
  Constructor("activation", ActivationAround("ACTIVATION_GELU", NoArguments, Nothing))

ActivationOf(type, name, type_activation_function) ==
  Constructor("activation",
    <<Construct(name, NoArguments, NoOptions, type_activation_function, Nothing)>>
    \o ActivationAround(type, [type_activation_function |-> type_activation_function],
                        <<Destroy(type_activation_function)>>))

softmax_activation_create(c) == ActivationOf("ACTIVATION_SOFTMAX", "softmax_create", "softmax")
logsoftmax_activation_create(c) == ActivationOf("ACTIVATION_LOGSOFTMAX", "softmax_create", "softmax")
leaky_rectified_linear_activation_create(c) ==
  ActivationOf("ACTIVATION_LEAKY_RECTIFIED_LINEAR", "leaky_rectified_linear_create",
               "leaky_rectified_linear")

-----------------------------------------------------------------------------
(* What layers transform with (nn/layer.c) *)

linear_create(c) ==
  Constructor("linear", <<New("linear", [weights |-> "weights", bias |-> "bias"], NoTags, "linear", Nothing)>>)

linear_destroy == <<"weights", "bias">>

convolution_2d_create(c) ==
  Constructor("convolution_2d",
    <<New("convolution_2d", [kernel |-> "kernel", bias |-> "bias"], NoTags, "convolution_2d", Nothing)>>)

convolution_2d_destroy == <<"kernel", "bias">>

pooling_2d_create(c) ==
  Constructor("pooling_2d", <<New("pooling_2d", NoFields, NoTags, "pooling_2d", Nothing)>>)

dropout_create(c) ==
  Constructor("dropout",
    <<New("dropout", NoFields, NoTags, "dropout", Nothing),
      Attach("memory", NoFields, "dropout", "probability", <<Free("dropout")>>)>>)

dropout_destroy == <<"probability">>

batch_normalization_2d_create(c) ==
  LET x == "batch_normalization_2d"
      rescue == <<Destroy(x)>>
  IN  Constructor(x,
        <<New("batch_normalization_2d", NoFields, NoTags, x, Nothing),
          Attach("memory", NoFields, x, "momentum", rescue),
          Attach("memory", NoFields, x, "epsilon", rescue)>>
        \o If(c.options.affine,
              <<AttachTensor("TRUE", x, "weights", rescue), AttachTensor("TRUE", x, "bias", rescue)>>)
        \o <<AttachTensor("FALSE", x, "running_variance", rescue),
             AttachTensor("FALSE", x, "running_mean", rescue)>>)

batch_normalization_2d_destroy ==
  <<"weights", "bias", "running_mean", "running_variance", "epsilon", "momentum">>

layer_normalization_create(c) ==
  LET x == "layer_normalization"
      rescue == <<Destroy(x)>>
  IN  Constructor(x,
        <<New("layer_normalization", NoFields, NoTags, x, Nothing),
          Attach("memory", NoFields, x, "epsilon", rescue),
          Attach("memory", NoFields, x, "normalized_shape", rescue)>>
        \o If(c.options.weights_affine, <<AttachTensor("TRUE", x, "weights", rescue)>>)
        \o If(c.options.bias_affine, <<AttachTensor("TRUE", x, "bias", rescue)>>))

layer_normalization_destroy == <<"weights", "bias", "epsilon", "normalized_shape">>

reshape_create(c) ==
  Constructor("reshape",
    <<New("reshape", NoFields, NoTags, "reshape", Nothing),
      Attach("memory", NoFields, "reshape", "shape", <<Free("reshape")>>)>>)

reshape_destroy == <<"shape">>

embedding_create(c) ==
  Constructor("embedding",
    <<New("embedding", [vocabulary_counter |-> "vocabulary_counter", weights |-> "weights"], NoTags,
          "embedding", Nothing)>>)

embedding_destroy == <<"vocabulary_counter", "weights">>

transformer_embedding_create(c) ==
  Constructor("transformer_embedding",
    <<New("transformer_embedding",
          [token_embedding |-> "token_embedding", position_embedding |-> "position_embedding"], NoTags,
          "transformer_embedding", Nothing)>>)

transformer_embedding_destroy == <<"token_embedding", "position_embedding">>

AttentionTensors ==
  [input_weights |-> "input_weights", input_bias |-> "input_bias", output_weights |-> "output_weights",
   output_bias |-> "output_bias"]

causal_multihead_self_attention_create(c) ==
  LET x == "causal_multihead_self_attention"
  IN  Constructor(x,
        <<New("causal_multihead_self_attention", AttentionTensors, NoTags, x, Nothing),
          Attach("memory", NoFields, x, "dropout_probability", <<Free(x)>>)>>)

causal_multihead_self_attention_destroy ==
  <<"input_weights", "input_bias", "output_weights", "output_bias", "dropout_probability">>

(* start, stop and step go when the tensor has been made, or has not.         *)
vocabulary_count_create(c) ==
  Constructor("vocabulary_count",
    <<New("memory", NoFields, NoTags, "start", Nothing),
      New("memory", NoFields, NoTags, "stop", <<Free("start")>>),
      New("memory", NoFields, NoTags, "step", <<Free("start"), Free("stop")>>),
      NewTensor("FALSE", "vocabulary_count", <<Free("start"), Free("stop"), Free("step")>>),
      Release(<<"start", "stop", "step">>)>>)

EmbeddingAround(rescue) ==
  Construct("embedding_create", [vocabulary_counter |-> "vocabulary_count", weights |-> "weights"],
            NoOptions, "embedding", rescue)

embedding_initialize(c) ==
  Constructor("embedding",
    <<Construct("vocabulary_count_create", NoArguments, NoOptions, "vocabulary_count", Nothing),
      Initialize("embedding_init", "weights", <<Destroy("vocabulary_count")>>),
      EmbeddingAround(<<Destroy("vocabulary_count"), Destroy("weights")>>)>>)

embedding_create_from_parameters(c) ==
  Constructor("embedding",
    <<Construct("vocabulary_count_create", NoArguments, NoOptions, "vocabulary_count", Nothing),
      EmbeddingAround(<<Destroy("vocabulary_count")>>)>>)

-----------------------------------------------------------------------------
(* Layers, blocks and models (nn/layer.c) *)

transform_create(c) ==
  Constructor("transform", <<New("transform", [content |-> "type_transform"], NoTags, "transform", Nothing)>>)

TransformKind(transform_type) ==
  CASE transform_type = "LINEAR" -> "linear"
    [] transform_type \in {"CONVOLUTION_2D", "CONVOLUTION_TRANSPOSE_2D"} -> "convolution_2d"
    [] transform_type \in {"MAX_POOLING_2D", "AVERAGE_POOLING_2D"} -> "pooling_2d"
    [] transform_type = "DROPOUT" -> "dropout"
    [] transform_type = "BATCH_NORMALIZATION_2D" -> "batch_normalization_2d"
    [] transform_type = "LAYER_NORMALIZATION" -> "layer_normalization"
    [] transform_type = "RESHAPE" -> "reshape"
    [] transform_type = "EMBEDDING" -> "embedding"
    [] transform_type = "TRANSFORMER_EMBEDDING" -> "transformer_embedding"
    [] transform_type = "CAUSAL_MULTIHEAD_SELF_ATTENTION" -> "causal_multihead_self_attention"
    [] transform_type = "ACTIVATION" -> "activation"
    [] transform_type \in {"BLOCK", "RESIDUAL_BLOCK"} -> "block"

layer_create(c) ==
  Constructor("layer",
    <<New("layer", [transform |-> "transform"], [transform_type |-> Tag(c.options)], "layer", Nothing)>>)

layer_destroy == <<"transform">>

block_create(c) ==
  Constructor("block",
    <<New("block", NoFields, [depth |-> <<"depth", Len(c.options)>>], "block", Nothing),
      Attach("layers", [n \in DOMAIN c.options |-> c.options[n]], "block", "layers", <<Free("block")>>)>>)

block_create_from_array(c) == block_create(c)

block_destroy == <<"layers">>

model_create(c) ==
  Constructor("model", <<New("model", [block |-> "block"], NoTags, "model", Nothing)>>)

model_destroy == <<"block">>

(* Mutant: what the transform owns is destroyed a second time.                *)
LayerAroundTwice(transform_type, x) ==
  <<Construct("transform_create", [type_transform |-> x], transform_type, "transform", <<Destroy(x)>>),
    Construct("layer_create", [transform |-> "transform"], transform_type, "layer",
              <<DestroyUnion("transform", transform_type), Destroy(x)>>)>>

(* transform_create and layer_create, once what is transformed with is made.  *)
LayerAround(transform_type, x) ==
  <<Construct("transform_create", [type_transform |-> x], transform_type, "transform", <<Destroy(x)>>),
    Construct("layer_create", [transform |-> "transform"], transform_type, "layer",
              <<DestroyUnion("transform", transform_type)>>)>>

Layer(transform_type, x, steps) == Constructor("layer", steps \o LayerAround(transform_type, x))

linear_layer_create(c) ==
  Layer("LINEAR", "linear",
    <<Initialize("weight_init", "weights", Nothing)>>
    \o If(Given(c, "bias_init"), <<Initialize("bias_init", "bias", <<Destroy("weights")>>)>>)
    \o <<Construct("linear_create", [weights |-> "weights", bias |-> "bias"], NoOptions, "linear",
                   <<Destroy("weights"), Destroy("bias")>>)>>)

linear_layer_create_from_parameters(c) ==
  Layer("LINEAR", "linear",
    <<Construct("linear_create", [weights |-> "weights", bias |-> "bias"], NoOptions, "linear",
                <<Destroy("weights"), Destroy("bias")>>)>>)

ConvolutionAround ==
  Construct("convolution_2d_create", [kernel |-> "kernel", bias |-> "bias"], NoOptions, "convolution_2d",
            <<Destroy("kernel"), Destroy("bias")>>)

convolution_2d_layer_create(c) ==
  Layer("CONVOLUTION_2D", "convolution_2d",
    <<Initialize("kernel_init", "kernel", Nothing)>>
    \o If(Given(c, "bias_init"), <<Initialize("bias_init", "bias", <<Destroy("kernel")>>)>>)
    \o <<ConvolutionAround>>)

convolution_2d_layer_create_from_parameters(c) ==
  Layer("CONVOLUTION_2D", "convolution_2d", <<ConvolutionAround>>)

convolution_transpose_2d_layer_create_from_parameters(c) ==
  Layer("CONVOLUTION_TRANSPOSE_2D", "convolution_2d", <<ConvolutionAround>>)

(* The layer of a convolution, whose type is replaced.                        *)
convolution_transpose_2d_layer_create(c) ==
  Constructor("layer",
    <<Construct("convolution_2d_layer_create", [kernel_init |-> "kernel_init", bias_init |-> "bias_init"],
                NoOptions, "layer", Nothing),
      Retype("layer", "transform_type", Tag("CONVOLUTION_TRANSPOSE_2D"))>>)

Constructed(name, in, options, x) == <<Construct(name, in, options, x, Nothing)>>

max_pooling_2d_layer_create(c) ==
  Layer("MAX_POOLING_2D", "pooling_2d", Constructed("pooling_2d_create", NoArguments, NoOptions, "pooling_2d"))

average_pooling_2d_layer_create(c) ==
  Layer("AVERAGE_POOLING_2D", "pooling_2d",
        Constructed("pooling_2d_create", NoArguments, NoOptions, "pooling_2d"))

dropout_layer_create(c) ==
  Layer("DROPOUT", "dropout", Constructed("dropout_create", NoArguments, NoOptions, "dropout"))

batch_normalization_2d_layer_create(c) ==
  Layer("BATCH_NORMALIZATION_2D", "batch_normalization_2d",
        Constructed("batch_normalization_2d_create", NoArguments, c.options, "batch_normalization_2d"))

(* weights and bias are passed by position, where layer_normalization_create   *)
(* has its parameters bias_affine and weights_affine.                         *)
layer_normalization_layer_create(c) ==
  Layer("LAYER_NORMALIZATION", "layer_normalization",
        Constructed("layer_normalization_create", NoArguments,
                    [bias_affine |-> c.options.weights, weights_affine |-> c.options.bias],
                    "layer_normalization"))

reshape_layer_create(c) ==
  Layer("RESHAPE", "reshape", Constructed("reshape_create", NoArguments, NoOptions, "reshape"))

embedding_layer_create(c) ==
  Layer("EMBEDDING", "embedding",
        Constructed("embedding_initialize", [embedding_init |-> "embedding_init"], NoOptions, "embedding"))

embedding_layer_create_from_parameters(c) ==
  Layer("EMBEDDING", "embedding",
        Constructed("embedding_create_from_parameters", [weights |-> "weights"], NoOptions, "embedding"))

(* Two embeddings, of tokens and of positions, each made from what is given.  *)
TransformerEmbedding(name, parameter, tokens, positions) ==
  Layer("TRANSFORMER_EMBEDDING", "transformer_embedding",
    <<Construct(name, [p \in {parameter} |-> tokens], NoOptions, "token_embedding", Nothing),
      Construct(name, [p \in {parameter} |-> positions], NoOptions, "position_embedding",
                <<Destroy("token_embedding")>>),
      Construct("transformer_embedding_create",
                [token_embedding |-> "token_embedding", position_embedding |-> "position_embedding"],
                NoOptions, "transformer_embedding",
                <<Destroy("token_embedding"), Destroy("position_embedding")>>)>>)

transformer_embedding_layer_create(c) ==
  TransformerEmbedding("embedding_initialize", "embedding_init", "token_embedding_init",
                       "position_embedding_init")

transformer_embedding_layer_create_from_parameters(c) ==
  TransformerEmbedding("embedding_create_from_parameters", "weights", "token_weights", "position_weights")

AttentionAround(rescue) ==
  Construct("causal_multihead_self_attention_create", AttentionTensors, NoOptions,
            "causal_multihead_self_attention", rescue)

(* Mutant: the output weights stay when the output bias cannot be made.        *)
AttentionLayerKeepsWeights(c) ==
  Layer("CAUSAL_MULTIHEAD_SELF_ATTENTION", "causal_multihead_self_attention",
    <<Initialize("input_weight_init", "input_weights", Nothing)>>
    \o If(Given(c, "input_bias_init"),
          <<Initialize("input_bias_init", "input_bias", <<Destroy("input_weights")>>)>>)
    \o <<Initialize("output_weight_init", "output_weights",
                    <<Destroy("input_weights"), Destroy("input_bias")>>)>>
    \o If(Given(c, "output_bias_init"),
          <<Initialize("output_bias_init", "output_bias",
                       <<Destroy("input_weights"), Destroy("input_bias")>>)>>)
    \o <<AttentionAround(<<Destroy("input_weights"), Destroy("input_bias"), Destroy("output_weights"),
                           Destroy("output_bias")>>)>>)

causal_multihead_self_attention_layer_create(c) ==
  Layer("CAUSAL_MULTIHEAD_SELF_ATTENTION", "causal_multihead_self_attention",
    <<Initialize("input_weight_init", "input_weights", Nothing)>>
    \o If(Given(c, "input_bias_init"),
          <<Initialize("input_bias_init", "input_bias", <<Destroy("input_weights")>>)>>)
    \o <<Initialize("output_weight_init", "output_weights",
                    <<Destroy("input_weights"), Destroy("input_bias")>>)>>
    \o If(Given(c, "output_bias_init"),
          <<Initialize("output_bias_init", "output_bias",
                       <<Destroy("input_weights"), Destroy("input_bias"), Destroy("output_weights")>>)>>)
    \o <<AttentionAround(<<Destroy("input_weights"), Destroy("input_bias"), Destroy("output_weights"),
                           Destroy("output_bias")>>)>>)

causal_multihead_self_attention_layer_create_from_parameters(c) ==
  Layer("CAUSAL_MULTIHEAD_SELF_ATTENTION", "causal_multihead_self_attention", <<AttentionAround(Nothing)>>)

(* A block that cannot be made a transform stays the caller's; one that        *)
(* cannot be made a layer is destroyed.                                      *)
BlockLayer(transform_type) ==
  Constructor("layer",
    <<Construct("transform_create", [type_transform |-> "block"], transform_type, "transform", Nothing),
      Construct("layer_create", [transform |-> "transform"], transform_type, "layer",
                <<DestroyUnion("transform", transform_type)>>)>>)

residual_block_layer_create(c) == BlockLayer("RESIDUAL_BLOCK")
block_layer_create(c) == BlockLayer("BLOCK")

ActivationLayer(name) ==
  Layer("ACTIVATION", "activation", Constructed(name, NoArguments, NoOptions, "activation"))

rectified_linear_activation_layer_create(c) == ActivationLayer("rectified_linear_activation_create")
sigmoid_activation_layer_create(c) == ActivationLayer("sigmoid_activation_create")
softmax_activation_layer_create(c) == ActivationLayer("softmax_activation_create")
logsoftmax_activation_layer_create(c) == ActivationLayer("logsoftmax_activation_create")
leaky_rectified_linear_activation_layer_create(c) ==
  ActivationLayer("leaky_rectified_linear_activation_create")
tanh_activation_layer_create(c) == ActivationLayer("tanh_activation_create")
gelu_activation_layer_create(c) == ActivationLayer("gelu_activation_create")

-----------------------------------------------------------------------------
(* Optimizers (nn/optimizer.c) *)

optimizer_create(c) ==
  Constructor("optimizer",
    <<New("optimizer", [algorithm |-> "algorithm"], [algorithm_type |-> Tag(c.options)], "optimizer",
          Nothing)>>)

optimizer_destroy == <<"algorithm">>

algorithm_create(c) ==
  Constructor("algorithm", <<New("algorithm", [content |-> "type_algorithm"], NoTags, "algorithm", Nothing)>>)

AlgorithmKind(algorithm_type) ==
  CASE algorithm_type = "STOCASTIC_GRADIENT_DESCENT" -> "stochastic_gradient_descent"
    [] algorithm_type = "RMS_PROP" -> "rms_prop"
    [] algorithm_type = "ADAM" -> "adam"

(* The structure, then what its fields point to; it is destroyed if one of    *)
(* them cannot be made.                                                      *)
Filled(kind, values, maps) ==
  Constructor(kind,
    <<New(kind, NoFields, NoTags, kind, Nothing)>>
    \o [n \in DOMAIN values |-> Attach("memory", NoFields, kind, values[n], <<Destroy(kind)>>)]
    \o [n \in DOMAIN maps |-> Attach("map", NoFields, kind, maps[n], <<Destroy(kind)>>)])

stochastic_gradient_descent_create(c) ==
  Filled("stochastic_gradient_descent", <<"learning_rate", "momentum", "dampening", "weight_decay">>,
         <<"momentum_buffer">>)

stochastic_gradient_descent_destroy ==
  <<"momentum_buffer", "learning_rate", "momentum", "dampening", "weight_decay">>

rms_prop_create(c) ==
  Filled("rms_prop", <<"learning_rate", "momentum", "alpha", "weight_decay", "epsilon">>,
         <<"momentum_buffer", "square_average", "average_gradient">>)

rms_prop_destroy ==
  <<"momentum_buffer", "square_average", "average_gradient", "learning_rate", "momentum", "alpha",
    "weight_decay", "epsilon">>

adam_create(c) ==
  Filled("adam", <<"learning_rate", "beta_1", "beta_2", "weight_decay", "epsilon">>,
         <<"first_moment", "second_moment", "iteration">>)

adam_destroy ==
  <<"iteration", "first_moment", "second_moment", "learning_rate", "beta_1", "beta_2", "weight_decay",
    "epsilon">>

OptimizerOf(algorithm_type, name, type_algorithm) ==
  Constructor("optimizer",
    <<Construct(name, NoArguments, NoOptions, type_algorithm, Nothing),
      Construct("algorithm_create", [type_algorithm |-> type_algorithm], algorithm_type, "algorithm",
                <<Destroy(type_algorithm)>>),
      Construct("optimizer_create", [algorithm |-> "algorithm"], algorithm_type, "optimizer",
                <<DestroyUnion("algorithm", algorithm_type)>>)>>)

optimizer_stochastic_gradient_descent_create(c) ==
  OptimizerOf("STOCASTIC_GRADIENT_DESCENT", "stochastic_gradient_descent_create",
              "stochastic_gradient_descent")
optimizer_rms_prop_create(c) == OptimizerOf("RMS_PROP", "rms_prop_create", "rms_prop")
optimizer_adam_create(c) == OptimizerOf("ADAM", "adam_create", "adam")
=============================================================================
