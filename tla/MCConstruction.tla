---- MODULE MCConstruction ----
(* The programs: networks as the examples and tests build them, with each       *)
(* initialiser, activation and optimizer somewhere.                             *)
EXTENDS Construction

(* Calls whose results the program names.                                      *)
Calling(name, in, options, x) == Construct(name, in, options, x, Nothing)
Plain(name, x) == Calling(name, NoArguments, NoOptions, x)
Parameter(x) == NewTensor("TRUE", x, Nothing)

(* The layers, then the block and the model.                                   *)
Names(layers) == [n \in DOMAIN layers |-> layers[n].out]
Arguments(layers) == [p \in Range(Names(layers)) |-> p]

Block(name, layers, x) == layers \o <<Calling(name, Arguments(layers), Names(layers), x)>>

Model(before, layers) ==
  before \o Block("block_create", layers, "block")
  \o <<Calling("model_create", [block |-> "block"], NoOptions, "model")>>

Inits(w, b) == <<Plain(w, "weight_init"), Plain(b, "bias_init")>>

Linear(x) ==
  Calling("linear_layer_create", [weight_init |-> "weight_init", bias_init |-> "bias_init"], NoOptions, x)

LinearWithoutBias(x) == Calling("linear_layer_create", [weight_init |-> "weight_init"], NoOptions, x)

Convolution(name, bias, x) ==
  Calling(name, IF bias THEN [kernel_init |-> "weight_init", bias_init |-> "bias_init"]
                ELSE [kernel_init |-> "weight_init"], NoOptions, x)

Normalization(name, options, x) == Calling(name, NoArguments, options, x)

Perceptron(weight_init, bias_init, activation) ==
  Model(Inits(weight_init, bias_init),
        <<Linear("layer1"), Plain(activation, "layer2"), LinearWithoutBias("layer3")>>)

Perceptrons ==
  {Perceptron("uniform_parameter_init", "zeroes_parameter_init", "rectified_linear_activation_layer_create"),
   Perceptron("normal_parameter_init", "ones_parameter_init", "sigmoid_activation_layer_create"),
   Perceptron("kaiming_normal_parameter_init", "zeroes_parameter_init", "softmax_activation_layer_create"),
   Perceptron("glorot_uniform_parameter_init", "zeroes_parameter_init",
              "leaky_rectified_linear_activation_layer_create")}

Convolutional ==
  Model(Inits("kaiming_uniform_parameter_init", "zeroes_parameter_init"),
        <<Convolution("convolution_2d_layer_create", FALSE, "layer1"),
          Normalization("batch_normalization_2d_layer_create", [affine |-> TRUE], "layer2"),
          Plain("max_pooling_2d_layer_create", "layer3"),
          Convolution("convolution_2d_layer_create", TRUE, "layer4"),
          Plain("average_pooling_2d_layer_create", "layer5"),
          Convolution("convolution_transpose_2d_layer_create", TRUE, "layer6"),
          Normalization("batch_normalization_2d_layer_create", [affine |-> FALSE], "layer7"),
          Plain("tanh_activation_layer_create", "layer8"),
          Plain("reshape_layer_create", "layer9"),
          Plain("logsoftmax_activation_layer_create", "layer10")>>)

Attention ==
  Calling("causal_multihead_self_attention_layer_create",
          [input_weight_init |-> "weight_init", input_bias_init |-> "bias_init",
           output_weight_init |-> "weight_init", output_bias_init |-> "bias_init"], NoOptions, "layer3")

Transformer ==
  Model(Inits("glorot_normal_parameter_init", "zeroes_parameter_init")
        \o Block("block_create_from_array",
                 <<Normalization("layer_normalization_layer_create", [weights |-> TRUE, bias |-> TRUE], "layer2"),
                   Attention>>, "residual")
        \o Block("block_create",
                 <<Normalization("layer_normalization_layer_create", [weights |-> TRUE, bias |-> FALSE], "layer4"),
                   Plain("gelu_activation_layer_create", "layer5"), Plain("dropout_layer_create", "layer6")>>,
                 "inner"),
        <<Calling("transformer_embedding_layer_create",
                  [token_embedding_init |-> "weight_init", position_embedding_init |-> "weight_init"],
                  NoOptions, "layer1"),
          Calling("residual_block_layer_create", [block |-> "residual"], NoOptions, "layer7"),
          Calling("block_layer_create", [block |-> "inner"], NoOptions, "layer8"),
          LinearWithoutBias("layer9")>>)

(* Layers of parameters that the program has made.                             *)
FromParameters ==
  Model(<<Parameter("w1"), Parameter("b1"), Parameter("k2"), Parameter("k3"), Parameter("b3"),
          Parameter("w4"), Parameter("w5"), Parameter("w6"), Parameter("i7"), Parameter("o7"),
          Plain("kaiming_uniform_parameter_init", "weight_init")>>,
        <<Calling("linear_layer_create_from_parameters", [weights |-> "w1", bias |-> "b1"], NoOptions, "layer1"),
          Calling("convolution_2d_layer_create_from_parameters", [kernel |-> "k2"], NoOptions, "layer2"),
          Calling("convolution_transpose_2d_layer_create_from_parameters", [kernel |-> "k3", bias |-> "b3"],
                  NoOptions, "layer3"),
          Calling("embedding_layer_create_from_parameters", [weights |-> "w4"], NoOptions, "layer4"),
          Calling("transformer_embedding_layer_create_from_parameters",
                  [token_weights |-> "w5", position_weights |-> "w6"], NoOptions, "layer5"),
          Calling("causal_multihead_self_attention_layer_create_from_parameters",
                  [input_weights |-> "i7", output_weights |-> "o7"], NoOptions, "layer6"),
          Calling("embedding_layer_create", [embedding_init |-> "weight_init"], NoOptions, "layer7")>>)

Optimizers ==
  {<<Plain(name, "optimizer")>> :
     name \in {"optimizer_stochastic_gradient_descent_create", "optimizer_rms_prop_create",
               "optimizer_adam_create"}}

TestPrograms == Perceptrons \cup {Convolutional, Transformer, FromParameters} \cup Optimizers

(* The constructors that leave, lose or follow something when memory runs out.   *)
FragileConstructors ==
  {"leaky_rectified_linear_create", "stochastic_gradient_descent_create", "rms_prop_create", "adam_create",
   "block_layer_create", "residual_block_layer_create", "embedding_layer_create_from_parameters",
   "transformer_embedding_layer_create_from_parameters",
   "causal_multihead_self_attention_layer_create_from_parameters"}
====
