----------------------------- MODULE MCOwnership ----------------------------
(***************************************************************************)
(* The calls made in the runs of Ownership.  Every tensor is passed with     *)
(* and without requires_gradient, and contexts are recorded or not, but for  *)
(* the combinations README.md names.                                         *)
(***************************************************************************)
EXTENDS Ownership

(* An argument that outlives the call, stored row by row. *)
Argument(p, view, requires_gradient) ==
  [parameters |-> {p}, view |-> view, requires_gradient |-> requires_gradient, persist |-> TRUE,
   differentiable |-> TRUE]

Dense(shape) == ViewCreateContiguous(shape)

(* The same shape, stored column by column. *)
Strided(shape) ==
  LET backwards == [n \in DOMAIN shape |-> Len(shape) - n]
  IN  ViewPermute(ViewCreateContiguous(Reverse(shape)), backwards)

(* No gradient is expected of it. *)
Constant(argument) == [argument EXCEPT !.differentiable = FALSE]

Run(name, arguments, options, result, recording) ==
  [name |-> name,
   arguments |-> IF recording THEN arguments ELSE [n \in DOMAIN arguments |-> Constant(arguments[n])],
   options |-> options, results |-> {result}, no_gradient |-> ~recording]

(* Of one tensor x. *)
Runs1(names, views, options, result) ==
  {Run(name, <<Argument("x", view, g)>>, o, result, r) :
     name \in names, view \in views, o \in options, g \in BOOLEAN, r \in BOOLEAN}

Vectors == {Dense(<<2>>), Dense(<<1>>), Strided(<<2, 3>>)}

Elementwise ==
  Runs1({"tensor_tanh", "tensor_gelu", "tensor_leaky_rectified_linear"}, Vectors, {NoOptions}, "y")
  \cup Runs1({"tensor_absolute"}, {Dense(<<2>>), Dense(Scalar)}, {NoOptions}, "y")
  \cup Runs1({"tensor_lower_triangular"}, {Dense(<<2, 2>>), Dense(<<1, 1>>), Strided(<<2, 2, 3>>)},
             {NoOptions}, "y")
  \cup Runs1({"tensor_dropout"}, Vectors,
             [inference : BOOLEAN, probability : BOOLEAN], "y")
  \cup Runs1({"tensor_reshape"}, {Dense(<<2, 3>>), Strided(<<2, 3>>)},
             [shape : {<<2, 3>>, <<6>>, <<3, -1>>}], "y")

Comparisons ==
  {Run(name, <<Constant(Argument("x", x, g)), Constant(Argument("y", y, h))>>, NoOptions, "z", r) :
     name \in {"tensor_compare_equal", "tensor_max"}, x \in {Dense(<<2>>)},
     y \in {Dense(<<2>>), Dense(Scalar)}, g \in BOOLEAN, h \in BOOLEAN, r \in BOOLEAN}

Reductions ==
  Runs1({"tensor_mean", "tensor_variance", "tensor_standard_deviation"},
        {Dense(<<2, 3>>), Strided(<<2, 3>>), Dense(<<1, 2>>)},
        [axis : {<<0>>, <<-1>>, <<0, 1>>}, keep_dimension : BOOLEAN], "y")
  \cup Runs1({"tensor_magnitude"}, {Dense(<<2, 3>>), Dense(Scalar)}, {NoOptions}, "y")
  \cup Runs1({"tensor_softmax"}, {Dense(<<2, 3>>), Dense(<<2, 1>>), Dense(Scalar)}, [axis : {-1}], "y")
  \cup Runs1({"tensor_logsoftmax"}, {Dense(<<2, 3>>)}, [axis : {0, -1}], "y")
  \cup {[c EXCEPT !.arguments = <<Constant(c.arguments[1])>>] :
          c \in Runs1({"tensor_argument_maximum"}, {Dense(<<2, 3>>), Dense(<<2, 1>>), Dense(<<3>>)},
                      [axis : {0, -1}, keep_dimension : BOOLEAN], "y")}

(* Axes of size one make the tensors of logsoftmax the same. *)
DegenerateLogsoftmax == Runs1({"tensor_logsoftmax"}, {Dense(<<2, 1>>)}, [axis : {1}], "y")

(* Of several tensors, of which those at the positions of one of the sets      *)
(* require a gradient.                                                       *)
Tensors(arguments, tracked) ==
  [n \in DOMAIN arguments |-> [arguments[n] EXCEPT !.requires_gradient = n \in tracked]]

Runs(names, arguments, sets, options, result) ==
  {Run(name, Tensors(arguments, tracked), o, result, r) :
     name \in names, tracked \in sets, o \in options, r \in BOOLEAN}

Plain(p, shape) == Argument(p, Dense(shape), FALSE)

Matrices ==
  Runs({"tensor_matrix_multiplication"},
       <<Plain("x", <<2, 3>>), Argument("y", Strided(<<3, 2>>), FALSE)>>,
       (SUBSET {1, 2}) \ {{1}}, {NoOptions}, "z")
  \cup Runs({"tensor_matrix_multiplication"},
            <<Plain("x", <<2, 2, 3>>), Plain("y", <<3, 2>>)>>, SUBSET {1, 2}, {NoOptions}, "z")
  \cup Runs({"tensor_concatenation"}, <<Plain("x", <<2, 1>>), Plain("y", <<2, 2>>)>>, SUBSET {1, 2},
            [axis : {1, -1}], "z")
  \cup Runs({"tensor_linear"}, <<Plain("w", <<2, 3>>), Plain("x", <<3, 2>>)>>, SUBSET {1, 2},
            {NoOptions}, "z")
  \cup Runs({"tensor_linear"}, <<Plain("w", <<2, 3>>), Plain("x", <<3, 2>>), Plain("y", <<2>>)>>,
            (SUBSET (1..3)) \ {{3}}, {NoOptions}, "z")
  \cup Runs({"tensor_embedding"},
            <<Plain("weights", <<3, 2>>), Constant(Plain("vocabulary_counter", <<3>>)),
              Constant(Plain("x", <<2, 2>>))>>, {{}, {1}}, {NoOptions}, "z")
  \cup Runs({"tensor_multinomial_sample"}, <<Constant(Argument("probabilities", Strided(<<2, 3>>), FALSE))>>,
            {{}, {1}}, {NoOptions}, "y")

Sliding(kernel_sizes) == [kernel_size : kernel_sizes, stride : {1, 2}, padding : {0, 1}]

ImageOperations ==
  Runs({"tensor_convolution_2d"}, <<Plain("w", <<2, 1, 2, 2>>), Plain("x", <<2, 1, 2, 2>>)>>,
       {{}, {2}, {1, 2}}, Sliding({2}), "z")
  \cup Runs({"tensor_convolution_2d"},
            <<Plain("w", <<1, 2, 2, 2>>), Plain("x", <<1, 2, 1, 1>>), Plain("y", <<1>>)>>,
            {{}, {2, 3}, {1, 2, 3}}, Sliding({1}), "z")
  \cup Runs({"tensor_convolution_transpose_2d"},
            <<Plain("w", <<2, 1, 2, 2>>), Plain("x", <<1, 2, 2, 2>>), Plain("y", <<2>>)>>,
            {{}, {3}, {2, 3}, {1, 2, 3}}, Sliding({2}), "z")
  \cup Runs({"tensor_convolution_transpose_2d"}, <<Plain("w", <<1, 1, 2, 2>>), Plain("x", <<1, 1, 2, 2>>)>>,
            {{}, {2}, {1, 2}}, Sliding({2}), "z")
  \cup Runs1({"tensor_max_pool_2d", "tensor_average_pool_2d"}, {Dense(<<1, 2, 2, 2>>), Dense(<<2, 1, 2, 2>>)},
             Sliding({1, 2}), "y")

(* Statistics that are given are not differentiated. *)
Running(p) == Constant(Plain(p, <<2>>))

Normalizations ==
  UNION {Runs({"tensor_batch_normalization_2d"}, <<Plain("x", <<2, 2, 1, 1>>)>> \o learned,
              {{}, 1..(1 + Len(learned))} \cup {2..(1 + Len(learned))},
              [momentum : {FALSE}, inference : {FALSE}], "y") :
         learned \in {<<>>, <<Plain("weights", <<2>>), Plain("bias", <<2>>)>>}}
  \cup Runs({"tensor_batch_normalization_2d"},
            <<Plain("x", <<2, 2, 1, 1>>), Plain("weights", <<2>>), Plain("bias", <<2>>),
              Running("running_mean"), Running("running_variance")>>,
            {{}, {2, 3}, {1, 2, 3}}, [momentum : {TRUE}, inference : {FALSE}], "y")
  \cup {[c EXCEPT !.arguments = [n \in 1..5 |-> Constant(c.arguments[n])]] :
          c \in Runs({"tensor_batch_normalization_2d"},
                     <<Plain("x", <<2, 2, 1, 1>>), Plain("weights", <<2>>), Plain("bias", <<2>>),
                       Running("running_mean"), Running("running_variance")>>,
                     {{}, {2, 3}, 1..5}, [momentum : {TRUE}, inference : {TRUE}], "y")}
  \cup UNION {Runs({"tensor_layer_normalization"}, <<Plain("x", <<2, 2>>)>> \o learned,
                   {{}, 1..(1 + Len(learned))} \cup {2..(1 + Len(learned))}, [length : 1..2], "y") :
              learned \in {<<>>, <<Plain("weights", <<2>>), Plain("bias", <<2>>)>>}}

Dropping == [inference : {FALSE}, probability : BOOLEAN, number_of_heads : {2}]

Attention ==
  Runs({"tensor_scaled_dot_product_attention"},
       <<Plain("query", <<2, 2>>), Plain("key", <<2, 2>>), Plain("value", <<2, 2>>)>>,
       {{}, {3}, {2, 3}, {1, 2, 3}}, Dropping, "y")
  \cup Runs({"tensor_causal_multihead_self_attention"},
            <<Plain("x", <<1, 2, 2>>), Plain("input_weights", <<2, 6>>), Plain("input_bias", <<6>>),
              Plain("output_weights", <<2, 2>>), Plain("output_bias", <<2>>)>>,
            {{}, {1}, 2..5, 1..5}, Dropping, "y")

Initialisers ==
  {Run(name, <<>>, o, "x", r) :
     name \in {"tensor_kaiming_uniform", "tensor_kaiming_normal", "tensor_glorot_uniform",
               "tensor_glorot_normal"},
     o \in [shape : {<<2, 2>>, <<2>>}, requires_gradient : BOOLEAN, persist : BOOLEAN], r \in BOOLEAN}

(* The backward functions, which run with no_gradient on, for a result and its *)
(* gradient of this shape.                                                   *)
Backward(names, operands, sets, shape, options) ==
  {[name |-> name,
    arguments |-> Tensors(operands, tracked)
                  \o <<Constant(Argument("result", Dense(shape), TRUE)),
                       Constant(Argument("gradient", gradient, FALSE))>>,
    options |-> o, results |-> {}, no_gradient |-> TRUE] :
     name \in names, tracked \in sets, o \in options, gradient \in {Dense(shape), Strided(shape)}}

(* One tensor that is both operands. *)
Twice(view) == [Argument("x", view, FALSE) EXCEPT !.parameters = {"x", "y"}]

UnaryNames == {"exponential", "logarithm", "sine", "cosine", "square_root", "reciprocal", "contiguous",
               "negation", "rectified_linear", "sigmoid"}

BinaryNames == {"addition", "subtraction", "multiplication", "division", "power"}

ElementwiseBackward ==
  UNION {Backward(UnaryNames, <<Plain("x", shape)>>, SUBSET {1}, shape, {NoOptions}) :
           shape \in {Scalar, <<2, 3>>}}
  \cup Backward(BinaryNames, <<Plain("x", <<2, 3>>), Plain("y", <<2, 3>>)>>, SUBSET {1, 2}, <<2, 3>>,
                {NoOptions})
  \cup Backward(BinaryNames, <<Twice(Dense(<<2>>))>>, {{1}}, <<2>>, {NoOptions})
  \cup Backward({"where"}, <<Plain("w", <<2>>), Plain("x", <<2>>), Plain("y", <<2>>)>>, SUBSET {2, 3},
                <<2>>, {NoOptions})

ReductionBackward ==
  UNION {Backward({"summation", "maximum"}, <<Argument("x", x, FALSE)>>, {{1}},
                  ViewReduce(x, axis, keep).shape, {[axis |-> axis, keep_dimension |-> keep]}) :
           x \in {Dense(<<2, 3>>), Strided(<<2, 3>>), Dense(<<1, 2>>)}, axis \in {<<1>>, <<-1, 0>>},
           keep \in BOOLEAN}
  \cup Backward({"summation", "maximum"}, <<Plain("x", <<1, 2>>)>>, {{1}}, <<2>>,
                {[axis |-> <<0>>, keep_dimension |-> FALSE]})

ShapeBackwards ==
  UNION {Backward({"expand"}, <<Plain("x", p[1])>>, SUBSET {1}, p[2], {[shape |-> p[2]]}) :
           p \in {<<Scalar, <<2>>>>, <<<<2>>, <<3, 2>>>>, <<<<1, 2>>, <<3, 2>>>>, <<<<1, 2>>, <<2, 3, 2>>>>}}
  \cup Backward({"permute"}, <<Plain("x", <<2, 3, 4>>)>>, {{1}}, <<4, 2, 3>>, {[axis |-> <<2, 0, 1>>]})
  \cup Backward({"reshape"}, <<Plain("x", <<2, 3>>)>>, {{1}}, <<3, 2>>, {NoOptions})
  \cup Backward({"slice"}, <<Plain("x", <<2, 3>>)>>, {{1}}, <<2, 1>>,
                {[arguments |-> <<<<0, 2>>, <<1, 2>>>>]})
  \cup Backward({"padding"}, <<Plain("x", <<2, 3>>)>>, {{1}}, <<3, 5>>,
                {[arguments |-> <<<<1, 0>>, <<0, 2>>>>]})
  \cup Backward({"matrix_multiplication"}, <<Plain("x", <<2, 3>>), Plain("y", <<3, 4>>)>>, SUBSET {1, 2},
                <<2, 4>>, {NoOptions})
  \cup Backward({"matrix_multiplication"},
                <<Argument("x", Strided(<<2, 2, 3>>), FALSE), Plain("y", <<2, 3, 1>>)>>, SUBSET {1, 2},
                <<2, 2, 1>>, {NoOptions})
  \cup LET a == ConvolutionArguments(2, 1, 1, 2, 3, 3)
       IN  Backward({"image_to_column"}, <<Plain("x", <<2, 2, 3, 3>>)>>, {{1}}, ImageToColumnShape(2, a), {a})
           \cup Backward({"column_to_image"}, <<Plain("x", ImageToColumnShape(2, a))>>, {{1}},
                         <<2, 2, 3, 3>>, {a})

(* The inverse of a permutation is not found if its axes count from the end.   *)
NegativePermutation ==
  Backward({"permute"}, <<Plain("x", <<2, 3>>)>>, {{1}}, <<3, 2>>, {[axis |-> <<-1, 0>>]})

(* Labels and probabilities, of which only these may be differentiated. *)
Costs ==
  UNION {Runs({"categorical_cross_entropy"},
              <<Constant(Plain("y_true", <<n>>)), Plain("y_prediction", <<n, 3>>)>>, {{}, {2}},
              {NoOptions}, "cost") : n \in 1..2}
  \cup Runs({"binary_cross_entropy"},
            <<Constant(Plain("y_true", <<2, 1>>)), Plain("y_prediction", <<2, 1>>)>>, {{}, {2}},
            {NoOptions}, "cost")
  \cup Runs({"binary_cross_entropy_logits"},
            <<Constant(Plain("y_true", <<2>>)), Plain("y_prediction", <<2>>)>>, {{}}, {NoOptions}, "cost")

Metrics ==
  {c \in Runs({"binary_accuracy"},
              <<Constant(Plain("y_pred", <<2>>)), Plain("y_true", <<2>>), Plain("threshold", Scalar)>>,
              {{}, {1}}, {NoOptions}, "accuracy")
         \cup Runs({"multiclass_accuracy"},
                   <<Constant(Plain("y_pred", <<2, 3>>)), Plain("y_true", <<2, 1>>)>>, {{}, {1}},
                   {NoOptions}, "accuracy") :
     c.no_gradient \/ ~c.arguments[1].requires_gradient}

Layer(type, names, options) == [type |-> type, tensors |-> names, options |-> options]
Activation(type) == Layer("ACTIVATION", <<>>, [type |-> type])
LinearLayer(weights, bias) == Layer("LINEAR", [weights |-> weights, bias |-> bias], NoOptions)
DroppingUnless(inference) ==
  [inference |-> inference, probability |-> TRUE, number_of_heads |-> 2]

Perceptron ==
  <<LinearLayer("w1", "b1"), Activation("ACTIVATION_RECTIFIED_LINEAR"), LinearLayer("w2", "b2"),
    Layer("BLOCK", <<>>, [layers |-> <<Activation("ACTIVATION_SIGMOID"),
                                       Activation("ACTIVATION_LOGSOFTMAX")>>])>>

PerceptronTensors ==
  <<Plain("x", <<2, 3>>), Plain("w1", <<3, 2>>), Plain("b1", <<2>>), Plain("w2", <<2, 3>>),
    Plain("b2", <<3>>)>>

Window == [kernel_size |-> 2, stride |-> 1, padding |-> 0]

Convolutional(inference) ==
  <<Layer("CONVOLUTION_2D", [kernel |-> "k1", bias |-> "b1"], Window),
    Layer("BATCH_NORMALIZATION_2D",
          [weights |-> "w2", bias |-> "b2", running_mean |-> "mean", running_variance |-> "variance"],
          [momentum |-> TRUE, inference |-> inference]),
    Activation("ACTIVATION_LEAKY_RECTIFIED_LINEAR"),
    Layer("MAX_POOLING_2D", <<>>, Window),
    Layer("CONVOLUTION_TRANSPOSE_2D", [kernel |-> "k3", bias |-> "b3"], Window),
    Layer("AVERAGE_POOLING_2D", <<>>, Window),
    Activation("ACTIVATION_TANH"),
    Layer("RESHAPE", <<>>, [shape |-> <<2, -1>>]),
    Layer("DROPOUT", <<>>, DroppingUnless(inference)),
    Activation("ACTIVATION_SOFTMAX")>>

ConvolutionalTensors ==
  <<Plain("x", <<2, 1, 4, 4>>), Plain("k1", <<2, 1, 2, 2>>), Plain("b1", <<2>>), Plain("w2", <<2>>),
    Plain("b2", <<2>>), Plain("k3", <<2, 1, 2, 2>>), Plain("b3", <<1>>), Running("mean"),
    Running("variance")>>

Transformer(inference) ==
  <<Layer("TRANSFORMER_EMBEDDING",
          [token_weights |-> "tw", token_counter |-> "tc", position_weights |-> "pw",
           position_counter |-> "pc"], NoOptions),
    Layer("DROPOUT", <<>>, DroppingUnless(inference)),
    Layer("RESIDUAL_BLOCK", <<>>,
          [layers |->
             <<Layer("LAYER_NORMALIZATION", [weights |-> "w1", bias |-> "b1"], [length |-> 1]),
               Layer("CAUSAL_MULTIHEAD_SELF_ATTENTION",
                     [input_weights |-> "w2", input_bias |-> "b2", output_weights |-> "w3",
                      output_bias |-> "b3"], DroppingUnless(inference))>>]),
    Layer("RESIDUAL_BLOCK", <<>>,
          [layers |-> <<Activation("ACTIVATION_GELU"), LinearLayer("w3", "b3"),
                        Layer("DROPOUT", <<>>, DroppingUnless(inference))>>])>>

TransformerTensors ==
  <<Constant(Plain("x", <<1, 2>>)), Plain("tw", <<3, 2>>), Plain("pw", <<2, 2>>), Plain("w1", <<2>>),
    Plain("b1", <<2>>), Plain("w2", <<2, 6>>), Plain("b2", <<6>>), Plain("w3", <<2, 2>>),
    Plain("b3", <<2>>), Constant(Plain("tc", <<3>>)), Constant(Plain("pc", <<2>>))>>

(* The layers of a model and of its blocks, which hold no blocks themselves.     *)
LayersOf(layers) ==
  Range(layers)
  \cup UNION {Range(layer.options.layers) : layer \in {l \in Range(layers) : l.type \in BlockTypes}}

TestLayers ==
  LayersOf(Perceptron)
  \cup UNION {LayersOf(Convolutional(inference)) \cup LayersOf(Transformer(inference)) :
                inference \in BOOLEAN}

(* In training the layers' tensors are differentiated, at inference nothing is  *)
(* recorded.                                                                 *)
Models ==
  Runs({"block_forward"}, PerceptronTensors, {{}, 2..5, 1..5}, {[layers |-> Perceptron]}, "y")
  \cup {c \in Runs({"block_forward"}, ConvolutionalTensors, {{}, 2..7},
                   {[layers |-> Convolutional(inference)] : inference \in BOOLEAN}, "y")
              \cup Runs({"block_forward"}, TransformerTensors, {{}, 2..9},
                        {[layers |-> Transformer(inference)] : inference \in BOOLEAN}, "y") :
           \E inference \in BOOLEAN :
             /\ c.options.layers \in {Convolutional(inference), Transformer(inference)}
             /\ inference => c.no_gradient}

(* A parameter, its gradient, and what the maps hold for it, if it is not the   *)
(* first step.                                                               *)
Steps(name, maps, options) ==
  {[name |-> name,
    arguments |-> <<Constant(Argument("parameters", Dense(shape), TRUE)),
                    Constant(Plain("parameters_gradient", shape))>>
                  \o (IF first THEN <<>>
                      ELSE [n \in DOMAIN maps |-> Constant(Plain(maps[n], shape))]),
    options |-> o, results |-> Range(maps), no_gradient |-> FALSE] :
     shape \in {Scalar, <<2>>}, first \in BOOLEAN, o \in options}

Optimizers ==
  Steps("stochastic_gradient_descent", <<"momentum_buffer">>,
        {o \in [weight_decay : BOOLEAN, momentum : BOOLEAN, nesterov : BOOLEAN] :
           o.nesterov => o.momentum})
  \cup Steps("rms_prop", <<"square_average_map", "average_gradient_map", "momentum_buffer">>,
             [weight_decay : BOOLEAN, momentum : BOOLEAN, centered : BOOLEAN])
  \cup Steps("adam", <<"first_moment_map", "second_moment_map">>, [weight_decay : BOOLEAN])
  \cup Steps("clip_gradient_norm_parameters", <<>>, [exceeds : BOOLEAN])

NetworkCalls == Costs \cup Metrics \cup Models \cup Optimizers

TestCalls ==
  Elementwise \cup Comparisons \cup Reductions \cup Matrices \cup ImageOperations \cup Normalizations
  \cup Attention \cup Initialisers \cup ElementwiseBackward \cup ReductionBackward \cup ShapeBackwards
  \cup NetworkCalls

(* The procedures whose cleanup reads through the pointer that a failed step  *)
(* has left NULL.                                                            *)
FragileProcedures ==
  {"tensor_concatenation", "tensor_linear", "tensor_convolution_2d", "tensor_convolution_transpose_2d",
   "block_forward", "stochastic_gradient_descent", "rms_prop", "adam"}
=============================================================================
