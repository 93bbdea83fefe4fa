-------------------------- MODULE TensorProcedures --------------------------
(***************************************************************************)
(* The functions of tensor/tensor.c that are composed of operations, as      *)
(* procedures.  A step has the name of the function it calls; the procedure  *)
(* of that function, if it is one, has the name without `tensor_`.  Left out *)
(* are the types and values of constants, and allocations of plain memory:   *)
(* where one fails, the next operation may as well.                          *)
(***************************************************************************)
EXTENDS Procedures

(* Functions that apply one operation. *)
tensor_exponential(x, y) == Unary(x, y)
tensor_logarithm(x, y) == Unary(x, y)
tensor_sine(x, y) == Unary(x, y)
tensor_cosine(x, y) == Unary(x, y)
tensor_square_root(x, y) == Unary(x, y)
tensor_reciprocal(x, y) == Unary(x, y)
tensor_negation(x, y) == Unary(x, y)
tensor_rectified_linear(x, y) == Unary(x, y)
tensor_sigmoid(x, y) == Unary(x, y)
tensor_addition(x, y, z) == Binary(x, y, z)
tensor_subtraction(x, y, z) == Binary(x, y, z)
tensor_division(x, y, z) == Binary(x, y, z)
tensor_multiplication(x, y, z) == Binary(x, y, z)
tensor_power(x, y, z) == Binary(x, y, z)
tensor_where(w, x, y, z) == Ternary(w, x, y, z)
tensor_summation(x, y, axes, keep_dimension) == Reduction(x, axes, keep_dimension, y)
tensor_maximum(x, y, axes, keep_dimension) == Reduction(x, axes, keep_dimension, y)
tensor_permute(x, y, axes) == Structure("permute", x, axes, y)
tensor_slice(x, y, arguments) == Structure("slice", x, arguments, y)
tensor_padding(x, y, arguments) == Structure("padding", x, arguments, y)
tensor_expand(x, shape, y) == Expand(x, shape, y)
tensor_contiguous(x, y) == MakeContiguous(x, y)

Scalar == <<>>

(* tensor_constant, and the other functions that create a tensor. *)
tensor_constant(requires_gradient, persist, x) == Creation(Scalar, requires_gradient, persist, x)
constant(x) == tensor_constant(FALSE, FALSE, x)

(* tensor_transpose *)
Transposition(rank, axis1, axis2) ==
  LET n == Dimension(axis1, rank)
      m == Dimension(axis2, rank)
  IN  [k \in 1..rank |-> IF k = m THEN n - 1 ELSE IF k = n THEN m - 1 ELSE k - 1]

tensor_transpose(rank, x, y, axis1, axis2) == tensor_permute(x, y, Transposition(rank, axis1, axis2))

(* Functions that are procedures. *)
tensor_concatenation(x, y, z, axis) ==
  Call("tensor_concatenation", [x |-> x, y |-> y], [axis |-> axis], [z |-> z])
tensor_tanh(x, y) == Call("tensor_tanh", [x |-> x], NoOptions, [y |-> y])
tensor_compare_equal(x, y, z) == Call("tensor_compare_equal", [x |-> x, y |-> y], NoOptions, [z |-> z])
tensor_compare_greater(x, y, z) ==
  Call("tensor_compare_greater", [x |-> x, y |-> y], NoOptions, [z |-> z])
tensor_matrix_multiplication(x, y, z) ==
  Call("tensor_matrix_multiplication", [x |-> x, y |-> y], NoOptions, [z |-> z])
tensor_image_to_column(x, y, convolution) ==
  Call("tensor_image_to_column", [x |-> x], convolution, [y |-> y])
tensor_column_to_image(x, y, convolution) ==
  Call("tensor_column_to_image", [x |-> x], convolution, [y |-> y])
tensor_reshape(x, y, shape) == Call("tensor_reshape", [x |-> x], [shape |-> shape], [y |-> y])

-----------------------------------------------------------------------------
(* Concatenation: both tensors, padded to the shape of the result, are added. *)

Concatenation(c) ==
  LET axis == Dimension(c.options.axis, Rank(c.view.x))
      x_arguments == [n \in 1..Rank(c.view.x) |-> <<0, IF n = axis THEN Shape(c, "y")[n] ELSE 0>>]
      y_arguments == [n \in 1..Rank(c.view.y) |-> <<IF n = axis THEN Shape(c, "x")[n] ELSE 0, 0>>]
  IN  Procedure(
        <<tensor_padding("x", "x_padded", x_arguments),
          tensor_padding("y", "y_padded", y_arguments),
          tensor_addition("x_padded", "y_padded", "z")>>,
        <<When(<<Untracked(<<"x_padded", "y_padded">>)>>, FreeAll(<<"x_padded", "y_padded">>))>>)

-----------------------------------------------------------------------------
(* Elementwise functions *)

(* 2 sigmoid(2 x) - 1.  The constants are destroyed unless an addition has    *)
(* recorded them themselves, rather than expanded copies of them.            *)
Tanh(c) ==
  Procedure(
    <<constant("const_tensor_1"),
      constant("const_tensor_2"),
      tensor_multiplication("const_tensor_2", "x", "double_x"),
      tensor_sigmoid("double_x", "sigmoid_2x"),
      tensor_multiplication("const_tensor_2", "sigmoid_2x", "double_sigmoid"),
      tensor_subtraction("double_sigmoid", "const_tensor_1", "y")>>,
    <<When(<<ShapesDiffer("const_tensor_1", "x")>>, <<Free("const_tensor_1")>>),
      When(<<ShapesDiffer("const_tensor_2", "x")>>, <<Free("const_tensor_2")>>),
      When(<<Untracked(<<"x">>)>>, FreeAll(<<"double_x", "sigmoid_2x", "double_sigmoid">>))>>)

(* relu(x) + relu(-x) *)
Absolute(c) ==
  Procedure(
    <<tensor_rectified_linear("x", "x_i"),
      tensor_negation("x", "x_j"),
      tensor_rectified_linear("x_j", "x_k"),
      tensor_addition("x_i", "x_k", "y")>>,
    <<When(<<Untracked(<<"x">>)>>, FreeAll(<<"x_i", "x_j", "x_k">>))>>)

GeluConstants == <<"constant_05", "constant_3", "constant_1", "constant_079", "constant_0044">>

CreateGeluConstants == [n \in DOMAIN GeluConstants |-> constant(GeluConstants[n])]

(* x (1 + tanh(0.79 (x + 0.044 x^3))) / 2 *)
Gelu(c) ==
  Procedure(
    CreateGeluConstants
    \o <<tensor_power("x", "constant_3", "x_cubed"),
         tensor_multiplication("constant_0044", "x_cubed", "x_cubed_0044"),
         tensor_addition("x", "x_cubed_0044", "x_plus_x_cubed_0044"),
         tensor_multiplication("constant_079", "x_plus_x_cubed_0044", "tanh_input"),
         tensor_tanh("tanh_input", "tanh_output"),
         tensor_addition("constant_1", "tanh_output", "one_plus_tanh"),
         tensor_multiplication("constant_05", "x", "x_05"),
         tensor_multiplication("x_05", "one_plus_tanh", "y")>>,
    [n \in DOMAIN GeluConstants |->
       When(<<ShapesDiffer(GeluConstants[n], "x"), Untracked(<<"x">>)>>, <<Free(GeluConstants[n])>>)]
    \o <<When(<<Untracked(<<"x">>)>>,
              FreeAll(<<"x_cubed", "x_cubed_0044", "x_plus_x_cubed_0044", "tanh_input",
                        "tanh_output", "one_plus_tanh", "x_05">>))>>)

(* A comparison records nothing; an error leaves the mode switched on. *)
CompareEqual(c) ==
  Wrapper(<<WithNoGradient(TRUE), Binary("x", "y", "z"), WithNoGradient(FALSE)>>)

CompareGreater(c) == CompareEqual(c)

(* (x > y) x + (y > x) y *)
Max2(c) ==
  Procedure(
    <<WithNoGradient(TRUE),
      tensor_compare_greater("x", "y", "compare_x_y"),
      tensor_compare_greater("y", "x", "compare_y_x"),
      tensor_multiplication("x", "compare_x_y", "x_max"),
      tensor_multiplication("y", "compare_y_x", "y_max"),
      tensor_addition("x_max", "y_max", "z"),
      WithNoGradient(FALSE)>>,
    <<When(Always, FreeAll(<<"compare_x_y", "compare_y_x", "x_max", "y_max">>))>>)

-----------------------------------------------------------------------------
(* Functions of matrices and images *)

MatrixMultiplication(c) ==
  Procedure(
    <<tensor_contiguous("x", "x_contiguous"),
      tensor_contiguous("y", "y_contiguous"),
      MatrixProduct("x_contiguous", "y_contiguous", "z")>>,
    <<When(<<Untracked(<<"x">>)>>, <<FreeUnless("x_contiguous", <<"x">>)>>),
      When(<<Untracked(<<"y">>)>>, <<FreeUnless("y_contiguous", <<"y">>)>>)>>)

(* The options are the arguments of the operation. *)
ImageToColumn(c) ==
  Procedure(
    <<tensor_contiguous("x", "x_contiguous"),
      Structure("image_to_column", "x_contiguous", c.options, "y")>>,
    <<When(<<Untracked(<<"x">>)>>, <<FreeUnless("x_contiguous", <<"x">>)>>)>>)

ColumnToImage(c) ==
  Procedure(
    <<tensor_contiguous("x", "x_contiguous"),
      Structure("column_to_image", "x_contiguous", c.options, "y")>>,
    <<When(<<Untracked(<<"x">>)>>, <<FreeUnless("x_contiguous", <<"x">>)>>)>>)

(* w x + y, or w x if y is NULL *)
Linear(c) ==
  Procedure(
    <<tensor_matrix_multiplication("w", "x", "u"),
      IF Given(c, "y") THEN tensor_addition("u", "y", "z") ELSE Assign("u", "z")>>,
    <<When(<<Untracked(<<"u">>)>>, <<FreeUnless("u", <<"z">>)>>)>>)

ConvolutionArguments(kernel_size, stride, padding, channels, height, width) ==
  [kernel_size |-> kernel_size, stride |-> stride, padding |-> padding,
   channels |-> channels, height |-> height, width |-> width]

(* Images w, kernels x and a bias y: the kernels as a matrix, times the        *)
(* patches of the images as columns.                                          *)
Convolution2d(c) ==
  LET w == Shape(c, "w")
      out_channels == Shape(c, "x")[1]
      kernel_size == Shape(c, "x")[3]
      a == ConvolutionArguments(kernel_size, c.options.stride, c.options.padding, w[2], w[3], w[4])
  IN  Procedure(
        <<tensor_image_to_column("w", "w_toeplitz", a),
          tensor_reshape("x", "x_reshape", <<out_channels, w[2] * kernel_size * kernel_size>>),
          tensor_matrix_multiplication("x_reshape", "w_toeplitz", "v")>>
        \o (IF Given(c, "y")
            THEN <<tensor_reshape("y", "y_reshape", <<out_channels, 1>>),
                   tensor_addition("v", "y_reshape", "u")>>
            ELSE <<Assign("v", "u")>>)
        \o <<tensor_reshape("u", "z",
                            <<w[1], out_channels, OutputSize(a, w[3]), OutputSize(a, w[4])>>)>>,
        If(Given(c, "y"),
           <<When(<<Untracked(<<"v", "y">>)>>,
                  <<FreeUnless("y_reshape", <<"y">>), FreeUnless("u", <<"z">>)>>)>>)
        \o <<When(<<Untracked(<<"x", "w">>)>>,
                  <<Free("w_toeplitz"), FreeUnless("x_reshape", <<"x">>), FreeUnless("v", <<"z">>)>>)>>)

(* The columns of every channel on its own, reduced, as images again. *)
Pool2d(c, reduce) ==
  LET x == Shape(c, "x")
      a == ConvolutionArguments(c.options.kernel_size, c.options.stride, c.options.padding, 1, x[3], x[4])
  IN  Procedure(
        <<tensor_reshape("x", "x_reshape", <<x[1] * x[2], 1, x[3], x[4]>>),
          tensor_image_to_column("x_reshape", "x_toeplitz", a),
          reduce,
          tensor_reshape("u", "y", <<x[1], x[2], OutputSize(a, x[3]), OutputSize(a, x[4])>>)>>,
        <<When(<<Untracked(<<"x">>)>>,
               <<FreeUnless("x_toeplitz", <<"u">>), FreeUnless("x_reshape", <<"x">>),
                 FreeUnless("u", <<"y">>)>>)>>)

MaxPool2d(c) == Pool2d(c, tensor_maximum("x_toeplitz", "u", <<-2>>, TRUE))

AveragePool2d(c) ==
  Pool2d(c, Call("tensor_mean", [x |-> "x_toeplitz"], [axis |-> <<-2>>, keep_dimension |-> TRUE],
                 [y |-> "u"]))

TransposeSize(size, kernel_size, options) ==
  (size - 1) * options.stride - 2 * options.padding + (kernel_size - 1) + 1

(* The kernels, transposed, times the images, whose columns become images.    *)
ConvolutionTranspose2d(c) ==
  LET w == Shape(c, "w")
      in_channels == Shape(c, "x")[1]
      out_channels == Shape(c, "x")[2]
      kernel_size == Shape(c, "x")[3]
      a == ConvolutionArguments(kernel_size, c.options.stride, c.options.padding, out_channels,
                                TransposeSize(w[3], kernel_size, c.options),
                                TransposeSize(w[4], kernel_size, c.options))
  IN  Procedure(
        <<tensor_reshape("w", "w_reshape", <<w[1], in_channels, w[3] * w[4]>>),
          tensor_reshape("x", "x_reshape", <<in_channels, out_channels * kernel_size * kernel_size>>),
          tensor_transpose(2, "x_reshape", "x_transpose", 0, 1),
          tensor_matrix_multiplication("x_transpose", "w_reshape", "v"),
          tensor_column_to_image("v", "u", a)>>
        \o (IF Given(c, "y")
            THEN <<tensor_reshape("y", "y_reshape", <<out_channels, 1, 1>>),
                   tensor_addition("u", "y_reshape", "z")>>
            ELSE <<Assign("u", "z")>>),
        <<When(<<Untracked(<<"x_transpose">>)>>, <<FreeUnless("x_reshape", <<"x">>)>>),
          When(<<Untracked(<<"w_reshape", "x_transpose">>)>>,
               <<FreeUnless("w_reshape", <<"w">>), Free("x_transpose")>>),
          When(<<Untracked(<<"v">>)>>, <<Free("v")>>)>>
        \o If(Given(c, "y"),
              <<When(<<Untracked(<<"u", "y_reshape">>)>>,
                     <<Free("u"), FreeUnless("y_reshape", <<"y">>)>>)>>))

-----------------------------------------------------------------------------
(* Reductions.  The axis of a scalar stands for no axis at all. *)

tensor_arange(x, size) == Creation(<<size>>, FALSE, FALSE, x)
tensor_mean(x, y, axis, keep_dimension) ==
  Call("tensor_mean", [x |-> x], [axis |-> axis, keep_dimension |-> keep_dimension], [y |-> y])
tensor_variance(x, y, axis, keep_dimension) ==
  Call("tensor_variance", [x |-> x], [axis |-> axis, keep_dimension |-> keep_dimension], [y |-> y])

ReduceAxis(x, axis) == IF x = Scalar THEN <<>> ELSE <<axis>>

ArgumentMaximumCleanup ==
  <<When(Always,
         <<FreeUnless("x_i", <<"x">>), Free("x_j"), FreeUnless("x_k", <<"x_l">>), Free("x_l"),
           FreeUnless("x_m", <<"x_n">>), Free("x_n"), Free("x_o")>>)>>

(* The largest, over the axis, of the places where x is maximal, counted       *)
(* downwards.                                                                *)
ArgumentMaximum(c) ==
  LET x == Shape(c, "x")
      axis == DimensionToIndex(c.options.axis, Len(x))
      dimension == IF x = Scalar THEN 1 ELSE x[axis + 1]
      new_shape == [n \in 1..(Len(x) - axis) |-> IF n = 1 THEN dimension ELSE 1]
  IN  InNoGradientMode(
        <<WithNoGradient(TRUE),
          tensor_maximum("x", "x_i", ReduceAxis(x, axis), TRUE),
          tensor_compare_equal("x_i", "x", "x_j"),
          tensor_arange("x_k", dimension),
          tensor_reshape("x_k", "x_l", new_shape),
          tensor_multiplication("x_j", "x_l", "x_m"),
          tensor_maximum("x_m", "x_n", ReduceAxis(x, axis), c.options.keep_dimension),
          constant("x_o"),
          tensor_subtraction("x_o", "x_n", "y")>>,
        ArgumentMaximumCleanup)

(* A mutant whose cleanup asks the sum, which may not have been made. *)
MeanOfResult(c) ==
  Procedure(
    <<tensor_summation("x", "x_i", c.options.axis, c.options.keep_dimension),
      tensor_constant(RequiresGradient(c, "x"), FALSE, "x_j"),
      tensor_multiplication("x_j", "x_i", "y")>>,
    <<When(<<Untracked(<<"x_i">>)>>, <<FreeUnless("x_i", <<"x">>), Free("x_j")>>)>>)

(* The number of elements is a constant that requires a gradient if x does,   *)
(* so that it is recorded and kept with the rest.                             *)
Mean(c) ==
  Procedure(
    <<tensor_summation("x", "x_i", c.options.axis, c.options.keep_dimension),
      tensor_constant(RequiresGradient(c, "x"), FALSE, "x_j"),
      tensor_multiplication("x_j", "x_i", "y")>>,
    <<When(<<Untracked(<<"x">>)>>, <<FreeUnless("x_i", <<"x">>), Free("x_j")>>)>>)

(* It is an error to reduce nothing. *)
Variance(c) ==
  LET axis == c.options.axis
      n_i == ArrayProduct(ViewReduce(c.view.x, axis, c.options.keep_dimension).shape)
  IN  Procedure(
        If(n_i = ArrayProduct(Shape(c, "x")), <<Error>>)
        \o <<tensor_mean("x", "x_i", axis, TRUE),
             tensor_subtraction("x", "x_i", "x_j"),
             tensor_multiplication("x_j", "x_j", "x_k"),
             tensor_summation("x_k", "x_l", axis, c.options.keep_dimension),
             tensor_constant(RequiresGradient(c, "x"), FALSE, "x_m"),
             tensor_division("x_l", "x_m", "y")>>,
        <<When(<<Untracked(<<"x">>)>>,
               <<FreeUnless("x_i", <<"x">>), Free("x_j"), FreeUnless("x_k", <<"x_l">>), Free("x_l"),
                 Free("x_m")>>)>>)

StandardDeviation(c) ==
  Procedure(
    <<tensor_variance("x", "x_i", c.options.axis, c.options.keep_dimension),
      tensor_square_root("x_i", "y")>>,
    <<When(<<Untracked(<<"x">>)>>, <<FreeUnless("x_i", <<"x">>)>>)>>)

Magnitude(c) ==
  Procedure(
    <<tensor_multiplication("x", "x", "x_i"),
      tensor_summation("x_i", "x_j", <<>>, FALSE),
      tensor_square_root("x_j", "y")>>,
    <<When(<<Untracked(<<"x">>)>>, <<FreeUnless("x_i", <<"x_j">>), Free("x_j")>>)>>)

(* The part that softmax and logsoftmax have in common. *)
softmax(x, y_max, y_num, y_den, axis) ==
  Call("softmax", [x |-> x], [axis |-> axis], [y_max |-> y_max, y_num |-> y_num, y_den |-> y_den])

SoftmaxParts(c) ==
  LET axis == ReduceAxis(Shape(c, "x"), c.options.axis)
  IN  Procedure(
        <<tensor_maximum("x", "x_i", axis, TRUE),
          tensor_subtraction("x", "x_i", "y_max"),
          tensor_exponential("y_max", "y_num"),
          tensor_summation("y_num", "y_den", axis, TRUE)>>,
        <<When(<<Untracked(<<"x">>)>>, <<FreeUnless("x_i", <<"x">>)>>)>>)

(* A mutant without the case that nothing was summed: y_den is y_num then. *)
SoftmaxUnguarded(c) ==
  Procedure(
    <<softmax("x", "x_i", "x_j", "x_k", c.options.axis),
      tensor_division("x_j", "x_k", "y")>>,
    <<When(<<Untracked(<<"x">>)>>, FreeAll(<<"x_i", "x_j", "x_k">>))>>)

Softmax(c) ==
  Procedure(
    <<softmax("x", "x_i", "x_j", "x_k", c.options.axis),
      tensor_division("x_j", "x_k", "y")>>,
    <<When(<<Untracked(<<"x">>)>>, <<Free("x_i"), FreeUnless("x_j", <<"x_k">>), Free("x_k")>>)>>)

Logsoftmax(c) ==
  Procedure(
    <<softmax("x", "x_i", "x_j", "x_k", c.options.axis),
      tensor_logarithm("x_k", "x_l"),
      tensor_subtraction("x_i", "x_l", "y")>>,
    <<When(<<Untracked(<<"x">>)>>, FreeAll(<<"x_i", "x_j", "x_k", "x_l">>))>>)

(* x itself if it has the shape, of which one size may be inferred: -1.        *)
Reshape(c) ==
  LET shape == c.options.shape
      n == ArrayProduct(Shape(c, "x"))
      actual_shape == [k \in DOMAIN shape |->
                         IF shape[k] = -1 THEN n \div (-ArrayProduct(shape)) ELSE shape[k]]
  IN  Procedure(
        IF Shape(c, "x") = actual_shape THEN <<Assign("x", "y")>>
        ELSE <<tensor_contiguous("x", "x_contiguous"),
               Structure("reshape", "x_contiguous", actual_shape, "y")>>,
        If(Shape(c, "x") # actual_shape,
           <<When(<<Untracked(<<"x">>)>>, <<FreeUnless("x_contiguous", <<"x">>)>>)>>))

-----------------------------------------------------------------------------
(* Normalization *)

(* Without running means the statistics of the batch are used and destroyed;   *)
(* at inference the running ones are, and belong to the caller.                *)
BatchStatistics(c) ==
  If(c.options.momentum /\ ~c.options.inference,
     <<constant("momentum_constant"), constant("momentum_complement_constant")>>)
  \o (IF c.options.inference
      THEN <<Assign("running_mean", "mean"), Assign("running_variance", "variance")>>
      ELSE <<tensor_mean("x", "mean", <<0, 2, 3>>, FALSE),
             tensor_variance("x", "variance", <<0, 2, 3>>, FALSE)>>)

Normalize(c) ==
  LET reshaped == <<1, Shape(c, "x")[2], 1, 1>>
  IN  <<tensor_reshape("mean", "mean_reshaped", reshaped),
        tensor_reshape("variance", "variance_reshaped", reshaped),
        tensor_addition("variance_reshaped", "epsilon_constant", "variance_perturbed"),
        tensor_square_root("variance_perturbed", "denominator"),
        tensor_subtraction("x", "mean_reshaped", "numerator"),
        tensor_division("numerator", "denominator", "standard_normal_x")>>
      \o (IF Given(c, "weights")
          THEN <<tensor_reshape("weights", "reshaped_weights", reshaped),
                 tensor_multiplication("reshaped_weights", "standard_normal_x",
                                       "scaled_standard_normal_x")>>
          ELSE <<Assign("standard_normal_x", "scaled_standard_normal_x")>>)
      \o (IF Given(c, "bias")
          THEN <<tensor_reshape("bias", "reshaped_bias", reshaped),
                 tensor_addition("reshaped_bias", "scaled_standard_normal_x", "y")>>
          ELSE <<Assign("scaled_standard_normal_x", "y")>>)

(* A mutant that leaves the mode only if it has updated something. *)
UpdateRunningStatisticsInMode(c) ==
  <<WithNoGradient(TRUE)>>
  \o If(Given(c, "running_mean") /\ ~c.options.inference,
        <<tensor_multiplication("momentum_complement_constant", "running_mean", "running_mean_l"),
          tensor_multiplication("momentum_constant", "mean", "running_mean_r"),
          tensor_addition("running_mean_l", "running_mean_r", "running_mean"),
          WithNoGradient(FALSE)>>)

(* The running statistics are overwritten. *)
UpdateRunningStatistics(c) ==
  <<WithNoGradient(TRUE)>>
  \o If(Given(c, "running_mean") /\ ~c.options.inference,
        <<tensor_multiplication("momentum_complement_constant", "running_mean", "running_mean_l"),
          tensor_multiplication("momentum_constant", "mean", "running_mean_r"),
          tensor_addition("running_mean_l", "running_mean_r", "running_mean")>>)
  \o If(Given(c, "running_variance") /\ ~c.options.inference,
        <<tensor_constant(RequiresGradient(c, "x"), FALSE, "value_constant"),
          tensor_multiplication("momentum_complement_constant", "running_variance", "running_variance_l"),
          tensor_multiplication("value_constant", "variance", "unbiased_variance"),
          tensor_multiplication("momentum_constant", "unbiased_variance", "running_variance_r"),
          tensor_addition("running_variance_l", "running_variance_r", "running_variance")>>)
  \o <<WithNoGradient(FALSE)>>

(* !x || !x->requires_gradient || no_gradient || inference *)
NotLearned(c, p) ==
  IF c.options.inference THEN Always
  ELSE IF Given(c, p) THEN <<Untracked(<<p>>)>> ELSE <<IsNull(p)>>

BatchNormalizationCleanup(c) ==
  <<When(NotLearned(c, "x"),
         <<FreeUnless("mean_reshaped", <<"mean">>), FreeUnless("mean", <<"running_mean">>),
           FreeUnless("variance_reshaped", <<"variance">>), FreeUnless("variance", <<"running_variance">>),
           Free("variance_perturbed"), Free("denominator"), Free("numerator")>>),
    When(NotLearned(c, "weights"),
         <<FreeUnless("reshaped_weights", <<"weights">>),
           FreeUnless("standard_normal_x", <<"scaled_standard_normal_x">>)>>),
    When(NotLearned(c, "bias"),
         <<FreeUnless("reshaped_bias", <<"bias">>), FreeUnless("scaled_standard_normal_x", <<"y">>)>>),
    When(Always,
         FreeAll(<<"unbiased_variance", "value_constant", "momentum_constant",
                   "momentum_complement_constant", "running_mean_l", "running_mean_r",
                   "running_variance_l", "running_variance_r", "epsilon_constant">>))>>

BatchNormalization2d(c) ==
  Procedure(
    If(Rank(c.view.x) # 4, <<Error>>)
    \o If(c.options.inference, <<WithNoGradient(TRUE)>>)
    \o <<constant("epsilon_constant")>>
    \o BatchStatistics(c)
    \o Normalize(c)
    \o UpdateRunningStatistics(c)
    \o If(c.options.inference, <<WithNoGradient(FALSE)>>),
    BatchNormalizationCleanup(c))

(* Over the last dimensions, as many as the options say. *)
LayerNormalization(c) ==
  LET axis == [n \in 1..c.options.length |-> -n]
      Learned(p) == IF Given(c, p) THEN <<Untracked(<<p>>)>> ELSE <<IsNull(p)>>
  IN  Procedure(
        <<constant("epsilon_constant"),
          tensor_mean("x", "mean", axis, TRUE),
          tensor_variance("x", "variance", axis, TRUE),
          tensor_addition("variance", "epsilon_constant", "variance_perturbed"),
          tensor_square_root("variance_perturbed", "denominator"),
          tensor_subtraction("x", "mean", "numerator"),
          tensor_division("numerator", "denominator", "standard_normal_x"),
          IF Given(c, "weights")
          THEN tensor_multiplication("weights", "standard_normal_x", "scaled_standard_normal_x")
          ELSE Assign("standard_normal_x", "scaled_standard_normal_x"),
          IF Given(c, "bias")
          THEN tensor_addition("bias", "scaled_standard_normal_x", "y")
          ELSE Assign("scaled_standard_normal_x", "y")>>,
        <<When(<<Untracked(<<"x">>), ShapesDiffer("variance", "epsilon_constant")>>,
               <<Free("epsilon_constant")>>),
          When(<<Untracked(<<"x">>)>>,
               FreeAll(<<"mean", "variance", "variance_perturbed", "denominator", "numerator">>)),
          When(Learned("weights"), <<FreeUnless("standard_normal_x", <<"scaled_standard_normal_x">>)>>),
          When(Learned("bias"), <<FreeUnless("scaled_standard_normal_x", <<"y">>)>>)>>)

-----------------------------------------------------------------------------
(* Masks, dropout and attention *)

LowerTriangularCleanup ==
  <<When(<<Untracked(<<"x">>), ShapesDiffer("x_o", "x")>>, <<Free("x_o")>>),
    When(Always,
         <<Free("x_i"), Free("x_j"), FreeUnless("x_k", <<"x_m">>), FreeUnless("x_l", <<"x_n">>),
           Free("x_m"), Free("x_n")>>)>>

(* x times the mask of the rows and columns of which the row is not smaller.    *)
LowerTriangular(c) ==
  LET rows == SizeFromEnd(Shape(c, "x"), 2)
      columns == SizeFromEnd(Shape(c, "x"), 1)
  IN  Procedure(
        <<tensor_arange("x_i", rows),
          tensor_arange("x_j", columns),
          tensor_reshape("x_i", "x_k", <<rows, 1>>),
          tensor_reshape("x_j", "x_l", <<1, columns>>),
          tensor_expand("x_k", <<rows, columns>>, "x_m"),
          tensor_expand("x_l", <<rows, columns>>, "x_n"),
          tensor_compare_greater("x_m", "x_n", "x_o"),
          tensor_multiplication("x", "x_o", "y")>>,
        LowerTriangularCleanup)

(* relu(x) - relu(-c x) *)
LeakyRectifiedLinear(c) ==
  Procedure(
    <<constant("c_i"),
      tensor_negation("c_i", "c_j"),
      tensor_rectified_linear("x", "x_i"),
      tensor_multiplication("x", "c_j", "x_j"),
      tensor_rectified_linear("x_j", "x_k"),
      tensor_subtraction("x_i", "x_k", "y")>>,
    <<When(Always, <<Free("c_i")>>),
      When(<<ShapesDiffer("x", "c_j")>>, <<Free("c_j")>>),
      When(<<Untracked(<<"x">>)>>, FreeAll(<<"x_i", "x_j", "x_k">>))>>)

(* x itself unless something may be dropped. *)
Dropout(c) ==
  IF c.options.inference \/ ~c.options.probability THEN Wrapper(<<Assign("x", "y")>>)
  ELSE Procedure(
         <<constant("probability_constant"),
           constant("scale"),
           Creation(Shape(c, "x"), FALSE, FALSE, "rand_tensor"),
           tensor_compare_greater("rand_tensor", "probability_constant", "mask"),
           tensor_multiplication("x", "mask", "x_i"),
           tensor_multiplication("x_i", "scale", "y")>>,
         <<When(Always, FreeAll(<<"probability_constant", "rand_tensor", "scale">>)),
           When(<<Untracked(<<"x">>)>>, FreeAll(<<"mask", "x_i">>))>>)

tensor_linear(w, x, y, z) == Call("tensor_linear", [w |-> w, x |-> x, y |-> y], NoOptions, [z |-> z])
tensor_softmax(x, y, axis) == Call("tensor_softmax", [x |-> x], [axis |-> axis], [y |-> y])
tensor_dropout(x, y, options) == Call("tensor_dropout", [x |-> x], options, [y |-> y])
tensor_lower_triangular(x, y) == Call("tensor_lower_triangular", [x |-> x], NoOptions, [y |-> y])

ScaledDotProductAttentionCleanup ==
  LET tracked == Untracked(<<"key", "query">>)
  IN  <<When(Always, FreeAll(<<"bias", "zero_constant", "upper_triangular",
                               "negative_infinity_constant">>)),
        When(<<tracked, ShapesDiffer("similarity", "scale_constant")>>, <<Free("scale_constant")>>),
        When(<<tracked, ShapesDiffer("attention_j", "attention_i")>>, <<Free("attention_i")>>),
        When(<<tracked, ShapesDiffer("scaled_similarity", "lower_triangular")>>,
             <<Free("lower_triangular")>>),
        When(<<tracked>>,
             FreeAll(<<"key_transposed", "similarity", "scaled_similarity", "attention_j",
                       "attention_k">>)
             \o <<FreeUnless("attention_l", <<"attention_m">>)>>),
        When(<<Untracked(<<"value">>)>>, <<Free("attention_m")>>)>>

(* softmax of the masked similarities of queries and keys, times the values.   *)
ScaledDotProductAttention(c) ==
  LET size == SizeFromEnd(Shape(c, "query"), 2)
  IN  Procedure(
        <<constant("zero_constant"),
          constant("negative_infinity_constant"),
          constant("scale_constant"),
          tensor_transpose(Rank(c.view.key), "key", "key_transposed", -2, -1),
          tensor_matrix_multiplication("query", "key_transposed", "similarity"),
          tensor_multiplication("similarity", "scale_constant", "scaled_similarity"),
          Creation(<<size, size>>, FALSE, FALSE, "bias"),
          tensor_lower_triangular("bias", "lower_triangular"),
          tensor_compare_equal("lower_triangular", "zero_constant", "upper_triangular"),
          tensor_multiplication("upper_triangular", "negative_infinity_constant", "attention_i"),
          tensor_multiplication("lower_triangular", "scaled_similarity", "attention_j"),
          tensor_addition("attention_i", "attention_j", "attention_k"),
          tensor_softmax("attention_k", "attention_l", -1),
          tensor_dropout("attention_l", "attention_m", c.options),
          tensor_matrix_multiplication("attention_m", "value", "y")>>,
        ScaledDotProductAttentionCleanup)

(* The inner conditions of the code imply the outer: what belongs to the        *)
(* output projection is destroyed if neither projection is recorded.           *)
CausalMultiheadSelfAttentionCleanup ==
  LET input == Untracked(<<"x", "input_weights", "input_bias">>)
  IN  <<When(<<input>>,
             FreeAll(<<"input_projection", "query", "key", "value", "query_reshaped", "key_reshaped",
                       "value_reshaped", "query_transposed", "key_transposed", "value_transposed",
                       "attention">>)
             \o <<FreeUnless("attention_transpose", <<"attention_reshaped">>)>>),
        When(<<Untracked(<<"x", "input_weights", "input_bias", "output_weights", "output_bias">>)>>,
             <<Free("attention_reshaped")>>),
        When(<<input>>, <<FreeUnless("output_projection", <<"y">>)>>)>>

(* Queries, keys and values are thirds of one projection of x, split into      *)
(* heads.                                                                    *)
CausalMultiheadSelfAttention(c) ==
  LET x == Shape(c, "x")
      heads == <<x[1], x[2], c.options.number_of_heads, x[3] \div c.options.number_of_heads>>
      Third(n) == <<<<0, x[1]>>, <<0, x[2]>>, <<(n - 1) * x[3], n * x[3]>>>>
  IN  Procedure(
        <<tensor_linear("x", "input_weights", "input_bias", "input_projection"),
          tensor_slice("input_projection", "query", Third(1)),
          tensor_slice("input_projection", "key", Third(2)),
          tensor_slice("input_projection", "value", Third(3)),
          tensor_reshape("query", "query_reshaped", heads),
          tensor_reshape("key", "key_reshaped", heads),
          tensor_reshape("value", "value_reshaped", heads),
          tensor_transpose(4, "query_reshaped", "query_transposed", 1, 2),
          tensor_transpose(4, "key_reshaped", "key_transposed", 1, 2),
          tensor_transpose(4, "value_reshaped", "value_transposed", 1, 2),
          Call("tensor_scaled_dot_product_attention",
               [query |-> "query_transposed", key |-> "key_transposed", value |-> "value_transposed"],
               c.options, [y |-> "attention"]),
          tensor_transpose(4, "attention", "attention_transpose", 1, 2),
          tensor_reshape("attention_transpose", "attention_reshaped", x),
          tensor_linear("attention_reshaped", "output_weights", "output_bias", "output_projection"),
          tensor_dropout("output_projection", "y", c.options)>>,
        CausalMultiheadSelfAttentionCleanup)

(* The words as one-hot vectors, times the weights. *)
Embedding(c) ==
  LET x == Shape(c, "x")
  IN  Procedure(
        If(<<Len(x), Rank(c.view.weights), Rank(c.view.vocabulary_counter)>> # <<2, 2, 1>>, <<Error>>)
        \o <<tensor_reshape("vocabulary_counter", "vocabulary_counter_reshaped",
                            <<1, 1, Shape(c, "vocabulary_counter")[1]>>),
             tensor_reshape("x", "x_reshaped", <<x[1], x[2], 1>>),
             tensor_compare_equal("x_reshaped", "vocabulary_counter_reshaped", "one_hot"),
             tensor_matrix_multiplication("one_hot", "weights", "z")>>,
        <<When(Always, <<FreeUnless("vocabulary_counter_reshaped", <<"vocabulary_counter">>)>>),
          When(<<Untracked(<<"x">>)>>, <<FreeUnless("x_reshaped", <<"x">>)>>),
          When(<<Untracked(<<"weights">>)>>, <<Free("one_hot")>>)>>)

(* The sample is read from a copy, whose making records nothing. *)
MultinomialSample(c) ==
  InNoGradientMode(
    <<WithNoGradient(TRUE), tensor_contiguous("probabilities", "probabilities_contiguous")>>,
    <<When(Always, <<FreeUnless("probabilities_contiguous", <<"probabilities">>)>>)>>)

(* The initialisers kaiming and glorot scale by the fan of a weight, which has  *)
(* one only for these ranks.                                                  *)
FanIsDefined(shape) == Len(shape) \in {2, 4, 5}

Initialise(c) ==
  Wrapper(If(~FanIsDefined(c.options.shape), <<Error>>)
          \o <<Creation(c.options.shape, c.options.requires_gradient, c.options.persist, "x")>>)

tensor_kaiming_uniform(x, options) == Call("tensor_kaiming_uniform", <<>>, options, [x |-> x])
tensor_kaiming_normal(x, options) == Call("tensor_kaiming_normal", <<>>, options, [x |-> x])
tensor_glorot_uniform(x, options) == Call("tensor_glorot_uniform", <<>>, options, [x |-> x])
tensor_glorot_normal(x, options) == Call("tensor_glorot_normal", <<>>, options, [x |-> x])

KaimingUniform(c) == Initialise(c)
KaimingNormal(c) == Initialise(c)
GlorotUniform(c) == Initialise(c)
GlorotNormal(c) == Initialise(c)

-----------------------------------------------------------------------------

TensorProcedureNames ==
  {"tensor_concatenation", "tensor_tanh", "tensor_absolute", "tensor_gelu",
   "tensor_compare_equal", "tensor_compare_greater", "tensor_max",
   "tensor_matrix_multiplication", "tensor_image_to_column", "tensor_column_to_image",
   "tensor_linear", "tensor_convolution_2d", "tensor_max_pool_2d", "tensor_average_pool_2d",
   "tensor_convolution_transpose_2d", "tensor_argument_maximum", "tensor_mean",
   "tensor_variance", "tensor_standard_deviation", "tensor_magnitude", "softmax",
   "tensor_softmax", "tensor_logsoftmax", "tensor_reshape", "tensor_batch_normalization_2d",
   "tensor_layer_normalization", "tensor_lower_triangular", "tensor_leaky_rectified_linear",
   "tensor_dropout", "tensor_scaled_dot_product_attention",
   "tensor_causal_multihead_self_attention", "tensor_embedding", "tensor_multinomial_sample",
   "tensor_kaiming_uniform", "tensor_kaiming_normal", "tensor_glorot_uniform",
   "tensor_glorot_normal"}

TensorProcedure(name, c) ==
  CASE name = "tensor_concatenation" -> Concatenation(c)
    [] name = "tensor_tanh" -> Tanh(c)
    [] name = "tensor_absolute" -> Absolute(c)
    [] name = "tensor_gelu" -> Gelu(c)
    [] name = "tensor_compare_equal" -> CompareEqual(c)
    [] name = "tensor_compare_greater" -> CompareGreater(c)
    [] name = "tensor_max" -> Max2(c)
    [] name = "tensor_matrix_multiplication" -> MatrixMultiplication(c)
    [] name = "tensor_image_to_column" -> ImageToColumn(c)
    [] name = "tensor_column_to_image" -> ColumnToImage(c)
    [] name = "tensor_linear" -> Linear(c)
    [] name = "tensor_convolution_2d" -> Convolution2d(c)
    [] name = "tensor_max_pool_2d" -> MaxPool2d(c)
    [] name = "tensor_average_pool_2d" -> AveragePool2d(c)
    [] name = "tensor_convolution_transpose_2d" -> ConvolutionTranspose2d(c)
    [] name = "tensor_argument_maximum" -> ArgumentMaximum(c)
    [] name = "tensor_mean" -> Mean(c)
    [] name = "tensor_variance" -> Variance(c)
    [] name = "tensor_standard_deviation" -> StandardDeviation(c)
    [] name = "tensor_magnitude" -> Magnitude(c)
    [] name = "softmax" -> SoftmaxParts(c)
    [] name = "tensor_softmax" -> Softmax(c)
    [] name = "tensor_logsoftmax" -> Logsoftmax(c)
    [] name = "tensor_reshape" -> Reshape(c)
    [] name = "tensor_batch_normalization_2d" -> BatchNormalization2d(c)
    [] name = "tensor_layer_normalization" -> LayerNormalization(c)
    [] name = "tensor_lower_triangular" -> LowerTriangular(c)
    [] name = "tensor_leaky_rectified_linear" -> LeakyRectifiedLinear(c)
    [] name = "tensor_dropout" -> Dropout(c)
    [] name = "tensor_scaled_dot_product_attention" -> ScaledDotProductAttention(c)
    [] name = "tensor_causal_multihead_self_attention" -> CausalMultiheadSelfAttention(c)
    [] name = "tensor_embedding" -> Embedding(c)
    [] name = "tensor_multinomial_sample" -> MultinomialSample(c)
    [] name = "tensor_kaiming_uniform" -> KaimingUniform(c)
    [] name = "tensor_kaiming_normal" -> KaimingNormal(c)
    [] name = "tensor_glorot_uniform" -> GlorotUniform(c)
    [] name = "tensor_glorot_normal" -> GlorotNormal(c)
=============================================================================
