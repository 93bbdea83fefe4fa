-------------------------- MODULE FunctionProcedures --------------------------
(***************************************************************************)
(* The backward functions of tensor/function.c as procedures: what            *)
(* tensor_backward calls on a tensor `result` whose context has the operands  *)
(* w, x and y, and whose gradient is `gradient`.  They run with with_no_gradient *)
(* on and add a gradient to each operand that requires one.  The options are   *)
(* the arguments the context holds.                                          *)
(***************************************************************************)
EXTENDS TensorProcedures

tensor_accumulate_gradient(x, gradient) == AccumulateGradient(x, gradient)

Freed(variables) == <<When(Always, FreeAll(variables))>>

(* The operand p gets a gradient only if it requires one. *)
Toward(c, p, steps) == If(RequiresGradient(c, p), steps)

-----------------------------------------------------------------------------
(* Operations of one tensor *)

(* gradient exp(x), which is the result *)
ExponentialBackward(c) ==
  Procedure(
    Toward(c, "x", <<tensor_multiplication("gradient", "result", "x_gradient"),
                     tensor_accumulate_gradient("x", "x_gradient")>>),
    Freed(<<"x_gradient">>))

(* gradient / x *)
LogarithmBackward(c) ==
  Procedure(
    Toward(c, "x", <<tensor_division("gradient", "x", "x_gradient"),
                     tensor_accumulate_gradient("x", "x_gradient")>>),
    Freed(<<"x_gradient">>))

(* gradient cos(x) *)
SineBackward(c) ==
  Procedure(
    Toward(c, "x", <<tensor_cosine("x", "x_gradient_i"),
                     tensor_multiplication("x_gradient_i", "gradient", "x_gradient"),
                     tensor_accumulate_gradient("x", "x_gradient")>>),
    Freed(<<"x_gradient", "x_gradient_i">>))

(* gradient (-sin(x)) *)
CosineBackward(c) ==
  Procedure(
    Toward(c, "x", <<tensor_sine("x", "x_gradient_j"),
                     tensor_negation("x_gradient_j", "x_gradient_i"),
                     tensor_multiplication("x_gradient_i", "gradient", "x_gradient"),
                     tensor_accumulate_gradient("x", "x_gradient")>>),
    Freed(<<"x_gradient", "x_gradient_i", "x_gradient_j">>))

(* gradient / (2 sqrt(x)) *)
SquareRootBackward(c) ==
  Procedure(
    Toward(c, "x", <<constant("x_gradient_j"),
                     tensor_multiplication("result", "x_gradient_j", "x_gradient_i"),
                     tensor_division("gradient", "x_gradient_i", "x_gradient"),
                     tensor_accumulate_gradient("x", "x_gradient")>>),
    Freed(<<"x_gradient", "x_gradient_i", "x_gradient_j">>))

(* gradient (-1 / x^2) *)
ReciprocalBackward(c) ==
  Procedure(
    Toward(c, "x", <<tensor_multiplication("result", "result", "x_gradient_i"),
                     tensor_negation("x_gradient_i", "x_gradient_j"),
                     tensor_multiplication("x_gradient_j", "gradient", "x_gradient"),
                     tensor_accumulate_gradient("x", "x_gradient")>>),
    Freed(<<"x_gradient", "x_gradient_i", "x_gradient_j">>))

ContiguousBackward(c) == Wrapper(Toward(c, "x", <<tensor_accumulate_gradient("x", "gradient")>>))

NegationBackward(c) ==
  Procedure(
    Toward(c, "x", <<tensor_negation("gradient", "x_gradient"),
                     tensor_accumulate_gradient("x", "x_gradient")>>),
    Freed(<<"x_gradient">>))

(* gradient (x > 0), where 0 may need no expansion *)
RectifiedLinearBackward(c) ==
  Procedure(
    Toward(c, "x", <<constant("x_gradient_i"),
                     tensor_expand("x_gradient_i", Shape(c, "x"), "x_gradient_k"),
                     tensor_compare_greater("x", "x_gradient_k", "x_gradient_j"),
                     tensor_multiplication("x_gradient_j", "gradient", "x_gradient"),
                     tensor_accumulate_gradient("x", "x_gradient")>>),
    <<When(Always,
           <<Free("x_gradient"), FreeUnless("x_gradient_i", <<"x_gradient_k">>), Free("x_gradient_j"),
             Free("x_gradient_k")>>)>>)

(* gradient sigmoid(x) (1 - sigmoid(x)) *)
SigmoidBackward(c) ==
  Procedure(
    Toward(c, "x", <<constant("x_gradient_i"),
                     tensor_subtraction("x_gradient_i", "result", "x_gradient_k"),
                     tensor_multiplication("result", "x_gradient_k", "x_gradient_j"),
                     tensor_multiplication("x_gradient_j", "gradient", "x_gradient"),
                     tensor_accumulate_gradient("x", "x_gradient")>>),
    Freed(<<"x_gradient", "x_gradient_i", "x_gradient_j", "x_gradient_k">>))

-----------------------------------------------------------------------------
(* Operations of two and three tensors *)

AdditionBackward(c) ==
  Wrapper(Toward(c, "x", <<tensor_accumulate_gradient("x", "gradient")>>)
          \o Toward(c, "y", <<tensor_accumulate_gradient("y", "gradient")>>))

SubtractionBackward(c) ==
  Procedure(
    Toward(c, "x", <<tensor_accumulate_gradient("x", "gradient")>>)
    \o Toward(c, "y", <<tensor_negation("gradient", "y_gradient"),
                        tensor_accumulate_gradient("y", "y_gradient")>>),
    Freed(<<"y_gradient">>))

(* A mutant that gives the second gradient to the first operand too. *)
MultiplicationBackwardOfX(c) ==
  Procedure(
    Toward(c, "x", <<tensor_multiplication("y", "gradient", "x_gradient"),
                     tensor_accumulate_gradient("x", "x_gradient")>>)
    \o Toward(c, "y", <<tensor_multiplication("x", "gradient", "y_gradient"),
                        tensor_accumulate_gradient("x", "y_gradient")>>),
    Freed(<<"x_gradient", "y_gradient">>))

MultiplicationBackward(c) ==
  Procedure(
    Toward(c, "x", <<tensor_multiplication("y", "gradient", "x_gradient"),
                     tensor_accumulate_gradient("x", "x_gradient")>>)
    \o Toward(c, "y", <<tensor_multiplication("x", "gradient", "y_gradient"),
                        tensor_accumulate_gradient("y", "y_gradient")>>),
    Freed(<<"x_gradient", "y_gradient">>))

(* gradient / y and gradient x (-1 / y^2) *)
DivisionBackward(c) ==
  Procedure(
    Toward(c, "x", <<tensor_division("gradient", "y", "x_gradient"),
                     tensor_accumulate_gradient("x", "x_gradient")>>)
    \o Toward(c, "y", <<tensor_multiplication("y", "y", "y_gradient_k"),
                        tensor_reciprocal("y_gradient_k", "y_gradient_l"),
                        tensor_negation("y_gradient_l", "y_gradient_i"),
                        tensor_multiplication("y_gradient_i", "x", "y_gradient_j"),
                        tensor_multiplication("y_gradient_j", "gradient", "y_gradient"),
                        tensor_accumulate_gradient("y", "y_gradient")>>),
    Freed(<<"x_gradient", "y_gradient", "y_gradient_i", "y_gradient_j", "y_gradient_k",
            "y_gradient_l">>))

(* gradient y x^y / x and gradient log(x) x^y *)
PowerBackward(c) ==
  Procedure(
    Toward(c, "x", <<tensor_division("result", "x", "x_gradient_i"),
                     tensor_multiplication("x_gradient_i", "y", "x_gradient_j"),
                     tensor_multiplication("x_gradient_j", "gradient", "x_gradient"),
                     tensor_accumulate_gradient("x", "x_gradient")>>)
    \o Toward(c, "y", <<tensor_logarithm("x", "y_gradient_i"),
                        tensor_multiplication("y_gradient_i", "result", "y_gradient_j"),
                        tensor_multiplication("y_gradient_j", "gradient", "y_gradient"),
                        tensor_accumulate_gradient("y", "y_gradient")>>),
    Freed(<<"x_gradient", "x_gradient_i", "x_gradient_j", "y_gradient", "y_gradient_i",
            "y_gradient_j">>))

(* gradient y^T and x^T gradient *)
MatrixMultiplicationBackward(c) ==
  LET Transposed(p, q) == tensor_transpose(Rank(c.view[p]), p, q, Rank(c.view[p]) - 2, Rank(c.view[p]) - 1)
  IN  Procedure(
        Toward(c, "x", <<Transposed("y", "x_gradient_i"),
                         tensor_matrix_multiplication("gradient", "x_gradient_i", "x_gradient"),
                         tensor_accumulate_gradient("x", "x_gradient")>>)
        \o Toward(c, "y", <<Transposed("x", "y_gradient_i"),
                            tensor_matrix_multiplication("y_gradient_i", "gradient", "y_gradient"),
                            tensor_accumulate_gradient("y", "y_gradient")>>),
        Freed(<<"x_gradient", "x_gradient_i", "y_gradient", "y_gradient_i">>))

(* The gradient where w holds and where it does not *)
WhereBackward(c) ==
  Procedure(
    <<constant("zero_constant")>>
    \o Toward(c, "x", <<tensor_where("w", "gradient", "zero_constant", "x_gradient"),
                        tensor_accumulate_gradient("x", "x_gradient")>>)
    \o Toward(c, "y", <<tensor_where("w", "zero_constant", "gradient", "y_gradient"),
                        tensor_accumulate_gradient("y", "y_gradient")>>),
    Freed(<<"zero_constant", "x_gradient", "y_gradient">>))

-----------------------------------------------------------------------------
(* Reductions: the gradient, with the dimensions that were removed, is        *)
(* expanded to the shape of x.                                               *)

Recovered(c, p) == ViewRecoverDimensions(Shape(c, p), c.options.axis)

SummationBackward(c) ==
  Procedure(
    Toward(c, "x",
           <<IF c.options.keep_dimension THEN Assign("gradient", "x_gradient_i")
             ELSE tensor_reshape("gradient", "x_gradient_i", Recovered(c, "gradient")),
             tensor_expand("x_gradient_i", Shape(c, "x"), "x_gradient"),
             tensor_accumulate_gradient("x", "x_gradient")>>),
    <<When(Always,
           <<FreeUnless("x_gradient", <<"x_gradient_i">>), FreeUnless("x_gradient_i", <<"gradient">>)>>)>>)

(* Divided among the places where x is maximal. *)
MaximumBackward(c) ==
  Procedure(
    Toward(c, "x",
           (IF c.options.keep_dimension
            THEN <<Assign("result", "x_gradient_k"), Assign("gradient", "x_gradient_l")>>
            ELSE <<tensor_reshape("result", "x_gradient_k", Recovered(c, "result")),
                   tensor_reshape("gradient", "x_gradient_l", Recovered(c, "gradient"))>>)
           \o <<tensor_expand("x_gradient_k", Shape(c, "x"), "x_gradient_m"),
                tensor_compare_equal("x_gradient_m", "x", "x_gradient_n"),
                tensor_summation("x_gradient_n", "x_gradient_o", c.options.axis, TRUE),
                tensor_division("x_gradient_n", "x_gradient_o", "x_gradient_p"),
                tensor_multiplication("x_gradient_p", "x_gradient_l", "x_gradient"),
                tensor_accumulate_gradient("x", "x_gradient")>>),
    <<When(Always,
           <<FreeUnless("x_gradient_m", <<"x_gradient_k">>), FreeUnless("x_gradient_k", <<"result">>),
             FreeUnless("x_gradient_l", <<"gradient">>), FreeUnless("x_gradient_n", <<"x_gradient_o">>),
             Free("x_gradient_o"), Free("x_gradient_p"), Free("x_gradient")>>)>>)

-----------------------------------------------------------------------------
(* Operations on the shape: the gradient is taken the way back. *)

(* Summed along the axes along which x was repeated. *)
ExpandBackward(c) ==
  LET keep == ReduceAxisKeep(Shape(c, "x"), c.options.shape)
      remove == ReduceAxisRemove(Shape(c, "x"), c.options.shape)
  IN  Procedure(
        Toward(c, "x",
               <<IF keep # <<>> THEN tensor_summation("gradient", "x_gradient_i", keep, TRUE)
                 ELSE Assign("gradient", "x_gradient_i"),
                 IF remove # <<>> THEN tensor_summation("x_gradient_i", "x_gradient", remove, FALSE)
                 ELSE Assign("x_gradient_i", "x_gradient"),
                 tensor_accumulate_gradient("x", "x_gradient")>>),
        <<When(Always,
               <<FreeUnless("x_gradient", <<"x_gradient_i">>),
                 FreeUnless("x_gradient_i", <<"gradient">>)>>)>>)

(* One step back: the gradient itself must not be destroyed. *)
ShapeBackward(c, step) ==
  Procedure(Toward(c, "x", <<step, tensor_accumulate_gradient("x", "x_gradient")>>),
            <<When(Always, <<FreeUnless("x_gradient", <<"gradient">>)>>)>>)

(* argument_sort: the positions of the elements in the order of their values. *)
ArgumentSort(array) ==
  SortSeq([n \in DOMAIN array |-> n - 1], LAMBDA i, j : array[i + 1] < array[j + 1])

PermuteBackward(c) ==
  ShapeBackward(c, tensor_permute("gradient", "x_gradient", ArgumentSort(c.options.axis)))

ReshapeBackward(c) == ShapeBackward(c, tensor_reshape("gradient", "x_gradient", Shape(c, "x")))

SliceBackward(c) ==
  ShapeBackward(c, tensor_padding("gradient", "x_gradient",
                                  ViewSlicePaddingArguments(Shape(c, "x"), c.options.arguments)))

PaddingBackward(c) ==
  ShapeBackward(c, tensor_slice("gradient", "x_gradient",
                                ViewPaddingSliceArguments(Shape(c, "x"), c.options.arguments)))

ImageToColumnBackward(c) ==
  ShapeBackward(c, tensor_column_to_image("gradient", "x_gradient", c.options))

ColumnToImageBackward(c) ==
  ShapeBackward(c, tensor_image_to_column("gradient", "x_gradient", c.options))

-----------------------------------------------------------------------------
(* function_backward, by the operation of the context. *)

BackwardNames ==
  {"exponential", "logarithm", "sine", "cosine", "square_root", "reciprocal", "contiguous", "negation",
   "rectified_linear", "sigmoid", "addition", "subtraction", "multiplication", "division", "power",
   "matrix_multiplication", "where", "summation", "maximum", "expand", "permute", "reshape", "slice",
   "padding", "image_to_column", "column_to_image"}

FunctionBackward(name, c) ==
  CASE name = "exponential" -> ExponentialBackward(c)
    [] name = "logarithm" -> LogarithmBackward(c)
    [] name = "sine" -> SineBackward(c)
    [] name = "cosine" -> CosineBackward(c)
    [] name = "square_root" -> SquareRootBackward(c)
    [] name = "reciprocal" -> ReciprocalBackward(c)
    [] name = "contiguous" -> ContiguousBackward(c)
    [] name = "negation" -> NegationBackward(c)
    [] name = "rectified_linear" -> RectifiedLinearBackward(c)
    [] name = "sigmoid" -> SigmoidBackward(c)
    [] name = "addition" -> AdditionBackward(c)
    [] name = "subtraction" -> SubtractionBackward(c)
    [] name = "multiplication" -> MultiplicationBackward(c)
    [] name = "division" -> DivisionBackward(c)
    [] name = "power" -> PowerBackward(c)
    [] name = "matrix_multiplication" -> MatrixMultiplicationBackward(c)
    [] name = "where" -> WhereBackward(c)
    [] name = "summation" -> SummationBackward(c)
    [] name = "maximum" -> MaximumBackward(c)
    [] name = "expand" -> ExpandBackward(c)
    [] name = "permute" -> PermuteBackward(c)
    [] name = "reshape" -> ReshapeBackward(c)
    [] name = "slice" -> SliceBackward(c)
    [] name = "padding" -> PaddingBackward(c)
    [] name = "image_to_column" -> ImageToColumnBackward(c)
    [] name = "column_to_image" -> ColumnToImageBackward(c)
=============================================================================
