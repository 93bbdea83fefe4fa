----------------------------- MODULE Procedures -----------------------------
(***************************************************************************)
(* The vocabulary in which the functions of tensor/tensor.c,                *)
(* tensor/function.c and nn/ that are composed of operations on tensors are *)
(* written down as data, to be executed by module Ownership.                *)
(*                                                                         *)
(* A procedure is an operator of the context c of its call:                 *)
(*   c.view[p]             the view of the tensor passed as parameter p      *)
(*   c.given               the parameters that are not NULL                  *)
(*   c.requires_gradient   those whose tensor requires a gradient            *)
(*   c.options             the arguments that are not tensors                *)
(* It returns the steps of the function's body and the clauses behind its    *)
(* `cleanup` label, where the body ends and where a step that reports an     *)
(* error jumps to.  Steps name the C variables they read and set, the        *)
(* variable they set last, as the C functions do.                            *)
(***************************************************************************)
EXTENDS Views, FiniteSets

Procedure(body, cleanup) == [body |-> body, cleanup |-> cleanup, leaves_mode |-> FALSE]

(* One whose cleanup also calls with_no_gradient(false). *)
InNoGradientMode(body, cleanup) ==
  [body |-> body, cleanup |-> cleanup, leaves_mode |-> TRUE]

(* A function that returns as soon as a step reports an error. *)
Wrapper(body) == Procedure(body, <<>>)

(* Steps that are taken if the arguments of the call say so. *)
If(condition, steps) == IF condition THEN steps ELSE <<>>

Shape(c, p) == c.view[p].shape
Given(c, p) == p \in c.given
RequiresGradient(c, p) == p \in c.requires_gradient

NoOptions == <<>>

-----------------------------------------------------------------------------
(* Steps *)

(* The operations of function.c, by the shape of what they compute. *)
Unary(x, y) == [do |-> "unary", in |-> <<x>>, out |-> y]
Binary(x, y, z) == [do |-> "binary", in |-> <<x, y>>, out |-> z]
MatrixProduct(x, y, z) == [do |-> "matrix product", in |-> <<x, y>>, out |-> z]
Ternary(w, x, y, z) == [do |-> "ternary", in |-> <<w, x, y>>, out |-> z]
Reduction(x, axes, keep_dimension, y) ==
  [do |-> "reduction", in |-> <<x>>, out |-> y, axes |-> axes, keep_dimension |-> keep_dimension]
Structure(type, x, arguments, y) ==
  [do |-> "structure", type |-> type, in |-> <<x>>, out |-> y, arguments |-> arguments]
Creation(shape, requires_gradient, persist, x) ==
  [do |-> "creation", in |-> <<>>, out |-> x, shape |-> shape,
   requires_gradient |-> requires_gradient, persist |-> persist]

(* tensor_expand and tensor_contiguous, which may give x itself. *)
Expand(x, shape, y) == [do |-> "expand", in |-> <<x>>, out |-> y, shape |-> shape]
ExpandLike(x, w, y) == [do |-> "expand like", in |-> <<x, w>>, out |-> y]
MakeContiguous(x, y) == [do |-> "contiguous", in |-> <<x>>, out |-> y]

(* Another tensor on the same storage. *)
As(x, y) == [do |-> "as", in |-> <<x>>, out |-> y]

(* y = x, for pointers. *)
Assign(x, y) == [do |-> "assign", in |-> <<x>>, out |-> y]

(* with_no_gradient(flag) *)
WithNoGradient(flag) == [do |-> "with_no_gradient", flag |-> flag]

(* The same where it may fail: map_set(map, key, x). *)
Store(x, map) == [do |-> "store", in |-> <<x>>, out |-> map]

(* Clauses as those of a cleanup, in the middle of a body. *)
CleanUp(clauses) == [do |-> "clean up", clauses |-> clauses]

(* tensor_accumulate_gradient(x, gradient) *)
AccumulateGradient(x, gradient) == [do |-> "accumulate", in |-> <<x, gradient>>]

(* An error the function reports itself. *)
Error == [do |-> "error"]

(* The call of another procedure: `in` and `out` give the variables of the   *)
(* caller for the parameters that are read and for those that are set.       *)
Call(name, in, options, out) ==
  [do |-> "call", name |-> name, in |-> in, options |-> options, out |-> out]

-----------------------------------------------------------------------------
(* Cleanup: tensors that are destroyed if one of the conditions holds. They  *)
(* are evaluated in this order, up to the first that holds.                   *)

When(conditions, destroyed) == [conditions |-> conditions, destroyed |-> destroyed]

Always == <<>>

(* !(x->requires_gradient || ...) || no_gradient *)
Untracked(variables) == [test |-> "untracked", of |-> variables]
DoesNotRequireGradient(x) == [test |-> "no requires_gradient", of |-> <<x>>]
NoGradientMode == [test |-> "no_gradient", of |-> <<>>]
IsNull(x) == [test |-> "null", of |-> <<x>>]

(* !tensor_shapes_equal(x, y), which holds too when one is NULL *)
ShapesDiffer(x, y) == [test |-> "shapes differ", of |-> <<x, y>>]

(* tensor_destroy(x) *)
Free(x) == [variable |-> x, unless |-> <<>>]

(* if (x != y) tensor_destroy(x), for one or more y *)
FreeUnless(x, others) == [variable |-> x, unless |-> others]

FreeAll(variables) == [n \in DOMAIN variables |-> Free(variables[n])]
=============================================================================
