-------------------------- MODULE Ownership_proofs --------------------------
(***************************************************************************)
(* A call that succeeds leaves the recording of contexts as it found it, for *)
(* any model, any arguments, any nesting of calls and any failures.          *)
(*                                                                         *)
(* with_no_gradient counts how deep the program is in functions that record  *)
(* nothing.  A procedure is balanced if every way through its body comes to  *)
(* the depth at which it began, one deeper if its cleanup leaves the mode    *)
(* (Balanced).  The first part proves this of every procedure: of each       *)
(* function of tensor.c, function.c, layer.c, cost.c and optimizer.c, with   *)
(* the loops over layers unrolled to any length.                             *)
(*                                                                         *)
(* The second part follows the frames on the stack.  Each was entered at a   *)
(* depth, its base, from which the rest of its caller comes to what its      *)
(* caller promises; the rest of the innermost frame starts at the depth that *)
(* is counted now (Depths).  A function that has failed promises nothing, and *)
(* neither do its callers, which fail with it, so that the invariant          *)
(* (ModeInvariant) speaks of depths only while the innermost frame has not     *)
(* failed.                                                                    *)
(***************************************************************************)
EXTENDS Ownership, FoldFacts, SequenceTheorems

-----------------------------------------------------------------------------
(* Steps, and the depths along a body *)

(* A sequence, of whatever elements. *)
IsSequence(a) == a \in Seq({a[n] : n \in DOMAIN a})

(* A step that leaves the mode alone: any but with_no_gradient, where a call  *)
(* is one of the procedures.                                                   *)
Plain(step) ==
  /\ step.do # "with_no_gradient"
  /\ step.do = "call" => /\ step.name \in NetworkProcedureNames \cup BackwardNames
                         /\ IsArgued(step.name, step.options)

PlainSteps(body) == IsSequence(body) /\ \A n \in 1..Len(body) : Plain(body[n])

(* The step takes the program from depth i to depth j. *)
ModeAfter(step, i, j) ==
  \/ Plain(step) /\ j = i
  \/ step = WithNoGradient(TRUE) /\ j = i + 1
  \/ step = WithNoGradient(FALSE) /\ i = j + 1

(* The depths d before every step of the body from the nth on, and behind the  *)
(* last.                                                                       *)
IsPath(d, body, n) ==
  /\ d \in [n..(Len(body) + 1) -> Nat]
  /\ \A k \in n..Len(body) : ModeAfter(body[k], d[k], d[k + 1])

(* From depth i, the body from its nth step on comes to depth j. *)
Rest(body, n, i, j) ==
  /\ n \in 1..(Len(body) + 1)
  /\ \E d : IsPath(d, body, n) /\ d[n] = i /\ d[Len(body) + 1] = j

(* From depth i, the whole body comes to depth j. *)
Nests(body, i, j) == IsSequence(body) /\ Rest(body, 1, i, j)

(* From every depth the procedure comes back to it, or one deeper if its       *)
(* cleanup leaves the mode.                                                    *)
Balanced(procedure) ==
  \A i \in Nat : Nests(procedure.body, i, IF procedure.leaves_mode THEN i + 1 ELSE i)

LEMMA MembersSequence ==
  ASSUME NEW S, NEW a \in Seq(S)
  PROVE  IsSequence(a)
<1> DEFINE R == {a[n] : n \in DOMAIN a}
<1>1. \A n \in 1..Len(a) : a[n] \in R
  OBVIOUS
<1>2. a \in [1..Len(a) -> S] /\ Len(a) \in Nat
  OBVIOUS
<1>3. a \in [1..Len(a) -> R]
  BY <1>1, <1>2
<1>4. a \in Seq(R)
  BY <1>2, <1>3
<1> QED
  BY <1>4 DEF IsSequence

LEMMA SequenceConcatenation ==
  ASSUME NEW a, NEW b, IsSequence(a), IsSequence(b)
  PROVE  /\ IsSequence(a \o b)
         /\ Len(a) \in Nat /\ Len(b) \in Nat
         /\ Len(a \o b) = Len(a) + Len(b)
         /\ \A n \in 1..Len(a) : (a \o b)[n] = a[n]
         /\ \A n \in 1..Len(b) : (a \o b)[Len(a) + n] = b[n]
<1>1. PICK S : a \in Seq(S)
  BY DEF IsSequence
<1>2. PICK T : b \in Seq(T)
  BY DEF IsSequence
<1>3. a \in Seq(S \cup T) /\ b \in Seq(S \cup T)
  BY <1>1, <1>2
<1> DEFINE U == S \cup T
<1> HIDE DEF U
<1>4. a \in Seq(U) /\ b \in Seq(U)
  BY <1>3 DEF U
<1>5. a \o b \in Seq(U) /\ Len(a) \in Nat /\ Len(b) \in Nat
  BY <1>4
<1>6. Len(a \o b) = Len(a) + Len(b)
  BY <1>4
<1>7. \A n \in 1..Len(a) : (a \o b)[n] = a[n]
  BY <1>4
<1>8. \A n \in 1..Len(b) : (a \o b)[Len(a) + n] = b[n]
  BY <1>4
<1> QED
  BY <1>5, <1>6, <1>7, <1>8, MembersSequence

LEMMA PlainConcatenation ==
  ASSUME NEW a, NEW b, PlainSteps(a), PlainSteps(b)
  PROVE  PlainSteps(a \o b)
<1>1. ASSUME NEW n \in 1..Len(a \o b)
      PROVE  Plain((a \o b)[n])
  <2>0. IsSequence(a) /\ IsSequence(b)
    BY DEF PlainSteps
  <2>1. CASE n <= Len(a)
    BY <2>0, <2>1, SequenceConcatenation DEF PlainSteps
  <2>2. CASE n > Len(a)
    <3>1. n - Len(a) \in 1..Len(b) /\ Len(a) + (n - Len(a)) = n
      BY <2>0, <2>2, SequenceConcatenation
    <3> QED
      BY <2>0, <3>1, SequenceConcatenation DEF PlainSteps
  <2> QED
    BY <2>0, <2>1, <2>2, SequenceConcatenation
<1> QED
  BY <1>1, SequenceConcatenation DEF PlainSteps

LEMMA PlainEmpty == PlainSteps(<<>>)
<1>1. <<>> \in Seq({})
  OBVIOUS
<1> QED
  BY <1>1 DEF PlainSteps, IsSequence

LEMMA PlainIf ==
  ASSUME NEW condition, NEW a, PlainSteps(a)
  PROVE  PlainSteps(If(condition, a))
  BY PlainEmpty DEF If

-----------------------------------------------------------------------------
(* Which steps are plain *)

LEMMA PlainOperations ==
  \A x, y, z, w, v, u :
    /\ Plain(Unary(x, y))
    /\ Plain(Binary(x, y, z))
    /\ Plain(MatrixProduct(x, y, z))
    /\ Plain(Ternary(x, y, z, w))
    /\ Plain(Reduction(x, y, z, w))
    /\ Plain(Structure(x, y, z, w))
    /\ Plain(Creation(x, y, z, w))
    /\ Plain(Expand(x, y, z))
    /\ Plain(ExpandLike(x, y, z))
    /\ Plain(MakeContiguous(x, y))
    /\ Plain(As(x, y))
    /\ Plain(Assign(x, y))
    /\ Plain(Store(x, y))
    /\ Plain(CleanUp(x))
    /\ Plain(AccumulateGradient(x, y))
    /\ Plain(Error)
  BY DEF Plain, Unary, Binary, MatrixProduct, Ternary, Reduction, Structure, Creation, Expand, ExpandLike,
         MakeContiguous, As, Assign, Store, CleanUp, AccumulateGradient, Error

LEMMA PlainTuple1 ==
  ASSUME NEW s1,
         Plain(s1)
  PROVE  PlainSteps(<<s1>>)
  BY DEF PlainSteps, IsSequence

LEMMA PlainTuple2 ==
  ASSUME NEW s1, NEW s2,
         Plain(s1), Plain(s2)
  PROVE  PlainSteps(<<s1, s2>>)
  BY DEF PlainSteps, IsSequence

LEMMA PlainTuple3 ==
  ASSUME NEW s1, NEW s2, NEW s3,
         Plain(s1), Plain(s2), Plain(s3)
  PROVE  PlainSteps(<<s1, s2, s3>>)
  BY DEF PlainSteps, IsSequence

LEMMA PlainTuple4 ==
  ASSUME NEW s1, NEW s2, NEW s3, NEW s4,
         Plain(s1), Plain(s2), Plain(s3), Plain(s4)
  PROVE  PlainSteps(<<s1, s2, s3, s4>>)
  BY DEF PlainSteps, IsSequence

LEMMA PlainTuple5 ==
  ASSUME NEW s1, NEW s2, NEW s3, NEW s4, NEW s5,
         Plain(s1), Plain(s2), Plain(s3), Plain(s4), Plain(s5)
  PROVE  PlainSteps(<<s1, s2, s3, s4, s5>>)
  BY DEF PlainSteps, IsSequence

LEMMA PlainTuple6 ==
  ASSUME NEW s1, NEW s2, NEW s3, NEW s4, NEW s5, NEW s6,
         Plain(s1), Plain(s2), Plain(s3), Plain(s4), Plain(s5), Plain(s6)
  PROVE  PlainSteps(<<s1, s2, s3, s4, s5, s6>>)
  BY DEF PlainSteps, IsSequence

LEMMA PlainTuple7 ==
  ASSUME NEW s1, NEW s2, NEW s3, NEW s4, NEW s5, NEW s6, NEW s7,
         Plain(s1), Plain(s2), Plain(s3), Plain(s4), Plain(s5), Plain(s6), Plain(s7)
  PROVE  PlainSteps(<<s1, s2, s3, s4, s5, s6, s7>>)
  BY DEF PlainSteps, IsSequence

LEMMA PlainTuple8 ==
  ASSUME NEW s1, NEW s2, NEW s3, NEW s4, NEW s5, NEW s6, NEW s7, NEW s8,
         Plain(s1), Plain(s2), Plain(s3), Plain(s4), Plain(s5), Plain(s6), Plain(s7), Plain(s8)
  PROVE  PlainSteps(<<s1, s2, s3, s4, s5, s6, s7, s8>>)
  BY DEF PlainSteps, IsSequence

LEMMA PlainTuple9 ==
  ASSUME NEW s1, NEW s2, NEW s3, NEW s4, NEW s5, NEW s6, NEW s7, NEW s8, NEW s9,
         Plain(s1), Plain(s2), Plain(s3), Plain(s4), Plain(s5), Plain(s6), Plain(s7),
         Plain(s8), Plain(s9)
  PROVE  PlainSteps(<<s1, s2, s3, s4, s5, s6, s7, s8, s9>>)
  BY DEF PlainSteps, IsSequence

LEMMA PlainTuple10 ==
  ASSUME NEW s1, NEW s2, NEW s3, NEW s4, NEW s5, NEW s6, NEW s7, NEW s8, NEW s9, NEW s10,
         Plain(s1), Plain(s2), Plain(s3), Plain(s4), Plain(s5), Plain(s6), Plain(s7),
         Plain(s8), Plain(s9), Plain(s10)
  PROVE  PlainSteps(<<s1, s2, s3, s4, s5, s6, s7, s8, s9, s10>>)
  BY DEF PlainSteps, IsSequence

LEMMA PlainTuple11 ==
  ASSUME NEW s1, NEW s2, NEW s3, NEW s4, NEW s5, NEW s6, NEW s7, NEW s8, NEW s9, NEW s10, NEW
         s11,
         Plain(s1), Plain(s2), Plain(s3), Plain(s4), Plain(s5), Plain(s6), Plain(s7),
         Plain(s8), Plain(s9), Plain(s10), Plain(s11)
  PROVE  PlainSteps(<<s1, s2, s3, s4, s5, s6, s7, s8, s9, s10, s11>>)
  BY DEF PlainSteps, IsSequence

LEMMA PlainTuple12 ==
  ASSUME NEW s1, NEW s2, NEW s3, NEW s4, NEW s5, NEW s6, NEW s7, NEW s8, NEW s9, NEW s10, NEW
         s11, NEW s12,
         Plain(s1), Plain(s2), Plain(s3), Plain(s4), Plain(s5), Plain(s6), Plain(s7),
         Plain(s8), Plain(s9), Plain(s10), Plain(s11), Plain(s12)
  PROVE  PlainSteps(<<s1, s2, s3, s4, s5, s6, s7, s8, s9, s10, s11, s12>>)
  BY DEF PlainSteps, IsSequence

LEMMA PlainTuple13 ==
  ASSUME NEW s1, NEW s2, NEW s3, NEW s4, NEW s5, NEW s6, NEW s7, NEW s8, NEW s9, NEW s10, NEW
         s11, NEW s12, NEW s13,
         Plain(s1), Plain(s2), Plain(s3), Plain(s4), Plain(s5), Plain(s6), Plain(s7),
         Plain(s8), Plain(s9), Plain(s10), Plain(s11), Plain(s12), Plain(s13)
  PROVE  PlainSteps(<<s1, s2, s3, s4, s5, s6, s7, s8, s9, s10, s11, s12, s13>>)
  BY DEF PlainSteps, IsSequence

LEMMA PlainTuple14 ==
  ASSUME NEW s1, NEW s2, NEW s3, NEW s4, NEW s5, NEW s6, NEW s7, NEW s8, NEW s9, NEW s10, NEW
         s11, NEW s12, NEW s13, NEW s14,
         Plain(s1), Plain(s2), Plain(s3), Plain(s4), Plain(s5), Plain(s6), Plain(s7),
         Plain(s8), Plain(s9), Plain(s10), Plain(s11), Plain(s12), Plain(s13), Plain(s14)
  PROVE  PlainSteps(<<s1, s2, s3, s4, s5, s6, s7, s8, s9, s10, s11, s12, s13, s14>>)
  BY DEF PlainSteps, IsSequence

LEMMA PlainTuple15 ==
  ASSUME NEW s1, NEW s2, NEW s3, NEW s4, NEW s5, NEW s6, NEW s7, NEW s8, NEW s9, NEW s10, NEW
         s11, NEW s12, NEW s13, NEW s14, NEW s15,
         Plain(s1), Plain(s2), Plain(s3), Plain(s4), Plain(s5), Plain(s6), Plain(s7),
         Plain(s8), Plain(s9), Plain(s10), Plain(s11), Plain(s12), Plain(s13), Plain(s14),
         Plain(s15)
  PROVE  PlainSteps(<<s1, s2, s3, s4, s5, s6, s7, s8, s9, s10, s11, s12, s13, s14, s15>>)
  BY DEF PlainSteps, IsSequence

LEMMA PlainFunctions ==
  \A x, y, z, w :
    /\ Plain(tensor_exponential(x, y))
    /\ Plain(tensor_logarithm(x, y))
    /\ Plain(tensor_sine(x, y))
    /\ Plain(tensor_cosine(x, y))
    /\ Plain(tensor_square_root(x, y))
    /\ Plain(tensor_reciprocal(x, y))
    /\ Plain(tensor_negation(x, y))
    /\ Plain(tensor_rectified_linear(x, y))
    /\ Plain(tensor_sigmoid(x, y))
    /\ Plain(tensor_contiguous(x, y))
    /\ Plain(tensor_addition(x, y, z))
    /\ Plain(tensor_subtraction(x, y, z))
    /\ Plain(tensor_division(x, y, z))
    /\ Plain(tensor_multiplication(x, y, z))
    /\ Plain(tensor_power(x, y, z))
    /\ Plain(tensor_permute(x, y, z))
    /\ Plain(tensor_slice(x, y, z))
    /\ Plain(tensor_padding(x, y, z))
    /\ Plain(tensor_expand(x, y, z))
    /\ Plain(tensor_where(x, y, z, w))
    /\ Plain(tensor_summation(x, y, z, w))
    /\ Plain(tensor_maximum(x, y, z, w))
    /\ Plain(tensor_accumulate_gradient(x, y))
  BY PlainOperations DEF tensor_exponential, tensor_logarithm, tensor_sine, tensor_cosine, tensor_square_root,
         tensor_reciprocal, tensor_negation, tensor_rectified_linear, tensor_sigmoid,
         tensor_contiguous, tensor_addition, tensor_subtraction, tensor_division,
         tensor_multiplication, tensor_power, tensor_permute, tensor_slice, tensor_padding,
         tensor_expand, tensor_where, tensor_summation, tensor_maximum, tensor_accumulate_gradient

LEMMA PlainCreations ==
  \A x, y, z, w, v :
    /\ Plain(tensor_transpose(x, y, z, w, v))
    /\ Plain(tensor_constant(x, y, z))
    /\ Plain(constant(x))
    /\ Plain(tensor_arange(x, y))
  BY DEF Plain, tensor_transpose, tensor_permute, Structure, tensor_constant, constant, tensor_arange, Creation

LEMMA PlainCall ==
  ASSUME NEW name \in NetworkProcedureNames \ BlockNames, NEW in, NEW options, NEW out
  PROVE  Plain(Call(name, in, options, out))
  BY DEF Plain, Call, IsArgued

LEMMA PlainCalls ==
  \A x, y, z, w, v :
    /\ Plain(tensor_concatenation(x, y, z, w))
    /\ Plain(tensor_tanh(x, y))
    /\ Plain(tensor_compare_equal(x, y, z))
    /\ Plain(tensor_compare_greater(x, y, z))
    /\ Plain(tensor_matrix_multiplication(x, y, z))
    /\ Plain(tensor_image_to_column(x, y, z))
    /\ Plain(tensor_column_to_image(x, y, z))
    /\ Plain(tensor_reshape(x, y, z))
    /\ Plain(tensor_mean(x, y, z, w))
    /\ Plain(tensor_variance(x, y, z, w))
    /\ Plain(softmax(x, y, z, w, v))
    /\ Plain(tensor_linear(x, y, z, w))
    /\ Plain(tensor_softmax(x, y, z))
    /\ Plain(tensor_dropout(x, y, z))
    /\ Plain(tensor_lower_triangular(x, y))
    /\ Plain(tensor_max(x, y, z))
    /\ Plain(tensor_absolute(x, y))
    /\ Plain(tensor_gelu(x, y))
    /\ Plain(tensor_leaky_rectified_linear(x, y))
    /\ Plain(tensor_logsoftmax(x, y, z))
    /\ Plain(tensor_argument_maximum(x, y, z, w))
    /\ Plain(tensor_magnitude(x, y))
    /\ Plain(tensor_as_tensor(x, y))
    /\ Plain(embedding_forward(x, y, z))
  BY PlainCall DEF NetworkProcedureNames, TensorProcedureNames, BlockNames,
         tensor_concatenation, tensor_tanh, tensor_compare_equal, tensor_compare_greater,
         tensor_matrix_multiplication, tensor_image_to_column, tensor_column_to_image,
         tensor_reshape, tensor_mean, tensor_variance, softmax, tensor_linear, tensor_softmax,
         tensor_dropout, tensor_lower_triangular, tensor_max, tensor_absolute, tensor_gelu,
         tensor_leaky_rectified_linear, tensor_logsoftmax, tensor_argument_maximum,
         tensor_magnitude, tensor_as_tensor, embedding_forward

-----------------------------------------------------------------------------
(* What bodies come to *)

(* Plain steps keep the depth. *)
LEMMA PlainNests ==
  ASSUME NEW body, PlainSteps(body), NEW i \in Nat
  PROVE  Nests(body, i, i)
<1> DEFINE d == [n \in 1..(Len(body) + 1) |-> i]
<1>1. IsSequence(body) /\ Len(body) \in Nat
  BY DEF PlainSteps, IsSequence
<1>2. ASSUME NEW k \in 1..Len(body) PROVE ModeAfter(body[k], d[k], d[k + 1])
  <2>1. Plain(body[k]) /\ k + 1 \in 1..(Len(body) + 1) /\ k \in 1..(Len(body) + 1)
    BY <1>1 DEF PlainSteps
  <2> QED
    BY <2>1 DEF ModeAfter
<1>3. IsPath(d, body, 1)
  BY <1>2 DEF IsPath
<1>4. d[1] = i /\ d[Len(body) + 1] = i
  BY <1>1
<1>5. Rest(body, 1, i, i)
  BY <1>1, <1>3, <1>4 DEF Rest
<1> QED
  BY <1>1, <1>5 DEF Nests

(* One body behind another. *)
LEMMA NestsConcatenation ==
  ASSUME NEW a, NEW b, NEW i, NEW j, NEW k, Nests(a, i, j), Nests(b, j, k)
  PROVE  Nests(a \o b, i, k)
<1>1. /\ IsSequence(a) /\ IsSequence(b) /\ IsSequence(a \o b)
      /\ Len(a) \in Nat /\ Len(b) \in Nat /\ Len(a \o b) = Len(a) + Len(b)
  BY SequenceConcatenation DEF Nests
<1>2. PICK d : IsPath(d, a, 1) /\ d[1] = i /\ d[Len(a) + 1] = j
  BY DEF Nests, Rest
<1>3. PICK e : IsPath(e, b, 1) /\ e[1] = j /\ e[Len(b) + 1] = k
  BY DEF Nests, Rest
<1> DEFINE f == [n \in 1..(Len(a \o b) + 1) |-> IF n <= Len(a) THEN d[n] ELSE e[n - Len(a)]]
<1>4. f \in [1..(Len(a \o b) + 1) -> Nat]
  <2>1. ASSUME NEW n \in 1..(Len(a \o b) + 1)
        PROVE  (IF n <= Len(a) THEN d[n] ELSE e[n - Len(a)]) \in Nat
    <3>1. CASE n <= Len(a)
      BY <1>1, <1>2, <3>1 DEF IsPath
    <3>2. CASE ~(n <= Len(a))
      <4>1. n - Len(a) \in 1..(Len(b) + 1)
        BY <1>1, <3>2
      <4> QED
        BY <1>3, <3>2, <4>1 DEF IsPath
    <3> QED
      BY <3>1, <3>2
  <2> QED
    BY <2>1
<1>5. ASSUME NEW n \in 1..Len(a \o b) PROVE ModeAfter((a \o b)[n], f[n], f[n + 1])
  <2>0. n \in 1..(Len(a \o b) + 1) /\ n + 1 \in 1..(Len(a \o b) + 1)
    BY <1>1
  <2>1. CASE n < Len(a)
    <3>1. n \in 1..Len(a) /\ n + 1 <= Len(a)
      BY <1>1, <2>1
    <3>2. f[n] = d[n] /\ f[n + 1] = d[n + 1] /\ (a \o b)[n] = a[n]
      BY <1>1, <2>0, <3>1, SequenceConcatenation
    <3> QED
      BY <1>2, <3>1, <3>2 DEF IsPath
  <2>2. CASE n = Len(a)
    <3>1. n \in 1..Len(a) /\ ~(n + 1 <= Len(a)) /\ n + 1 - Len(a) = 1
      BY <1>1, <2>2
    <3>2. f[n] = d[n] /\ f[n + 1] = d[n + 1] /\ (a \o b)[n] = a[n]
      BY <1>1, <1>2, <1>3, <2>0, <2>2, <3>1, SequenceConcatenation
    <3> QED
      BY <1>2, <3>1, <3>2 DEF IsPath
  <2>3. CASE n > Len(a)
    <3>1. n - Len(a) \in 1..Len(b) /\ n + 1 - Len(a) = n - Len(a) + 1 /\ Len(a) + (n - Len(a)) = n
      BY <1>1, <2>3
    <3>2. f[n] = e[n - Len(a)] /\ f[n + 1] = e[n - Len(a) + 1]
      BY <1>1, <2>0, <2>3, <3>1
    <3>3. (a \o b)[n] = b[n - Len(a)]
      BY <1>1, <3>1, SequenceConcatenation
    <3> QED
      BY <1>3, <3>1, <3>2, <3>3 DEF IsPath
  <2> QED
    BY <1>1, <2>1, <2>2, <2>3
<1>6. IsPath(f, a \o b, 1)
  BY <1>4, <1>5 DEF IsPath
<1>7. f[1] = i
  <2>1. CASE Len(a) = 0
    BY <1>1, <1>2, <1>3, <2>1
  <2>2. CASE Len(a) # 0
    BY <1>1, <1>2, <2>2
  <2> QED
    BY <2>1, <2>2
<1>8. f[Len(a \o b) + 1] = k
  <2>1. /\ Len(a \o b) + 1 \in 1..(Len(a \o b) + 1) /\ ~(Len(a \o b) + 1 <= Len(a))
        /\ Len(a \o b) + 1 - Len(a) = Len(b) + 1
    BY <1>1
  <2> QED
    BY <1>3, <2>1
<1>9. Rest(a \o b, 1, i, k)
  <2>1. 1 \in 1..(Len(a \o b) + 1)
    BY <1>1
  <2> HIDE DEF f
  <2> QED
    BY <1>6, <1>7, <1>8, <2>1 DEF Rest
<1> QED
  BY <1>1, <1>9 DEF Nests

(* with_no_gradient(true) among other steps. *)
LEMMA EnterNests ==
  ASSUME NEW body, IsSequence(body), NEW m \in 1..Len(body), body[m] = WithNoGradient(TRUE),
         \A n \in 1..Len(body) : n # m => Plain(body[n]), NEW i \in Nat
  PROVE  Nests(body, i, i + 1)
<1> DEFINE d == [n \in 1..(Len(body) + 1) |-> IF n <= m THEN i ELSE i + 1]
<1>0. Len(body) \in Nat /\ i + 1 \in Nat
  BY DEF IsSequence
<1>1. d \in [1..(Len(body) + 1) -> Nat]
  BY <1>0
<1>2. \A n \in 1..(Len(body) + 1) : d[n] = IF n <= m THEN i ELSE i + 1
  OBVIOUS
<1> HIDE DEF d
<1>3. ASSUME NEW k \in 1..Len(body) PROVE ModeAfter(body[k], d[k], d[k + 1])
  <2>1. k \in 1..(Len(body) + 1) /\ k + 1 \in 1..(Len(body) + 1)
    BY <1>0
  <2>2. CASE k = m
    <3>1. k <= m /\ ~(k + 1 <= m)
      BY <1>0, <2>2
    <3>2. d[k] = i /\ d[k + 1] = i + 1
      BY <1>2, <2>1, <3>1
    <3> QED
      BY <2>2, <3>2 DEF ModeAfter
  <2>3. CASE k # m
    <3>1. k <= m <=> k + 1 <= m
      BY <1>0, <2>3
    <3>2. d[k + 1] = d[k]
      BY <1>2, <2>1, <3>1
    <3> QED
      BY <2>3, <3>2 DEF ModeAfter
  <2> QED
    BY <2>2, <2>3
<1>4. IsPath(d, body, 1)
  BY <1>1, <1>3 DEF IsPath
<1>5. 1 \in 1..(Len(body) + 1) /\ Len(body) + 1 \in 1..(Len(body) + 1) /\ 1 <= m /\ ~(Len(body) + 1 <= m)
  BY <1>0
<1>6. d[1] = i /\ d[Len(body) + 1] = i + 1
  BY <1>2, <1>5
<1>7. Rest(body, 1, i, i + 1)
  BY <1>4, <1>5, <1>6 DEF Rest
<1> QED
  BY <1>7 DEF Nests

(* with_no_gradient(false) among other steps. *)
LEMMA LeaveNests ==
  ASSUME NEW body, IsSequence(body), NEW m \in 1..Len(body), body[m] = WithNoGradient(FALSE),
         \A n \in 1..Len(body) : n # m => Plain(body[n]), NEW i \in Nat
  PROVE  Nests(body, i + 1, i)
<1> DEFINE d == [n \in 1..(Len(body) + 1) |-> IF n <= m THEN i + 1 ELSE i]
<1>0. Len(body) \in Nat /\ i + 1 \in Nat
  BY DEF IsSequence
<1>1. d \in [1..(Len(body) + 1) -> Nat]
  BY <1>0
<1>2. \A n \in 1..(Len(body) + 1) : d[n] = IF n <= m THEN i + 1 ELSE i
  OBVIOUS
<1> HIDE DEF d
<1>3. ASSUME NEW k \in 1..Len(body) PROVE ModeAfter(body[k], d[k], d[k + 1])
  <2>1. k \in 1..(Len(body) + 1) /\ k + 1 \in 1..(Len(body) + 1)
    BY <1>0
  <2>2. CASE k = m
    <3>1. k <= m /\ ~(k + 1 <= m)
      BY <1>0, <2>2
    <3>2. d[k] = i + 1 /\ d[k + 1] = i
      BY <1>2, <2>1, <3>1
    <3> QED
      BY <2>2, <3>2 DEF ModeAfter
  <2>3. CASE k # m
    <3>1. k <= m <=> k + 1 <= m
      BY <1>0, <2>3
    <3>2. d[k + 1] = d[k]
      BY <1>2, <2>1, <3>1
    <3> QED
      BY <2>3, <3>2 DEF ModeAfter
  <2> QED
    BY <2>2, <2>3
<1>4. IsPath(d, body, 1)
  BY <1>1, <1>3 DEF IsPath
<1>5. 1 \in 1..(Len(body) + 1) /\ Len(body) + 1 \in 1..(Len(body) + 1) /\ 1 <= m /\ ~(Len(body) + 1 <= m)
  BY <1>0
<1>6. d[1] = i + 1 /\ d[Len(body) + 1] = i
  BY <1>2, <1>5
<1>7. Rest(body, 1, i + 1, i)
  BY <1>4, <1>5, <1>6 DEF Rest
<1> QED
  BY <1>7 DEF Nests

(* A body between with_no_gradient(true) and with_no_gradient(false). *)
LEMMA BracketNests ==
  ASSUME NEW body, IsSequence(body), Len(body) > 1, body[1] = WithNoGradient(TRUE),
         body[Len(body)] = WithNoGradient(FALSE),
         \A n \in 2..(Len(body) - 1) : Plain(body[n]), NEW i \in Nat
  PROVE  Nests(body, i, i)
<1> DEFINE d == [n \in 1..(Len(body) + 1) |-> IF n = 1 \/ n = Len(body) + 1 THEN i ELSE i + 1]
<1>0. Len(body) \in Nat /\ i + 1 \in Nat
  BY DEF IsSequence
<1>1. d \in [1..(Len(body) + 1) -> Nat]
  BY <1>0
<1>2. \A n \in 1..(Len(body) + 1) : d[n] = IF n = 1 \/ n = Len(body) + 1 THEN i ELSE i + 1
  OBVIOUS
<1> HIDE DEF d
<1>3. ASSUME NEW k \in 1..Len(body) PROVE ModeAfter(body[k], d[k], d[k + 1])
  <2>1. k \in 1..(Len(body) + 1) /\ k + 1 \in 1..(Len(body) + 1)
    BY <1>0
  <2>2. CASE k = 1
    <3>1. ~(k + 1 = 1 \/ k + 1 = Len(body) + 1)
      BY <1>0, <2>2
    <3>2. d[k] = i /\ d[k + 1] = i + 1
      BY <1>2, <2>1, <2>2, <3>1
    <3> QED
      BY <2>2, <3>2 DEF ModeAfter
  <2>3. CASE k = Len(body)
    <3>1. ~(k = 1 \/ k = Len(body) + 1)
      BY <1>0, <2>3
    <3>2. d[k] = i + 1 /\ d[k + 1] = i
      BY <1>2, <2>1, <2>3, <3>1
    <3> QED
      BY <2>3, <3>2 DEF ModeAfter
  <2>4. CASE k \in 2..(Len(body) - 1)
    <3>1. ~(k = 1 \/ k = Len(body) + 1) /\ ~(k + 1 = 1 \/ k + 1 = Len(body) + 1)
      BY <1>0, <2>4
    <3>2. d[k] = i + 1 /\ d[k + 1] = i + 1
      BY <1>2, <2>1, <3>1
    <3>3. d[k + 1] = d[k]
      BY <3>2
    <3> QED
      BY <2>4, <3>3 DEF ModeAfter
  <2> QED
    BY <1>0, <2>2, <2>3, <2>4
<1>4. IsPath(d, body, 1)
  BY <1>1, <1>3 DEF IsPath
<1>5. 1 \in 1..(Len(body) + 1) /\ Len(body) + 1 \in 1..(Len(body) + 1)
  BY <1>0
<1>6. d[1] = i /\ d[Len(body) + 1] = i
  BY <1>2, <1>5
<1>7. Rest(body, 1, i, i)
  BY <1>4, <1>5, <1>6 DEF Rest
<1> QED
  BY <1>7 DEF Nests

LEMMA PlainProcedure ==
  ASSUME NEW body, NEW cleanup, PlainSteps(body)
  PROVE  Balanced(Procedure(body, cleanup))
  BY PlainNests DEF Balanced, Procedure

LEMMA PlainWrapper ==
  ASSUME NEW body, PlainSteps(body)
  PROVE  Balanced(Wrapper(body))
  BY PlainProcedure DEF Wrapper

-----------------------------------------------------------------------------
(* The functions of tensor.c that record, or whose modes are in two steps *)

LEMMA ConcatenationBalanced == \A c : Balanced(Concatenation(c))
  BY PlainFunctions, PlainTuple3, PlainProcedure DEF Concatenation

LEMMA TanhBalanced == \A c : Balanced(Tanh(c))
  BY PlainFunctions, PlainCreations, PlainTuple6, PlainProcedure DEF Tanh

LEMMA AbsoluteBalanced == \A c : Balanced(Absolute(c))
  BY PlainFunctions, PlainTuple4, PlainProcedure DEF Absolute

LEMMA GeluBalanced == \A c : Balanced(Gelu(c))
<1>1. PlainSteps(CreateGeluConstants)
  <2>1. IsSequence(CreateGeluConstants)
    BY DEF CreateGeluConstants, GeluConstants, IsSequence
  <2> QED
    BY <2>1, PlainCreations DEF CreateGeluConstants, GeluConstants, PlainSteps
<1> QED
  BY <1>1, PlainFunctions, PlainCalls, PlainTuple8, PlainConcatenation, PlainProcedure DEF Gelu

LEMMA BracketTuple3 ==
  ASSUME NEW s, Plain(s)
  PROVE  \A i \in Nat : Nests(<<WithNoGradient(TRUE), s, WithNoGradient(FALSE)>>, i, i)
<1> DEFINE E == WithNoGradient(TRUE)
<1> DEFINE L == WithNoGradient(FALSE)
<1> HIDE DEF E, L
<1> DEFINE body == <<E, s, L>>
<1>1. IsSequence(body) /\ Len(body) = 3 /\ body[1] = E /\ body[2] = s /\ body[3] = L
  BY DEF IsSequence
<1> HIDE DEF body
<1>2. Len(body) > 1 /\ body[1] = E /\ body[Len(body)] = L
  BY <1>1
<1>3. \A n \in 2..(Len(body) - 1) : Plain(body[n])
  BY <1>1
<1>4. \A i \in Nat : Nests(body, i, i)
  BY <1>1, <1>2, <1>3, BracketNests DEF E, L
<1> QED
  BY <1>4 DEF body, E, L

LEMMA CompareBalanced == \A c : Balanced(CompareEqual(c)) /\ Balanced(CompareGreater(c))
  BY PlainOperations, BracketTuple3 DEF CompareEqual, CompareGreater, Wrapper, Procedure, Balanced

LEMMA Convolution2dBalanced == \A c : Balanced(Convolution2d(c))
  BY PlainFunctions, PlainCalls, PlainOperations, PlainTuple1, PlainTuple2, PlainTuple3, PlainConcatenation,
     PlainProcedure
  DEF Convolution2d

LEMMA MatrixMultiplicationBalanced == \A c : Balanced(MatrixMultiplication(c))
  BY PlainFunctions, PlainOperations, PlainTuple3, PlainProcedure DEF MatrixMultiplication

LEMMA ImageToColumnBalanced == \A c : Balanced(ImageToColumn(c))
  BY PlainFunctions, PlainOperations, PlainTuple2, PlainProcedure DEF ImageToColumn

LEMMA ColumnToImageBalanced == \A c : Balanced(ColumnToImage(c))
  BY PlainFunctions, PlainOperations, PlainTuple2, PlainProcedure DEF ColumnToImage

LEMMA LinearBalanced == \A c : Balanced(Linear(c))
  BY PlainFunctions, PlainCalls, PlainOperations, PlainTuple2, PlainProcedure DEF Linear

LEMMA MaxPool2dBalanced == \A c : Balanced(MaxPool2d(c))
  BY PlainFunctions, PlainCalls, PlainTuple4, PlainProcedure DEF MaxPool2d, Pool2d

LEMMA AveragePool2dBalanced == \A c : Balanced(AveragePool2d(c))
  BY PlainCalls, PlainTuple4, PlainProcedure DEF AveragePool2d, Pool2d, tensor_mean

LEMMA ConvolutionTranspose2dBalanced == \A c : Balanced(ConvolutionTranspose2d(c))
  BY PlainFunctions, PlainCreations, PlainCalls, PlainOperations, PlainTuple1, PlainTuple2,
     PlainTuple5, PlainConcatenation, PlainProcedure DEF ConvolutionTranspose2d

LEMMA MeanBalanced == \A c : Balanced(Mean(c))
  BY PlainFunctions, PlainCreations, PlainTuple3, PlainProcedure DEF Mean

LEMMA VarianceBalanced == \A c : Balanced(Variance(c))
  BY PlainFunctions, PlainCreations, PlainCalls, PlainOperations, PlainTuple1, PlainTuple6,
     PlainConcatenation, PlainIf, PlainProcedure DEF Variance

LEMMA StandardDeviationBalanced == \A c : Balanced(StandardDeviation(c))
  BY PlainFunctions, PlainCalls, PlainTuple2, PlainProcedure DEF StandardDeviation

LEMMA MagnitudeBalanced == \A c : Balanced(Magnitude(c))
  BY PlainFunctions, PlainTuple3, PlainProcedure DEF Magnitude

LEMMA SoftmaxPartsBalanced == \A c : Balanced(SoftmaxParts(c))
  BY PlainFunctions, PlainTuple4, PlainProcedure DEF SoftmaxParts

LEMMA SoftmaxBalanced == \A c : Balanced(Softmax(c))
  BY PlainFunctions, PlainCalls, PlainTuple2, PlainProcedure DEF Softmax

LEMMA LogsoftmaxBalanced == \A c : Balanced(Logsoftmax(c))
  BY PlainFunctions, PlainCalls, PlainTuple3, PlainProcedure DEF Logsoftmax

LEMMA ReshapeBalanced == \A c : Balanced(Reshape(c))
  BY PlainFunctions, PlainOperations, PlainTuple1, PlainTuple2, PlainProcedure DEF Reshape

LEMMA LayerNormalizationBalanced == \A c : Balanced(LayerNormalization(c))
  BY PlainFunctions, PlainCreations, PlainCalls, PlainOperations, PlainTuple9, PlainProcedure
  DEF LayerNormalization

LEMMA LowerTriangularBalanced == \A c : Balanced(LowerTriangular(c))
  BY PlainFunctions, PlainCreations, PlainCalls, PlainTuple8, PlainProcedure
  DEF LowerTriangular

LEMMA LeakyRectifiedLinearBalanced == \A c : Balanced(LeakyRectifiedLinear(c))
  BY PlainFunctions, PlainCreations, PlainTuple6, PlainProcedure DEF LeakyRectifiedLinear

LEMMA DropoutBalanced == \A c : Balanced(Dropout(c))
  BY PlainFunctions, PlainCreations, PlainCalls, PlainOperations, PlainTuple1, PlainTuple6,
     PlainProcedure, PlainWrapper DEF Dropout

LEMMA ScaledDotProductAttentionBalanced == \A c : Balanced(ScaledDotProductAttention(c))
  BY PlainFunctions, PlainCreations, PlainCalls, PlainOperations, PlainTuple15, PlainProcedure
  DEF ScaledDotProductAttention

LEMMA PlainNested ==
  \A in, options, out : Plain(Call("tensor_scaled_dot_product_attention", in, options, out))
  BY PlainCall DEF NetworkProcedureNames, TensorProcedureNames, BlockNames

LEMMA CausalMultiheadSelfAttentionBalanced == \A c : Balanced(CausalMultiheadSelfAttention(c))
<1>1. ASSUME NEW first, NEW second, NEW third, NEW heads, NEW in, NEW options, NEW out, NEW shape
      PROVE  PlainSteps(
               <<tensor_linear("x", "input_weights", "input_bias", "input_projection"),
                 tensor_slice("input_projection", "query", first),
                 tensor_slice("input_projection", "key", second),
                 tensor_slice("input_projection", "value", third),
                 tensor_reshape("query", "query_reshaped", heads),
                 tensor_reshape("key", "key_reshaped", heads),
                 tensor_reshape("value", "value_reshaped", heads),
                 tensor_transpose(4, "query_reshaped", "query_transposed", 1, 2),
                 tensor_transpose(4, "key_reshaped", "key_transposed", 1, 2),
                 tensor_transpose(4, "value_reshaped", "value_transposed", 1, 2),
                 Call("tensor_scaled_dot_product_attention", in, options, out),
                 tensor_transpose(4, "attention", "attention_transpose", 1, 2),
                 tensor_reshape("attention_transpose", "attention_reshaped", shape),
                 tensor_linear("attention_reshaped", "output_weights", "output_bias",
                               "output_projection"),
                 tensor_dropout("output_projection", "y", options)>>)
  BY PlainFunctions, PlainCreations, PlainCalls, PlainNested, PlainTuple15
<1> QED
  BY <1>1, PlainProcedure DEF CausalMultiheadSelfAttention

LEMMA EmbeddingBalanced == \A c : Balanced(Embedding(c))
  BY PlainFunctions, PlainCalls, PlainOperations, PlainTuple1, PlainTuple4, PlainConcatenation,
     PlainIf, PlainProcedure DEF Embedding

LEMMA CategoricalCrossEntropyBalanced == \A c : Balanced(CategoricalCrossEntropy(c))
  BY PlainFunctions, PlainCreations, PlainCalls, PlainOperations, PlainTuple1, PlainTuple9,
     PlainConcatenation, PlainIf, PlainProcedure DEF CategoricalCrossEntropy

LEMMA BinaryCrossEntropyBalanced == \A c : Balanced(BinaryCrossEntropy(c))
  BY PlainFunctions, PlainCreations, PlainCalls, PlainTuple10, PlainProcedure
  DEF BinaryCrossEntropy

LEMMA BinaryCrossEntropyLogitsBalanced == \A c : Balanced(BinaryCrossEntropyLogits(c))
  BY PlainFunctions, PlainCreations, PlainCalls, PlainTuple12, PlainProcedure
  DEF BinaryCrossEntropyLogits

LEMMA BinaryAccuracyBalanced == \A c : Balanced(BinaryAccuracy(c))
  BY PlainCalls, PlainTuple3, PlainProcedure DEF BinaryAccuracy

LEMMA MulticlassAccuracyBalanced == \A c : Balanced(MulticlassAccuracy(c))
  BY PlainCalls, PlainTuple3, PlainProcedure DEF MulticlassAccuracy

LEMMA TransformerEmbeddingForwardBalanced == \A c : Balanced(TransformerEmbeddingForward(c))
  BY PlainFunctions, PlainCreations, PlainCalls, PlainTuple5, PlainProcedure
  DEF TransformerEmbeddingForward

LEMMA ClipGradientNormParametersBalanced == \A c : Balanced(ClipGradientNormParameters(c))
  BY PlainFunctions, PlainCreations, PlainCalls, PlainEmpty, PlainTuple1, PlainTuple3,
     PlainConcatenation, PlainIf, PlainProcedure, PlainWrapper DEF ClipGradientNormParameters

LEMMA InitialiseBalanced ==
  \A c : /\ Balanced(KaimingUniform(c)) /\ Balanced(KaimingNormal(c))
        /\ Balanced(GlorotUniform(c)) /\ Balanced(GlorotNormal(c))
  BY PlainOperations, PlainTuple1, PlainConcatenation, PlainIf, PlainWrapper
  DEF KaimingUniform, KaimingNormal, GlorotUniform, GlorotNormal, Initialise

-----------------------------------------------------------------------------
(* The backward functions of function.c *)

LEMMA PlainToward ==
  ASSUME NEW c, NEW p, NEW a, PlainSteps(a)
  PROVE  PlainSteps(Toward(c, p, a))
  BY PlainIf DEF Toward

LEMMA ExponentialBackwardBalanced == \A c : Balanced(ExponentialBackward(c))
  BY PlainFunctions, PlainTuple2, PlainToward, PlainProcedure DEF ExponentialBackward

LEMMA LogarithmBackwardBalanced == \A c : Balanced(LogarithmBackward(c))
  BY PlainFunctions, PlainTuple2, PlainToward, PlainProcedure DEF LogarithmBackward

LEMMA SineBackwardBalanced == \A c : Balanced(SineBackward(c))
  BY PlainFunctions, PlainTuple3, PlainToward, PlainProcedure DEF SineBackward

LEMMA CosineBackwardBalanced == \A c : Balanced(CosineBackward(c))
  BY PlainFunctions, PlainTuple4, PlainToward, PlainProcedure DEF CosineBackward

LEMMA SquareRootBackwardBalanced == \A c : Balanced(SquareRootBackward(c))
  BY PlainFunctions, PlainCreations, PlainTuple4, PlainToward, PlainProcedure
  DEF SquareRootBackward

LEMMA ReciprocalBackwardBalanced == \A c : Balanced(ReciprocalBackward(c))
  BY PlainFunctions, PlainTuple4, PlainToward, PlainProcedure DEF ReciprocalBackward

LEMMA ContiguousBackwardBalanced == \A c : Balanced(ContiguousBackward(c))
  BY PlainFunctions, PlainTuple1, PlainToward, PlainWrapper DEF ContiguousBackward

LEMMA NegationBackwardBalanced == \A c : Balanced(NegationBackward(c))
  BY PlainFunctions, PlainTuple2, PlainToward, PlainProcedure DEF NegationBackward

LEMMA RectifiedLinearBackwardBalanced == \A c : Balanced(RectifiedLinearBackward(c))
  BY PlainFunctions, PlainCreations, PlainCalls, PlainTuple5, PlainToward, PlainProcedure
  DEF RectifiedLinearBackward

LEMMA SigmoidBackwardBalanced == \A c : Balanced(SigmoidBackward(c))
  BY PlainFunctions, PlainCreations, PlainTuple5, PlainToward, PlainProcedure
  DEF SigmoidBackward

LEMMA AdditionBackwardBalanced == \A c : Balanced(AdditionBackward(c))
  BY PlainFunctions, PlainTuple1, PlainToward, PlainConcatenation, PlainWrapper
  DEF AdditionBackward

LEMMA SubtractionBackwardBalanced == \A c : Balanced(SubtractionBackward(c))
  BY PlainFunctions, PlainTuple1, PlainTuple2, PlainToward, PlainConcatenation, PlainProcedure
  DEF SubtractionBackward

LEMMA MultiplicationBackwardBalanced == \A c : Balanced(MultiplicationBackward(c))
  BY PlainFunctions, PlainTuple2, PlainToward, PlainConcatenation, PlainProcedure
  DEF MultiplicationBackward

LEMMA DivisionBackwardBalanced == \A c : Balanced(DivisionBackward(c))
  BY PlainFunctions, PlainTuple2, PlainTuple6, PlainToward, PlainConcatenation, PlainProcedure
  DEF DivisionBackward

LEMMA PowerBackwardBalanced == \A c : Balanced(PowerBackward(c))
  BY PlainFunctions, PlainTuple4, PlainToward, PlainConcatenation, PlainProcedure
  DEF PowerBackward

LEMMA MatrixMultiplicationBackwardBalanced == \A c : Balanced(MatrixMultiplicationBackward(c))
  BY PlainFunctions, PlainCreations, PlainCalls, PlainTuple3, PlainToward, PlainConcatenation,
     PlainProcedure DEF MatrixMultiplicationBackward

LEMMA WhereBackwardBalanced == \A c : Balanced(WhereBackward(c))
  BY PlainFunctions, PlainCreations, PlainTuple1, PlainTuple2, PlainToward, PlainConcatenation,
     PlainProcedure DEF WhereBackward

LEMMA SummationBackwardBalanced == \A c : Balanced(SummationBackward(c))
  BY PlainFunctions, PlainCalls, PlainOperations, PlainTuple3, PlainToward, PlainProcedure
  DEF SummationBackward

LEMMA MaximumBackwardBalanced == \A c : Balanced(MaximumBackward(c))
  BY PlainFunctions, PlainCalls, PlainOperations, PlainTuple2, PlainTuple6, PlainToward,
     PlainConcatenation, PlainProcedure DEF MaximumBackward

LEMMA ExpandBackwardBalanced == \A c : Balanced(ExpandBackward(c))
  BY PlainFunctions, PlainOperations, PlainTuple3, PlainToward, PlainProcedure
  DEF ExpandBackward

LEMMA ShapeBackwardBalanced ==
  ASSUME NEW c, NEW step, Plain(step)
  PROVE  Balanced(ShapeBackward(c, step))
  BY PlainFunctions, PlainTuple2, PlainToward, PlainProcedure DEF ShapeBackward

LEMMA PermuteBackwardBalanced == \A c : Balanced(PermuteBackward(c))
  BY PlainFunctions, ShapeBackwardBalanced DEF PermuteBackward

LEMMA ReshapeBackwardBalanced == \A c : Balanced(ReshapeBackward(c))
  BY PlainCalls, ShapeBackwardBalanced DEF ReshapeBackward

LEMMA SliceBackwardBalanced == \A c : Balanced(SliceBackward(c))
  BY PlainFunctions, ShapeBackwardBalanced DEF SliceBackward

LEMMA PaddingBackwardBalanced == \A c : Balanced(PaddingBackward(c))
  BY PlainFunctions, ShapeBackwardBalanced DEF PaddingBackward

LEMMA ImageToColumnBackwardBalanced == \A c : Balanced(ImageToColumnBackward(c))
  BY PlainCalls, ShapeBackwardBalanced DEF ImageToColumnBackward

LEMMA ColumnToImageBackwardBalanced == \A c : Balanced(ColumnToImageBackward(c))
  BY PlainCalls, ShapeBackwardBalanced DEF ColumnToImageBackward

-----------------------------------------------------------------------------
(* Functions that switch the mode, and whose cleanup switches it back *)

LEMMA BracketTuple7 ==
  ASSUME NEW s1, NEW s2, NEW s3, NEW s4, NEW s5, Plain(s1), Plain(s2), Plain(s3), Plain(s4),
         Plain(s5)
  PROVE  \A i \in Nat : Nests(<<WithNoGradient(TRUE), s1, s2, s3, s4, s5, WithNoGradient(FALSE)>>, i, i)
<1> DEFINE E == WithNoGradient(TRUE)
<1> DEFINE L == WithNoGradient(FALSE)
<1> HIDE DEF E, L
<1> DEFINE body == <<E, s1, s2, s3, s4, s5, L>>
<1>1. /\ IsSequence(body) /\ Len(body) = 7
      /\ body[1] = E /\ body[2] = s1 /\ body[3] = s2 /\ body[4] = s3
      /\ body[5] = s4 /\ body[6] = s5 /\ body[7] = L
  BY DEF IsSequence
<1> HIDE DEF body
<1>2. Len(body) > 1 /\ body[1] = E /\ body[Len(body)] = L
  BY <1>1
<1>3. \A n \in 2..(Len(body) - 1) : Plain(body[n])
  BY <1>1
<1>4. \A i \in Nat : Nests(body, i, i)
  BY <1>1, <1>2, <1>3, BracketNests DEF E, L
<1> QED
  BY <1>4 DEF body, E, L

LEMMA EnterTuple1 ==
  \A i \in Nat : Nests(<<WithNoGradient(TRUE)>>, i, i + 1)
<1> DEFINE E == WithNoGradient(TRUE)
<1> HIDE DEF E
<1> DEFINE body == <<E>>
<1>1. /\ IsSequence(body) /\ Len(body) = 1
      /\ body[1] = E
  BY DEF IsSequence
<1> HIDE DEF body
<1>2. 1 \in 1..Len(body) /\ body[1] = E
  BY <1>1
<1>3. \A n \in 1..Len(body) : n # 1 => Plain(body[n])
  BY <1>1
<1>4. \A i \in Nat : Nests(body, i, i + 1)
  BY <1>1, <1>2, <1>3, EnterNests DEF E
<1> QED
  BY <1>4 DEF body, E

LEMMA EnterTuple2 ==
  ASSUME NEW s1, Plain(s1)
  PROVE  \A i \in Nat : Nests(<<WithNoGradient(TRUE), s1>>, i, i + 1)
<1> DEFINE E == WithNoGradient(TRUE)
<1> HIDE DEF E
<1> DEFINE body == <<E, s1>>
<1>1. /\ IsSequence(body) /\ Len(body) = 2
      /\ body[1] = E /\ body[2] = s1
  BY DEF IsSequence
<1> HIDE DEF body
<1>2. 1 \in 1..Len(body) /\ body[1] = E
  BY <1>1
<1>3. \A n \in 1..Len(body) : n # 1 => Plain(body[n])
  BY <1>1
<1>4. \A i \in Nat : Nests(body, i, i + 1)
  BY <1>1, <1>2, <1>3, EnterNests DEF E
<1> QED
  BY <1>4 DEF body, E

LEMMA EnterTuple2Last ==
  ASSUME NEW s1, Plain(s1)
  PROVE  \A i \in Nat : Nests(<<s1, WithNoGradient(TRUE)>>, i, i + 1)
<1> DEFINE E == WithNoGradient(TRUE)
<1> HIDE DEF E
<1> DEFINE body == <<s1, E>>
<1>1. /\ IsSequence(body) /\ Len(body) = 2
      /\ body[1] = s1 /\ body[2] = E
  BY DEF IsSequence
<1> HIDE DEF body
<1>2. 2 \in 1..Len(body) /\ body[2] = E
  BY <1>1
<1>3. \A n \in 1..Len(body) : n # 2 => Plain(body[n])
  BY <1>1
<1>4. \A i \in Nat : Nests(body, i, i + 1)
  BY <1>1, <1>2, <1>3, EnterNests DEF E
<1> QED
  BY <1>4 DEF body, E

LEMMA EnterTuple9 ==
  ASSUME NEW s1, NEW s2, NEW s3, NEW s4, NEW s5, NEW s6, NEW s7, NEW s8, Plain(s1), Plain(s2),
         Plain(s3), Plain(s4), Plain(s5), Plain(s6), Plain(s7), Plain(s8)
  PROVE  \A i \in Nat : Nests(<<WithNoGradient(TRUE), s1, s2, s3, s4, s5, s6, s7, s8>>, i, i + 1)
<1> DEFINE E == WithNoGradient(TRUE)
<1> HIDE DEF E
<1> DEFINE body == <<E, s1, s2, s3, s4, s5, s6, s7, s8>>
<1>1. /\ IsSequence(body) /\ Len(body) = 9
      /\ body[1] = E /\ body[2] = s1 /\ body[3] = s2 /\ body[4] = s3
      /\ body[5] = s4 /\ body[6] = s5 /\ body[7] = s6 /\ body[8] = s7
      /\ body[9] = s8
  BY DEF IsSequence
<1> HIDE DEF body
<1>2. 1 \in 1..Len(body) /\ body[1] = E
  BY <1>1
<1>3. \A n \in 1..Len(body) : n # 1 => Plain(body[n])
  BY <1>1
<1>4. \A i \in Nat : Nests(body, i, i + 1)
  BY <1>1, <1>2, <1>3, EnterNests DEF E
<1> QED
  BY <1>4 DEF body, E

LEMMA LeaveTuple1 ==
  \A i \in Nat : Nests(<<WithNoGradient(FALSE)>>, i + 1, i)
<1> DEFINE L == WithNoGradient(FALSE)
<1> HIDE DEF L
<1> DEFINE body == <<L>>
<1>1. /\ IsSequence(body) /\ Len(body) = 1
      /\ body[1] = L
  BY DEF IsSequence
<1> HIDE DEF body
<1>2. 1 \in 1..Len(body) /\ body[1] = L
  BY <1>1
<1>3. \A n \in 1..Len(body) : n # 1 => Plain(body[n])
  BY <1>1
<1>4. \A i \in Nat : Nests(body, i + 1, i)
  BY <1>1, <1>2, <1>3, LeaveNests DEF L
<1> QED
  BY <1>4 DEF body, L

LEMMA LeaveTuple2 ==
  ASSUME NEW s1, Plain(s1)
  PROVE  \A i \in Nat : Nests(<<s1, WithNoGradient(FALSE)>>, i + 1, i)
<1> DEFINE L == WithNoGradient(FALSE)
<1> HIDE DEF L
<1> DEFINE body == <<s1, L>>
<1>1. /\ IsSequence(body) /\ Len(body) = 2
      /\ body[1] = s1 /\ body[2] = L
  BY DEF IsSequence
<1> HIDE DEF body
<1>2. 2 \in 1..Len(body) /\ body[2] = L
  BY <1>1
<1>3. \A n \in 1..Len(body) : n # 2 => Plain(body[n])
  BY <1>1
<1>4. \A i \in Nat : Nests(body, i + 1, i)
  BY <1>1, <1>2, <1>3, LeaveNests DEF L
<1> QED
  BY <1>4 DEF body, L

LEMMA LeaveTuple4 ==
  ASSUME NEW s1, NEW s2, NEW s3, Plain(s1), Plain(s2), Plain(s3)
  PROVE  \A i \in Nat : Nests(<<s1, s2, s3, WithNoGradient(FALSE)>>, i + 1, i)
<1> DEFINE L == WithNoGradient(FALSE)
<1> HIDE DEF L
<1> DEFINE body == <<s1, s2, s3, L>>
<1>1. /\ IsSequence(body) /\ Len(body) = 4
      /\ body[1] = s1 /\ body[2] = s2 /\ body[3] = s3 /\ body[4] = L
  BY DEF IsSequence
<1> HIDE DEF body
<1>2. 4 \in 1..Len(body) /\ body[4] = L
  BY <1>1
<1>3. \A n \in 1..Len(body) : n # 4 => Plain(body[n])
  BY <1>1
<1>4. \A i \in Nat : Nests(body, i + 1, i)
  BY <1>1, <1>2, <1>3, LeaveNests DEF L
<1> QED
  BY <1>4 DEF body, L

LEMMA LeaveTuple9 ==
  ASSUME NEW s1, NEW s2, NEW s3, NEW s4, NEW s5, NEW s6, NEW s7, NEW s8, Plain(s1), Plain(s2),
         Plain(s3), Plain(s4), Plain(s5), Plain(s6), Plain(s7), Plain(s8)
  PROVE  \A i \in Nat : Nests(<<s1, s2, s3, s4, s5, s6, s7, s8, WithNoGradient(FALSE)>>, i + 1, i)
<1> DEFINE L == WithNoGradient(FALSE)
<1> HIDE DEF L
<1> DEFINE body == <<s1, s2, s3, s4, s5, s6, s7, s8, L>>
<1>1. /\ IsSequence(body) /\ Len(body) = 9
      /\ body[1] = s1 /\ body[2] = s2 /\ body[3] = s3 /\ body[4] = s4
      /\ body[5] = s5 /\ body[6] = s6 /\ body[7] = s7 /\ body[8] = s8
      /\ body[9] = L
  BY DEF IsSequence
<1> HIDE DEF body
<1>2. 9 \in 1..Len(body) /\ body[9] = L
  BY <1>1
<1>3. \A n \in 1..Len(body) : n # 9 => Plain(body[n])
  BY <1>1
<1>4. \A i \in Nat : Nests(body, i + 1, i)
  BY <1>1, <1>2, <1>3, LeaveNests DEF L
<1> QED
  BY <1>4 DEF body, L

LEMMA Max2Balanced == \A c : Balanced(Max2(c))
  BY PlainFunctions, PlainCalls, BracketTuple7 DEF Max2, Procedure, Balanced

LEMMA AsTensorBalanced == \A c : Balanced(AsTensor(c))
  BY PlainOperations, BracketTuple3 DEF AsTensor, Wrapper, Procedure, Balanced

LEMMA ArgumentMaximumBalanced == \A c : Balanced(ArgumentMaximum(c))
  BY PlainFunctions, PlainCreations, PlainCalls, EnterTuple9 DEF ArgumentMaximum, InNoGradientMode, Balanced

LEMMA MultinomialSampleBalanced == \A c : Balanced(MultinomialSample(c))
  BY PlainFunctions, EnterTuple2 DEF MultinomialSample, InNoGradientMode, Balanced

(* Plain steps behind others. *)
LEMMA NestsBefore ==
  ASSUME NEW a, NEW b, NEW i, NEW j \in Nat, Nests(a, i, j), PlainSteps(b)
  PROVE  Nests(a \o b, i, j)
  BY PlainNests, NestsConcatenation

LEMMA UpdateRunningStatisticsNests ==
  ASSUME NEW c, NEW i \in Nat
  PROVE  Nests(UpdateRunningStatistics(c), i, i)
<1> DEFINE mean == If(Given(c, "running_mean") /\ ~c.options.inference,
             <<tensor_multiplication("momentum_complement_constant", "running_mean", "running_mean_l"),
               tensor_multiplication("momentum_constant", "mean", "running_mean_r"),
               tensor_addition("running_mean_l", "running_mean_r", "running_mean")>>)
           variance == If(Given(c, "running_variance") /\ ~c.options.inference,
             <<tensor_constant(RequiresGradient(c, "x"), FALSE, "value_constant"),
               tensor_multiplication("momentum_complement_constant", "running_variance",
                                     "running_variance_l"),
               tensor_multiplication("value_constant", "variance", "unbiased_variance"),
               tensor_multiplication("momentum_constant", "unbiased_variance", "running_variance_r"),
               tensor_addition("running_variance_l", "running_variance_r", "running_variance")>>)
<1>1. PlainSteps(mean) /\ PlainSteps(variance)
  BY PlainFunctions, PlainCreations, PlainTuple3, PlainTuple5, PlainIf
<1>2. UpdateRunningStatistics(c) = <<WithNoGradient(TRUE)>> \o mean \o variance \o <<WithNoGradient(FALSE)>>
  BY DEF UpdateRunningStatistics
<1> HIDE DEF mean, variance
<1>3. i + 1 \in Nat
  OBVIOUS
<1>4. Nests(<<WithNoGradient(TRUE)>> \o mean \o variance, i, i + 1)
  BY <1>1, <1>3, EnterTuple1, NestsBefore
<1> QED
  BY <1>2, <1>4, LeaveTuple1, NestsConcatenation

LEMMA BatchNormalization2dBalanced == \A c : Balanced(BatchNormalization2d(c))
<1> SUFFICES ASSUME NEW c PROVE Balanced(BatchNormalization2d(c))
  OBVIOUS
<1> DEFINE error == If(Rank(c.view.x) # 4, <<Error>>)
           enter == If(c.options.inference, <<WithNoGradient(TRUE)>>)
           leave == If(c.options.inference, <<WithNoGradient(FALSE)>>)
           epsilon == <<constant("epsilon_constant")>>
           body == error \o enter \o epsilon \o BatchStatistics(c) \o Normalize(c)
                   \o UpdateRunningStatistics(c) \o leave
<1>1. PlainSteps(error) /\ PlainSteps(epsilon)
  BY PlainOperations, PlainCreations, PlainTuple1, PlainIf
<1>2. PlainSteps(BatchStatistics(c))
  BY PlainCreations, PlainCalls, PlainOperations, PlainTuple2, PlainConcatenation, PlainIf DEF BatchStatistics
<1>3. PlainSteps(Normalize(c))
  BY PlainFunctions, PlainCalls, PlainOperations, PlainTuple1, PlainTuple2, PlainTuple6, PlainConcatenation
  DEF Normalize
<1>4. BatchNormalization2d(c) = Procedure(body, BatchNormalizationCleanup(c))
  BY DEF BatchNormalization2d
<1>5. ASSUME NEW i \in Nat
      PROVE  \E j \in Nat : Nests(enter, i, j) /\ Nests(leave, j, i)
  <2>1. CASE c.options.inference
    <3>1. Nests(enter, i, i + 1) /\ Nests(leave, i + 1, i)
      BY <2>1, EnterTuple1, LeaveTuple1 DEF If
    <3> QED
      BY <3>1
  <2>2. CASE ~c.options.inference
    <3>1. Nests(enter, i, i) /\ Nests(leave, i, i)
      BY <2>2, PlainEmpty, PlainNests DEF If
    <3> QED
      BY <3>1
  <2> QED
    BY <2>1, <2>2
<1> HIDE DEF error, enter, leave, epsilon
<1>6. ASSUME NEW i \in Nat PROVE Nests(body, i, i)
  <2>1. PICK j \in Nat : Nests(enter, i, j) /\ Nests(leave, j, i)
    BY <1>5
  <2>2. Nests(error \o enter, i, j)
    BY <1>1, <2>1, PlainNests, NestsConcatenation
  <2>3. Nests(error \o enter \o epsilon, i, j)
    BY <1>1, <2>2, NestsBefore
  <2>4. Nests(error \o enter \o epsilon \o BatchStatistics(c) \o Normalize(c), i, j)
    BY <1>2, <1>3, <2>3, NestsBefore
  <2>5. Nests(error \o enter \o epsilon \o BatchStatistics(c) \o Normalize(c)
              \o UpdateRunningStatistics(c), i, j)
    BY <2>4, UpdateRunningStatisticsNests, NestsConcatenation
  <2> QED
    BY <2>1, <2>5, NestsConcatenation
<1> HIDE DEF body
<1> QED
  BY <1>4, <1>6 DEF Balanced, Procedure

LEMMA PlainDecayedGradient == \A c, sum : PlainSteps(DecayedGradient(c, sum))
  BY PlainFunctions, PlainCreations, PlainCalls, PlainTuple1, PlainTuple4 DEF DecayedGradient

LEMMA PlainFreeNow == \A x : PlainSteps(FreeNow(x))
  BY PlainOperations, PlainTuple2 DEF FreeNow

LEMMA PlainMovingAverage ==
  \A c, map, initial, factor, product, new, updated :
    PlainSteps(MovingAverage(c, map, initial, factor, product, new, updated))
  BY PlainFunctions, PlainCalls, PlainOperations, PlainFreeNow, PlainTuple1, PlainTuple3,
     PlainConcatenation
  DEF MovingAverage

LEMMA PlainUpdateParameters == Plain(UpdateParameters)
  BY PlainFunctions DEF UpdateParameters

LEMMA StochasticGradientDescentBalanced == \A c : Balanced(StochasticGradientDescent(c))
<1> SUFFICES ASSUME NEW c PROVE Balanced(StochasticGradientDescent(c))
  OBVIOUS
<1> DEFINE first == <<tensor_as_tensor("gradient", "updated_momentum"),
                      Store("updated_momentum", "momentum_buffer")>>
           later ==
             <<constant("momentum_constant"),
               Assign("momentum_buffer", "initial_momentum"),
               tensor_multiplication("momentum_constant", "initial_momentum", "momentum_product"),
               constant("dampening_constant"),
               tensor_multiplication("dampening_constant", "gradient", "dampening_gradient"),
               tensor_addition("dampening_gradient", "momentum_product", "updated_momentum")>>
             \o FreeNow("initial_momentum")
             \o <<Store("updated_momentum", "momentum_buffer")>>
           nesterov ==
             If(~Given(c, "momentum_buffer"), <<constant("momentum_constant")>>)
             \o <<tensor_multiplication("momentum_constant", "updated_momentum", "modified_momentum"),
                  tensor_addition("modified_momentum", "gradient", "nesterov_momentum")>>
             \o FreeNow("gradient")
             \o <<tensor_as_tensor("nesterov_momentum", "gradient")>>
           plain == FreeNow("gradient") \o <<tensor_as_tensor("updated_momentum", "gradient")>>
           momentum == If(c.options.momentum,
                          (IF Given(c, "momentum_buffer") THEN later ELSE first)
                          \o (IF c.options.nesterov THEN nesterov ELSE plain))
           update == <<constant("learning_rate"),
                       tensor_multiplication("learning_rate", "gradient", "parameter_update"),
                       UpdateParameters,
                       WithNoGradient(FALSE)>>
           body == <<WithNoGradient(TRUE)>> \o DecayedGradient(c, "weight_decay_sum") \o momentum \o update
<1>1. PlainSteps(first)
  BY PlainCalls, PlainOperations, PlainTuple2
<1>2. PlainSteps(later)
  BY PlainFunctions, PlainCreations, PlainOperations, PlainFreeNow, PlainTuple1, PlainTuple6,
     PlainConcatenation
<1>3. PlainSteps(nesterov)
  BY PlainFunctions, PlainCreations, PlainCalls, PlainFreeNow, PlainTuple1, PlainTuple2,
     PlainConcatenation, PlainIf
<1>4. PlainSteps(plain)
  BY PlainCalls, PlainFreeNow, PlainTuple1, PlainConcatenation
<1>5. \E cleanup : StochasticGradientDescent(c) = Procedure(body, cleanup)
  BY DEF StochasticGradientDescent
<1>6. \A i \in Nat : Nests(update, i + 1, i)
  BY PlainFunctions, PlainCreations, PlainUpdateParameters, LeaveTuple4
<1> HIDE DEF first, later, nesterov, plain, update
<1>7. PlainSteps(momentum)
  BY <1>1, <1>2, <1>3, <1>4, PlainConcatenation, PlainIf
<1> HIDE DEF momentum
<1>8. ASSUME NEW i \in Nat PROVE Nests(body, i, i)
  <2>1. i + 1 \in Nat
    OBVIOUS
  <2>2. Nests(<<WithNoGradient(TRUE)>> \o DecayedGradient(c, "weight_decay_sum") \o momentum, i, i + 1)
    BY <1>7, <2>1, EnterTuple1, PlainDecayedGradient, NestsBefore
  <2> QED
    BY <1>6, <2>2, NestsConcatenation
<1> HIDE DEF body
<1> QED
  BY <1>5, <1>8 DEF Balanced, Procedure

LEMMA PlainRmsPropAverages == \A c : PlainSteps(RmsPropAverages(c))
  BY PlainFunctions, PlainCreations, PlainCalls, PlainMovingAverage, PlainTuple1, PlainTuple2,
     PlainTuple4, PlainConcatenation
  DEF RmsPropAverages

LEMMA RmsPropBalanced == \A c : Balanced(RmsProp(c))
<1> SUFFICES ASSUME NEW c PROVE Balanced(RmsProp(c))
  OBVIOUS
<1> DEFINE scaled ==
             <<tensor_square_root("square_average_telda", "square_average_telda_root"),
               constant("epsilon_constant"),
               tensor_addition("square_average_telda_root", "epsilon_constant",
                               "square_average_telda_epsilon"),
               tensor_division("gradient", "square_average_telda_epsilon", "temp_gradient"),
               constant("learning_rate")>>
           momentum ==
             IF c.options.momentum
             THEN If(Given(c, "momentum_buffer"), <<constant("momentum_constant")>>)
                  \o MovingAverage(c, "momentum_buffer", "initial_momentum", "momentum_constant",
                                   "momentum_const_buffer", "temp_gradient", "updated_momentum")
                  \o <<tensor_multiplication("learning_rate", "updated_momentum", "parameter_update")>>
             ELSE <<tensor_multiplication("learning_rate", "temp_gradient", "parameter_update")>>
           update == <<UpdateParameters, WithNoGradient(FALSE)>>
           body == <<WithNoGradient(TRUE)>> \o DecayedGradient(c, "weight_decay_sum")
                   \o RmsPropAverages(c) \o scaled \o momentum \o update
<1>1. PlainSteps(scaled)
  BY PlainFunctions, PlainCreations, PlainTuple5
<1>2. PlainSteps(momentum)
  BY PlainFunctions, PlainCreations, PlainMovingAverage, PlainTuple1, PlainConcatenation, PlainIf
<1>3. RmsProp(c) = Procedure(body, RmsPropCleanup)
  BY DEF RmsProp
<1>4. \A i \in Nat : Nests(update, i + 1, i)
  BY PlainUpdateParameters, LeaveTuple2
<1> HIDE DEF scaled, momentum, update
<1>5. ASSUME NEW i \in Nat PROVE Nests(body, i, i)
  <2>1. i + 1 \in Nat
    OBVIOUS
  <2>2. Nests(<<WithNoGradient(TRUE)>> \o DecayedGradient(c, "weight_decay_sum") \o RmsPropAverages(c),
              i, i + 1)
    BY <2>1, EnterTuple1, PlainDecayedGradient, PlainRmsPropAverages, NestsBefore
  <2>3. Nests(<<WithNoGradient(TRUE)>> \o DecayedGradient(c, "weight_decay_sum") \o RmsPropAverages(c)
              \o scaled \o momentum, i, i + 1)
    BY <1>1, <1>2, <2>1, <2>2, NestsBefore
  <2> QED
    BY <1>4, <2>3, NestsConcatenation
<1> HIDE DEF body
<1> QED
  BY <1>3, <1>5 DEF Balanced, Procedure

LEMMA PlainAdamConstants == PlainSteps([n \in DOMAIN AdamConstants |-> constant(AdamConstants[n])])
<1> DEFINE constants == [n \in DOMAIN AdamConstants |-> constant(AdamConstants[n])]
<1>1. IsSequence(constants)
  BY DEF AdamConstants, IsSequence
<1> QED
  BY <1>1, PlainCreations DEF AdamConstants, PlainSteps

LEMMA PlainAdamMoments == \A c : PlainSteps(AdamMoments(c))
  BY PlainFunctions, PlainMovingAverage, PlainTuple1, PlainTuple2, PlainConcatenation DEF AdamMoments

LEMMA AdamBalanced == \A c : Balanced(Adam(c))
<1> SUFFICES ASSUME NEW c PROVE Balanced(Adam(c))
  OBVIOUS
<1> DEFINE enter == <<constant("learning_rate"), WithNoGradient(TRUE)>>
           constants == [n \in DOMAIN AdamConstants |-> constant(AdamConstants[n])]
           update ==
             <<tensor_division("first_moment", "beta_1_constant_squared", "first_momentum_telda"),
               tensor_division("second_moment", "beta_2_constant_squared", "second_momentum_telda"),
               constant("epsilon_constant"),
               tensor_square_root("second_momentum_telda", "square_root_max_moment"),
               tensor_addition("square_root_max_moment", "epsilon_constant", "square_root_plus_epsilon"),
               tensor_multiplication("learning_rate", "first_momentum_telda", "modified_learning_rate"),
               tensor_division("modified_learning_rate", "square_root_plus_epsilon", "parameter_update"),
               UpdateParameters,
               WithNoGradient(FALSE)>>
           body == enter \o DecayedGradient(c, "temp_gradient_addition") \o constants \o AdamMoments(c)
                   \o update
<1>1. \A i \in Nat : Nests(enter, i, i + 1)
  BY PlainCreations, EnterTuple2Last
<1>2. PlainSteps(constants)
  BY PlainAdamConstants
<1>3. \A i \in Nat : Nests(update, i + 1, i)
  BY PlainFunctions, PlainCreations, PlainUpdateParameters, LeaveTuple9
<1>4. Adam(c) = Procedure(body, AdamCleanup)
  BY DEF Adam
<1> HIDE DEF enter, constants, update
<1>5. ASSUME NEW i \in Nat PROVE Nests(body, i, i)
  <2>1. i + 1 \in Nat
    OBVIOUS
  <2>2. Nests(enter \o DecayedGradient(c, "temp_gradient_addition") \o constants, i, i + 1)
    BY <1>1, <1>2, <2>1, PlainDecayedGradient, NestsBefore
  <2>3. Nests(enter \o DecayedGradient(c, "temp_gradient_addition") \o constants \o AdamMoments(c),
              i, i + 1)
    BY <2>1, <2>2, PlainAdamMoments, NestsBefore
  <2> QED
    BY <1>3, <2>3, NestsConcatenation
<1> HIDE DEF body
<1> QED
  BY <1>4, <1>5 DEF Balanced, Procedure

-----------------------------------------------------------------------------
(* Layers and blocks: the loop over the layers of a block, of any length *)

(* The recursion of FlattenSeq has a solution. *)
LEMMA FlattenExists ==
  ASSUME NEW seqs, NEW N \in Nat
  PROVE  \E f : f = [i \in 1..N |-> IF i = 1 THEN seqs[i] ELSE f[i - 1] \o seqs[i]]
<1> DEFINE IsFlat(f, m) == f = [i \in 1..m |-> IF i = 1 THEN seqs[i] ELSE f[i - 1] \o seqs[i]]
           Bad == {m \in Nat : ~\E f : IsFlat(f, m)}
<1>1. ASSUME Bad # {} PROVE FALSE
  <2>1. PICK m \in Bad : \A k \in Bad : m <= k
    BY <1>1, LeastElement
  <2>2. CASE m = 0
    <3>1. IsFlat([i \in 1..0 |-> seqs[i]], 0)
      OBVIOUS
    <3> QED
      BY <2>1, <2>2, <3>1
  <2>3. CASE m # 0
    <3>0. m \in Nat
      BY <2>1
    <3> HIDE DEF Bad
    <3>1. m - 1 \in Nat /\ m - 1 \notin Bad
      BY <2>1, <2>3, <3>0
    <3>2. PICK f : IsFlat(f, m - 1)
      BY <3>1 DEF Bad
    <3> DEFINE g == [i \in 1..m |-> IF i < m THEN f[i] ELSE IF i = 1 THEN seqs[i] ELSE f[i - 1] \o seqs[i]]
    <3>3. ASSUME NEW i \in 1..m
          PROVE  g[i] = IF i = 1 THEN seqs[i] ELSE g[i - 1] \o seqs[i]
      <4>1. \A k \in 1..(m - 1) : g[k] = f[k]
        BY <3>0
      <4>2. CASE i = 1
        <5>1. CASE i < m
          <6>1. i \in 1..(m - 1)
            BY <3>0, <4>2, <5>1
          <6> QED
            BY <3>2, <4>1, <4>2, <6>1
        <5>2. CASE ~(i < m)
          BY <4>2, <5>2
        <5> QED
          BY <5>1, <5>2
      <4>3. CASE i # 1
        <5>1. i - 1 \in 1..(m - 1)
          BY <3>0, <4>3
        <5>2. CASE i < m
          <6>1. i \in 1..(m - 1)
            BY <3>0, <5>2
          <6>2. f[i] = f[i - 1] \o seqs[i]
            BY <3>2, <4>3, <6>1
          <6>3. g[i] = f[i] /\ g[i - 1] = f[i - 1]
            BY <4>1, <5>1, <6>1
          <6> HIDE DEF g
          <6> QED
            BY <4>3, <6>2, <6>3
        <5>3. CASE ~(i < m)
          BY <4>1, <4>3, <5>1, <5>3
        <5> QED
          BY <5>2, <5>3
      <4> QED
        BY <4>2, <4>3
    <3>4. g = [i \in 1..m |-> g[i]]
      OBVIOUS
    <3> HIDE DEF g
    <3>5. IsFlat(g, m)
      BY <3>3, <3>4
    <3> QED
      BY <2>1, <3>5 DEF Bad
  <2> QED
    BY <2>2, <2>3
<1> QED
  BY <1>1

LEMMA PlainFlattened ==
  ASSUME NEW seqs, IsSequence(seqs), \A n \in 1..Len(seqs) : PlainSteps(seqs[n])
  PROVE  PlainSteps(FlattenSeq(seqs))
<1>1. Len(seqs) \in Nat
  BY DEF IsSequence
<1> DEFINE Flat(f) == f = [i \in 1..Len(seqs) |-> IF i = 1 THEN seqs[i] ELSE f[i - 1] \o seqs[i]]
           flatten == CHOOSE f : Flat(f)
<1>2. Flat(flatten)
  BY <1>1, FlattenExists
<1>3. \A n \in 1..Len(seqs) : flatten[n] = IF n = 1 THEN seqs[n] ELSE flatten[n - 1] \o seqs[n]
  BY <1>2
<1>4. FlattenSeq(seqs) = IF Len(seqs) = 0 THEN seqs ELSE flatten[Len(seqs)]
  BY DEF FlattenSeq
<1> HIDE DEF flatten
<1> DEFINE Bad == {n \in 1..Len(seqs) : ~PlainSteps(flatten[n])}
<1>5. ASSUME Bad # {} PROVE FALSE
  <2>1. Bad \subseteq Nat
    BY <1>1
  <2>2. PICK n \in Bad : \A k \in Bad : n <= k
    BY <1>5, <2>1, LeastElement
  <2>3. n # 1
    BY <1>3, <2>2
  <2>4. n - 1 \in 1..Len(seqs) /\ n - 1 \notin Bad
    BY <1>1, <2>2, <2>3
  <2>5. PlainSteps(flatten[n - 1]) /\ PlainSteps(seqs[n])
    BY <2>2, <2>4
  <2>6. flatten[n] = flatten[n - 1] \o seqs[n]
    BY <1>3, <2>2, <2>3
  <2> QED
    BY <2>2, <2>5, <2>6, PlainConcatenation
<1>6. CASE Len(seqs) = 0
  <2>1. seqs = <<>>
    BY <1>6 DEF IsSequence
  <2> QED
    BY <1>4, <1>6, <2>1, PlainEmpty
<1>7. CASE Len(seqs) # 0
  <2>1. Len(seqs) \in 1..Len(seqs) /\ Len(seqs) \notin Bad
    BY <1>1, <1>5, <1>7
  <2> QED
    BY <1>4, <1>7, <2>1
<1> QED
  BY <1>6, <1>7

LEMMA PlainLayerCalls ==
  \A layer, x, y :
    /\ Plain(linear_forward(layer, x, y))
    /\ Plain(convolution_2d_forward(layer, x, y))
    /\ Plain(convolution_transpose_2d_forward(layer, x, y))
    /\ Plain(max_pooling_2d_forward(layer, x, y))
    /\ Plain(average_pooling_2d_forward(layer, x, y))
    /\ Plain(dropout_forward(layer, x, y))
    /\ Plain(batch_normalization_2d_forward(layer, x, y))
    /\ Plain(layer_normalization_forward(layer, x, y))
    /\ Plain(reshape_forward(layer, x, y))
    /\ Plain(embedding_forward(layer.tensors, x, y))
    /\ Plain(transformer_embedding_forward(layer, x, y))
    /\ Plain(causal_multihead_self_attention_forward(layer, x, y))
  BY PlainCall, PlainCalls
  DEF NetworkProcedureNames, TensorProcedureNames, BlockNames, linear_forward, convolution_2d_forward,
      convolution_transpose_2d_forward, max_pooling_2d_forward, average_pooling_2d_forward,
      dropout_forward, batch_normalization_2d_forward, layer_normalization_forward, reshape_forward,
      transformer_embedding_forward, causal_multihead_self_attention_forward

LEMMA PlainActivation ==
  ASSUME NEW type \in ActivationTypes, NEW x, NEW y
  PROVE  Plain(ActivationForward(type, x, y))
  BY PlainFunctions, PlainCalls DEF ActivationTypes, ActivationForward

LEMMA PlainBlockCall ==
  ASSUME NEW name \in BlockNames, NEW in, NEW options, NEW out, options.layers \in Seq(Layers)
  PROVE  Plain(Call(name, in, options, out))
  BY DEF Plain, Call, IsArgued, NetworkProcedureNames, BlockNames

LEMMA PlainLayer ==
  ASSUME NEW c, NEW layer \in Layers, NEW x, NEW y
  PROVE  Plain(LayerForward(c, layer, x, y))
<1>1. layer.type \in LayerTypes
  BY LayersAssumption
<1>2. CASE layer.type = "ACTIVATION"
  <2>1. layer.options.type \in ActivationTypes
    BY <1>2, LayersAssumption
  <2>2. Plain(ActivationForward(layer.options.type, x, y))
    BY <2>1, PlainActivation
  <2> QED
    BY <1>2, <2>2 DEF LayerForward
<1>3. CASE layer.type \in BlockTypes
  <2>1. layer.options.layers \in Seq(Layers)
    BY <1>3, LayersAssumption
  <2>2. /\ Plain(block_forward(c, "residual_block_forward", layer, x, y))
        /\ Plain(block_forward(c, "block_forward", layer, x, y))
    BY <2>1, PlainBlockCall DEF block_forward, BlockNames
  <2> QED
    BY <1>3, <2>2 DEF LayerForward, BlockTypes
<1>4. CASE layer.type \notin BlockTypes \cup {"ACTIVATION"}
  BY <1>1, <1>4, PlainLayerCalls DEF LayerForward, LayerTypes
<1> QED
  BY <1>2, <1>3, <1>4

LEMMA BlockForwardBalanced ==
  ASSUME NEW c, c.options.layers \in Seq(Layers)
  PROVE  Balanced(BlockForward(c))
<1> DEFINE layers == c.options.layers
           Layer(i) ==
             <<LayerForward(c, layers[i], "x", "feature_map")>>
             \o If(i > 1, <<CleanUp(<<When(<<Untracked(<<"feature_map">>)>>,
                                          <<FreeUnless("x", <<"feature_map">>)>>)>>)>>)
             \o <<Assign("feature_map", "x"), Assign("NULL", "feature_map")>>
           computed == [i \in DOMAIN layers |-> Layer(i)]
<1>1. ASSUME NEW i \in 1..Len(layers) PROVE PlainSteps(Layer(i))
  <2>1. layers[i] \in Layers
    OBVIOUS
  <2>2. Plain(LayerForward(c, layers[i], "x", "feature_map"))
    BY <2>1, PlainLayer
  <2> QED
    BY <2>2, PlainOperations, PlainTuple1, PlainTuple2, PlainConcatenation, PlainIf
<1>2. BlockForward(c) = Wrapper(FlattenSeq(computed) \o <<Assign("x", "y")>>)
  BY DEF BlockForward
<1>3. DOMAIN layers = 1..Len(layers) /\ Len(layers) \in Nat
  OBVIOUS
<1> HIDE DEF layers, Layer
<1>4. computed \in Seq({computed[n] : n \in DOMAIN computed}) /\ Len(computed) = Len(layers)
  BY <1>3
<1>5. IsSequence(computed)
  BY <1>4 DEF IsSequence
<1>6. \A n \in 1..Len(computed) : PlainSteps(computed[n])
  BY <1>1, <1>3, <1>4
<1> HIDE DEF computed
<1>7. PlainSteps(FlattenSeq(computed))
  BY <1>5, <1>6, PlainFlattened
<1> QED
  BY <1>2, <1>7, PlainOperations, PlainTuple1, PlainConcatenation, PlainWrapper

LEMMA ResidualBlockForwardBalanced ==
  ASSUME NEW c, c.options.layers \in Seq(Layers)
  PROVE  Balanced(ResidualBlockForward(c))
<1>1. \A in, out : Plain(Call("block_forward", in, c.options, out))
  BY PlainBlockCall DEF BlockNames
<1> QED
  BY <1>1, PlainFunctions, PlainOperations, PlainTuple3, PlainWrapper DEF ResidualBlockForward

-----------------------------------------------------------------------------
(* Every procedure is balanced *)

LEMMA TensorProcedureBalanced ==
  ASSUME NEW name \in TensorProcedureNames, NEW c
  PROVE  Balanced(TensorProcedure(name, c))
  BY ConcatenationBalanced, TanhBalanced, AbsoluteBalanced, GeluBalanced, CompareBalanced,
     Max2Balanced, MatrixMultiplicationBalanced, ImageToColumnBalanced, ColumnToImageBalanced,
     LinearBalanced, Convolution2dBalanced, MaxPool2dBalanced, AveragePool2dBalanced,
     ConvolutionTranspose2dBalanced, ArgumentMaximumBalanced, MeanBalanced, VarianceBalanced,
     StandardDeviationBalanced, MagnitudeBalanced, SoftmaxPartsBalanced, SoftmaxBalanced,
     LogsoftmaxBalanced, ReshapeBalanced, BatchNormalization2dBalanced,
     LayerNormalizationBalanced, LowerTriangularBalanced, LeakyRectifiedLinearBalanced,
     DropoutBalanced, ScaledDotProductAttentionBalanced, CausalMultiheadSelfAttentionBalanced,
     EmbeddingBalanced, MultinomialSampleBalanced, InitialiseBalanced
  DEF TensorProcedureNames, TensorProcedure

LEMMA FunctionBackwardBalanced ==
  ASSUME NEW name \in BackwardNames, NEW c
  PROVE  Balanced(FunctionBackward(name, c))
  BY ExponentialBackwardBalanced, LogarithmBackwardBalanced, SineBackwardBalanced,
     CosineBackwardBalanced, SquareRootBackwardBalanced, ReciprocalBackwardBalanced,
     ContiguousBackwardBalanced, NegationBackwardBalanced, RectifiedLinearBackwardBalanced,
     SigmoidBackwardBalanced, AdditionBackwardBalanced, SubtractionBackwardBalanced,
     MultiplicationBackwardBalanced, DivisionBackwardBalanced, PowerBackwardBalanced,
     MatrixMultiplicationBackwardBalanced, WhereBackwardBalanced, SummationBackwardBalanced,
     MaximumBackwardBalanced, ExpandBackwardBalanced, PermuteBackwardBalanced,
     ReshapeBackwardBalanced, SliceBackwardBalanced, PaddingBackwardBalanced,
     ImageToColumnBackwardBalanced, ColumnToImageBackwardBalanced
  DEF BackwardNames, FunctionBackward

LEMMA NetworkProcedureBalanced ==
  ASSUME NEW name \in NetworkProcedureNames, NEW c, IsArgued(name, c.options)
  PROVE  Balanced(NetworkProcedure(name, c))
<1>1. CASE name \in TensorProcedureNames
  <2>1. NetworkProcedure(name, c) = TensorProcedure(name, c)
    BY <1>1 DEF TensorProcedureNames, NetworkProcedure
  <2> QED
    BY <1>1, <2>1, TensorProcedureBalanced
<1>2. CASE name \in BlockNames
  <2>1. c.options.layers \in Seq(Layers)
    BY <1>2 DEF IsArgued
  <2> QED
    BY <1>2, <2>1, BlockForwardBalanced, ResidualBlockForwardBalanced DEF BlockNames, NetworkProcedure
<1>3. CASE name \notin TensorProcedureNames \cup BlockNames
  BY <1>3, AsTensorBalanced, CategoricalCrossEntropyBalanced, BinaryCrossEntropyBalanced,
     BinaryCrossEntropyLogitsBalanced, BinaryAccuracyBalanced, MulticlassAccuracyBalanced,
     TransformerEmbeddingForwardBalanced, StochasticGradientDescentBalanced, RmsPropBalanced,
     AdamBalanced, ClipGradientNormParametersBalanced
  DEF NetworkProcedureNames, NetworkProcedure
<1> QED
  BY <1>1, <1>2, <1>3

-----------------------------------------------------------------------------
(* The frames on the stack *)

Code(frame) == ProcedureOf(frame).body

(* The depth behind the body of a frame entered at depth i. *)
After(frame, i) == IF ProcedureOf(frame).leaves_mode THEN i + 1 ELSE i

(* A frame runs one of the procedures. *)
Known(frame) ==
  \/ frame.name = "main" /\ Plain(frame.context.options)
  \/ /\ frame.name \in NetworkProcedureNames \cup BackwardNames
     /\ IsArgued(frame.name, frame.context.options)

IsFrame(frame) ==
  /\ frame = [name |-> frame.name, context |-> frame.context, variables |-> frame.variables,
              pc |-> frame.pc, out |-> frame.out, failed |-> frame.failed]
  /\ frame.failed \in BOOLEAN
  /\ Known(frame)
  /\ frame.pc \in 1..(Len(Code(frame)) + 1)

(* A frame that waits for the function it called. *)
Suspended(frame) ==
  ~frame.failed /\ frame.pc <= Len(Code(frame)) /\ Code(frame)[frame.pc].do = "call"

(* The program's own frame, and the frames of the functions that run: all but  *)
(* the innermost one wait.                                                     *)
Frames(s) ==
  /\ IsSequence(s)
  /\ Len(s) > 0
  /\ s[1].name = "main"
  /\ \A k \in 1..Len(s) : IsFrame(s[k])
  /\ \A k \in 1..(Len(s) - 1) : Suspended(s[k])

(* The depth at which each frame was entered: behind the call its caller comes *)
(* from there to the depth it promises.                                        *)
Bases(base, s) ==
  /\ base \in [1..Len(s) -> Nat]
  /\ \A k \in 1..(Len(s) - 1) : Rest(Code(s[k]), s[k].pc + 1, base[k + 1], After(s[k], base[k]))

(* So does the innermost frame, from the depth p. *)
Depths(base, s, p) ==
  /\ Bases(base, s)
  /\ Rest(Code(s[Len(s)]), s[Len(s)].pc, p, After(s[Len(s)], base[Len(s)]))

(* The depth at which the program makes its call. *)
Entered(c) == IF c.no_gradient THEN 1 ELSE 0

(* The counter and the flag agree, the frames are those of procedures that run, *)
(* and from the depth counted now every one of them comes to what it promises.  *)
ModeInvariant ==
  /\ Frames(stack)
  /\ call \in Calls
  /\ previous \in Nat
  /\ no_gradient \in BOOLEAN
  /\ no_gradient <=> previous > 0
  /\ ~Top.failed => \E base : Depths(base, stack, previous) /\ base[1] = Entered(call)
  /\ phase = "release" => Len(stack) = 1 /\ (Top.failed \/ Top.pc > 1)

LEMMA BalancedSequence ==
  ASSUME NEW procedure, Balanced(procedure)
  PROVE  IsSequence(procedure.body) /\ Len(procedure.body) \in Nat
<1>1. 0 \in Nat
  OBVIOUS
<1>2. IsSequence(procedure.body)
  BY <1>1 DEF Balanced, Nests
<1> QED
  BY <1>2 DEF IsSequence

LEMMA KnownBalanced ==
  ASSUME NEW frame, Known(frame)
  PROVE  Balanced(ProcedureOf(frame)) /\ IsSequence(Code(frame)) /\ Len(Code(frame)) \in Nat
<1>1. CASE frame.name = "main"
  <2>1. frame.name \notin NetworkProcedureNames \cup BackwardNames
    BY <1>1 DEF NetworkProcedureNames, BlockNames, TensorProcedureNames, BackwardNames
  <2>2. Plain(frame.context.options)
    BY <2>1 DEF Known
  <2>3. Balanced(Main(frame.context))
    BY <2>2, PlainTuple1, PlainWrapper DEF Main
  <2>4. ProcedureOf(frame) = Main(frame.context)
    BY <1>1, <2>1 DEF ProcedureOf
  <2> QED
    BY <2>3, <2>4, BalancedSequence DEF Code
<1>2. CASE frame.name # "main"
  <2>1. /\ frame.name \in NetworkProcedureNames \cup BackwardNames
        /\ IsArgued(frame.name, frame.context.options)
    BY <1>2 DEF Known
  <2>2. Balanced(ProcedureOf(frame))
    <3>1. CASE frame.name \in BackwardNames
      BY <1>2, <3>1, FunctionBackwardBalanced DEF ProcedureOf
    <3>2. CASE frame.name \notin BackwardNames
      <4>1. ProcedureOf(frame) = NetworkProcedure(frame.name, frame.context)
        BY <1>2, <3>2 DEF ProcedureOf
      <4> QED
        BY <2>1, <3>2, <4>1, NetworkProcedureBalanced
    <3> QED
      BY <3>1, <3>2
  <2> QED
    BY <2>2, BalancedSequence DEF Code
<1> QED
  BY <1>1, <1>2

(* One step further on a path. *)
LEMMA RestStep ==
  ASSUME NEW body, Len(body) \in Nat, NEW n \in 1..Len(body), NEW i, NEW j, Rest(body, n, i, j)
  PROVE  \E k \in Nat : i \in Nat /\ ModeAfter(body[n], i, k) /\ Rest(body, n + 1, k, j)
<1>1. PICK d : IsPath(d, body, n) /\ d[n] = i /\ d[Len(body) + 1] = j
  BY DEF Rest
<1> DEFINE e == [m \in (n + 1)..(Len(body) + 1) |-> d[m]]
<1>2. n + 1 \in 1..(Len(body) + 1) /\ n \in n..Len(body) /\ n \in n..(Len(body) + 1)
      /\ n + 1 \in n..(Len(body) + 1) /\ n + 1 \in (n + 1)..(Len(body) + 1)
      /\ Len(body) + 1 \in (n + 1)..(Len(body) + 1)
  OBVIOUS
<1>3. i \in Nat /\ d[n + 1] \in Nat /\ ModeAfter(body[n], i, d[n + 1])
  BY <1>1, <1>2 DEF IsPath
<1>4. e \in [(n + 1)..(Len(body) + 1) -> Nat]
  <2>1. \A m \in (n + 1)..(Len(body) + 1) : m \in n..(Len(body) + 1)
    OBVIOUS
  <2> QED
    BY <1>1, <2>1 DEF IsPath
<1>5. ASSUME NEW m \in (n + 1)..Len(body) PROVE ModeAfter(body[m], e[m], e[m + 1])
  <2>1. m \in n..Len(body) /\ m \in (n + 1)..(Len(body) + 1) /\ m + 1 \in (n + 1)..(Len(body) + 1)
    OBVIOUS
  <2> QED
    BY <1>1, <2>1 DEF IsPath
<1>6. e[n + 1] = d[n + 1] /\ e[Len(body) + 1] = j
  BY <1>1, <1>2
<1> HIDE DEF e
<1>7. IsPath(e, body, n + 1)
  BY <1>4, <1>5 DEF IsPath
<1>8. Rest(body, n + 1, d[n + 1], j)
  BY <1>2, <1>6, <1>7 DEF Rest
<1> QED
  BY <1>3, <1>8

(* A step that is not with_no_gradient leaves the depth. *)
LEMMA RestPlainStep ==
  ASSUME NEW body, Len(body) \in Nat, NEW n \in 1..Len(body), NEW i, NEW j, Rest(body, n, i, j),
         body[n].do # "with_no_gradient"
  PROVE  Rest(body, n + 1, i, j) /\ Plain(body[n])
<1>1. PICK k \in Nat : ModeAfter(body[n], i, k) /\ Rest(body, n + 1, k, j)
  BY RestStep
<1> QED
  BY <1>1 DEF ModeAfter, WithNoGradient

(* At the end of the body the depth is that behind it. *)
LEMMA RestEnd ==
  ASSUME NEW body, Len(body) \in Nat, NEW i, NEW j, Rest(body, Len(body) + 1, i, j)
  PROVE  i = j /\ i \in Nat
  BY DEF Rest, IsPath

(* The frames below the innermost one. *)
LEMMA BelowTop ==
  ASSUME NEW T, NEW s \in Seq(T), Len(s) > 0
  PROVE  /\ SubSeq(s, 1, Len(s) - 1) \in Seq(T)
         /\ Len(SubSeq(s, 1, Len(s) - 1)) = Len(s) - 1
         /\ \A k \in 1..(Len(s) - 1) : SubSeq(s, 1, Len(s) - 1)[k] = s[k]
         /\ Len(s) \in Nat
<1> DEFINE below == SubSeq(s, 1, Len(s) - 1)
<1>1. Len(s) \in Nat /\ Len(s) - 1 \in Nat
  OBVIOUS
<1>2. below \in Seq(T) /\ Len(below) = Len(s) - 1 /\ \A k \in 1..(Len(s) - 1) : below[k] = s[k]
  <2>1. \A k \in 1..(Len(s) - 1) : s[k] \in T
    BY <1>1
  <2>2. 1 \in Int /\ Len(s) - 1 \in Int
    BY <1>1
  <2>3. below \in Seq(T) /\ Len(below) = (IF 1 <= Len(s) - 1 THEN Len(s) - 1 - 1 + 1 ELSE 0)
    BY <2>1, <2>2, SubSeqProperties
  <2>4. \A k \in 1..(Len(s) - 1 - 1 + 1) : below[k] = s[1 + k - 1]
    BY <2>1, <2>2, SubSeqProperties
  <2>5. \A k \in 1..(Len(s) - 1) : below[k] = s[k]
    <3>1. Len(s) - 1 - 1 + 1 = Len(s) - 1 /\ \A k \in 1..(Len(s) - 1) : 1 + k - 1 = k
      BY <1>1
    <3> QED
      BY <2>4, <3>1
  <2>6. Len(below) = Len(s) - 1
    <3>1. \A n \in Nat : n > 0 => n - 1 = IF 1 <= n - 1 THEN n - 1 - 1 + 1 ELSE 0
      OBVIOUS
    <3> QED
      BY <1>1, <2>3, <3>1
  <2> QED
    BY <2>3, <2>5, <2>6
<1> QED
  BY <1>1, <1>2

(* Another frame in place of the innermost one. *)
LEMMA InPlaceOfTop ==
  ASSUME NEW s, IsSequence(s), Len(s) > 0, NEW f
  PROVE  /\ IsSequence(Append(SubSeq(s, 1, Len(s) - 1), f))
         /\ Len(Append(SubSeq(s, 1, Len(s) - 1), f)) = Len(s)
         /\ \A k \in 1..(Len(s) - 1) : Append(SubSeq(s, 1, Len(s) - 1), f)[k] = s[k]
         /\ Append(SubSeq(s, 1, Len(s) - 1), f)[Len(s)] = f
<1>1. PICK S : s \in Seq(S)
  BY DEF IsSequence
<1> DEFINE T == S \cup {f}
<1>2. s \in Seq(T) /\ f \in T
  BY <1>1
<1> HIDE DEF T
<1> DEFINE below == SubSeq(s, 1, Len(s) - 1)
<1>3. /\ below \in Seq(T) /\ Len(below) = Len(s) - 1
      /\ \A k \in 1..(Len(s) - 1) : below[k] = s[k]
      /\ Len(s) \in Nat
  BY <1>2, BelowTop
<1> HIDE DEF below
<1>5. /\ Append(below, f) \in Seq(T)
      /\ Len(Append(below, f)) = Len(s)
      /\ Append(below, f)[Len(s)] = f
      /\ \A k \in 1..(Len(s) - 1) : Append(below, f)[k] = below[k]
  BY <1>2, <1>3
<1>6. IsSequence(Append(below, f))
  BY <1>5, MembersSequence
<1> QED
  BY <1>3, <1>5, <1>6 DEF below

LEMMA OnTop ==
  ASSUME NEW s, IsSequence(s), NEW f
  PROVE  /\ IsSequence(Append(s, f))
         /\ Len(Append(s, f)) = Len(s) + 1
         /\ \A k \in 1..Len(s) : Append(s, f)[k] = s[k]
         /\ Append(s, f)[Len(s) + 1] = f
         /\ Len(s) \in Nat
<1>1. PICK S : s \in Seq(S)
  BY DEF IsSequence
<1> DEFINE T == S \cup {f}
<1>2. s \in Seq(T) /\ f \in T
  BY <1>1
<1> HIDE DEF T
<1>3. Append(s, f) \in Seq(T) /\ Len(Append(s, f)) = Len(s) + 1 /\ Len(s) \in Nat
  BY <1>2
<1>4. IsSequence(Append(s, f))
  BY <1>3, MembersSequence
<1>5. Append(s, f)[Len(s) + 1] = f /\ \A k \in 1..Len(s) : Append(s, f)[k] = s[k]
  BY <1>2
<1> QED
  BY <1>3, <1>4, <1>5

(* A frame as a step leaves it: the variables changed, the counter moved.      *)
Moved(frame, variables, pc, failed) ==
  [frame EXCEPT !.variables = variables, !.pc = pc, !.failed = failed]

LEMMA MovedFields ==
  ASSUME NEW frame, NEW name, NEW context, NEW v, NEW n, NEW out, NEW b, NEW variables, NEW pc, NEW failed,
         frame = [name |-> name, context |-> context, variables |-> v, pc |-> n, out |-> out, failed |-> b]
  PROVE  Moved(frame, variables, pc, failed)
         = [name |-> name, context |-> context, variables |-> variables, pc |-> pc, out |-> out,
            failed |-> failed]
<1> DEFINE f == [frame EXCEPT !.variables = variables]
           g == [f EXCEPT !.pc = pc]
           h == [g EXCEPT !.failed = failed]
<1>1. f = [name |-> name, context |-> context, variables |-> variables, pc |-> n, out |-> out, failed |-> b]
  OBVIOUS
<1>2. Moved(frame, variables, pc, failed) = h
  BY DEF Moved
<1> HIDE DEF f
<1>3. g = [name |-> name, context |-> context, variables |-> variables, pc |-> pc, out |-> out, failed |-> b]
  BY <1>1
<1> HIDE DEF g
<1>4. h = [name |-> name, context |-> context, variables |-> variables, pc |-> pc, out |-> out,
           failed |-> failed]
  BY <1>3
<1> QED
  BY <1>2, <1>4

LEMMA MovedIs ==
  ASSUME NEW frame, IsFrame(frame), NEW variables, NEW pc, NEW failed \in BOOLEAN,
         pc \in 1..(Len(Code(frame)) + 1)
  PROVE  /\ IsFrame(Moved(frame, variables, pc, failed))
         /\ Code(Moved(frame, variables, pc, failed)) = Code(frame)
         /\ \A i : After(Moved(frame, variables, pc, failed), i) = After(frame, i)
         /\ Moved(frame, variables, pc, failed).pc = pc
         /\ Moved(frame, variables, pc, failed).failed = failed
         /\ Moved(frame, variables, pc, failed).name = frame.name
<1> DEFINE f == Moved(frame, variables, pc, failed)
<1>1. f = [name |-> frame.name, context |-> frame.context, variables |-> variables,
           pc |-> pc, out |-> frame.out, failed |-> failed]
  <2>1. PICK name, context, out, v, n, b :
          frame = [name |-> name, context |-> context, variables |-> v, pc |-> n, out |-> out, failed |-> b]
    BY DEF IsFrame
  <2>2. frame.name = name /\ frame.context = context /\ frame.out = out
    BY <2>1
  <2>3. f = [name |-> name, context |-> context, variables |-> variables, pc |-> pc, out |-> out,
             failed |-> failed]
    BY <2>1, MovedFields
  <2> QED
    BY <2>2, <2>3
<1> HIDE DEF f
<1>2. /\ f.name = frame.name /\ f.context = frame.context /\ f.variables = variables
      /\ f.pc = pc /\ f.out = frame.out /\ f.failed = failed
  BY <1>1
<1>3. ProcedureOf(f) = ProcedureOf(frame)
  BY <1>2 DEF ProcedureOf
<1>4. Known(f)
  BY <1>2 DEF IsFrame, Known
<1>5. Code(f) = Code(frame) /\ \A i : After(f, i) = After(frame, i)
  BY <1>3 DEF Code, After
<1>6. f = [name |-> f.name, context |-> f.context, variables |-> f.variables,
           pc |-> f.pc, out |-> f.out, failed |-> f.failed]
  BY <1>1, <1>2
<1>7. IsFrame(f)
  BY <1>2, <1>4, <1>5, <1>6 DEF IsFrame
<1> QED
  BY <1>2, <1>5, <1>7 DEF f

LEMMA FramesFacts ==
  ASSUME Frames(stack)
  PROVE  /\ IsSequence(stack) /\ Len(stack) \in Nat /\ Len(stack) > 0
         /\ IsFrame(Top) /\ Len(Code(Top)) \in Nat
         /\ Top = stack[Len(stack)] /\ Body = Code(Top)
<1>1. IsSequence(stack) /\ Len(stack) \in Nat /\ Len(stack) > 0
  BY DEF Frames, IsSequence
<1>2. IsFrame(Top)
  BY <1>1 DEF Frames, Top
<1> QED
  BY <1>1, <1>2, KnownBalanced DEF IsFrame, Top, Body, Code

(* The innermost frame moves on. *)
LEMMA FramesMove ==
  ASSUME NEW s, Frames(s), NEW variables, NEW pc, NEW failed \in BOOLEAN,
         pc \in 1..(Len(Code(s[Len(s)])) + 1)
  PROVE  Frames(Append(SubSeq(s, 1, Len(s) - 1), Moved(s[Len(s)], variables, pc, failed)))
<1> DEFINE f == Moved(s[Len(s)], variables, pc, failed)
           t == Append(SubSeq(s, 1, Len(s) - 1), f)
<1>1. IsSequence(s) /\ Len(s) > 0 /\ Len(s) \in Nat /\ IsFrame(s[Len(s)])
  BY DEF Frames, IsSequence
<1>2. IsFrame(f) /\ f.name = s[Len(s)].name
  BY <1>1, MovedIs
<1> HIDE DEF f
<1>3. /\ IsSequence(t) /\ Len(t) = Len(s) /\ t[Len(s)] = f
      /\ \A k \in 1..(Len(s) - 1) : t[k] = s[k]
  BY <1>1, InPlaceOfTop
<1> HIDE DEF t
<1>4. \A k \in 1..Len(s) : IsFrame(t[k])
  <2>1. ASSUME NEW k \in 1..Len(s) PROVE IsFrame(t[k])
    <3>1. CASE k = Len(s)
      BY <1>2, <1>3, <3>1
    <3>2. CASE k # Len(s)
      <4>1. k \in 1..(Len(s) - 1)
        BY <1>1, <3>2
      <4> QED
        BY <1>3, <4>1 DEF Frames
    <3> QED
      BY <3>1, <3>2
  <2> QED
    BY <2>1
<1>5. \A k \in 1..(Len(s) - 1) : Suspended(t[k])
  BY <1>3 DEF Frames
<1>6. t[1].name = "main"
  <2>1. CASE Len(s) = 1
    BY <1>2, <1>3, <2>1 DEF Frames
  <2>2. CASE Len(s) # 1
    <3>1. 1 \in 1..(Len(s) - 1)
      BY <1>1, <2>2
    <3> QED
      BY <1>3, <3>1 DEF Frames
  <2> QED
    BY <2>1, <2>2
<1>7. Frames(t)
  BY <1>1, <1>3, <1>4, <1>5, <1>6 DEF Frames
<1> QED
  BY <1>7 DEF t, f

LEMMA DepthsMove ==
  ASSUME NEW s, Frames(s), NEW variables, NEW pc, NEW base, NEW q, NEW failed \in BOOLEAN,
         Bases(base, s),
         pc \in 1..(Len(Code(s[Len(s)])) + 1),
         Rest(Code(s[Len(s)]), pc, q, After(s[Len(s)], base[Len(s)]))
  PROVE  Depths(base, Append(SubSeq(s, 1, Len(s) - 1), Moved(s[Len(s)], variables, pc, failed)), q)
<1> DEFINE f == Moved(s[Len(s)], variables, pc, failed)
           t == Append(SubSeq(s, 1, Len(s) - 1), f)
<1>1. IsSequence(s) /\ Len(s) > 0 /\ Len(s) \in Nat /\ IsFrame(s[Len(s)])
  BY DEF Frames, IsSequence
<1>2. Code(f) = Code(s[Len(s)]) /\ f.pc = pc /\ \A i : After(f, i) = After(s[Len(s)], i)
  BY <1>1, MovedIs
<1> HIDE DEF f
<1>3. Len(t) = Len(s) /\ t[Len(s)] = f /\ \A k \in 1..(Len(s) - 1) : t[k] = s[k]
  BY <1>1, InPlaceOfTop
<1> HIDE DEF t
<1>4. Rest(Code(t[Len(t)]), t[Len(t)].pc, q, After(t[Len(t)], base[Len(t)]))
  BY <1>2, <1>3
<1>5. \A k \in 1..(Len(t) - 1) :
        Rest(Code(t[k]), t[k].pc + 1, base[k + 1], After(t[k], base[k]))
  BY <1>3 DEF Bases
<1>6. Depths(base, t, q)
  BY <1>3, <1>4, <1>5 DEF Bases, Depths
<1> QED
  BY <1>6 DEF t, f

LEMMA TopDepth ==
  ASSUME NEW s, Frames(s), NEW base, NEW p, Depths(base, s, p)
  PROVE  base[Len(s)] \in Nat /\ base[1] \in Nat
<1>1. Len(s) \in 1..Len(s) /\ 1 \in 1..Len(s)
  BY DEF Frames, IsSequence
<1> QED
  BY <1>1 DEF Bases, Depths

(* The step of the innermost function, where there is one. *)
LEMMA StepFacts ==
  ASSUME ModeInvariant, InBody
  PROVE  /\ Top.pc \in 1..Len(Code(Top)) /\ Len(Code(Top)) \in Nat
         /\ Top.pc + 1 \in 1..(Len(Code(Top)) + 1) /\ Step = Code(Top)[Top.pc]
         /\ ~Top.failed /\ phase = "run"
<1>1. IsFrame(Top) /\ Len(Code(Top)) \in Nat /\ Body = Code(Top)
  BY FramesFacts DEF ModeInvariant
<1>2. Top.pc \in 1..(Len(Code(Top)) + 1) /\ Top.pc <= Len(Code(Top))
  BY <1>1 DEF IsFrame, InBody
<1> QED
  BY <1>1, <1>2 DEF InBody, Step

(* What Proceed and Jump make of the innermost frame. *)
LEMMA ProceedMoves ==
  ASSUME NEW frame, IsFrame(frame), NEW variables
  PROVE  [frame EXCEPT !.variables = variables, !.pc = @ + 1]
         = Moved(frame, variables, frame.pc + 1, frame.failed)
<1>1. PICK name, context, out, v, n, b :
        frame = [name |-> name, context |-> context, variables |-> v, pc |-> n, out |-> out, failed |-> b]
  BY DEF IsFrame
<1>2. frame.pc = n /\ frame.failed = b
  BY <1>1
<1>3. Moved(frame, variables, frame.pc + 1, frame.failed)
      = [name |-> name, context |-> context, variables |-> variables, pc |-> n + 1, out |-> out,
         failed |-> b]
  BY <1>1, <1>2, MovedFields
<1> DEFINE f == [frame EXCEPT !.variables = variables]
           g == [f EXCEPT !.pc = n + 1]
<1>4. f = [name |-> name, context |-> context, variables |-> variables, pc |-> n, out |-> out, failed |-> b]
  BY <1>1
<1>5. [frame EXCEPT !.variables = variables, !.pc = @ + 1] = g
  BY <1>1, <1>2
<1> HIDE DEF f
<1>6. g = [name |-> name, context |-> context, variables |-> variables, pc |-> n + 1, out |-> out,
           failed |-> b]
  BY <1>4
<1> QED
  BY <1>3, <1>5, <1>6

LEMMA JumpMoves ==
  ASSUME NEW frame, IsFrame(frame), NEW variables, NEW failed
  PROVE  [frame EXCEPT !.variables = variables, !.failed = failed] = Moved(frame, variables, frame.pc, failed)
<1>1. PICK name, context, out, v, n, b :
        frame = [name |-> name, context |-> context, variables |-> v, pc |-> n, out |-> out, failed |-> b]
  BY DEF IsFrame
<1>2. frame.pc = n
  BY <1>1
<1>3. Moved(frame, variables, frame.pc, failed)
      = [name |-> name, context |-> context, variables |-> variables, pc |-> n, out |-> out,
         failed |-> failed]
  BY <1>1, <1>2, MovedFields
<1> DEFINE f == [frame EXCEPT !.variables = variables]
           g == [f EXCEPT !.failed = failed]
<1>4. f = [name |-> name, context |-> context, variables |-> variables, pc |-> n, out |-> out, failed |-> b]
  BY <1>1
<1>5. [frame EXCEPT !.variables = variables, !.failed = failed] = g
  BY <1>1
<1> HIDE DEF f
<1>6. g = [name |-> name, context |-> context, variables |-> variables, pc |-> n, out |-> out,
           failed |-> failed]
  BY <1>4
<1> QED
  BY <1>3, <1>5, <1>6

(* A step after which the function goes on, at a depth from which its rest     *)
(* comes to the same.                                                         *)
LEMMA ProceedKeepsMode ==
  ASSUME ModeInvariant, InBody, NEW variables, Proceed(variables),
         previous' \in Nat, no_gradient' \in BOOLEAN, no_gradient' <=> previous' > 0,
         UNCHANGED <<call, phase>>,
         \A j : Rest(Code(Top), Top.pc, previous, j) => Rest(Code(Top), Top.pc + 1, previous', j)
  PROVE  ModeInvariant'
<1>1. /\ Frames(stack) /\ Top = stack[Len(stack)] /\ IsFrame(Top)
      /\ IsSequence(stack) /\ Len(stack) \in Nat /\ Len(stack) > 0
  BY FramesFacts DEF ModeInvariant
<1>2. Top.pc + 1 \in 1..(Len(Code(Top)) + 1) /\ ~Top.failed /\ phase = "run"
  BY StepFacts
<1>3. Top.failed \in BOOLEAN
  BY <1>1 DEF IsFrame
<1>4. stack' = Append(SubSeq(stack, 1, Len(stack) - 1), Moved(Top, variables, Top.pc + 1, Top.failed))
  BY <1>1, ProceedMoves DEF Proceed, Below
<1>5. Frames(stack')
  BY <1>1, <1>2, <1>3, <1>4, FramesMove
<1>6. PICK base : Depths(base, stack, previous) /\ base[1] = Entered(call)
  BY <1>2 DEF ModeInvariant
<1>7. Rest(Code(Top), Top.pc + 1, previous', After(Top, base[Len(stack)]))
  BY <1>1, <1>6 DEF Depths
<1>8. Depths(base, stack', previous')
  BY <1>1, <1>2, <1>3, <1>4, <1>6, <1>7, DepthsMove DEF Depths
<1>9. Entered(call') = Entered(call) /\ call' \in Calls /\ phase' # "release"
  BY <1>2 DEF ModeInvariant
<1> QED
  BY <1>5, <1>6, <1>8, <1>9 DEF ModeInvariant

(* A step that reports an error. *)
LEMMA JumpKeepsMode ==
  ASSUME ModeInvariant, InBody, NEW variables, Jump(variables),
         previous' \in Nat, no_gradient' \in BOOLEAN, no_gradient' <=> previous' > 0,
         UNCHANGED <<call, phase>>
  PROVE  ModeInvariant'
<1>1. /\ Frames(stack) /\ Top = stack[Len(stack)] /\ IsFrame(Top)
      /\ IsSequence(stack) /\ Len(stack) \in Nat /\ Len(stack) > 0
  BY FramesFacts DEF ModeInvariant
<1>2. Top.pc \in 1..(Len(Code(Top)) + 1) /\ phase = "run" /\ TRUE \in BOOLEAN
  BY <1>1 DEF InBody, IsFrame
<1> DEFINE f == Moved(Top, variables, Top.pc, TRUE)
<1>3. stack' = Append(SubSeq(stack, 1, Len(stack) - 1), f)
  BY <1>1, JumpMoves DEF Jump, Below
<1>4. f.failed
  BY <1>1, <1>2, MovedIs
<1>5. Frames(stack')
  BY <1>1, <1>2, <1>3, FramesMove
<1> HIDE DEF f
<1>6. Top' = f
  <2>1. Top' = (stack')[Len(stack')]
    BY DEF Top
  <2> QED
    BY <1>1, <1>3, <2>1, InPlaceOfTop
<1>7. call' \in Calls /\ phase' # "release"
  BY <1>2 DEF ModeInvariant
<1> QED
  BY <1>4, <1>5, <1>6, <1>7 DEF ModeInvariant

(* The caller as a return leaves it. *)
Returned(frame, variables, failed) ==
  [frame EXCEPT !.variables = variables, !.pc = IF failed THEN @ ELSE @ + 1, !.failed = failed]

LEMMA ReturnMoves ==
  ASSUME NEW frame, IsFrame(frame), NEW variables, NEW failed
  PROVE  Returned(frame, variables, failed)
         = Moved(frame, variables, IF failed THEN frame.pc ELSE frame.pc + 1, failed)
<1>1. PICK name, context, out, v, n, b :
        frame = [name |-> name, context |-> context, variables |-> v, pc |-> n, out |-> out, failed |-> b]
  BY DEF IsFrame
<1>2. frame.pc = n
  BY <1>1
<1> DEFINE pc == IF failed THEN n ELSE n + 1
<1>3. Moved(frame, variables, pc, failed)
      = [name |-> name, context |-> context, variables |-> variables, pc |-> pc, out |-> out,
         failed |-> failed]
  <2> HIDE DEF pc
  <2> QED
    BY <1>1, MovedFields
<1> DEFINE f == [frame EXCEPT !.variables = variables]
           g == [f EXCEPT !.pc = IF failed THEN @ ELSE @ + 1]
           h == [g EXCEPT !.failed = failed]
<1>4. f = [name |-> name, context |-> context, variables |-> variables, pc |-> n, out |-> out, failed |-> b]
  BY <1>1
<1>5. Returned(frame, variables, failed) = h
  BY DEF Returned
<1> HIDE DEF f
<1>6. g = [name |-> name, context |-> context, variables |-> variables, pc |-> pc, out |-> out,
           failed |-> b]
  BY <1>4
<1> HIDE DEF g
<1>7. h = [name |-> name, context |-> context, variables |-> variables, pc |-> pc, out |-> out,
           failed |-> failed]
  BY <1>6
<1> HIDE DEF h
<1> QED
  BY <1>2, <1>3, <1>5, <1>7

(* The counter and the flag of with_no_gradient. *)
LEMMA EnterFacts ==
  ASSUME ModeInvariant, EnterNoGradient
  PROVE  previous' = previous + 1 /\ previous' \in Nat /\ no_gradient' \in BOOLEAN /\ (no_gradient' <=> previous' > 0)
  BY DEF ModeInvariant, EnterNoGradient

LEMMA LeaveFacts ==
  ASSUME ModeInvariant, LeaveNoGradient
  PROVE  /\ previous > 0 => previous' = previous - 1
         /\ previous' \in Nat /\ no_gradient' \in BOOLEAN /\ (no_gradient' <=> previous' > 0)
<1>1. previous \in Nat /\ no_gradient \in BOOLEAN /\ (no_gradient <=> previous > 0)
  BY DEF ModeInvariant
<1>2. CASE previous = 1
  BY <1>2 DEF LeaveNoGradient
<1>3. CASE previous = 0
  <2>1. previous' = 0 /\ no_gradient' = no_gradient
    BY <1>3 DEF LeaveNoGradient
  <2> QED
    BY <1>1, <1>3, <2>1
<1>4. CASE previous > 1
  <2>0. previous > 0 /\ previous # 1
    BY <1>1, <1>4
  <2>1. previous' = previous - 1
    BY <2>0 DEF LeaveNoGradient
  <2>2. no_gradient' = no_gradient
    BY <2>0 DEF LeaveNoGradient
  <2> QED
    BY <1>1, <1>4, <2>0, <2>1, <2>2
<1> QED
  BY <1>1, <1>2, <1>3, <1>4

(* A call puts a frame on top. *)
LEMMA FramesPush ==
  ASSUME NEW s, Frames(s), Suspended(s[Len(s)]), NEW f, IsFrame(f)
  PROVE  Frames(Append(s, f))
<1> DEFINE t == Append(s, f)
<1>1. /\ IsSequence(t) /\ Len(t) = Len(s) + 1 /\ t[Len(s) + 1] = f /\ Len(s) \in Nat
      /\ \A k \in 1..Len(s) : t[k] = s[k]
  BY OnTop DEF Frames
<1> HIDE DEF t
<1>2. Len(s) > 0 /\ 1 \in 1..Len(s)
  BY <1>1 DEF Frames
<1>3. \A k \in 1..Len(t) : IsFrame(t[k])
  <2>1. ASSUME NEW k \in 1..(Len(s) + 1) PROVE IsFrame(t[k])
    <3>1. CASE k = Len(s) + 1
      BY <1>1, <3>1
    <3>2. CASE k # Len(s) + 1
      <4>1. k \in 1..Len(s)
        BY <1>1, <3>2
      <4> QED
        BY <1>1, <4>1 DEF Frames
    <3> QED
      BY <3>1, <3>2
  <2> QED
    BY <1>1, <2>1
<1>4. \A k \in 1..(Len(t) - 1) : Suspended(t[k])
  <2>1. ASSUME NEW k \in 1..Len(s) PROVE Suspended(t[k])
    <3>1. CASE k = Len(s)
      BY <1>1, <3>1
    <3>2. CASE k # Len(s)
      <4>1. k \in 1..(Len(s) - 1)
        BY <1>1, <3>2
      <4> QED
        BY <1>1, <4>1 DEF Frames
    <3> QED
      BY <3>1, <3>2
  <2>2. Len(t) - 1 = Len(s)
    BY <1>1
  <2> QED
    BY <2>1, <2>2
<1>5. t[1].name = "main" /\ Len(t) > 0
  BY <1>1, <1>2 DEF Frames
<1>6. Frames(t)
  BY <1>1, <1>3, <1>4, <1>5 DEF Frames
<1> QED
  BY <1>6 DEF t

LEMMA DepthsPush ==
  ASSUME NEW s, Frames(s), NEW base, NEW p \in Nat, Bases(base, s), NEW f, IsFrame(f), f.pc = 1,
         Rest(Code(s[Len(s)]), s[Len(s)].pc + 1, p, After(s[Len(s)], base[Len(s)]))
  PROVE  \E e : Depths(e, Append(s, f), p) /\ e[1] = base[1]
<1> DEFINE t == Append(s, f)
           e == [k \in 1..(Len(s) + 1) |-> IF k = Len(s) + 1 THEN p ELSE base[k]]
<1>1. /\ Len(t) = Len(s) + 1 /\ t[Len(s) + 1] = f /\ Len(s) \in Nat
      /\ \A k \in 1..Len(s) : t[k] = s[k]
  BY OnTop DEF Frames
<1> HIDE DEF t
<1>2. Len(s) > 0
  BY DEF Frames
<1>3. e \in [1..Len(t) -> Nat]
  <2>1. ASSUME NEW k \in 1..(Len(s) + 1) PROVE (IF k = Len(s) + 1 THEN p ELSE base[k]) \in Nat
    <3>1. CASE k = Len(s) + 1
      BY <3>1
    <3>2. CASE k # Len(s) + 1
      <4>1. k \in 1..Len(s)
        BY <1>1, <3>2
      <4> QED
        BY <3>2, <4>1 DEF Bases
    <3> QED
      BY <3>1, <3>2
  <2> QED
    BY <1>1, <2>1
<1>4. e[Len(s) + 1] = p /\ \A k \in 1..Len(s) : e[k] = base[k]
  BY <1>1
<1> HIDE DEF e
<1>5. ASSUME NEW k \in 1..(Len(t) - 1)
      PROVE  Rest(Code(t[k]), t[k].pc + 1, e[k + 1], After(t[k], e[k]))
  <2>1. k \in 1..Len(s)
    BY <1>1
  <2>2. t[k] = s[k] /\ e[k] = base[k]
    BY <1>1, <1>4, <2>1
  <2>3. CASE k = Len(s)
    BY <1>4, <2>2, <2>3
  <2>4. CASE k # Len(s)
    <3>1. k \in 1..(Len(s) - 1) /\ k + 1 \in 1..Len(s)
      BY <1>1, <2>1, <2>4
    <3>2. e[k + 1] = base[k + 1]
      BY <1>4, <3>1
    <3> QED
      BY <2>2, <3>1, <3>2 DEF Bases
  <2> QED
    BY <2>3, <2>4
<1>6. Rest(Code(f), 1, p, After(f, p))
  <2>1. Balanced(ProcedureOf(f))
    BY KnownBalanced DEF IsFrame
  <2>2. Nests(ProcedureOf(f).body, p, IF ProcedureOf(f).leaves_mode THEN p + 1 ELSE p)
    BY <2>1 DEF Balanced
  <2> QED
    BY <2>2 DEF Nests, Code, After
<1>7. Rest(Code(t[Len(t)]), t[Len(t)].pc, p, After(t[Len(t)], e[Len(t)]))
  BY <1>1, <1>4, <1>6
<1>8. Bases(e, t)
  BY <1>3, <1>5 DEF Bases
<1>9. Depths(e, t, p)
  BY <1>7, <1>8 DEF Depths
<1>10. e[1] = base[1]
  <2>1. 1 \in 1..Len(s)
    BY <1>1, <1>2
  <2> QED
    BY <1>4, <2>1
<1> QED
  BY <1>9, <1>10 DEF t

(* The frames below the innermost one, of a function that returns. *)
LEMMA FramesBelow ==
  ASSUME NEW s, Frames(s), Len(s) > 1
  PROVE  /\ Frames(SubSeq(s, 1, Len(s) - 1))
         /\ Len(SubSeq(s, 1, Len(s) - 1)) = Len(s) - 1
         /\ SubSeq(s, 1, Len(s) - 1)[Len(s) - 1] = s[Len(s) - 1]
         /\ Suspended(s[Len(s) - 1])
<1>1. PICK T : s \in Seq(T)
  BY DEF Frames, IsSequence
<1> DEFINE t == SubSeq(s, 1, Len(s) - 1)
<1>2. /\ t \in Seq(T) /\ Len(t) = Len(s) - 1
      /\ \A k \in 1..(Len(s) - 1) : t[k] = s[k]
      /\ Len(s) \in Nat
  BY <1>1, BelowTop DEF Frames
<1> HIDE DEF t
<1>3. IsSequence(t)
  BY <1>2, MembersSequence
<1>4. Len(s) - 1 \in 1..(Len(s) - 1) /\ 1 \in 1..(Len(s) - 1)
  BY <1>2
<1>5. ASSUME NEW k \in 1..Len(t) PROVE IsFrame(t[k]) /\ Suspended(t[k])
  <2>1. k \in 1..(Len(s) - 1) /\ k \in 1..Len(s)
    BY <1>2
  <2> QED
    BY <1>2, <2>1 DEF Frames
<1>6. \A k \in 1..(Len(t) - 1) : k \in 1..Len(t)
  BY <1>2
<1>7. t[1].name = "main" /\ Len(t) > 0
  BY <1>2, <1>4 DEF Frames
<1>8. Frames(t)
  BY <1>3, <1>5, <1>6, <1>7 DEF Frames
<1> QED
  BY <1>2, <1>4, <1>5, <1>8 DEF t

LEMMA BasesBelow ==
  ASSUME NEW s, Frames(s), Len(s) > 1, NEW base, Bases(base, s)
  PROVE  \E e : /\ Bases(e, SubSeq(s, 1, Len(s) - 1)) /\ e[1] = base[1]
               /\ e[Len(s) - 1] = base[Len(s) - 1]
<1>1. PICK T : s \in Seq(T)
  BY DEF Frames, IsSequence
<1> DEFINE t == SubSeq(s, 1, Len(s) - 1)
           e == [k \in 1..(Len(s) - 1) |-> base[k]]
<1>2. /\ Len(t) = Len(s) - 1 /\ Len(s) \in Nat
      /\ \A k \in 1..(Len(s) - 1) : t[k] = s[k]
  BY <1>1, BelowTop DEF Frames
<1> HIDE DEF t
<1>3. \A k \in 1..(Len(s) - 1) : k \in 1..Len(s)
  BY <1>2
<1>4. e \in [1..Len(t) -> Nat]
  BY <1>2, <1>3 DEF Bases
<1>5. \A k \in 1..(Len(s) - 1) : e[k] = base[k]
  OBVIOUS
<1> HIDE DEF e
<1>6. ASSUME NEW k \in 1..(Len(t) - 1)
      PROVE  Rest(Code(t[k]), t[k].pc + 1, e[k + 1], After(t[k], e[k]))
  <2>1. k \in 1..(Len(s) - 1) /\ k + 1 \in 1..(Len(s) - 1)
    BY <1>2
  <2>2. t[k] = s[k] /\ e[k] = base[k] /\ e[k + 1] = base[k + 1]
    BY <1>2, <1>5, <2>1
  <2> QED
    BY <2>1, <2>2 DEF Bases
<1>7. Bases(e, t)
  BY <1>4, <1>6 DEF Bases
<1>8. e[1] = base[1] /\ e[Len(s) - 1] = base[Len(s) - 1]
  <2>1. Len(s) - 1 \in 1..(Len(s) - 1) /\ 1 \in 1..(Len(s) - 1)
    BY <1>2
  <2> QED
    BY <1>5, <2>1
<1> QED
  BY <1>7, <1>8 DEF t

-----------------------------------------------------------------------------
(* The steps *)

(* The program stops at a pointer that must not be followed. *)
LEMMA HaltKeepsMode ==
  ASSUME ModeInvariant, NEW kind, Halt(kind)
  PROVE  ModeInvariant'
<1>1. /\ stack' = stack /\ call' = call /\ previous' = previous /\ no_gradient' = no_gradient
      /\ phase' # "release"
  BY DEF Halt
<1> QED
  BY <1>1 DEF ModeInvariant, Top

LEMMA KeptModeFacts ==
  ASSUME ModeInvariant, UNCHANGED <<previous, no_gradient>>
  PROVE  previous' \in Nat /\ no_gradient' \in BOOLEAN /\ (no_gradient' <=> previous' > 0)
  BY DEF ModeInvariant

(* A step other than with_no_gradient after which the function goes on. *)
LEMMA PlainProceed ==
  ASSUME ModeInvariant, InBody, Step.do # "with_no_gradient", NEW variables, Proceed(variables),
         UNCHANGED <<previous, no_gradient, call, phase>>
  PROVE  ModeInvariant'
<1>1. \A j : Rest(Code(Top), Top.pc, previous, j) => Rest(Code(Top), Top.pc + 1, previous', j)
  BY StepFacts, RestPlainStep
<1> QED
  BY <1>1, KeptModeFacts, ProceedKeepsMode

LEMMA PlainJump ==
  ASSUME ModeInvariant, InBody, NEW variables, Jump(variables),
         UNCHANGED <<previous, no_gradient, call, phase>>
  PROVE  ModeInvariant'
  BY KeptModeFacts, JumpKeepsMode

LEMMA OperationSucceedsKeepsMode ==
  ASSUME ModeInvariant, OperationSucceeds
  PROVE  ModeInvariant'
<1>1. InBody /\ Step.do # "with_no_gradient"
  BY DEF OperationSucceeds, Operations
<1>2. CASE TouchesFreed
  BY <1>2, HaltKeepsMode DEF OperationSucceeds
<1>3. CASE ~TouchesFreed
  <2>1. /\ UNCHANGED <<previous, no_gradient, call, phase>>
        /\ \E variables : Jump(variables) \/ Proceed(variables)
    BY <1>3 DEF OperationSucceeds
  <2> QED
    BY <1>1, <2>1, PlainProceed, PlainJump
<1> QED
  BY <1>2, <1>3

LEMMA SwitchModeKeepsMode ==
  ASSUME ModeInvariant, SwitchMode
  PROVE  ModeInvariant'
<1>1. InBody /\ Step.do = "with_no_gradient" /\ UNCHANGED <<call, phase>> /\ Proceed(Top.variables)
  BY DEF SwitchMode
<1>2. /\ Top.pc \in 1..Len(Code(Top)) /\ Len(Code(Top)) \in Nat /\ Step = Code(Top)[Top.pc]
      /\ ~Top.failed
  BY <1>1, StepFacts
<1>3. previous \in Nat
  BY DEF ModeInvariant
<1>4. CASE Step.flag
  <2>1. EnterNoGradient
    BY <1>4 DEF SwitchMode
  <2>2. ASSUME NEW j, Rest(Code(Top), Top.pc, previous, j)
        PROVE  Rest(Code(Top), Top.pc + 1, previous', j)
    <3>1. PICK k \in Nat : ModeAfter(Step, previous, k) /\ Rest(Code(Top), Top.pc + 1, k, j)
      BY <1>2, <2>2, RestStep
    <3>2. Step # WithNoGradient(FALSE) /\ ~Plain(Step)
      BY <1>1, <1>4 DEF WithNoGradient, Plain
    <3>3. k = previous + 1
      BY <3>1, <3>2 DEF ModeAfter
    <3> QED
      BY <2>1, <3>1, <3>3 DEF EnterNoGradient
  <2> QED
    BY <1>1, <2>1, <2>2, EnterFacts, ProceedKeepsMode
<1>5. CASE ~Step.flag
  <2>1. LeaveNoGradient
    BY <1>5 DEF SwitchMode
  <2>2. ASSUME NEW j, Rest(Code(Top), Top.pc, previous, j)
        PROVE  Rest(Code(Top), Top.pc + 1, previous', j)
    <3>1. PICK k \in Nat : ModeAfter(Step, previous, k) /\ Rest(Code(Top), Top.pc + 1, k, j)
      BY <1>2, <2>2, RestStep
    <3>2. Step # WithNoGradient(TRUE) /\ ~Plain(Step)
      BY <1>1, <1>5 DEF WithNoGradient, Plain
    <3>3. previous = k + 1
      BY <3>1, <3>2 DEF ModeAfter
    <3>4. previous > 0 /\ k = previous - 1
      BY <3>1, <3>3
    <3> QED
      BY <2>1, <3>1, <3>4, LeaveFacts
  <2> QED
    BY <1>1, <2>1, <2>2, LeaveFacts, ProceedKeepsMode
<1> QED
  BY <1>4, <1>5

LEMMA CleansUpKeepsMode ==
  ASSUME ModeInvariant, CleansUp
  PROVE  ModeInvariant'
<1>1. InBody /\ Step.do # "with_no_gradient"
  BY DEF CleansUp
<1> DEFINE state == Cleanup(Step.clauses, Top.variables)
<1>2. CASE state.fault # "none"
  BY <1>2, HaltKeepsMode DEF CleansUp
<1>3. CASE state.fault = "none"
  <2>1. Proceed(Top.variables) /\ UNCHANGED <<previous, no_gradient, call, phase>>
    BY <1>3 DEF CleansUp
  <2> QED
    BY <1>1, <2>1, PlainProceed
<1> QED
  BY <1>2, <1>3

LEMMA AccumulateKeepsMode ==
  ASSUME ModeInvariant, Accumulate
  PROVE  ModeInvariant'
<1>1. InBody /\ Step.do # "with_no_gradient"
  BY DEF Accumulate
<1>2. CASE TouchesFreed
  BY <1>2, HaltKeepsMode DEF Accumulate
<1>3. CASE ~TouchesFreed
  <2>1. /\ UNCHANGED <<previous, no_gradient, call, phase>>
        /\ Jump(Top.variables) \/ Proceed(Top.variables)
    BY <1>3 DEF Accumulate
  <2> QED
    BY <1>1, <2>1, PlainProceed, PlainJump
<1> QED
  BY <1>2, <1>3

(* The error of tensor_as_tensor leaves the mode on, in a frame that failed. *)
LEMMA AccumulateFailsKeepsMode ==
  ASSUME ModeInvariant, AccumulateFails
  PROVE  ModeInvariant'
<1>1. InBody /\ Jump(Top.variables) /\ UNCHANGED <<call, phase>>
  BY DEF AccumulateFails
<1>2. EnterNoGradient \/ UNCHANGED <<previous, no_gradient>>
  BY DEF AccumulateFails
<1>3. previous' \in Nat /\ no_gradient' \in BOOLEAN /\ (no_gradient' <=> previous' > 0)
  BY <1>2, EnterFacts, KeptModeFacts
<1> QED
  BY <1>1, <1>3, JumpKeepsMode

LEMMA OtherStepsKeepMode ==
  ASSUME ModeInvariant, OperationFails \/ AssignPointer \/ ReportError
  PROVE  ModeInvariant'
<1>1. CASE OperationFails
  BY <1>1, PlainJump DEF OperationFails
<1>2. CASE AssignPointer
  <2>1. InBody /\ Step.do # "with_no_gradient" /\ UNCHANGED <<previous, no_gradient, call, phase>>
    BY <1>2 DEF AssignPointer
  <2>2. \E variables : Proceed(variables)
    BY <1>2 DEF AssignPointer
  <2> QED
    BY <2>1, <2>2, PlainProceed
<1>3. CASE ReportError
  BY <1>3, PlainJump DEF ReportError
<1> QED
  BY <1>1, <1>2, <1>3

LEMMA NewFrame ==
  ASSUME NEW name \in NetworkProcedureNames \cup BackwardNames, NEW context,
         IsArgued(name, context.options), NEW variables, NEW out
  PROVE  IsFrame(Frame(name, context, variables, out)) /\ Frame(name, context, variables, out).pc = 1
<1> DEFINE f == Frame(name, context, variables, out)
<1>1. f = [name |-> name, context |-> context, variables |-> variables, pc |-> 1, out |-> out,
           failed |-> FALSE]
  BY DEF Frame
<1> HIDE DEF f
<1>2. /\ f.name = name /\ f.context = context /\ f.variables = variables /\ f.pc = 1 /\ f.out = out
      /\ f.failed = FALSE
  BY <1>1
<1>3. Known(f)
  BY <1>2 DEF Known
<1>4. Len(Code(f)) \in Nat
  BY <1>3, KnownBalanced
<1>5. 1 \in 1..(Len(Code(f)) + 1)
  BY <1>4
<1>6. f = [name |-> f.name, context |-> f.context, variables |-> f.variables, pc |-> f.pc, out |-> f.out,
           failed |-> f.failed]
  BY <1>1, <1>2
<1>7. IsFrame(f)
  BY <1>2, <1>3, <1>5, <1>6 DEF IsFrame
<1> QED
  BY <1>2, <1>7 DEF f

LEMMA CallProcedureKeepsMode ==
  ASSUME ModeInvariant, CallProcedure
  PROVE  ModeInvariant'
<1>1. InBody /\ Step.do = "call"
  BY DEF CallProcedure
<1>2. /\ Top.pc \in 1..Len(Code(Top)) /\ Len(Code(Top)) \in Nat /\ Step = Code(Top)[Top.pc]
      /\ ~Top.failed /\ phase = "run"
  BY <1>1, StepFacts
<1>3. /\ Frames(stack) /\ Top = stack[Len(stack)] /\ Len(stack) \in Nat /\ IsSequence(stack)
  BY FramesFacts DEF ModeInvariant
<1>4. PICK base : Depths(base, stack, previous) /\ base[1] = Entered(call)
  BY <1>2 DEF ModeInvariant
<1>5. Rest(Code(Top), Top.pc + 1, previous, After(Top, base[Len(stack)])) /\ Plain(Step)
  BY <1>1, <1>2, <1>3, <1>4, RestPlainStep DEF Depths
<1>6. CASE \E kind : Halt(kind)
  BY <1>6, HaltKeepsMode
<1>7. CASE ~\E kind : Halt(kind)
  <2>1. PICK variables, context :
          /\ context.options = Step.options
          /\ stack' = Append(stack, Frame(Step.name, context, variables, Step.out))
          /\ UNCHANGED <<previous, no_gradient, call, phase>>
    BY <1>7 DEF CallProcedure, Context
  <2> DEFINE f == Frame(Step.name, context, variables, Step.out)
  <2>2. Step.name \in NetworkProcedureNames \cup BackwardNames /\ IsArgued(Step.name, context.options)
    BY <1>1, <1>5, <2>1 DEF Plain
  <2>3. IsFrame(f) /\ f.pc = 1
    BY <2>2, NewFrame
  <2>4. stack' = Append(stack, f)
    BY <2>1
  <2> HIDE DEF f
  <2>5. Suspended(Top)
    BY <1>1, <1>2 DEF Suspended
  <2>6. Frames(stack')
    BY <1>3, <2>3, <2>4, <2>5, FramesPush
  <2>7. previous \in Nat /\ Bases(base, stack)
    BY <1>4 DEF ModeInvariant, Depths
  <2>8. \E e : Depths(e, stack', previous) /\ e[1] = base[1]
    BY <1>3, <1>5, <2>3, <2>4, <2>7, DepthsPush
  <2>9. call' = call /\ phase' # "release" /\ previous' = previous
    BY <1>2, <2>1
  <2>10. \E e : Depths(e, stack', previous') /\ e[1] = Entered(call')
    BY <1>4, <2>8, <2>9
  <2>11. call' \in Calls /\ previous' \in Nat /\ no_gradient' \in BOOLEAN /\ (no_gradient' <=> previous' > 0)
    BY <2>1 DEF ModeInvariant
  <2> QED
    BY <2>6, <2>9, <2>10, <2>11 DEF ModeInvariant
<1> QED
  BY <1>6, <1>7

(* The frame of the function that returns is taken off; its caller goes on if   *)
(* it succeeded, at the depth at which it called, and fails with it otherwise. *)
LEMMA ReturnKeepsMode ==
  ASSUME ModeInvariant, Return
  PROVE  ModeInvariant'
<1>1. /\ Frames(stack) /\ Top = stack[Len(stack)] /\ Len(stack) \in Nat /\ IsSequence(stack)
      /\ IsFrame(Top) /\ Len(Code(Top)) \in Nat /\ Body = Code(Top)
  BY FramesFacts DEF ModeInvariant
<1>2. Len(stack) > 1 /\ phase = "run" /\ (Top.failed \/ Top.pc > Len(Body))
  BY DEF Return
<1> DEFINE state == Cleanup(ProcedureOf(Top).cleanup, Top.variables)
           L == Len(stack) - 1
           caller == stack[L]
           below == SubSeq(stack, 1, L)
<1>3. Frames(below) /\ Len(below) = L /\ below[L] = caller /\ Suspended(caller)
  BY <1>1, <1>2, FramesBelow
<1>4. L \in 1..L /\ L \in 1..Len(stack) /\ L + 1 = Len(stack) /\ L \in Nat /\ L > 0
  BY <1>1, <1>2
<1>5. IsFrame(caller) /\ Len(Code(caller)) \in Nat
  BY <1>1, <1>4, KnownBalanced DEF Frames, IsFrame
<1>6. caller.pc \in 1..Len(Code(caller)) /\ caller.pc + 1 \in 1..(Len(Code(caller)) + 1)
      /\ caller.pc \in 1..(Len(Code(caller)) + 1)
  BY <1>3, <1>5 DEF IsFrame, Suspended
<1>7. CASE state.fault # "none"
  <2>1. \E kind : Halt(kind)
    BY <1>7 DEF Return
  <2> QED
    BY <2>1, HaltKeepsMode
<1>8. CASE state.fault = "none"
  <2>1. PICK variables :
          /\ stack' = Append(SubSeq(below, 1, Len(below) - 1),
                             Returned(below[Len(below)], variables, Top.failed))
          /\ IF ProcedureOf(Top).leaves_mode THEN LeaveNoGradient
             ELSE UNCHANGED <<previous, no_gradient>>
          /\ UNCHANGED <<call, phase, fault>>
    BY <1>8 DEF Return, Below, Returned
  <2> HIDE DEF below, caller, L, state
  <2> DEFINE pc == IF Top.failed THEN caller.pc ELSE caller.pc + 1
             f == Moved(caller, variables, pc, Top.failed)
  <2>2. stack' = Append(SubSeq(below, 1, L - 1), f)
    <3>1. \A b : Returned(caller, variables, b)
                 = Moved(caller, variables, IF b THEN caller.pc ELSE caller.pc + 1, b)
      BY <1>5, ReturnMoves
    <3>2. Returned(caller, variables, Top.failed) = f
      BY <3>1, Zenon
    <3>3. below[Len(below)] = caller /\ Len(below) = L
      BY <1>3
    <3> HIDE DEF f, pc
    <3> QED
      BY <2>1, <3>2, <3>3, Zenon
  <2>3. previous' \in Nat /\ no_gradient' \in BOOLEAN /\ (no_gradient' <=> previous' > 0)
    BY <2>1, LeaveFacts, KeptModeFacts
  <2>4. call' = call /\ call' \in Calls /\ phase' # "release"
    BY <1>2, <2>1 DEF ModeInvariant
  <2>5. pc \in 1..(Len(Code(caller)) + 1) /\ Top.failed \in BOOLEAN
    BY <1>1, <1>6 DEF IsFrame
  <2>6. Frames(stack')
    BY <1>3, <2>2, <2>5, FramesMove
  <2>7. Top' = f
    <3>1. Top' = (stack')[Len(stack')]
      BY DEF Top
    <3>2. IsSequence(below) /\ Len(below) > 0
      BY <1>3 DEF Frames
    <3> HIDE DEF f
    <3> QED
      BY <1>3, <2>2, <3>1, <3>2, InPlaceOfTop
  <2>8. f.failed = Top.failed
    BY <1>5, <2>5, MovedIs
  <2>9. ASSUME ~Top.failed
        PROVE  \E e : Depths(e, stack', previous') /\ e[1] = Entered(call')
    <3>1. PICK base : Depths(base, stack, previous) /\ base[1] = Entered(call)
      BY <2>9 DEF ModeInvariant
    <3>2. Bases(base, stack) /\ Rest(Code(Top), Top.pc, previous, After(Top, base[L + 1]))
      BY <1>1, <1>4, <3>1 DEF Depths
    <3>3. Top.pc = Len(Code(Top)) + 1
      <4>1. Top.pc \in 1..(Len(Code(Top)) + 1) /\ Top.pc > Len(Code(Top))
        BY <1>1, <1>2, <2>9 DEF IsFrame
      <4> QED
        BY <1>1, <4>1
    <3>4. previous = After(Top, base[L + 1])
      BY <1>1, <3>2, <3>3, RestEnd
    <3>5. base[L + 1] \in Nat
      BY <1>1, <1>4, <3>1, TopDepth
    <3>6. previous' = base[L + 1]
      <4>1. CASE ProcedureOf(Top).leaves_mode
        <5>1. previous = base[L + 1] + 1 /\ LeaveNoGradient
          BY <2>1, <3>4, <4>1 DEF After
        <5>2. previous > 0 /\ previous - 1 = base[L + 1]
          BY <3>5, <5>1
        <5> QED
          BY <5>1, <5>2, LeaveFacts
      <4>2. CASE ~ProcedureOf(Top).leaves_mode
        BY <2>1, <3>4, <4>2 DEF After
      <4> QED
        BY <4>1, <4>2
    <3>7. Rest(Code(caller), caller.pc + 1, base[L + 1], After(caller, base[L]))
      <4>1. L \in 1..(Len(stack) - 1)
        BY <1>4 DEF L
      <4> QED
        BY <3>2, <4>1 DEF Bases, caller
    <3>8. PICK e : Bases(e, below) /\ e[1] = base[1] /\ e[L] = base[L]
      BY <1>1, <1>2, <3>2, BasesBelow DEF L, below
    <3>9. Rest(Code(below[Len(below)]), pc, previous', After(below[Len(below)], e[Len(below)]))
      BY <1>3, <2>9, <3>6, <3>7, <3>8
    <3>10. Depths(e, stack', previous')
      BY <1>3, <2>2, <2>5, <3>8, <3>9, DepthsMove
    <3> QED
      BY <2>4, <3>1, <3>8, <3>10
  <2> QED
    BY <2>3, <2>4, <2>6, <2>7, <2>8, <2>9 DEF ModeInvariant
<1> QED
  BY <1>7, <1>8

LEMMA ProgramStepsKeepMode ==
  ASSUME ModeInvariant, MainReturns \/ Release \/ Over
  PROVE  ModeInvariant'
<1>1. CASE MainReturns
  <2>1. /\ stack' = stack /\ call' = call /\ previous' = previous /\ no_gradient' = no_gradient
        /\ Len(stack) = 1 /\ (Top.failed \/ Top.pc > 1)
    BY <1>1 DEF MainReturns
  <2> QED
    BY <2>1 DEF ModeInvariant, Top
<1>2. CASE Release
  <2>1. /\ stack' = stack /\ call' = call /\ previous' = previous /\ no_gradient' = no_gradient
        /\ phase' # "release"
    BY <1>2 DEF Release
  <2> QED
    BY <2>1 DEF ModeInvariant, Top
<1>3. CASE Over
  <2>1. /\ stack' = stack /\ call' = call /\ previous' = previous /\ no_gradient' = no_gradient
        /\ phase' # "release"
    BY <1>3 DEF Over, vars
  <2> QED
    BY <2>1 DEF ModeInvariant, Top
<1> QED
  BY <1>1, <1>2, <1>3

LEMMA InitMode == Init => ModeInvariant
<1> SUFFICES ASSUME Init PROVE ModeInvariant
  OBVIOUS
<1>1. PICK c \in Calls :
        /\ call = c
        /\ previous = IF c.no_gradient THEN 1 ELSE 0
        /\ no_gradient = c.no_gradient
        /\ stack = <<MainFrame(c)>>
        /\ phase = "run"
  BY DEF Init
<1>2. /\ c.name \in NetworkProcedureNames \cup BackwardNames /\ IsArgued(c.name, c.options)
      /\ c.no_gradient \in BOOLEAN
  BY CallsAssumption
<1> DEFINE f == MainFrame(c)
<1> DEFINE in == [p \in DOMAIN Arguments(c) |-> p]
           out == [r \in c.results |-> r]
           step == Call(c.name, in, c.options, out)
           context == [view |-> <<>>, given |-> {}, requires_gradient |-> {}, options |-> step]
           variables == Arguments(c)
<1>3. f = [name |-> "main", context |-> context, variables |-> variables, pc |-> 1, out |-> <<>>,
           failed |-> FALSE]
  BY DEF MainFrame, Frame
<1> HIDE DEF step
<1>20. context.options = step
  OBVIOUS
<1> HIDE DEF f, context, variables
<1>4. /\ f.name = "main" /\ f.context = context /\ f.variables = variables /\ f.pc = 1 /\ f.out = <<>>
      /\ f.failed = FALSE
  BY <1>3
<1>5. f = [name |-> f.name, context |-> f.context, variables |-> f.variables, pc |-> f.pc, out |-> f.out,
           failed |-> f.failed]
  BY <1>3, <1>4
<1>6. Plain(context.options)
  <2> HIDE DEF in, out
  <2>1. Plain(step)
    BY <1>2 DEF Plain, Call, step
  <2> QED
    BY <2>1, <1>20
<1>7. Known(f)
  BY <1>4, <1>6 DEF Known
<1>8. Balanced(ProcedureOf(f)) /\ Len(Code(f)) \in Nat
  BY <1>7, KnownBalanced
<1>9. 1 \in 1..(Len(Code(f)) + 1)
  BY <1>8
<1>10. IsFrame(f)
  BY <1>4, <1>5, <1>7, <1>9 DEF IsFrame
<1>11. stack = <<f>>
  BY <1>1 DEF f
<1>12. IsSequence(stack) /\ Len(stack) = 1 /\ stack[1] = f
  BY <1>11 DEF IsSequence
<1>13. Frames(stack)
  BY <1>4, <1>10, <1>12 DEF Frames
<1> DEFINE base == [k \in 1..1 |-> Entered(c)]
<1>14. previous = Entered(c) /\ Entered(c) \in Nat
  BY <1>1 DEF Entered
<1>15. base \in [1..Len(stack) -> Nat] /\ base[1] = Entered(c)
  BY <1>12, <1>14
<1> HIDE DEF base
<1>16. Rest(Code(f), 1, previous, After(f, previous))
  BY <1>8, <1>14 DEF Balanced, Nests, Code, After
<1>17. Bases(base, stack)
  BY <1>12, <1>15 DEF Bases
<1>18. Depths(base, stack, previous)
  BY <1>4, <1>12, <1>14, <1>15, <1>16, <1>17 DEF Depths
<1>19. previous \in Nat /\ no_gradient \in BOOLEAN /\ (no_gradient <=> previous > 0)
  BY <1>1, <1>2
<1> QED
  BY <1>1, <1>13, <1>15, <1>18, <1>19 DEF ModeInvariant

(* A call that has succeeded stands at the depth at which it was made. *)
LEMMA InvariantRestoresMode == ModeInvariant => ModeRestored
<1> SUFFICES ASSUME ModeInvariant, phase = "release", ~Top.failed
             PROVE  no_gradient = call.no_gradient
  BY DEF ModeRestored
<1>1. /\ Frames(stack) /\ Top = stack[Len(stack)] /\ Len(stack) = 1 /\ IsFrame(Top)
      /\ Len(Code(Top)) \in Nat /\ Top.pc > 1
  BY FramesFacts DEF ModeInvariant
<1>2. Top.name = "main"
  BY <1>1 DEF Frames
<1>3. ProcedureOf(Top) = Main(Top.context)
  BY <1>2 DEF ProcedureOf, BackwardNames
<1>4. Len(Code(Top)) = 1 /\ ~ProcedureOf(Top).leaves_mode
  BY <1>3 DEF Code, Main, Wrapper, Procedure
<1>5. Top.pc = Len(Code(Top)) + 1
  <2>1. Top.pc \in 1..(Len(Code(Top)) + 1)
    BY <1>1 DEF IsFrame
  <2>2. \A n \in 1..(1 + 1) : n > 1 => n = 1 + 1
    OBVIOUS
  <2>3. Top.pc \in 1..(1 + 1)
    BY <1>4, <2>1
  <2>4. Top.pc = 1 + 1
    BY <1>1, <2>2, <2>3
  <2> QED
    BY <1>4, <2>4
<1>6. PICK base : Depths(base, stack, previous) /\ base[1] = Entered(call)
  BY DEF ModeInvariant
<1>7. Rest(Code(Top), Len(Code(Top)) + 1, previous, Entered(call))
  BY <1>1, <1>4, <1>5, <1>6 DEF Depths, After
<1>8. previous = Entered(call)
  BY <1>1, <1>7, RestEnd
<1>9. no_gradient \in BOOLEAN /\ (no_gradient <=> previous > 0) /\ call.no_gradient \in BOOLEAN
  BY CallsAssumption DEF ModeInvariant
<1>10. CASE call.no_gradient
  BY <1>8, <1>9, <1>10 DEF Entered
<1>11. CASE ~call.no_gradient
  BY <1>8, <1>9, <1>11 DEF Entered
<1> QED
  BY <1>10, <1>11

LEMMA NextKeepsMode == ModeInvariant /\ [Next]_vars => ModeInvariant'
<1> SUFFICES ASSUME ModeInvariant, [Next]_vars PROVE ModeInvariant'
  OBVIOUS
<1>1. CASE OperationSucceeds
  BY <1>1, OperationSucceedsKeepsMode
<1>2. CASE OperationFails \/ AssignPointer \/ ReportError
  BY <1>2, OtherStepsKeepMode
<1>3. CASE SwitchMode
  BY <1>3, SwitchModeKeepsMode
<1>4. CASE CleansUp
  BY <1>4, CleansUpKeepsMode
<1>5. CASE Accumulate
  BY <1>5, AccumulateKeepsMode
<1>6. CASE AccumulateFails
  BY <1>6, AccumulateFailsKeepsMode
<1>7. CASE CallProcedure
  BY <1>7, CallProcedureKeepsMode
<1>8. CASE Return
  BY <1>8, ReturnKeepsMode
<1>9. CASE MainReturns \/ Release \/ Over
  BY <1>9, ProgramStepsKeepMode
<1>10. CASE UNCHANGED vars
  BY <1>10 DEF ModeInvariant, Top, vars
<1> QED
  BY <1>1, <1>2, <1>3, <1>4, <1>5, <1>6, <1>7, <1>8, <1>9, <1>10 DEF Next, Executes

(* The inductive invariant: whatever runs, the nesting counter of              *)
(* with_no_gradient stands where the rest of every function on the stack        *)
(* brings it back to the depth at which its caller called.                     *)
THEOREM ModeInvariantHolds == Spec => []ModeInvariant
<1>1. ModeInvariant /\ [Next]_vars => ModeInvariant'
  BY NextKeepsMode
<1> QED
  BY <1>1, InitMode, PTL DEF Spec

(* A call that reports no error leaves the recording of contexts as it was,     *)
(* whichever function is called, with whatever layers and arguments, although   *)
(* functions of tensor.c, optimizer.c and function.c switch it off on the way   *)
(* and most of them switch it on again in their cleanup only.                  *)
THEOREM CallsRestoreMode == Spec => []ModeRestored
<1>1. ModeInvariant => ModeRestored
  BY InvariantRestoresMode
<1> QED
  BY <1>1, ModeInvariantHolds, PTL
=============================================================================
