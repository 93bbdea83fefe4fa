-------------------------- MODULE Autograd_proofs --------------------------
(***************************************************************************)
(* Theorems about the automatic differentiation engine, for graphs of any   *)
(* size, any nesting of with_no_gradient and any number of failures.        *)
(*                                                                         *)
(* The backward pass destroys the graph while it walks it.  Why it never    *)
(* follows a dangling pointer rests on three facts:                         *)
(*   - operands are older than results, so that what is reachable from the  *)
(*     root is a well-founded, closed set (ReachableClosed);                *)
(*   - the calls of topological_sort in progress go down from the root, so  *)
(*     that a tensor is pushed once, after its operands (FramesInv);        *)
(*   - the tensors left on the stack are then the live part of that set,    *)
(*     with their operands below them (StackInv, PropagateInv).             *)
(*                                                                         *)
(* That no path is missed or counted twice follows from the same order: a   *)
(* tensor is popped after all the tensors computed from it, and has by then *)
(* the share of each of them exactly once (SharesInv).                      *)
(*                                                                         *)
(* Induction over the graph is by a least counterexample (LeastElement).    *)
(***************************************************************************)
EXTENDS Autograd, FoldFacts, SequenceTheorems

(* What apply_operation_* make: operands are recorded only for a result that  *)
(* requires a gradient, and only data from outside persists.                  *)
MadeNode == [kind : AllOperations \cup {"none", "creation"}, operands : Seq(Nat),
             requires_gradient : BOOLEAN, persist : BOOLEAN]

Coherent(n) ==
  /\ n.kind # "none" => n.requires_gradient
  /\ n.kind \in {"none", "creation"} => n.operands = <<>>
  /\ n.persist => n.kind \in {"none", "creation"}

(* The nodes s, added to `base` others, are coherent and have older operands. *)
WellFormed(s, base) ==
  /\ s \in Seq(MadeNode)
  /\ \A i \in DOMAIN s : Coherent(s[i]) /\ ToSet(s[i].operands) \subseteq 1..(base + i - 1)

Ordered == WellFormed(nodes, 0)

LEMMA OrderedFacts ==
  ASSUME Ordered
  PROVE  /\ Len(nodes) \in Nat
         /\ DOMAIN nodes = 1..Len(nodes)
         /\ \A t \in DOMAIN nodes : /\ nodes[t] \in MadeNode
                                    /\ Coherent(nodes[t])
                                    /\ ToSet(Operands(t)) \subseteq 1..(t - 1)
<1>1. nodes \in Seq(MadeNode)
  BY DEF Ordered, WellFormed
<1>2. \A t \in DOMAIN nodes : 0 + t - 1 = t - 1
  BY <1>1
<1>3. QED  BY <1>1, <1>2 DEF Ordered, WellFormed, Operands

(* What the definition of Reachable takes for a tensor s, given f for its    *)
(* operands.                                                                  *)
ReachStep(f, s) == {s} \cup UNION {f[o] : o \in ToSet(Operands(s))}

(* Operands are older than the result, so the recursion defines a function. *)
LEMMA ReachExists ==
  ASSUME Ordered
  PROVE  \A n \in Nat : n <= Len(nodes) => \E f : f = [s \in 1..n |-> ReachStep(f, s)]
<1> DEFINE Defined(n) == \E f : f = [s \in 1..n |-> ReachStep(f, s)]
           Missing == {n \in Nat : n <= Len(nodes) /\ ~Defined(n)}
<1> SUFFICES ASSUME Missing # {}
             PROVE  FALSE
  OBVIOUS
<1>1. PICK n \in Missing : \A m \in Missing : n <= m
  <2> HIDE DEF Defined
  <2> QED  BY LeastElement
<1> Len(nodes) \in Nat /\ DOMAIN nodes = 1..Len(nodes)
  BY OrderedFacts
<1>2. CASE n = 0
  <2> DEFINE f == [s \in 1..0 |-> {}]
  <2>1. f = [s \in 1..0 |-> ReachStep(f, s)]
    OBVIOUS
  <2> QED  BY <1>2, <2>1
<1>3. CASE n # 0
  <2>1. Defined(n - 1)
    <3> HIDE DEF Defined
    <3> QED  BY <1>1, <1>3
  <2>2. PICK f : f = [s \in 1..(n - 1) |-> ReachStep(f, s)]
    BY <2>1
  <2> DEFINE g == [s \in 1..n |-> IF s = n THEN ReachStep(f, n) ELSE f[s]]
  <2>3. \A s \in 1..n : g[s] = ReachStep(g, s)
    <3> SUFFICES ASSUME NEW s \in 1..n
                 PROVE  g[s] = ReachStep(g, s)
      OBVIOUS
    <3>1. g[s] = ReachStep(f, s)
      BY <1>3, <2>2
    <3>2. \A o \in ToSet(Operands(s)) : g[o] = f[o]
      <4>1. ToSet(Operands(s)) \subseteq 1..(s - 1)
        BY <1>1, OrderedFacts
      <4>2. \A o \in 1..(s - 1) : o \in 1..n /\ o # n
        BY <1>1
      <4> QED  BY <4>1, <4>2
    <3>3. {g[o] : o \in ToSet(Operands(s))} = {f[o] : o \in ToSet(Operands(s))}
      <4> HIDE DEF g
      <4> QED  BY <3>2
    <3> HIDE DEF g
    <3> QED  BY <3>1, <3>3 DEF ReachStep
  <2>4. g = [s \in 1..n |-> ReachStep(g, s)]
    BY <2>3
  <2> HIDE DEF g
  <2> QED  BY <2>4
<1> QED  BY <1>2, <1>3

(* The tensors reachable from t are t and those reachable from its operands. *)
LEMMA ReachableUnfolds ==
  ASSUME Ordered, NEW t \in DOMAIN nodes
  PROVE  Reachable(t) = {t} \cup UNION {Reachable(o) : o \in ToSet(Operands(t))}
<1> DEFINE reach[s \in DOMAIN nodes] ==
             {s} \cup UNION {reach[o] : o \in ToSet(Operands(s))}
           Defines(f) == f = [s \in DOMAIN nodes |-> ReachStep(f, s)]
<1>1. \E f : Defines(f)
  <2>1. Len(nodes) \in Nat /\ DOMAIN nodes = 1..Len(nodes)
    BY OrderedFacts
  <2> QED  BY <2>1, ReachExists
<1>2. Defines(CHOOSE f : Defines(f))
  <2> HIDE DEF Defines
  <2> QED  BY <1>1
<1>3. reach = CHOOSE f : Defines(f)
  BY DEF ReachStep
<1>4. reach = [s \in DOMAIN nodes |-> ReachStep(reach, s)]
  <2> HIDE DEF reach
  <2> QED BY <1>2, <1>3
<1>5. \A s : Reachable(s) = reach[s]
  BY DEF Reachable
<1>6. {Reachable(o) : o \in ToSet(Operands(t))} = {reach[o] : o \in ToSet(Operands(t))}
  <2> HIDE DEF reach
  <2> QED  BY <1>5
<1>7. Reachable(t) = ReachStep(reach, t)
  <2> HIDE DEF reach
  <2> QED  BY <1>4, <1>5
<1> HIDE DEF reach
<1> QED  BY <1>6, <1>7 DEF ReachStep

(* What is reachable from t is no younger than t, and is closed: all operands *)
(* of a reachable tensor are reachable.                                       *)
LEMMA ReachableClosed ==
  ASSUME Ordered
  PROVE  \A t \in DOMAIN nodes :
           /\ t \in Reachable(t)
           /\ Reachable(t) \subseteq 1..t
           /\ \A y \in Reachable(t) : ToSet(Operands(y)) \subseteq Reachable(t)
<1> DEFINE Good(t) == /\ t \in Reachable(t)
                      /\ Reachable(t) \subseteq 1..t
                      /\ \A y \in Reachable(t) : ToSet(Operands(y)) \subseteq Reachable(t)
           Bad == {t \in DOMAIN nodes : ~Good(t)}
<1> SUFFICES ASSUME Bad # {}
             PROVE  FALSE
  OBVIOUS
<1>1. PICK t \in Bad : \A m \in Bad : t <= m
  <2>1. Bad \subseteq Nat
    BY OrderedFacts
  <2> HIDE DEF Bad
  <2> QED  BY <2>1, LeastElement
<1>2. ToSet(Operands(t)) \subseteq 1..(t - 1) /\ t \in Nat /\ t # 0 /\ t <= Len(nodes)
  BY OrderedFacts, <1>1
<1>3. \A o \in ToSet(Operands(t)) : Good(o) /\ o < t /\ o \in Nat
  <2> HIDE DEF Good
  <2>1. \A o \in 1..(t - 1) : o \in DOMAIN nodes /\ o < t /\ ~(t <= o) /\ o \in Nat
    BY <1>2, OrderedFacts
  <2> QED  BY <1>1, <1>2, <2>1
<1>4. Reachable(t) = {t} \cup UNION {Reachable(o) : o \in ToSet(Operands(t))}
  BY ReachableUnfolds
<1>5. \A y \in Reachable(t) : y = t \/ \E o \in ToSet(Operands(t)) : y \in Reachable(o)
  BY <1>4
<1>6. \A o \in ToSet(Operands(t)) : Reachable(o) \subseteq Reachable(t)
  BY <1>4
<1>7. t \in Reachable(t)
  BY <1>4
<1>8. Reachable(t) \subseteq 1..t
  <2> SUFFICES ASSUME NEW y \in Reachable(t)
               PROVE  y \in 1..t
    OBVIOUS
  <2>1. CASE y = t
    BY <2>1, <1>2
  <2>2. ASSUME NEW o \in ToSet(Operands(t)), y \in Reachable(o)
        PROVE  y \in 1..t
    <3>1. y \in 1..o /\ o < t /\ o \in Nat
      BY <2>2, <1>3
    <3>2. QED  BY <3>1, <1>2
  <2>3. QED  BY <2>1, <2>2, <1>5
<1>9. \A y \in Reachable(t) : ToSet(Operands(y)) \subseteq Reachable(t)
  BY <1>3, <1>5, <1>6
<1>10. QED  BY <1>1, <1>7, <1>8, <1>9

(* A set that contains the operands of its elements contains what is          *)
(* reachable from them.                                                       *)
LEMMA ReachableLeast ==
  ASSUME Ordered, NEW C,
         \A y \in C : ToSet(Operands(y)) \subseteq C
  PROVE  \A t \in DOMAIN nodes : t \in C => Reachable(t) \subseteq C
<1> DEFINE Bad == {t \in DOMAIN nodes : t \in C /\ ~(Reachable(t) \subseteq C)}
<1> SUFFICES ASSUME Bad # {}
             PROVE  FALSE
  OBVIOUS
<1>1. PICK t \in Bad : \A m \in Bad : t <= m
  <2>1. Bad \subseteq Nat
    BY OrderedFacts
  <2> HIDE DEF Bad
  <2> QED  BY <2>1, LeastElement
<1>2. ToSet(Operands(t)) \subseteq 1..(t - 1) /\ t \in Nat /\ t <= Len(nodes)
  BY OrderedFacts, <1>1
<1>3. \A o \in ToSet(Operands(t)) : o \in DOMAIN nodes /\ ~(t <= o)
  BY <1>2, OrderedFacts
<1>4. \A o \in ToSet(Operands(t)) : Reachable(o) \subseteq C
  BY <1>1, <1>3
<1>5. Reachable(t) = {t} \cup UNION {Reachable(o) : o \in ToSet(Operands(t))}
  BY ReachableUnfolds
<1>6. QED  BY <1>1, <1>4, <1>5

(* Only t itself is not the operand of something reachable from t. *)
LEMMA ReachableUsed ==
  ASSUME Ordered, NEW t \in DOMAIN nodes, NEW s \in Reachable(t), s # t
  PROVE  \E y \in Reachable(t) : s \in ToSet(Operands(y))
<1> DEFINE C == {t} \cup UNION {ToSet(Operands(y)) : y \in Reachable(t)}
<1>1. C \subseteq Reachable(t)
  BY ReachableClosed
<1>2. \A y \in C : ToSet(Operands(y)) \subseteq C
  BY <1>1
<1>3. Reachable(t) \subseteq C
  <2> HIDE DEF C
  <2> t \in C BY DEF C
  <2> QED  BY <1>2, ReachableLeast
<1>4. QED  BY <1>3

-----------------------------------------------------------------------------
(* The mode: with_no_gradient around the backward pass and around the        *)
(* program's own calls.                                                       *)

Running == IF phase = "idle" THEN 0 ELSE 1

(* Each pass in progress and each call the program has not undone counts; an *)
(* error may leave a count too many behind, never too few.                    *)
ModeInv ==
  /\ previous \in 0..MaxPrevious
  /\ phase \in {"idle", "sort", "propagate"}
  /\ depth \in Nat
  /\ depth + Running <= previous
  /\ failures \in 0..(MaxFailures + 1)
  /\ failures = 0 => depth + Running = previous
  /\ phase # "idle" => failures <= MaxFailures

LEMMA InitMode == Init => ModeInv
  BY BoundsAssumption, MaxFailuresAssumption DEF Init, ModeInv, Running

(* The end of a backward pass, in any phase but idle. *)
LEMMA ReturnMode ==
  ASSUME ModeInv, phase # "idle", NEW error \in BOOLEAN, BackwardReturns(error)
  PROVE  ModeInv'
  BY BoundsAssumption, MaxFailuresAssumption
     DEF ModeInv, Running, BackwardReturns, Cleanup, LeaveNoGradient

(* The forward operations only create tensors. *)
LEMMA CreationsCreate ==
  /\ \A leaf : ApplyCreation(leaf[1], leaf[2]) => \E new : Create(new)
  /\ \A kind, x : ApplyUnary(kind, x) => \E new : Create(new)
  /\ \A x, y, x_expands, y_expands :
       ApplyBinary(x, y, x_expands, y_expands) => \E new : Create(new)
  /\ \A w, x, y, x_expands, y_expands, w_expands, both_expand :
       ApplyTernary(w, x, y, x_expands, y_expands, w_expands, both_expand)
         => \E new : Create(new)
<1>1. \A leaf : ApplyCreation(leaf[1], leaf[2]) => \E new : Create(new)
  BY DEF ApplyCreation
<1>2. \A kind, x : ApplyUnary(kind, x) => \E new : Create(new)
  BY DEF ApplyUnary
<1>3. \A x, y, x_expands, y_expands :
        ApplyBinary(x, y, x_expands, y_expands) => \E new : Create(new)
  BY DEF ApplyBinary
<1>4. \A w, x, y, x_expands, y_expands, w_expands, both_expand :
        ApplyTernary(w, x, y, x_expands, y_expands, w_expands, both_expand)
          => \E new : Create(new)
  BY DEF ApplyTernary
<1>5. QED  BY <1>1, <1>2, <1>3, <1>4

LEMMA ProgramMode == ModeInv /\ Program => ModeInv'
<1> SUFFICES ASSUME ModeInv, Program
             PROVE  ModeInv'
  OBVIOUS
<1> USE BoundsAssumption, MaxFailuresAssumption DEF ModeInv, Running, Idle
<1>1. ASSUME Idle, NEW flag \in BOOLEAN, WithNoGradient(flag)
      PROVE  ModeInv'
  <2>1. phase' = phase /\ failures' = failures
    BY <1>1 DEF WithNoGradient, engine
  <2>2. CASE flag
    <3>1. previous' = previous + 1 /\ depth' = depth + 1 /\ previous + 1 < MaxPrevious
      BY <1>1, <2>2 DEF WithNoGradient, EnterNoGradient
    <3>2. QED  BY <1>1, <2>1, <3>1
  <2>3. CASE ~flag
    <3>1. previous' = previous - 1 /\ depth' = depth - 1 /\ depth > 0
      BY <1>1, <2>3 DEF WithNoGradient, LeaveNoGradient
    <3>2. QED  BY <1>1, <2>1, <3>1
  <2>4. QED  BY <2>2, <2>3
<1>2. ASSUME Idle, NEW new, Create(new)
      PROVE  ModeInv'
  BY <1>2 DEF Create, mode, engine
<1>3. ASSUME Idle, NEW t, TensorDestroy(t)
      PROVE  ModeInv'
  BY <1>3 DEF TensorDestroy, mode, engine
<1>4. ASSUME Idle, NEW x, NEW given, BackwardCall(x, given)
      PROVE  ModeInv'
  BY <1>4 DEF BackwardCall, EnterNoGradient
<1>5. ASSUME Idle, NEW x, BackwardRefused(x)
      PROVE  ModeInv'
  BY <1>5 DEF BackwardRefused, EnterNoGradient, engine
<1>6. QED
  BY <1>1, <1>2, <1>3, <1>4, <1>5, CreationsCreate DEF Program

LEMMA EngineMode == ModeInv /\ Engine => ModeInv'
<1> SUFFICES ASSUME ModeInv, Engine
             PROVE  ModeInv'
  OBVIOUS
<1>1. CASE SortVisited \/ SortDescend \/ SortPush
  BY <1>1 DEF SortVisited, SortDescend, SortPush, ModeInv, Running, mode
<1>2. CASE SortDone \/ Propagate
  BY <1>2 DEF SortDone, Propagate, ModeInv, Running, mode
<1>3. CASE SortFails \/ PropagateNull \/ BackwardDone
  BY <1>3, ReturnMode DEF SortFails, PropagateNull, BackwardDone
<1>4. ASSUME NEW n, NEW in_as_tensor \in BOOLEAN, PropagateFails(n, in_as_tensor)
      PROVE  ModeInv'
  <2>1. CASE in_as_tensor
    BY <1>4, <2>1, MaxFailuresAssumption DEF PropagateFails, Cleanup, ModeInv, Running
  <2>2. CASE ~in_as_tensor
    BY <1>4, <2>2, ReturnMode DEF PropagateFails
  <2>3. QED  BY <2>1, <2>2
<1>5. QED  BY <1>1, <1>2, <1>3, <1>4 DEF Engine

LEMMA NextMode == ModeInv /\ [Next]_vars => ModeInv'
<1>1. ModeInv /\ UNCHANGED vars => ModeInv'
  BY DEF ModeInv, Running, vars, mode, engine
<1>2. QED  BY <1>1, ProgramMode, EngineMode DEF Next

(* The flag follows the count. *)
FlagInv ==
  /\ previous > 0 => no_gradient = TRUE
  /\ previous = 0 => no_gradient = FALSE

LEMMA InitFlag == Init => FlagInv
  BY DEF Init, FlagInv

LEMMA EnterFlag ==
  ASSUME ModeInv, EnterNoGradient
  PROVE  FlagInv'
<1>1. previous' > 0 /\ previous' # 0
  BY DEF ModeInv, EnterNoGradient
<1>2. QED  BY <1>1, Zenon DEF FlagInv, EnterNoGradient

LEMMA LeaveFlag ==
  ASSUME ModeInv, FlagInv, LeaveNoGradient
  PROVE  FlagInv'
<1>1. CASE previous = 0
  <2>1. previous' = 0 /\ ~(previous' > 0) /\ previous # 1
    BY <1>1 DEF LeaveNoGradient
  <2>2. QED  BY <1>1, <2>1, Zenon DEF LeaveNoGradient, FlagInv
<1>2. CASE previous = 1
  <2>1. previous' = 0 /\ ~(previous' > 0)
    BY <1>2 DEF LeaveNoGradient
  <2>2. QED  BY <1>2, <2>1, Zenon DEF LeaveNoGradient, FlagInv
<1>3. CASE previous > 1
  <2>1. previous' > 0 /\ previous' # 0 /\ previous > 0 /\ previous # 1
    BY <1>3, BoundsAssumption DEF LeaveNoGradient, ModeInv
  <2>2. QED  BY <2>1, Zenon DEF LeaveNoGradient, FlagInv
<1>4. previous = 0 \/ previous = 1 \/ previous > 1
  BY BoundsAssumption DEF ModeInv
<1>5. QED  BY <1>1, <1>2, <1>3, <1>4

LEMMA SameFlag == FlagInv /\ UNCHANGED <<previous, no_gradient>> => FlagInv'
<1> SUFFICES ASSUME FlagInv, previous' = previous, no_gradient' = no_gradient
             PROVE  FlagInv'
  BY Zenon
<1> QED  BY Zenon DEF FlagInv

LEMMA NextFlag == ModeInv /\ FlagInv /\ [Next]_vars => FlagInv'
<1> SUFFICES ASSUME ModeInv, FlagInv, [Next]_vars
             PROVE  FlagInv'
  OBVIOUS
<1>1. ASSUME NEW flag \in BOOLEAN, WithNoGradient(flag)
      PROVE  FlagInv'
  BY <1>1, EnterFlag, LeaveFlag DEF WithNoGradient
<1>2. ASSUME NEW new, Create(new)
      PROVE  FlagInv'
  BY <1>2, SameFlag DEF Create, mode
<1>3. ASSUME NEW t, TensorDestroy(t)
      PROVE  FlagInv'
  BY <1>3, SameFlag DEF TensorDestroy, mode
<1>4. ASSUME NEW x, NEW given, BackwardCall(x, given)
      PROVE  FlagInv'
  BY <1>4, EnterFlag DEF BackwardCall
<1>5. ASSUME NEW x, BackwardRefused(x)
      PROVE  FlagInv'
  BY <1>5, EnterFlag DEF BackwardRefused
<1>6. ASSUME Program
      PROVE  FlagInv'
  BY <1>1, <1>2, <1>3, <1>4, <1>5, <1>6, CreationsCreate DEF Program
<1>7. CASE SortVisited \/ SortDescend \/ SortPush \/ SortDone \/ Propagate
  BY <1>7, SameFlag DEF SortVisited, SortDescend, SortPush, SortDone, Propagate, mode
<1>8. CASE SortFails \/ PropagateNull \/ BackwardDone
  BY <1>8, LeaveFlag DEF SortFails, PropagateNull, BackwardDone, BackwardReturns
<1>9. ASSUME NEW n, NEW in_as_tensor \in BOOLEAN, PropagateFails(n, in_as_tensor)
      PROVE  FlagInv'
  BY <1>9, SameFlag, LeaveFlag DEF PropagateFails, BackwardReturns
<1>10. CASE UNCHANGED vars
  BY <1>10, SameFlag DEF vars, mode
<1>11. QED  BY <1>6, <1>7, <1>8, <1>9, <1>10 DEF Next, Engine

(* Whatever the program and the failures, in a program of any size: while no  *)
(* call has failed, tensor_backward leaves the recording of contexts as it    *)
(* found it.                                                                  *)
THEOREM ModeIsRestored == Spec => []ModeRestored
<1>1. ModeInv /\ FlagInv => ModeRestored
  <2> SUFFICES ASSUME ModeInv, FlagInv, phase = "idle", failures = 0
               PROVE  previous = depth /\ no_gradient = (depth > 0)
    BY DEF ModeRestored
  <2>1. previous = depth /\ (previous > 0 \/ previous = 0)
    BY DEF ModeInv, Running
  <2>2. CASE previous > 0
    BY <2>1, <2>2, Zenon DEF FlagInv
  <2>3. CASE previous = 0
    <3>1. ~(depth > 0)
      BY <2>1, <2>3
    <3>2. no_gradient = FALSE
      BY <2>3, Zenon DEF FlagInv
    <3>3. no_gradient = (depth > 0)
      <4>1. (depth > 0) = FALSE
        BY <3>1
      <4> QED  BY <3>2, <4>1
    <3>4. QED  BY <2>1, <3>3, Zenon
  <2>4. QED  BY <2>1, <2>2, <2>3
<1>2. QED  BY <1>1, InitFlag, InitMode, NextMode, NextFlag, PTL DEF Spec

-----------------------------------------------------------------------------
(* The nodes the forward operations make. *)

LEMMA ConcatWellFormed ==
  ASSUME NEW base \in Nat, NEW s, NEW u,
         WellFormed(s, base), WellFormed(u, base + Len(s))
  PROVE  /\ WellFormed(s \o u, base)
         /\ Len(s \o u) = Len(s) + Len(u)
         /\ Len(s) \in Nat /\ Len(u) \in Nat
<1>1. s \in Seq(MadeNode) /\ u \in Seq(MadeNode)
  BY DEF WellFormed
<1>2. /\ s \o u \in Seq(MadeNode)
      /\ Len(s \o u) = Len(s) + Len(u)
      /\ \A i \in 1..(Len(s) + Len(u)) :
           (s \o u)[i] = IF i <= Len(s) THEN s[i] ELSE u[i - Len(s)]
  BY <1>1, ConcatProperties
<1>3. ASSUME NEW i \in DOMAIN (s \o u)
      PROVE  /\ Coherent((s \o u)[i])
             /\ ToSet((s \o u)[i].operands) \subseteq 1..(base + i - 1)
  <2>1. i \in 1..(Len(s) + Len(u))
    BY <1>1, <1>2
  <2>2. CASE i <= Len(s)
    <3>1. i \in DOMAIN s /\ (s \o u)[i] = s[i]
      BY <1>1, <1>2, <2>1, <2>2
    <3>2. QED  BY <3>1 DEF WellFormed
  <2>3. CASE ~(i <= Len(s))
    <3>1. i - Len(s) \in DOMAIN u /\ (s \o u)[i] = u[i - Len(s)]
      BY <1>1, <1>2, <2>1, <2>3
    <3>2. base + Len(s) + (i - Len(s)) - 1 = base + i - 1
      BY <1>1, <2>1
    <3>3. QED  BY <3>1, <3>2 DEF WellFormed
  <2>4. QED  BY <2>2, <2>3
<1>4. QED  BY <1>1, <1>2, <1>3 DEF WellFormed

LEMMA ResultWellFormed ==
  ASSUME NEW base \in Nat, NEW kind \in AllOperations, NEW operands \in Seq(Nat),
         ToSet(operands) \subseteq 1..base, NEW requires_gradient \in BOOLEAN
  PROVE  /\ WellFormed(<<Result(kind, operands, requires_gradient)>>, base)
         /\ Len(<<Result(kind, operands, requires_gradient)>>) = 1
<1> DEFINE r == Result(kind, operands, requires_gradient)
<1>1. kind \notin {"none", "creation"}
  BY DEF AllOperations, UnaryTypes
<1>2. r \in MadeNode /\ Coherent(r)
  BY <1>1 DEF Result, MadeNode, Coherent
<1>3. r.operands \in {operands, <<>>}
  BY DEF Result
<1>4. ToSet(r.operands) \subseteq 1..base
  BY <1>3 DEF ToSet
<1> HIDE DEF r
<1>5. <<r>> \in Seq(MadeNode) /\ DOMAIN <<r>> = 1..1 /\ Len(<<r>>) = 1 /\ <<r>>[1] = r
  BY <1>2
<1>6. \A i \in DOMAIN <<r>> : i = 1 /\ base + i - 1 = base
  BY <1>5
<1>7. QED  BY <1>2, <1>4, <1>5, <1>6 DEF WellFormed, r

LEMMA LeafWellFormed ==
  ASSUME NEW base \in Nat, NEW leaf \in BOOLEAN \X BOOLEAN
  PROVE  /\ WellFormed(<<Leaf(leaf[1], leaf[2])>>, base)
         /\ Len(<<Leaf(leaf[1], leaf[2])>>) = 1
<1> DEFINE r == Leaf(leaf[1], leaf[2])
<1>1. r \in MadeNode /\ Coherent(r) /\ r.operands = <<>>
  BY DEF Leaf, MadeNode, Coherent
<1>2. ToSet(r.operands) = {}
  BY <1>1 DEF ToSet
<1> HIDE DEF r
<1>3. <<r>> \in Seq(MadeNode) /\ DOMAIN <<r>> = 1..1 /\ Len(<<r>>) = 1 /\ <<r>>[1] = r
  BY <1>1
<1>4. \A i \in DOMAIN <<r>> : i = 1
  BY <1>3
<1>5. QED  BY <1>1, <1>2, <1>3, <1>4 DEF WellFormed, r

LEMMA EmptyWellFormed ==
  ASSUME NEW base
  PROVE  WellFormed(<<>>, base) /\ Len(<<>>) = 0
BY DEF WellFormed

(* An expanded copy, or nothing. *)
LEMMA CopyWellFormed ==
  ASSUME NEW base \in Nat, NEW x \in 1..base, NEW requires_gradient \in BOOLEAN,
         NEW expands \in BOOLEAN
  PROVE  LET copy == IF expands
                     THEN <<Result("structure", <<x>>, requires_gradient)>> ELSE <<>>
         IN  /\ WellFormed(copy, base)
             /\ Len(copy) = IF expands THEN 1 ELSE 0
<1>1. <<x>> \in Seq(Nat) /\ ToSet(<<x>>) \subseteq 1..base
  BY DEF ToSet
<1>2. "structure" \in AllOperations
  BY DEF AllOperations, UnaryTypes
<1>3. CASE expands
  BY <1>1, <1>2, <1>3, ResultWellFormed
<1>4. CASE ~expands
  BY <1>4, EmptyWellFormed
<1>5. QED  BY <1>3, <1>4

Transient(s) == \A i \in DOMAIN s : ~s[i].persist

LEMMA ConcatTransient ==
  ASSUME NEW s \in Seq(MadeNode), NEW u \in Seq(MadeNode), Transient(s), Transient(u)
  PROVE  Transient(s \o u)
<1>1. /\ s \o u \in Seq(MadeNode)
      /\ Len(s \o u) = Len(s) + Len(u)
      /\ \A i \in 1..(Len(s) + Len(u)) :
           (s \o u)[i] = IF i <= Len(s) THEN s[i] ELSE u[i - Len(s)]
  BY ConcatProperties
<1>2. ASSUME NEW i \in DOMAIN (s \o u)
      PROVE  ~(s \o u)[i].persist
  <2>1. i \in 1..(Len(s) + Len(u))
    BY <1>1
  <2>2. CASE i <= Len(s)
    BY <1>1, <2>1, <2>2 DEF Transient
  <2>3. CASE ~(i <= Len(s))
    <3>1. i - Len(s) \in DOMAIN u
      BY <2>1, <2>3
    <3>2. QED  BY <1>1, <2>1, <2>3, <3>1 DEF Transient
  <2>4. QED  BY <2>2, <2>3
<1>3. QED  BY <1>2 DEF Transient

LEMMA ResultTransient ==
  ASSUME NEW kind, NEW operands, NEW requires_gradient
  PROVE  Transient(<<Result(kind, operands, requires_gradient)>>)
BY DEF Transient, Result

(* Every tensor of `new` but the last is an operand of a later one. *)
Used(new, base) ==
  \A i \in DOMAIN new :
    i = Len(new) \/ \E j \in DOMAIN new : i < j /\ base + i \in ToSet(new[j].operands)

(* What every forward operation creates. *)
Makes(new) ==
  /\ WellFormed(new, Len(nodes))
  /\ Len(new) \in Nat \ {0}
  /\ Transient(new) \/ Len(new) = 1

LEMMA SingleMakes ==
  ASSUME Ordered, NEW r, WellFormed(<<r>>, Len(nodes))
  PROVE  Makes(<<r>>) /\ Used(<<r>>, Len(nodes))
BY DEF Makes, Used

LEMMA UnaryWellFormed ==
  ASSUME Ordered, NEW kind \in UnaryTypes, NEW x \in DOMAIN nodes
  PROVE  WellFormed(<<Result(kind, <<x>>, RequiresGradient(x))>>, Len(nodes))
<1>1. Len(nodes) \in Nat /\ x \in 1..Len(nodes) /\ RequiresGradient(x) \in BOOLEAN
  BY OrderedFacts DEF MadeNode, RequiresGradient
<1>2. kind \in AllOperations /\ <<x>> \in Seq(Nat) /\ ToSet(<<x>>) \subseteq 1..Len(nodes)
  BY <1>1 DEF AllOperations, ToSet
<1>3. QED  BY <1>1, <1>2, ResultWellFormed

(* apply_operation_binary: each expanded copy is an operand of the result.    *)
LEMMA BinaryMakes ==
  ASSUME Ordered, NEW x \in DOMAIN nodes, NEW y \in DOMAIN nodes,
         NEW x_expands \in BOOLEAN, NEW y_expands \in BOOLEAN,
         ApplyBinary(x, y, x_expands, y_expands)
  PROVE  \E new : Create(new) /\ Makes(new) /\ Used(new, Len(nodes))
<1> DEFINE base == Len(nodes)
           x_copy == Expansion(x, x_expands)
           y_copy == Expansion(y, y_expands)
           first == Len(nodes) + 1
           x_broadcasted == IF x_expands THEN first ELSE x
           y_broadcasted == IF y_expands THEN first + Len(x_copy) ELSE y
           requires_gradient == RequiresGradient(x) \/ RequiresGradient(y)
           operands == <<x_broadcasted, y_broadcasted>>
           result == Result("binary", operands, requires_gradient)
           copies == x_copy \o y_copy
<1>1. /\ base \in Nat /\ x \in 1..base /\ y \in 1..base
      /\ RequiresGradient(x) \in BOOLEAN /\ RequiresGradient(y) \in BOOLEAN
  BY OrderedFacts DEF MadeNode, RequiresGradient
<1>2. WellFormed(x_copy, base) /\ Len(x_copy) = IF x_expands THEN 1 ELSE 0
  BY <1>1, CopyWellFormed DEF Expansion
<1>3. /\ WellFormed(y_copy, base + Len(x_copy))
      /\ Len(y_copy) = IF y_expands THEN 1 ELSE 0
  <2>1. base + Len(x_copy) \in Nat /\ y \in 1..(base + Len(x_copy))
    BY <1>1, <1>2
  <2>2. QED  BY <1>1, <2>1, CopyWellFormed DEF Expansion
<1>4. WellFormed(copies, base) /\ Len(copies) = Len(x_copy) + Len(y_copy)
  <2>1. base \in Nat /\ WellFormed(x_copy, base) /\ WellFormed(y_copy, base + Len(x_copy))
    BY <1>1, <1>2, <1>3
  <2> HIDE DEF x_copy, y_copy, base
  <2> QED  BY <2>1, ConcatWellFormed
<1>5. Transient(x_copy) /\ Transient(y_copy)
  BY ResultTransient DEF Expansion, Transient
<1>6. /\ x_broadcasted \in 1..(base + Len(copies))
      /\ y_broadcasted \in 1..(base + Len(copies))
  BY <1>1, <1>2, <1>3, <1>4
<1>7. CASE ~requires_gradient \/ no_gradient
  <2>1. Create(<<result>>)
    BY <1>7 DEF ApplyBinary
  <2>2. result.operands = <<>> /\ result = Result("binary", <<>>, requires_gradient)
    BY <1>7 DEF Result
  <2>3. WellFormed(<<Result("binary", <<>>, requires_gradient)>>, base)
    <3>1. "binary" \in AllOperations /\ <<>> \in Seq(Nat) /\ ToSet(<<>>) \subseteq 1..base
      BY DEF AllOperations, ToSet
    <3>2. QED  BY <1>1, <3>1, ResultWellFormed
  <2>4. QED  BY <2>1, <2>2, <2>3, SingleMakes
<1>8. CASE ~(~requires_gradient \/ no_gradient)
  <2> DEFINE new == copies \o <<result>>
  <2>1. Create(new)
    BY <1>8 DEF ApplyBinary
  <2>2. "binary" \in AllOperations /\ operands \in Seq(Nat)
        /\ ToSet(operands) \subseteq 1..(base + Len(copies))
    BY <1>1, <1>6 DEF AllOperations, ToSet
  <2>3. base + Len(copies) \in Nat
    BY <1>1, <1>2, <1>3, <1>4
  <2> HIDE DEF x_copy, y_copy, operands, copies
  <2>4. WellFormed(<<result>>, base + Len(copies)) /\ Len(<<result>>) = 1
    BY <2>2, <2>3, <1>1, ResultWellFormed
  <2>5. WellFormed(new, base) /\ Len(new) = Len(copies) + 1
    <3>1. /\ base \in Nat /\ WellFormed(copies, base)
          /\ WellFormed(<<result>>, base + Len(copies)) /\ Len(<<result>>) = 1
      BY <1>1, <1>4, <2>4
    <3> DEFINE last == <<result>>
    <3>2. WellFormed(last, base + Len(copies)) /\ Len(last) = 1 /\ new = copies \o last
      BY <3>1
    <3> HIDE DEF base, result, last, new
    <3>3. /\ WellFormed(copies \o last, base)
          /\ Len(copies \o last) = Len(copies) + Len(last)
      BY <3>1, <3>2, ConcatWellFormed
    <3> QED  BY <3>2, <3>3
  <2>6. Transient(new)
    BY <1>2, <1>3, <1>4, <1>5, <2>4, ConcatTransient, ResultTransient
       DEF WellFormed, copies
  <2>7. new[Len(new)] = result /\ result.operands = operands
    BY <1>4, <1>8, <2>5 DEF WellFormed, Result
  <2>8. Used(new, base)
    <3>0. Len(new) \in DOMAIN new
      <4>1. new \in Seq(MadeNode) /\ Len(new) \in Nat \ {0}
        BY <2>5, <1>2, <1>3, <1>4 DEF WellFormed
      <4> QED  BY <4>1
    <3> SUFFICES ASSUME NEW i \in DOMAIN new, i # Len(new)
                 PROVE  i < Len(new) /\ base + i \in ToSet(new[Len(new)].operands)
      <4> HIDE DEF new
      <4> QED  BY <3>0 DEF Used
    <3>1. i \in 1..(Len(x_copy) + Len(y_copy))
      BY <1>4, <2>5, <1>2, <1>3 DEF WellFormed
    <3>2. i < Len(new)
      BY <3>1, <2>5, <1>4, <1>2, <1>3
    <3>3. base + i \in {x_broadcasted, y_broadcasted}
      BY <3>1, <1>1, <1>2, <1>3
    <3>4. ToSet(operands) = {x_broadcasted, y_broadcasted}
      BY DEF ToSet, operands
    <3>5. QED  BY <3>2, <3>3, <3>4, <2>7
  <2>9. Makes(new)
    <3>1. Len(new) \in Nat \ {0}
      BY <2>5, <1>2, <1>3, <1>4
    <3> HIDE DEF new
    <3> QED  BY <2>5, <2>6, <3>1 DEF Makes
  <2> HIDE DEF new
  <2>10. QED  BY <2>1, <2>8, <2>9
<1>9. QED  BY <1>7, <1>8

(* What is added to well-formed, transient nodes. *)
LEMMA MakesOn ==
  ASSUME NEW base \in Nat, NEW s, WellFormed(s, base), Transient(s),
         NEW u, WellFormed(u, base + Len(s)), Transient(u)
  PROVE  /\ WellFormed(s \o u, base)
         /\ Transient(s \o u)
         /\ Len(s \o u) = Len(s) + Len(u)
         /\ Len(s) \in Nat /\ Len(u) \in Nat
<1>1. s \in Seq(MadeNode) /\ u \in Seq(MadeNode)
  BY DEF WellFormed
<1>2. QED  BY <1>1, ConcatWellFormed, ConcatTransient

(* An expanded copy of x, or nothing, on top of the nodes s, and where x or    *)
(* its copy is then.                                                          *)
LEMMA CopyOn ==
  ASSUME NEW base \in Nat, NEW s, WellFormed(s, base), Transient(s),
         NEW x \in 1..(base + Len(s)), NEW requires_gradient \in BOOLEAN,
         NEW expands \in BOOLEAN,
         NEW copy, copy = IF expands
                          THEN <<Result("structure", <<x>>, requires_gradient)>> ELSE <<>>,
         NEW at, at = IF expands THEN base + Len(s) + 1 ELSE x
  PROVE  /\ WellFormed(s \o copy, base)
         /\ Transient(s \o copy)
         /\ Len(s \o copy) = Len(s) + Len(copy)
         /\ Len(copy) = IF expands THEN 1 ELSE 0
         /\ at \in 1..(base + Len(s \o copy))
<1>1. Len(s) \in Nat /\ base + Len(s) \in Nat
  BY DEF WellFormed
<1>2. WellFormed(copy, base + Len(s)) /\ Len(copy) = IF expands THEN 1 ELSE 0
  BY <1>1, CopyWellFormed
<1>3. Transient(copy)
  BY ResultTransient DEF Transient
<1>4. /\ WellFormed(s \o copy, base)
      /\ Transient(s \o copy)
      /\ Len(s \o copy) = Len(s) + Len(copy)
  <2>1. WellFormed(copy, base + Len(s))
    BY <1>2
  <2>2. QED  BY <2>1, <1>3, MakesOn
<1>5. at \in 1..(base + Len(s \o copy))
  BY <1>1, <1>2, <1>4
<1>6. QED  BY <1>2, <1>4, <1>5

(* apply_operation_ternary: nothing is said of use, for the first copies of x *)
(* and y may be left without any.                                             *)
LEMMA TernaryMakes ==
  ASSUME Ordered, NEW w \in DOMAIN nodes, NEW x \in DOMAIN nodes, NEW y \in DOMAIN nodes,
         NEW x_expands \in BOOLEAN, NEW y_expands \in BOOLEAN,
         NEW w_expands \in BOOLEAN, NEW both_expand \in BOOLEAN,
         ApplyTernary(w, x, y, x_expands, y_expands, w_expands, both_expand)
  PROVE  \E new : Create(new) /\ Makes(new)
<1> DEFINE base == Len(nodes)
           x_copy_ == Expansion(x, x_expands)
           y_copy_ == Expansion(y, y_expands)
           first == Len(nodes) + 1
           x_broadcasted_ == IF x_expands THEN first ELSE x
           y_broadcasted_ == IF y_expands THEN first + Len(x_copy_) ELSE y
           w_copy == Expansion(w, w_expands)
           second == first + Len(x_copy_ \o y_copy_)
           w_broadcasted == IF w_expands THEN second ELSE w
           again(t, requires_gradient) ==
             IF both_expand THEN <<Result("structure", <<t>>, requires_gradient)>> ELSE <<>>
           x_copy == again(x_broadcasted_, RequiresGradient(x))
           y_copy == again(y_broadcasted_, RequiresGradient(y))
           third == second + Len(w_copy)
           x_broadcasted == IF both_expand THEN third ELSE x_broadcasted_
           y_broadcasted == IF both_expand THEN third + 1 ELSE y_broadcasted_
           requires_gradient == \E t \in {w, x, y} : RequiresGradient(t)
           operands == <<w_broadcasted, x_broadcasted, y_broadcasted>>
           result == Result("ternary", operands, requires_gradient)
           two == x_copy_ \o y_copy_
           three == two \o w_copy
           four == three \o x_copy
           five == four \o y_copy
<1>1. /\ base \in Nat /\ w \in 1..base /\ x \in 1..base /\ y \in 1..base
      /\ RequiresGradient(w) \in BOOLEAN
      /\ RequiresGradient(x) \in BOOLEAN
      /\ RequiresGradient(y) \in BOOLEAN
  BY OrderedFacts DEF MadeNode, RequiresGradient
<1>2. requires_gradient \in BOOLEAN
  OBVIOUS
<1>3. CASE ~requires_gradient \/ no_gradient
  <2>1. Create(<<result>>)
    BY <1>3 DEF ApplyTernary
  <2>2. result = Result("ternary", <<>>, requires_gradient)
    BY <1>3 DEF Result
  <2>3. "ternary" \in AllOperations /\ <<>> \in Seq(Nat) /\ ToSet(<<>>) \subseteq 1..base
    BY DEF AllOperations, ToSet
  <2>4. WellFormed(<<Result("ternary", <<>>, requires_gradient)>>, base)
    BY <1>1, <1>2, <2>3, ResultWellFormed
  <2>5. QED  BY <2>1, <2>2, <2>4, SingleMakes
<1>4. CASE ~(~requires_gradient \/ no_gradient)
  <2>1. Create(five \o <<result>>)
    BY <1>4 DEF ApplyTernary
  <2>2. /\ WellFormed(x_copy_, base) /\ Transient(x_copy_)
        /\ Len(x_copy_) = IF x_expands THEN 1 ELSE 0
    BY <1>1, CopyWellFormed, ResultTransient DEF Expansion, Transient
  <2>3. Len(x_copy_) \in Nat /\ x_broadcasted_ \in 1..(base + Len(x_copy_))
    BY <2>2, <1>1
  <2>4. y \in 1..(base + Len(x_copy_))
    BY <2>3, <1>1
  <2>5. /\ WellFormed(two, base) /\ Transient(two)
        /\ Len(two) = Len(x_copy_) + Len(y_copy_)
        /\ Len(y_copy_) = IF y_expands THEN 1 ELSE 0
        /\ y_broadcasted_ \in 1..(base + Len(two))
    <3>1. y_broadcasted_ = IF y_expands THEN base + Len(x_copy_) + 1 ELSE y
      BY <1>1, <2>3
    <3>2. y_copy_ = IF y_expands
                    THEN <<Result("structure", <<y>>, RequiresGradient(y))>> ELSE <<>>
      BY DEF Expansion
    <3>3. base \in Nat /\ RequiresGradient(y) \in BOOLEAN
      BY <1>1
    <3>4. WellFormed(x_copy_, base) /\ Transient(x_copy_)
      BY <2>2
    <3> HIDE DEF base, x_copy_, y_copy_, y_broadcasted_
    <3>5. QED  BY <2>4, <3>1, <3>2, <3>3, <3>4, CopyOn
  <2>6. /\ Len(two) \in Nat
        /\ x_broadcasted_ \in 1..(base + Len(two))
        /\ w \in 1..(base + Len(two))
    BY <1>1, <2>3, <2>5
  <2>7. /\ WellFormed(three, base) /\ Transient(three)
        /\ Len(three) = Len(two) + Len(w_copy)
        /\ Len(w_copy) = IF w_expands THEN 1 ELSE 0
        /\ w_broadcasted \in 1..(base + Len(three))
    <3>1. w_broadcasted = IF w_expands THEN base + Len(two) + 1 ELSE w
      <4>1. second = base + Len(two) + 1
        BY <1>1, <2>6
      <4>2. QED  BY <4>1
    <3>2. w_copy = IF w_expands
                   THEN <<Result("structure", <<w>>, RequiresGradient(w))>> ELSE <<>>
      BY DEF Expansion
    <3>3. base \in Nat /\ RequiresGradient(w) \in BOOLEAN
      BY <1>1
    <3>4. WellFormed(two, base) /\ Transient(two) /\ w \in 1..(base + Len(two))
      BY <2>5, <2>6
    <3> HIDE DEF base, two, w_copy, w_broadcasted
    <3>5. QED  BY <3>1, <3>2, <3>3, <3>4, CopyOn
  <2>8. /\ Len(three) \in Nat /\ base + Len(three) + 1 = third
        /\ x_broadcasted_ \in 1..(base + Len(three))
        /\ y_broadcasted_ \in 1..(base + Len(three))
    <3>1. base \in Nat /\ third = base + 1 + Len(two) + Len(w_copy)
      BY <1>1
    <3>2. /\ Len(two) \in Nat /\ Len(three) = Len(two) + Len(w_copy)
          /\ x_broadcasted_ \in 1..(base + Len(two))
          /\ y_broadcasted_ \in 1..(base + Len(two))
      BY <2>5, <2>6, <2>7
    <3>3. Len(w_copy) \in Nat
      BY <2>7
    <3> HIDE DEF base, two, three, third, w_copy, x_broadcasted_, y_broadcasted_
    <3>4. QED  BY <3>1, <3>2, <3>3
  <2> DEFINE x_at == IF both_expand THEN base + Len(three) + 1 ELSE x_broadcasted_
             y_at == IF both_expand THEN base + Len(four) + 1 ELSE y_broadcasted_
  <2>9. /\ WellFormed(four, base) /\ Transient(four)
        /\ Len(four) = Len(three) + Len(x_copy)
        /\ Len(x_copy) = IF both_expand THEN 1 ELSE 0
        /\ x_at \in 1..(base + Len(four))
    <3>1. base \in Nat /\ RequiresGradient(x) \in BOOLEAN
      BY <1>1
    <3>2. WellFormed(three, base) /\ Transient(three)
      BY <2>7
    <3>3. x_broadcasted_ \in 1..(base + Len(three))
      BY <2>8
    <3> HIDE DEF base, three, x_broadcasted_
    <3>4. x_copy = IF both_expand
                   THEN <<Result("structure", <<x_broadcasted_>>, RequiresGradient(x))>>
                   ELSE <<>>
      OBVIOUS
    <3>5. x_at = IF both_expand THEN base + Len(three) + 1 ELSE x_broadcasted_
      OBVIOUS
    <3> HIDE DEF x_copy, x_at
    <3>6. QED  BY <3>1, <3>2, <3>3, <3>4, <3>5, CopyOn
  <2>10. /\ Len(four) \in Nat
         /\ y_broadcasted_ \in 1..(base + Len(four))
         /\ w_broadcasted \in 1..(base + Len(four))
    BY <1>1, <2>7, <2>8, <2>9
  <2>11. /\ WellFormed(five, base) /\ Transient(five)
         /\ Len(five) = Len(four) + Len(y_copy)
         /\ Len(y_copy) = IF both_expand THEN 1 ELSE 0
         /\ y_at \in 1..(base + Len(five))
    <3>1. base \in Nat /\ RequiresGradient(y) \in BOOLEAN
      BY <1>1
    <3>2. WellFormed(four, base) /\ Transient(four)
      BY <2>9
    <3>3. y_broadcasted_ \in 1..(base + Len(four))
      BY <2>10
    <3> HIDE DEF base, four, y_broadcasted_
    <3>4. y_copy = IF both_expand
                   THEN <<Result("structure", <<y_broadcasted_>>, RequiresGradient(y))>>
                   ELSE <<>>
      OBVIOUS
    <3>5. y_at = IF both_expand THEN base + Len(four) + 1 ELSE y_broadcasted_
      OBVIOUS
    <3> HIDE DEF y_copy, y_at
    <3>6. QED  BY <3>1, <3>2, <3>3, <3>4, <3>5, CopyOn
  <2>12. x_broadcasted = x_at /\ y_broadcasted = y_at
    <3>1. both_expand => third + 1 = base + Len(four) + 1
      BY <1>1, <2>8, <2>9
    <3>2. QED  BY <2>8, <3>1
  <2>13. /\ Len(five) \in Nat /\ base + Len(five) \in Nat
         /\ w_broadcasted \in 1..(base + Len(five))
         /\ x_broadcasted \in 1..(base + Len(five))
         /\ y_broadcasted \in 1..(base + Len(five))
    BY <1>1, <2>9, <2>10, <2>11, <2>12
  <2> HIDE DEF w_broadcasted, x_broadcasted, y_broadcasted, five
  <2>14. /\ "ternary" \in AllOperations /\ operands \in Seq(Nat)
         /\ ToSet(operands) \subseteq 1..(base + Len(five))
    BY <2>13 DEF AllOperations, ToSet
  <2> HIDE DEF operands, requires_gradient
  <2>15. /\ WellFormed(<<result>>, base + Len(five)) /\ Len(<<result>>) = 1
         /\ Transient(<<result>>)
    BY <2>13, <2>14, <1>2, ResultWellFormed, ResultTransient
  <2> HIDE DEF result
  <2>16. /\ WellFormed(five \o <<result>>, base) /\ Transient(five \o <<result>>)
         /\ Len(five \o <<result>>) = Len(five) + 1
    <3>1. base \in Nat /\ WellFormed(five, base) /\ Transient(five)
      BY <1>1, <2>11
    <3>2. /\ WellFormed(<<result>>, base + Len(five)) /\ Transient(<<result>>)
          /\ Len(<<result>>) = 1
      BY <2>15
    <3> HIDE DEF base
    <3>3. QED  BY <3>1, <3>2, MakesOn
  <2>17. Makes(five \o <<result>>)
    BY <2>13, <2>16 DEF Makes
  <2>18. QED  BY <2>1, <2>17
<1>5. QED  BY <1>3, <1>4

-----------------------------------------------------------------------------
(* The inductive invariant of the graph and of the engine that walks it.      *)

HeapInv ==
  /\ Ordered
  /\ Len(nodes) <= MaxTensors
  /\ client \subseteq live
  /\ live \subseteq DOMAIN nodes
  /\ gradient \in [Tensors -> Nat]
  /\ \A t \in live : Persist(t) => t \in client

(* What the variables of the engine hold in each phase. *)
EngineInv ==
  /\ phase \in {"idle", "sort", "propagate"}
  /\ phase = "idle" => root = 0 /\ frames = <<>> /\ visited = {} /\ tensors = <<>>
  /\ phase # "idle" => root \in DOMAIN nodes
  /\ phase = "propagate" => frames = <<>>
  /\ seed \in [Tensors -> Nat]
  /\ visited \subseteq DOMAIN nodes
  /\ tensors \in Seq(DOMAIN nodes)
  /\ frames \in Seq([tensor : DOMAIN nodes, next : Nat \ {0}])

StackInv == OperandsBelow /\ ToSet(tensors) \subseteq visited

(* The call frames[i] of topological_sort has dealt with its operand k. *)
Dealt(i, k) ==
  \/ Operands(frames[i].tensor)[k] \in visited
  \/ /\ i < Len(frames)
     /\ k = frames[i].next - 1
     /\ frames[i + 1].tensor = Operands(frames[i].tensor)[k]

(* The calls of topological_sort in progress go down from the root, each on an *)
(* operand of the one before, and each has dealt with the operands before its  *)
(* next.  A call that has made a recursive call is on a tensor that is not     *)
(* pushed: what was pushed since is older.                                     *)
FramesInv ==
  /\ frames = <<>> => root \in visited
  /\ frames # <<>> => frames[1].tensor = root
  /\ \A i \in DOMAIN frames :
       /\ frames[i].tensor \in Reachable(root)
       /\ frames[i].next <= Len(Operands(frames[i].tensor)) + 1
       /\ frames[i].next > 1 => frames[i].tensor \notin visited
       /\ \A k \in 1..(frames[i].next - 1) : Dealt(i, k)
       /\ i < Len(frames) => frames[i].next > 1
  /\ \A i, j \in DOMAIN frames : i < j => frames[j].tensor < frames[i].tensor

(* While the graph is sorted nothing changes but the engine's own variables;   *)
(* all of the graph is live.                                                   *)
SortInv ==
  phase = "sort" =>
    /\ seed = gradient
    /\ Reachable(root) \subseteq live
    /\ visited \subseteq Reachable(root)
    /\ ToSet(tensors) = visited
    /\ FramesInv

(* While it is propagated: what waits on the stack is live; what was popped    *)
(* has been destroyed unless it persists, and has given its operands their     *)
(* gradient.                                                                   *)
PropagateInv ==
  phase = "propagate" =>
    /\ visited = Reachable(root)
    /\ ToSet(tensors) \subseteq live
    /\ \A y \in visited \ ToSet(tensors) :
         /\ y \in live => Persist(y)
         /\ \A o \in ToSet(Operands(y)) : RequiresGradient(o) => gradient[o] > 0
    /\ seed[root] > 0 => gradient[root] > 0

GraphInv == HeapInv /\ EngineInv /\ StackInv /\ SortInv /\ PropagateInv

LEMMA SameNodes ==
  ASSUME nodes' = nodes
  PROVE  /\ Ordered => Ordered'
         /\ \A t : /\ Reachable(t)' = Reachable(t)
                   /\ Operands(t)' = Operands(t)
                   /\ RequiresGradient(t)' = RequiresGradient(t)
                   /\ Persist(t)' = Persist(t)
<1>1. Ordered => Ordered'
  BY DEF Ordered
<1>2. \A t : Reachable(t)' = Reachable(t)
  BY DEF Reachable, Operands
<1>3. QED  BY <1>1, <1>2 DEF Operands, RequiresGradient, Persist

LEMMA FrontFacts ==
  ASSUME NEW S, NEW s \in Seq(S), s # <<>>
  PROVE  /\ Len(s) \in Nat \ {0} /\ DOMAIN s = 1..Len(s)
         /\ Front(s) \in Seq(S)
         /\ Len(Front(s)) = Len(s) - 1 /\ DOMAIN Front(s) = 1..(Len(s) - 1)
         /\ \A i \in 1..(Len(s) - 1) : Front(s)[i] = s[i]
         /\ Last(s) \in S /\ Last(s) = s[Len(s)]
         /\ ToSet(s) = ToSet(Front(s)) \cup {Last(s)}
<1>1. Len(s) \in Nat \ {0} /\ DOMAIN s = 1..Len(s)
  BY EmptySeq, LenProperties
<1>2. /\ Front(s) \in Seq(S)
      /\ Len(Front(s)) = Len(s) - 1 /\ DOMAIN Front(s) = 1..(Len(s) - 1)
      /\ \A i \in 1..(Len(s) - 1) : Front(s)[i] = s[i]
  BY <1>1, SubSeqProperties DEF Front
<1>3. Last(s) \in S /\ Last(s) = s[Len(s)]
  BY <1>1 DEF Last
<1>4. ToSet(s) = ToSet(Front(s)) \cup {Last(s)}
  <2> DEFINE n == Len(s)
             f == Front(s)
             e == Last(s)
  <2>1. /\ n \in Nat \ {0} /\ DOMAIN s = 1..n /\ s[n] = e
        /\ DOMAIN f = 1..(n - 1) /\ \A i \in 1..(n - 1) : f[i] = s[i]
    BY <1>1, <1>2, <1>3
  <2> HIDE DEF n, f, e
  <2>2. /\ \A i \in 1..n : i \in 1..(n - 1) \/ i = n
        /\ \A i \in 1..(n - 1) : i \in 1..n
        /\ n \in 1..n
    BY <2>1
  <2>3. ToSet(s) = ToSet(f) \cup {e}
    BY <2>1, <2>2 DEF ToSet
  <2>4. QED  BY <2>3 DEF f, e
<1>5. QED  BY <1>1, <1>2, <1>3, <1>4

LEMMA AppendFacts ==
  ASSUME NEW S, NEW s \in Seq(S), NEW e \in S
  PROVE  /\ Append(s, e) \in Seq(S)
         /\ Len(s) \in Nat /\ DOMAIN s = 1..Len(s)
         /\ Len(Append(s, e)) = Len(s) + 1 /\ DOMAIN Append(s, e) = 1..(Len(s) + 1)
         /\ \A i \in 1..Len(s) : Append(s, e)[i] = s[i]
         /\ Append(s, e)[Len(s) + 1] = e
         /\ ToSet(Append(s, e)) = ToSet(s) \cup {e}
<1>1. /\ Append(s, e) \in Seq(S)
      /\ Len(s) \in Nat /\ DOMAIN s = 1..Len(s)
      /\ Len(Append(s, e)) = Len(s) + 1 /\ DOMAIN Append(s, e) = 1..(Len(s) + 1)
      /\ \A i \in 1..Len(s) : Append(s, e)[i] = s[i]
      /\ Append(s, e)[Len(s) + 1] = e
  BY AppendProperties
<1>2. ToSet(Append(s, e)) = ToSet(s) \cup {e}
  <2>1. Len(s) \in Nat
    BY <1>1
  <2>2. \A i \in 1..(Len(s) + 1) : i \in 1..Len(s) \/ i = Len(s) + 1
    BY <2>1
  <2>3. Len(s) + 1 \in 1..(Len(s) + 1) /\ \A i \in 1..Len(s) : i \in 1..(Len(s) + 1)
    BY <2>1
  <2> DEFINE t == Append(s, e)
  <2>4. /\ DOMAIN s = 1..Len(s) /\ DOMAIN t = 1..(Len(s) + 1)
        /\ t[Len(s) + 1] = e /\ \A i \in 1..Len(s) : t[i] = s[i]
    BY <1>1
  <2> HIDE DEF t
  <2>5. ToSet(t) = ToSet(s) \cup {e}
    BY <2>2, <2>3, <2>4 DEF ToSet
  <2>6. QED  BY <2>5 DEF t
<1>3. QED  BY <1>1, <1>2

(* With nothing but empty variables, the engine's part of the invariant holds. *)
LEMMA IdleGraph ==
  ASSUME HeapInv, phase = "idle", root = 0, frames = <<>>, visited = {}, tensors = <<>>,
         seed \in [Tensors -> Nat]
  PROVE  GraphInv
<1>1. DOMAIN tensors = {} /\ ToSet(tensors) = {}
  BY DEF ToSet
<1>2. EngineInv
  BY DEF EngineInv
<1>3. StackInv
  BY <1>1 DEF StackInv, OperandsBelow
<1>4. QED  BY <1>2, <1>3 DEF GraphInv, SortInv, PropagateInv

LEMMA InitGraph == Init => GraphInv
<1> SUFFICES ASSUME Init
             PROVE  GraphInv
  OBVIOUS
<1>1. Ordered
  BY DEF Init, Ordered, WellFormed
<1>2. HeapInv
  BY <1>1, BoundsAssumption DEF Init, HeapInv
<1>3. QED  BY <1>2, IdleGraph DEF Init

(* The engine is idle before and after, with the same variables. *)
LEMMA StillIdle ==
  ASSUME GraphInv, Idle, HeapInv', UNCHANGED engine
  PROVE  GraphInv'
<1>1. /\ phase' = "idle" /\ root' = 0 /\ frames' = <<>> /\ visited' = {}
      /\ tensors' = <<>> /\ seed' \in [Tensors -> Nat]
  BY DEF GraphInv, EngineInv, Idle, engine
<1>2. DOMAIN tensors' = {} /\ ToSet(tensors') = {}
  BY <1>1 DEF ToSet
<1>3. EngineInv'
  BY <1>1 DEF EngineInv
<1>4. StackInv'
  BY <1>2 DEF StackInv, OperandsBelow
<1>5. QED  BY <1>1, <1>3, <1>4 DEF GraphInv, SortInv, PropagateInv

LEMMA CreateGraph ==
  ASSUME GraphInv, Idle, NEW new, Create(new), Makes(new)
  PROVE  GraphInv'
<1> DEFINE n == Len(nodes)
           m == Len(new)
<1>1. /\ nodes \in Seq(MadeNode) /\ new \in Seq(MadeNode) /\ n \in Nat /\ m \in Nat \ {0}
      /\ DOMAIN nodes = 1..n /\ DOMAIN new = 1..m
  BY DEF GraphInv, HeapInv, Ordered, WellFormed, Makes
<1>2. /\ nodes' = nodes \o new /\ n + m <= MaxTensors
      /\ live' = live \cup (n + 1)..(n + m)
      /\ client' = client \cup {n + m}
      /\ gradient' = gradient
  BY DEF Create
<1>3. /\ Len(nodes') = n + m /\ DOMAIN nodes' = 1..(n + m)
      /\ \A i \in 1..(n + m) : nodes'[i] = IF i <= n THEN nodes[i] ELSE new[i - n]
  BY <1>1, <1>2, ConcatProperties
<1>4. Ordered'
  <2>1. WellFormed(nodes, 0) /\ WellFormed(new, 0 + Len(nodes))
    BY <1>1 DEF GraphInv, HeapInv, Ordered, Makes
  <2>2. WellFormed(nodes \o new, 0)
    BY <2>1, ConcatWellFormed
  <2>3. QED  BY <2>2, <1>2 DEF Ordered, WellFormed
<1>5. client' \subseteq live' /\ live' \subseteq DOMAIN nodes'
  <2>1. client \subseteq live /\ live \subseteq 1..n
    BY <1>1 DEF GraphInv, HeapInv
  <2> HIDE DEF n, m
  <2>2. n + m \in (n + 1)..(n + m) /\ 1..n \subseteq 1..(n + m)
        /\ (n + 1)..(n + m) \subseteq 1..(n + m)
    BY <1>1
  <2>3. QED  BY <1>2, <1>3, <2>1, <2>2
<1>6. ASSUME NEW t \in live', Persist(t)'
      PROVE  t \in client'
  <2>1. t \in 1..(n + m)
    BY <1>3, <1>5
  <2>2. CASE t <= n
    <3>1. nodes'[t] = nodes[t]
      BY <1>3, <2>1, <2>2
    <3>2. Persist(t)
      BY <1>6, <3>1 DEF Persist
    <3>3. t \in live
      BY <1>2, <2>2, <1>1
    <3>4. QED  BY <1>2, <3>2, <3>3 DEF GraphInv, HeapInv
  <2>3. CASE ~(t <= n)
    <3>1. nodes'[t] = new[t - n] /\ t - n \in DOMAIN new
      BY <1>1, <1>3, <2>1, <2>3
    <3>2. ~Transient(new)
      BY <1>6, <3>1 DEF Persist, Transient
    <3>3. m = 1
      BY <3>2 DEF Makes
    <3>4. t = n + m
      BY <1>1, <2>1, <2>3, <3>3
    <3>5. QED  BY <1>2, <3>4
  <2>4. QED  BY <2>2, <2>3
<1>7. HeapInv'
  BY <1>2, <1>3, <1>4, <1>5, <1>6 DEF GraphInv, HeapInv
<1>8. QED  BY <1>7, StillIdle DEF Create

LEMMA DestroyGraph ==
  ASSUME GraphInv, Idle, NEW t, TensorDestroy(t)
  PROVE  GraphInv'
<1>1. Ordered' /\ \A s : Persist(s)' = Persist(s)
  BY SameNodes DEF TensorDestroy, GraphInv, HeapInv
<1>2. HeapInv'
  BY <1>1 DEF TensorDestroy, GraphInv, HeapInv
<1>3. QED  BY <1>2, StillIdle DEF TensorDestroy

LEMMA SameHeap ==
  ASSUME HeapInv, UNCHANGED heap
  PROVE  HeapInv'
<1>1. Ordered' /\ \A s : Persist(s)' = Persist(s)
  BY SameNodes DEF heap, HeapInv
<1>2. QED  BY <1>1 DEF heap, HeapInv

LEMMA WithNoGradientGraph ==
  ASSUME GraphInv, Idle, UNCHANGED heap, UNCHANGED engine
  PROVE  GraphInv'
<1>1. HeapInv'
  BY SameHeap DEF GraphInv
<1>2. QED  BY <1>1, StillIdle

(* A backward pass that returns leaves its variables empty; gradient may have   *)
(* changed, live and client not.                                              *)
LEMMA CleanupGraph ==
  ASSUME GraphInv, NEW error, Cleanup(error), UNCHANGED <<nodes, live, client>>,
         gradient' \in [Tensors -> Nat]
  PROVE  GraphInv'
<1>1. Ordered' /\ \A s : Persist(s)' = Persist(s)
  BY SameNodes DEF GraphInv, HeapInv
<1>2. HeapInv'
  BY <1>1 DEF GraphInv, HeapInv
<1>3. /\ phase' = "idle" /\ root' = 0 /\ frames' = <<>> /\ visited' = {}
      /\ tensors' = <<>> /\ seed' \in [Tensors -> Nat]
  BY DEF Cleanup, NoSeed
<1>4. DOMAIN tensors' = {} /\ ToSet(tensors') = {}
  BY <1>3 DEF ToSet
<1>5. EngineInv'
  BY <1>3 DEF EngineInv
<1>6. StackInv'
  BY <1>4 DEF StackInv, OperandsBelow
<1>7. QED  BY <1>2, <1>3, <1>5, <1>6 DEF GraphInv, SortInv, PropagateInv

(* tensor_backward begins with the call of topological_sort on the root. *)
LEMMA CallGraph ==
  ASSUME GraphInv, Idle, NEW x \in client, NEW given, BackwardCall(x, given)
  PROVE  GraphInv'
<1>1. /\ Ordered /\ x \in DOMAIN nodes /\ DOMAIN nodes \subseteq Tensors
      /\ Len(nodes) \in Nat
  <2>1. Ordered /\ x \in DOMAIN nodes /\ Len(nodes) <= MaxTensors
    BY DEF GraphInv, HeapInv
  <2>2. Len(nodes) \in Nat /\ DOMAIN nodes = 1..Len(nodes)
    BY <2>1, OrderedFacts
  <2>3. QED  BY <2>1, <2>2, BoundsAssumption DEF Tensors
<1>2. /\ gradient' \in [Tensors -> Nat] /\ seed' = gradient'
      /\ nodes' = nodes /\ live' = live /\ client' = client
      /\ phase' = "sort" /\ root' = x /\ visited' = {} /\ tensors' = <<>>
      /\ frames' = <<[tensor |-> x, next |-> 1]>>
      /\ Reachable(x) \subseteq live
  BY <1>1 DEF BackwardCall, GraphInv, HeapInv, EngineInv, Idle
<1>3. /\ Ordered'
      /\ \A s : /\ Persist(s)' = Persist(s) /\ Reachable(s)' = Reachable(s)
                /\ Operands(s)' = Operands(s)
  BY <1>1, <1>2, SameNodes
<1>4. HeapInv'
  BY <1>2, <1>3 DEF GraphInv, HeapInv
<1>5. /\ DOMAIN frames' = 1..1 /\ frames'[1] = [tensor |-> x, next |-> 1]
      /\ Len(frames') = 1 /\ frames' # <<>>
      /\ frames' \in Seq([tensor : DOMAIN nodes, next : Nat \ {0}])
  BY <1>1, <1>2
<1>6. DOMAIN tensors' = {} /\ ToSet(tensors') = {}
  BY <1>2 DEF ToSet
<1>7. EngineInv'
  BY <1>1, <1>2, <1>5 DEF EngineInv
<1>8. StackInv'
  BY <1>6 DEF StackInv, OperandsBelow
<1>9. FramesInv'
  <2>1. x \in Reachable(x)
    BY <1>1, ReachableClosed
  <2>2. Len(Operands(x)) \in Nat
    BY <1>1, OrderedFacts DEF MadeNode, Operands
  <2>3. \A i \in DOMAIN frames' :
          /\ i = 1 /\ frames'[i].tensor = x /\ frames'[i].next = 1
          /\ 1..(frames'[i].next - 1) = {}
    BY <1>5
  <2>4. QED  BY <1>2, <1>3, <1>5, <2>1, <2>2, <2>3 DEF FramesInv
<1>10. SortInv'
  BY <1>2, <1>3, <1>6, <1>9 DEF SortInv
<1>11. QED  BY <1>2, <1>4, <1>7, <1>8, <1>10 DEF GraphInv, PropagateInv

LEMMA FrameFacts ==
  ASSUME GraphInv, phase = "sort", frames # <<>>
  PROVE  /\ Len(frames) \in Nat \ {0} /\ DOMAIN frames = 1..Len(frames)
         /\ Len(frames) \in DOMAIN frames
         /\ Frame = frames[Len(frames)]
         /\ Frame \in [tensor : DOMAIN nodes, next : Nat \ {0}]
         /\ Frame.tensor \in Reachable(root)
         /\ Len(Operands(Frame.tensor)) \in Nat
         /\ DOMAIN Operands(Frame.tensor) = 1..Len(Operands(Frame.tensor))
         /\ Frame.next <= Len(Operands(Frame.tensor)) + 1
         /\ \A k \in 1..(Frame.next - 1) : Operands(Frame.tensor)[k] \in visited
         /\ \A i \in 1..(Len(frames) - 1) : Frame.tensor < frames[i].tensor
<1>1. /\ Len(frames) \in Nat \ {0} /\ DOMAIN frames = 1..Len(frames)
      /\ Frame = frames[Len(frames)]
      /\ Frame \in [tensor : DOMAIN nodes, next : Nat \ {0}]
  BY FrontFacts DEF GraphInv, EngineInv, Frame
<1>2. Len(frames) \in DOMAIN frames
  BY <1>1
<1>3. FramesInv /\ Ordered
  BY DEF GraphInv, SortInv, HeapInv
<1>4. /\ Frame.tensor \in Reachable(root)
      /\ Frame.next <= Len(Operands(Frame.tensor)) + 1
      /\ \A k \in 1..(Frame.next - 1) : Dealt(Len(frames), k)
      /\ \A i \in DOMAIN frames : i < Len(frames) => Frame.tensor < frames[i].tensor
  BY <1>1, <1>2, <1>3 DEF FramesInv
<1>5. \A k \in 1..(Frame.next - 1) : Operands(Frame.tensor)[k] \in visited
  BY <1>1, <1>4 DEF Dealt
<1>6. Operands(Frame.tensor) \in Seq(Nat)
  BY <1>1, <1>3, OrderedFacts DEF MadeNode, Operands
<1>7. \A i \in 1..(Len(frames) - 1) : Frame.tensor < frames[i].tensor
  <2>1. \A i \in 1..(Len(frames) - 1) : i \in 1..Len(frames) /\ i < Len(frames)
    BY <1>1
  <2>2. QED  BY <1>1, <1>4, <2>1
<1>8. QED  BY <1>1, <1>2, <1>4, <1>5, <1>6, <1>7

(* A call of topological_sort whose tensor is pushed, now or before, returns. *)
LEMMA PopFrame ==
  ASSUME GraphInv, phase = "sort", frames # <<>>, nodes' = nodes, root' = root,
         frames' = Front(frames), visited' = visited \cup {Frame.tensor}
  PROVE  FramesInv'
<1> DEFINE n == Len(frames)
<1>1. /\ n \in Nat \ {0} /\ DOMAIN frames = 1..n
      /\ Len(frames') = n - 1 /\ DOMAIN frames' = 1..(n - 1)
      /\ \A i \in 1..(n - 1) : frames'[i] = frames[i]
      /\ Frame = frames[n]
      /\ \A i \in DOMAIN frames : frames[i] \in [tensor : DOMAIN nodes, next : Nat \ {0}]
  <2> DEFINE S == [tensor : DOMAIN nodes, next : Nat \ {0}]
  <2>1. frames \in Seq(S)
    BY DEF GraphInv, EngineInv
  <2> HIDE DEF S
  <2>2. \A i \in DOMAIN frames : frames[i] \in S
    BY <2>1
  <2>3. QED  BY <2>1, <2>2, FrontFacts DEF Frame, S
<1>2. FramesInv /\ DOMAIN nodes \subseteq Nat
  BY OrderedFacts DEF GraphInv, SortInv, HeapInv
<1>3. \A s : Operands(s)' = Operands(s) /\ Reachable(s)' = Reachable(s)
  BY SameNodes
<1>4. \A i \in 1..(n - 1) : Frame.tensor < frames[i].tensor
  BY FrameFacts
<1>5. frames' = <<>> => root' \in visited'
  <2>1. frames' = <<>> => n = 1
    BY <1>1
  <2>2. QED  BY <1>1, <1>2, <2>1 DEF FramesInv
<1>6. frames' # <<>> => frames'[1].tensor = root'
  <2>1. frames' # <<>> => n - 1 # 0
    <3>1. frames' \in Seq([tensor : DOMAIN nodes, next : Nat \ {0}])
      BY FrontFacts DEF GraphInv, EngineInv
    <3>2. QED  BY <1>1, <3>1, EmptySeq
  <2>2. n - 1 # 0 => 1 \in 1..(n - 1)
    BY <1>1
  <2>3. QED  BY <1>1, <1>2, <2>1, <2>2 DEF FramesInv
<1>7. ASSUME NEW i \in DOMAIN frames'
      PROVE  (/\ frames[i].tensor \in Reachable(root)
              /\ frames[i].next <= Len(Operands(frames[i].tensor)) + 1
              /\ frames[i].next > 1 => frames[i].tensor \notin visited
              /\ i < Len(frames) => frames[i].next > 1)'
  <2>1. i \in 1..(n - 1) /\ i \in DOMAIN frames /\ i < n /\ frames'[i] = frames[i]
    BY <1>1
  <2>2. /\ frames[i].tensor \in Reachable(root)
        /\ frames[i].next <= Len(Operands(frames[i].tensor)) + 1
        /\ frames[i].next > 1 /\ frames[i].tensor \notin visited
    BY <1>2, <2>1 DEF FramesInv
  <2>3. frames[i].tensor # Frame.tensor
    <3>1. frames[i].tensor \in Nat /\ Frame.tensor < frames[i].tensor
      BY <1>1, <1>2, <1>4, <2>1
    <3>2. QED  BY <3>1
  <2>4. QED  BY <1>3, <2>1, <2>2, <2>3
<1>8. ASSUME NEW i \in DOMAIN frames', NEW k \in 1..(frames'[i].next - 1)
      PROVE  Dealt(i, k)'
  <2>1. i \in 1..(n - 1) /\ i \in DOMAIN frames /\ i < n /\ frames'[i] = frames[i]
    BY <1>1
  <2>2. Dealt(i, k)
    BY <1>2, <2>1 DEF FramesInv
  <2>3. CASE Operands(frames[i].tensor)[k] \in visited
    BY <1>3, <2>1, <2>3 DEF Dealt
  <2>4. CASE /\ k = frames[i].next - 1
             /\ frames[i + 1].tensor = Operands(frames[i].tensor)[k]
    <3>1. CASE i + 1 = n
      <4>1. Operands(frames[i].tensor)[k] = Frame.tensor
        BY <1>1, <2>4, <3>1
      <4>2. QED  BY <1>3, <2>1, <4>1 DEF Dealt
    <3>2. CASE i + 1 # n
      <4>1. i < n - 1 /\ i + 1 \in 1..(n - 1)
        BY <1>1, <2>1, <3>2
      <4>2. frames'[i + 1] = frames[i + 1] /\ i < Len(frames')
        BY <1>1, <4>1
      <4>3. QED  BY <1>3, <2>1, <2>4, <4>2 DEF Dealt
    <3>3. QED  BY <3>1, <3>2
  <2>5. QED  BY <2>2, <2>3, <2>4 DEF Dealt
<1>9. ASSUME NEW i \in DOMAIN frames', NEW j \in DOMAIN frames', i < j
      PROVE  frames'[j].tensor < frames'[i].tensor
  <2>1. /\ i \in DOMAIN frames /\ frames'[i] = frames[i]
        /\ j \in DOMAIN frames /\ frames'[j] = frames[j]
    BY <1>1
  <2>2. QED  BY <1>2, <1>9, <2>1 DEF FramesInv
<1>10. QED  BY <1>5, <1>6, <1>7, <1>8, <1>9 DEF FramesInv

LEMMA SortVisitedGraph ==
  ASSUME GraphInv, SortVisited
  PROVE  GraphInv'
<1>1. HeapInv' /\ \A s : Reachable(s)' = Reachable(s) /\ Operands(s)' = Operands(s)
  BY SameHeap, SameNodes DEF GraphInv, SortVisited, heap
<1>2. visited' = visited \cup {Frame.tensor}
  BY DEF SortVisited
<1>3. FramesInv'
  BY <1>2, PopFrame DEF SortVisited, heap
<1>4. frames' \in Seq([tensor : DOMAIN nodes, next : Nat \ {0}])
  BY FrontFacts DEF GraphInv, EngineInv, SortVisited
<1>5. EngineInv'
  BY <1>4 DEF GraphInv, EngineInv, SortVisited, heap
<1>6. StackInv' /\ SortInv'
  BY <1>1, <1>3 DEF GraphInv, StackInv, OperandsBelow, SortInv, SortVisited, heap
<1>7. QED  BY <1>1, <1>5, <1>6 DEF GraphInv, PropagateInv, SortVisited

(* A tensor is pushed once, when all of its operands are on the stack. *)
LEMMA SortPushGraph ==
  ASSUME GraphInv, SortPush
  PROVE  GraphInv'
<1> DEFINE t == Frame.tensor
           m == Len(tensors)
<1>1. HeapInv' /\ \A s : Reachable(s)' = Reachable(s) /\ Operands(s)' = Operands(s)
  BY SameHeap, SameNodes DEF GraphInv, SortPush, heap
<1>2. FramesInv'
  BY PopFrame DEF SortPush, heap
<1>3. /\ t \in DOMAIN nodes /\ t \in Reachable(root)
      /\ DOMAIN Operands(t) = 1..Len(Operands(t)) /\ Len(Operands(t)) \in Nat
      /\ \A k \in 1..(Frame.next - 1) : Operands(t)[k] \in visited
      /\ Frame.next \in Nat \ {0}
      /\ Len(frames) \in DOMAIN frames /\ Frame = frames[Len(frames)]
  BY FrameFacts DEF SortPush
<1>4. ToSet(Operands(t)) \subseteq visited
  <2>1. 1..Len(Operands(t)) \subseteq 1..(Frame.next - 1)
    BY <1>3 DEF SortPush, Unvisited
  <2>2. QED  BY <1>3, <2>1 DEF ToSet
<1>5. t \notin visited
  <2>1. Frame.next > 1 => t \notin visited
    BY <1>3 DEF SortPush, GraphInv, SortInv, FramesInv
  <2>2. QED  BY <1>3, <2>1 DEF SortPush
<1>6. ToSet(tensors) = visited /\ tensors \in Seq(DOMAIN nodes)
  BY DEF GraphInv, SortInv, EngineInv, SortPush
<1>7. /\ tensors' \in Seq(DOMAIN nodes)
      /\ m \in Nat /\ DOMAIN tensors = 1..m /\ DOMAIN tensors' = 1..(m + 1)
      /\ \A i \in 1..m : tensors'[i] = tensors[i]
      /\ tensors'[m + 1] = t
      /\ ToSet(tensors') = ToSet(tensors) \cup {t}
  <2>1. tensors' = Append(tensors, t)
    BY DEF SortPush
  <2> HIDE DEF t, m
  <2>2. tensors \in Seq(DOMAIN nodes) /\ t \in DOMAIN nodes
    BY <1>3, <1>6
  <2>3. QED  BY <2>1, <2>2, AppendFacts DEF m
<1>8. frames' \in Seq([tensor : DOMAIN nodes, next : Nat \ {0}])
  BY FrontFacts DEF GraphInv, EngineInv, SortPush
<1>9. EngineInv'
  BY <1>3, <1>7, <1>8 DEF GraphInv, EngineInv, SortPush, heap
<1> HIDE DEF t, m
<1>10. \A i \in 1..m : tensors[i] \in visited /\ i \in 1..(m + 1)
  BY <1>6, <1>7 DEF ToSet
<1>11. \A i \in 1..(m + 1) : i \in 1..m \/ i = m + 1
  BY <1>7
<1>12. ASSUME NEW i \in DOMAIN tensors', NEW j \in DOMAIN tensors', tensors'[i] = tensors'[j]
       PROVE  i = j
  BY <1>5, <1>7, <1>10, <1>11, <1>12 DEF GraphInv, StackInv, OperandsBelow
<1>13. ASSUME NEW i \in DOMAIN tensors'
       PROVE  ToSet(Operands(tensors'[i])) \subseteq {tensors'[j] : j \in 1..(i - 1)}
  <2>1. CASE i \in 1..m
    <3>1. ToSet(Operands(tensors[i])) \subseteq {tensors[j] : j \in 1..(i - 1)}
      BY <1>7, <2>1 DEF GraphInv, StackInv, OperandsBelow
    <3>2. \A j \in 1..(i - 1) : tensors'[j] = tensors[j]
      BY <1>7, <2>1
    <3>3. QED  BY <1>7, <2>1, <3>1, <3>2
  <2>2. CASE i = m + 1
    <3>1. ToSet(Operands(tensors'[i])) \subseteq {tensors[j] : j \in 1..m}
      BY <1>4, <1>6, <1>7, <2>2 DEF ToSet
    <3>2. 1..(i - 1) = 1..m
      BY <1>7, <2>2
    <3>3. QED  BY <1>7, <3>1, <3>2
  <2>3. QED  BY <1>7, <1>11, <2>1, <2>2
<1>14. StackInv'
  <2>1. OperandsBelow'
    BY <1>1, <1>12, <1>13 DEF OperandsBelow
  <2>2. QED  BY <2>1, <1>6, <1>7 DEF StackInv, SortPush, t
<1>15. SortInv'
  BY <1>1, <1>2, <1>3, <1>6, <1>7 DEF GraphInv, SortInv, SortPush, heap, t
<1>16. QED  BY <1>1, <1>9, <1>14, <1>15 DEF GraphInv, PropagateInv, SortPush

(* A recursive call on the next operand. *)
LEMMA SortDescendGraph ==
  ASSUME GraphInv, SortDescend
  PROVE  GraphInv'
<1> DEFINE n == Len(frames)
           t == Frame.tensor
           o == Operands(Frame.tensor)[Frame.next]
           S == [tensor : DOMAIN nodes, next : Nat \ {0}]
           new == [tensor |-> o, next |-> 1]
           marked == [frames EXCEPT ![Len(frames)].next = @ + 1]
<1>1. /\ HeapInv'
      /\ \A s : Reachable(s)' = Reachable(s) /\ Operands(s)' = Operands(s)
  BY SameHeap, SameNodes DEF GraphInv, SortDescend, heap
<1>2. /\ n \in Nat \ {0} /\ DOMAIN frames = 1..n /\ n \in DOMAIN frames
      /\ Frame = frames[n] /\ Frame \in S
      /\ t \in Reachable(root) /\ t \in DOMAIN nodes
      /\ Len(Operands(t)) \in Nat /\ DOMAIN Operands(t) = 1..Len(Operands(t))
      /\ \A k \in 1..(Frame.next - 1) : Operands(t)[k] \in visited
      /\ \A i \in 1..(n - 1) : t < frames[i].tensor
  BY FrameFacts DEF SortDescend
<1>3. /\ Ordered /\ FramesInv /\ root \in DOMAIN nodes /\ DOMAIN nodes \subseteq Nat
      /\ frames \in Seq(S)
  BY OrderedFacts DEF GraphInv, SortInv, HeapInv, EngineInv, SortDescend
<1>4. Frame.next \in DOMAIN Operands(t) /\ Frame.next \in Nat \ {0}
  BY <1>2 DEF SortDescend, Unvisited
<1>5. o \in ToSet(Operands(t))
  BY <1>4 DEF ToSet
<1>6. o \in Reachable(root) /\ o \in DOMAIN nodes /\ o < t
  <2>1. o \in Reachable(root)
    BY <1>2, <1>3, <1>5, ReachableClosed
  <2>2. ToSet(Operands(t)) \subseteq 1..(t - 1)
    BY <1>2, <1>3, OrderedFacts
  <2>3. t \in Nat /\ DOMAIN nodes = 1..Len(nodes) /\ Len(nodes) \in Nat
    BY <1>2, <1>3, OrderedFacts
  <2>4. o \in 1..(t - 1)
    BY <1>5, <2>2
  <2> HIDE DEF o
  <2>5. QED  BY <1>2, <2>1, <2>3, <2>4
<1>7. Len(Operands(o)) \in Nat
  <2> HIDE DEF o
  <2>1. Operands(o) \in Seq(Nat)
    BY <1>3, <1>6, OrderedFacts DEF MadeNode, Operands
  <2>2. QED  BY <2>1
<1>8. t \notin visited
  <2>1. Frame.next > 1 => t \notin visited
    BY <1>2, <1>3 DEF FramesInv
  <2>2. QED  BY <1>4, <2>1 DEF SortDescend
<1>9. /\ marked \in Seq(S) /\ Len(marked) = n
      /\ \A i \in 1..(n - 1) : marked[i] = frames[i]
      /\ marked[n] = [tensor |-> t, next |-> Frame.next + 1]
  <2>1. marked = [frames EXCEPT ![n] = [tensor |-> t, next |-> Frame.next + 1]]
    <3>1. [Frame EXCEPT !.next = @ + 1] = [tensor |-> t, next |-> Frame.next + 1]
      BY <1>2
    <3>2. marked = [frames EXCEPT ![n] = [Frame EXCEPT !.next = @ + 1]]
      <4> HIDE DEF S, t, o
      <4>1. Frame = frames[n]
        BY <1>2
      <4>2. QED  BY <4>1, Zenon
    <3>3. QED  BY <3>1, <3>2
  <2>2. [tensor |-> t, next |-> Frame.next + 1] \in S
    BY <1>2
  <2>3. QED  BY <1>2, <1>3, <2>1, <2>2, ExceptSeq
<1>10. /\ frames' \in Seq(S) /\ Len(frames') = n + 1 /\ DOMAIN frames' = 1..(n + 1)
       /\ \A i \in 1..(n - 1) : frames'[i] = frames[i]
       /\ frames'[n] = [tensor |-> t, next |-> Frame.next + 1]
       /\ frames'[n + 1] = new
  <2>1. frames' = Append(marked, new) /\ new \in S
    BY <1>6 DEF SortDescend
  <2>2. n \in 1..n /\ \A i \in 1..(n - 1) : i \in 1..n
    BY <1>2
  <2> HIDE DEF marked, new, S, n, o, t
  <2>3. QED  BY <1>9, <2>1, <2>2, AppendFacts
<1>11. /\ UNCHANGED <<nodes, live, gradient, root, visited, tensors, seed, phase>>
       /\ phase = "sort"
  BY DEF SortDescend, heap
<1> HIDE DEF marked, o, t, n
<1>12. \A i \in 1..(n + 1) : i \in 1..(n - 1) \/ i = n \/ i = n + 1
  BY <1>2
<1>13. \A i \in 1..(n - 1) : i \in DOMAIN frames /\ i < n /\ i + 1 \in 1..n
  BY <1>2
<1>14. frames' # <<>> /\ frames'[1].tensor = root'
  <2>1. frames[1].tensor = root /\ frames' # <<>>
    BY <1>2, <1>3, <1>10, <1>11 DEF FramesInv, SortDescend
  <2>2. n = 1 => frames'[1].tensor = frames[1].tensor
    BY <1>2, <1>10 DEF t
  <2>3. n # 1 => 1 \in 1..(n - 1)
    BY <1>2
  <2>4. QED  BY <1>10, <1>11, <2>1, <2>2, <2>3
<1>15. ASSUME NEW i \in DOMAIN frames'
       PROVE  (/\ frames[i].tensor \in Reachable(root)
               /\ frames[i].next <= Len(Operands(frames[i].tensor)) + 1
               /\ frames[i].next > 1 => frames[i].tensor \notin visited
               /\ i < Len(frames) => frames[i].next > 1)'
  <2>1. CASE i \in 1..(n - 1)
    BY <1>1, <1>3, <1>10, <1>11, <1>13, <2>1 DEF FramesInv, n
  <2>2. CASE i = n
    <3>1. Frame.next + 1 <= Len(Operands(t)) + 1 /\ Frame.next + 1 > 1
      BY <1>2, <1>4
    <3>2. QED  BY <1>1, <1>2, <1>8, <1>10, <1>11, <2>2, <3>1
  <2>3. CASE i = n + 1
    <3>1. 1 <= Len(Operands(o)) + 1
      BY <1>7
    <3>2. ~(i < Len(frames'))
      BY <1>2, <1>10, <2>3
    <3>3. QED  BY <1>1, <1>6, <1>10, <1>11, <2>3, <3>1, <3>2
  <2>4. QED  BY <1>10, <1>12, <2>1, <2>2, <2>3
<1>16. ASSUME NEW i \in DOMAIN frames', NEW k \in 1..(frames'[i].next - 1)
       PROVE  Dealt(i, k)'
  <2>1. CASE i \in 1..(n - 1)
    <3>1. Dealt(i, k) /\ frames'[i] = frames[i]
      BY <1>3, <1>10, <1>13, <2>1 DEF FramesInv
    <3>2. frames'[i + 1].tensor = frames[i + 1].tensor
      <4>1. CASE i + 1 = n
        BY <1>2, <1>10, <4>1 DEF t
      <4>2. CASE i + 1 # n
        <5>1. i + 1 \in 1..(n - 1)
          BY <1>2, <2>1, <4>2
        <5>2. QED  BY <1>10, <5>1
      <4>3. QED  BY <4>1, <4>2
    <3>3. i < Len(frames')
      BY <1>2, <1>10, <2>1
    <3>4. QED  BY <1>1, <1>11, <3>1, <3>2, <3>3 DEF Dealt
  <2>2. CASE i = n
    <3>1. frames'[i].tensor = t /\ frames'[i].next = Frame.next + 1 /\ i < Len(frames')
      BY <1>2, <1>10, <2>2
    <3>2. k \in 1..(Frame.next - 1) \/ k = Frame.next
      BY <1>4, <3>1
    <3>3. CASE k \in 1..(Frame.next - 1)
      BY <1>1, <1>2, <1>11, <3>1, <3>3 DEF Dealt
    <3>4. CASE k = Frame.next
      <4>1. frames'[i + 1].tensor = o /\ k = frames'[i].next - 1
        BY <1>4, <1>10, <2>2, <3>1, <3>4
      <4>2. QED  BY <1>1, <3>1, <3>4, <4>1 DEF Dealt, o, t
    <3>5. QED  BY <3>2, <3>3, <3>4
  <2>3. CASE i = n + 1
    BY <1>10, <2>3
  <2>4. QED  BY <1>10, <1>12, <2>1, <2>2, <2>3
<1>17. ASSUME NEW i \in DOMAIN frames', NEW j \in DOMAIN frames', i < j
       PROVE  frames'[j].tensor < frames'[i].tensor
  <2>1. i \in 1..n /\ (i \in 1..(n - 1) \/ i = n)
    BY <1>2, <1>10, <1>17
  <2>2. o < frames'[n].tensor /\ \A l \in 1..(n - 1) : o < frames'[l].tensor
    <3>1. \A l \in 1..(n - 1) : frames[l] \in S
      <4> HIDE DEF S
      <4>1. QED  BY <1>3, <1>13
    <3>2. \A l \in 1..(n - 1) : frames[l].tensor \in Nat
      BY <1>3, <3>1
    <3>3. o \in Nat /\ t \in Nat /\ o < t
      BY <1>2, <1>3, <1>6
    <3>4. \A l \in 1..(n - 1) : t < frames[l].tensor
      BY <1>2
    <3>5. \A l \in 1..(n - 1) : o < frames[l].tensor
      BY <3>2, <3>3, <3>4
    <3>6. frames'[n].tensor = t /\ \A l \in 1..(n - 1) : frames'[l] = frames[l]
      BY <1>10
    <3> HIDE DEF S, new
    <3>7. QED  BY <3>3, <3>5, <3>6
  <2>3. CASE j = n + 1
    BY <1>10, <2>1, <2>2, <2>3
  <2>4. CASE j = n
    BY <1>2, <1>10, <1>17, <2>1, <2>4
  <2>5. CASE j \in 1..(n - 1)
    <3>1. i \in 1..(n - 1)
      BY <1>2, <1>17, <2>1, <2>5
    <3>2. QED  BY <1>3, <1>10, <1>13, <1>17, <2>5, <3>1 DEF FramesInv
  <2>6. QED  BY <1>10, <1>12, <2>3, <2>4, <2>5
<1>18. FramesInv'
  BY <1>14, <1>15, <1>16, <1>17 DEF FramesInv
<1>19. EngineInv'
  BY <1>10, <1>11 DEF GraphInv, EngineInv
<1>20. StackInv' /\ SortInv'
  BY <1>1, <1>11, <1>18 DEF GraphInv, StackInv, OperandsBelow, SortInv
<1>21. QED  BY <1>1, <1>11, <1>19, <1>20 DEF GraphInv, PropagateInv

(* When the sort is done the stack holds all of the graph. *)
LEMMA SortDoneGraph ==
  ASSUME GraphInv, SortDone
  PROVE  GraphInv'
<1>1. HeapInv' /\ \A s : Reachable(s)' = Reachable(s) /\ Operands(s)' = Operands(s)
  BY SameHeap, SameNodes DEF GraphInv, SortDone, heap
<1>2. /\ Ordered /\ root \in DOMAIN nodes /\ root \in visited
      /\ visited \subseteq Reachable(root) /\ ToSet(tensors) = visited
      /\ Reachable(root) \subseteq live /\ seed = gradient
      /\ tensors \in Seq(DOMAIN nodes)
  BY DEF GraphInv, HeapInv, EngineInv, SortInv, FramesInv, SortDone
<1>3. \A y \in visited : ToSet(Operands(y)) \subseteq visited
  <2> SUFFICES ASSUME NEW y \in visited
               PROVE  ToSet(Operands(y)) \subseteq visited
    OBVIOUS
  <2>1. PICK i \in DOMAIN tensors : tensors[i] = y
    BY <1>2 DEF ToSet
  <2>2. DOMAIN tensors = 1..Len(tensors) /\ Len(tensors) \in Nat
    BY <1>2
  <2>3. 1..(i - 1) \subseteq DOMAIN tensors
    BY <2>1, <2>2
  <2>4. ToSet(Operands(y)) \subseteq {tensors[j] : j \in 1..(i - 1)}
    BY <2>1 DEF GraphInv, StackInv, OperandsBelow
  <2>5. QED  BY <1>2, <2>3, <2>4 DEF ToSet
<1>4. Reachable(root) \subseteq visited
  BY <1>2, <1>3, ReachableLeast
<1>5. EngineInv'
  BY DEF GraphInv, EngineInv, SortDone, heap
<1>6. StackInv'
  BY <1>1 DEF GraphInv, StackInv, OperandsBelow, SortDone
<1>7. PropagateInv'
  BY <1>1, <1>2, <1>4 DEF PropagateInv, SortDone, heap
<1>8. QED  BY <1>1, <1>5, <1>6, <1>7 DEF GraphInv, SortInv, SortDone

LEMMA SortFailsGraph ==
  ASSUME GraphInv, SortFails
  PROVE  GraphInv'
<1>1. gradient' \in [Tensors -> Nat]
  BY DEF GraphInv, HeapInv, SortFails, heap
<1>2. QED  BY <1>1, CleanupGraph DEF SortFails, BackwardReturns, heap

LEMMA Product ==
  ASSUME NEW a \in Nat, NEW b \in Nat, NEW c \in Nat
  PROVE  a + b * c \in Nat /\ a + b * c >= a /\ (b > 0 /\ c > 0 => a + b * c > 0)
<1>1. b * c \in Nat
  OBVIOUS
<1>2. b > 0 /\ c > 0 => b * c > 0
  OBVIOUS
<1>3. QED  BY <1>1, <1>2

(* A backward operation adds to gradients and takes nothing away; the operands *)
(* it reaches have a gradient afterwards.                                     *)
LEMMA AccumulateFacts ==
  ASSUME HeapInv, NEW y \in DOMAIN nodes, NEW n \in Nat
  PROVE  /\ Accumulate(y, n) \in [Tensors -> Nat]
         /\ \A t \in Tensors : Accumulate(y, n)[t] >= gradient[t]
         /\ \A t \in Tensors : Places(t, y, n) # {} /\ gradient[y] > 0
                                 => Accumulate(y, n)[t] > 0
<1>1. /\ gradient \in [Tensors -> Nat] /\ gradient[y] \in Nat
      /\ Len(Operands(y)) \in Nat /\ DOMAIN Operands(y) = 1..Len(Operands(y))
  <2>1. Ordered /\ Len(nodes) <= MaxTensors /\ gradient \in [Tensors -> Nat]
    BY DEF HeapInv
  <2>2. Operands(y) \in Seq(Nat) /\ y \in 1..Len(nodes) /\ Len(nodes) \in Nat
    BY <2>1, OrderedFacts DEF MadeNode, Operands
  <2>3. y \in Tensors
    BY <2>1, <2>2, BoundsAssumption DEF Tensors
  <2>4. QED  BY <2>1, <2>2, <2>3
<1>2. ASSUME NEW t \in Tensors
      PROVE  /\ Cardinality(Places(t, y, n)) \in Nat
             /\ Places(t, y, n) # {} => Cardinality(Places(t, y, n)) > 0
  <2>1. IsFiniteSet(1..Len(Operands(y)))
    BY <1>1, FS_Interval
  <2>2. IsFiniteSet(Places(t, y, n))
    BY <1>1, <2>1, FS_Subset DEF Places
  <2>3. Cardinality(Places(t, y, n)) \in Nat
    BY <2>2, FS_CardinalityType
  <2>4. Places(t, y, n) # {} => Cardinality(Places(t, y, n)) # 0
    BY <2>2, FS_EmptySet
  <2>5. QED  BY <2>3, <2>4
<1>3. ASSUME NEW t \in Tensors
      PROVE  LET a == gradient[t] + Cardinality(Places(t, y, n)) * gradient[y]
             IN  /\ a \in Nat /\ a >= gradient[t]
                 /\ Places(t, y, n) # {} /\ gradient[y] > 0 => a > 0
  BY <1>1, <1>2, Product
<1>4. QED  BY <1>3 DEF Accumulate

(* The tensor on top of the stack. *)
LEMMA TopFacts ==
  ASSUME GraphInv, phase = "propagate", tensors # <<>>
  PROVE  /\ Last(tensors) \in DOMAIN nodes
         /\ Last(tensors) \in visited /\ Last(tensors) \in live
         /\ Front(tensors) \in Seq(DOMAIN nodes)
         /\ ToSet(tensors) = ToSet(Front(tensors)) \cup {Last(tensors)}
         /\ Last(tensors) \notin ToSet(Front(tensors))
         /\ \A t \in ToSet(tensors) : Last(tensors) \notin ToSet(Operands(t))
<1> DEFINE n == Len(tensors)
           y == Last(tensors)
<1>1. /\ n \in Nat \ {0} /\ DOMAIN tensors = 1..n /\ y \in DOMAIN nodes
      /\ Front(tensors) \in Seq(DOMAIN nodes) /\ DOMAIN Front(tensors) = 1..(n - 1)
      /\ \A i \in 1..(n - 1) : Front(tensors)[i] = tensors[i]
      /\ y = tensors[n] /\ ToSet(tensors) = ToSet(Front(tensors)) \cup {y}
  BY FrontFacts DEF GraphInv, EngineInv
<1>2. /\ \A i, j \in DOMAIN tensors : tensors[i] = tensors[j] => i = j
      /\ \A i \in DOMAIN tensors :
           ToSet(Operands(tensors[i])) \subseteq {tensors[j] : j \in 1..(i - 1)}
  BY DEF GraphInv, StackInv, OperandsBelow
<1> HIDE DEF n, y
<1>3. n \in DOMAIN tensors /\ \A i \in 1..n : \A j \in 1..(i - 1) : j \in 1..n /\ j # n
  <2>1. n \in Nat \ {0} /\ DOMAIN tensors = 1..n
    BY <1>1
  <2>2. QED  BY <2>1
<1>4. y \notin ToSet(Front(tensors))
  <2>1. \A i \in 1..(n - 1) : i \in 1..n /\ i # n
    BY <1>1
  <2>2. \A i \in 1..(n - 1) : tensors[i] # y
    BY <1>1, <1>2, <1>3, <2>1
  <2>3. QED  BY <1>1, <2>2 DEF ToSet
<1>5. ASSUME NEW t \in ToSet(tensors)
      PROVE  y \notin ToSet(Operands(t))
  <2>1. PICK i \in 1..n : tensors[i] = t
    BY <1>1 DEF ToSet
  <2>2. \A j \in 1..(i - 1) : tensors[j] # y
    BY <1>1, <1>2, <1>3, <2>1
  <2>3. QED  BY <1>1, <1>2, <2>1, <2>2
<1>6. y \in visited /\ y \in live
  BY <1>1 DEF GraphInv, StackInv, PropagateInv
<1>7. QED  BY <1>1, <1>4, <1>5, <1>6 DEF y

LEMMA PropagateGraph ==
  ASSUME GraphInv, Propagate
  PROVE  GraphInv'
<1> DEFINE y == Last(tensors)
<1>1. /\ y \in DOMAIN nodes /\ y \in visited /\ y \in live
      /\ Front(tensors) \in Seq(DOMAIN nodes)
      /\ ToSet(tensors) = ToSet(Front(tensors)) \cup {y}
      /\ y \notin ToSet(Front(tensors))
  BY TopFacts DEF Propagate
<1> HIDE DEF y
<1>2. /\ phase = "propagate" /\ phase' = "propagate"
      /\ Kind(y) # "none" => gradient[y] > 0
      /\ gradient' = IF Kind(y) # "none" THEN Accumulate(y, Len(Operands(y))) ELSE gradient
      /\ live' = live \ DestroyedAfter(y) /\ client' = client \ DestroyedAfter(y)
      /\ tensors' = Front(tensors)
      /\ UNCHANGED <<nodes, root, frames, visited, seed>>
  BY DEF Propagate, y
<1>3. /\ HeapInv /\ Ordered /\ root \in DOMAIN nodes /\ DOMAIN nodes \subseteq Tensors
  <2>1. HeapInv /\ Ordered /\ root \in DOMAIN nodes /\ Len(nodes) <= MaxTensors
    BY <1>2 DEF GraphInv, HeapInv, EngineInv
  <2>2. DOMAIN nodes = 1..Len(nodes) /\ Len(nodes) \in Nat
    BY <2>1, OrderedFacts
  <2>3. QED  BY <2>1, <2>2, BoundsAssumption DEF Tensors
<1>4. /\ Ordered'
      /\ \A s : /\ Reachable(s)' = Reachable(s) /\ Operands(s)' = Operands(s)
                /\ RequiresGradient(s)' = RequiresGradient(s) /\ Persist(s)' = Persist(s)
  BY <1>2, <1>3, SameNodes
<1>5. /\ Operands(y) \in Seq(Nat) /\ Len(Operands(y)) \in Nat
      /\ DOMAIN Operands(y) = 1..Len(Operands(y))
      /\ Kind(y) = "none" => Operands(y) = <<>>
  BY <1>1, <1>3, OrderedFacts DEF MadeNode, Coherent, Operands, Kind
<1>6. /\ gradient' \in [Tensors -> Nat]
      /\ \A t \in Tensors : gradient'[t] >= gradient[t]
      /\ gradient \in [Tensors -> Nat]
  <2>1. gradient \in [Tensors -> Nat]
    BY <1>3 DEF HeapInv
  <2>2. CASE Kind(y) = "none"
    <3>1. \A t \in Tensors : gradient[t] \in Nat
      BY <2>1
    <3>2. QED  BY <1>2, <2>1, <2>2, <3>1
  <2>3. CASE Kind(y) # "none"
    <3>1. gradient' = Accumulate(y, Len(Operands(y)))
      BY <1>2, <2>3
    <3>2. QED  BY <1>1, <1>3, <1>5, <2>1, <3>1, AccumulateFacts
  <2>4. QED  BY <2>2, <2>3
<1>7. ASSUME NEW t \in Tensors, gradient[t] > 0
      PROVE  gradient'[t] > 0
  <2>1. gradient[t] \in Nat /\ gradient'[t] \in Nat /\ gradient'[t] >= gradient[t]
    BY <1>6
  <2>2. QED  BY <1>7, <2>1
<1>8. ASSUME NEW o \in ToSet(Operands(y)), RequiresGradient(o)
      PROVE  gradient'[o] > 0
  <2>1. PICK k \in DOMAIN Operands(y) : Operands(y)[k] = o
    BY DEF ToSet
  <2>2. Kind(y) # "none" /\ gradient[y] > 0
    <3>1. Kind(y) # "none"
      BY <1>5, <2>1
    <3>2. QED  BY <1>2, <3>1
  <2>3. k <= Len(Operands(y)) /\ k \in Nat
    BY <1>5
  <2>4. Places(o, y, Len(Operands(y))) # {}
    BY <1>8, <2>1, <2>3 DEF Places
  <2>5. o \in Tensors
    <3>1. o \in 1..(y - 1) /\ y \in 1..Len(nodes) /\ Len(nodes) \in Nat
      BY <1>1, <1>3, OrderedFacts
    <3>2. o \in DOMAIN nodes
      BY <1>3, <3>1, OrderedFacts
    <3>3. QED  BY <1>3, <3>2
  <2>6. QED  BY <1>1, <1>2, <1>3, <1>5, <2>2, <2>4, <2>5, AccumulateFacts
<1>9. HeapInv'
  <2>1. client' \subseteq live' /\ live' \subseteq DOMAIN nodes'
    BY <1>2, <1>3 DEF HeapInv
  <2>2. \A t \in live' : Persist(t)' => t \in client'
    BY <1>2, <1>3, <1>4 DEF HeapInv, DestroyedAfter
  <2>3. QED  BY <1>2, <1>3, <1>4, <1>6, <2>1, <2>2 DEF HeapInv
<1>10. EngineInv'
  BY <1>1, <1>2 DEF GraphInv, EngineInv
<1>11. StackInv'
  <2>1. /\ Len(tensors) \in Nat \ {0} /\ DOMAIN tensors = 1..Len(tensors)
        /\ DOMAIN tensors' = 1..(Len(tensors) - 1)
        /\ \A i \in 1..(Len(tensors) - 1) : tensors'[i] = tensors[i]
    BY <1>2, FrontFacts DEF GraphInv, EngineInv, Propagate
  <2>2. \A i \in 1..(Len(tensors) - 1) :
          i \in 1..Len(tensors) /\ \A j \in 1..(i - 1) : j \in 1..(Len(tensors) - 1)
    BY <2>1
  <2>3. \A i, j \in DOMAIN tensors' : tensors'[i] = tensors'[j] => i = j
    BY <2>1, <2>2 DEF GraphInv, StackInv, OperandsBelow
  <2>4. ASSUME NEW i \in DOMAIN tensors'
        PROVE  ToSet(Operands(tensors'[i])) \subseteq {tensors'[j] : j \in 1..(i - 1)}
    <3>1. ToSet(Operands(tensors[i])) \subseteq {tensors[j] : j \in 1..(i - 1)}
      BY <2>1, <2>2 DEF GraphInv, StackInv, OperandsBelow
    <3>2. \A j \in 1..(i - 1) : tensors'[j] = tensors[j]
      BY <2>1, <2>2
    <3>3. QED  BY <2>1, <3>1, <3>2
  <2>5. OperandsBelow'
    BY <1>4, <2>3, <2>4 DEF OperandsBelow
  <2>6. QED  BY <1>1, <1>2, <2>5 DEF GraphInv, StackInv
<1>12. PropagateInv'
  <2>1. visited' = Reachable(root)'
    BY <1>2, <1>4 DEF GraphInv, PropagateInv
  <2>2. ToSet(tensors') \subseteq live'
    BY <1>1, <1>2 DEF GraphInv, PropagateInv, DestroyedAfter
  <2>3. ASSUME NEW z \in visited', z \notin ToSet(tensors')
        PROVE  /\ z \in live' => Persist(z)
               /\ \A o \in ToSet(Operands(z)) : RequiresGradient(o) => gradient'[o] > 0
    <3>1. CASE z = y
      BY <1>2, <1>8, <3>1 DEF DestroyedAfter
    <3>2. CASE z # y
      <4>1. z \in visited \ ToSet(tensors)
        BY <1>1, <1>2, <2>3, <3>2
      <4>2. /\ z \in live => Persist(z)
            /\ \A o \in ToSet(Operands(z)) : RequiresGradient(o) => gradient[o] > 0
        BY <1>2, <4>1 DEF GraphInv, PropagateInv
      <4>3. ToSet(Operands(z)) \subseteq Tensors
        <5>1. z \in Reachable(root)
          BY <1>2, <4>1 DEF GraphInv, PropagateInv
        <5>2. ToSet(Operands(z)) \subseteq Reachable(root)
          BY <1>3, <5>1, ReachableClosed
        <5>3. Reachable(root) \subseteq DOMAIN nodes
          BY <1>2 DEF GraphInv, PropagateInv, EngineInv
        <5>4. QED  BY <1>3, <5>2, <5>3
      <4>4. QED  BY <1>2, <1>7, <4>2, <4>3
    <3>3. QED  BY <3>1, <3>2
  <2>4. seed'[root'] > 0 => gradient'[root'] > 0
    BY <1>2, <1>3, <1>7 DEF GraphInv, PropagateInv
  <2>5. QED  BY <1>2, <1>4, <2>1, <2>2, <2>3, <2>4 DEF PropagateInv
<1>13. SortInv'
  BY <1>2 DEF SortInv
<1>14. QED  BY <1>9, <1>10, <1>11, <1>12, <1>13 DEF GraphInv

LEMMA PropagateFailsGraph ==
  ASSUME GraphInv, NEW n \in 0..2, NEW in_as_tensor \in BOOLEAN,
         PropagateFails(n, in_as_tensor)
  PROVE  GraphInv'
<1>1. Last(tensors) \in DOMAIN nodes
  BY TopFacts DEF PropagateFails
<1>2. gradient' \in [Tensors -> Nat]
  BY <1>1, AccumulateFacts DEF GraphInv, PropagateFails
<1>3. \E error : Cleanup(error)
  BY DEF PropagateFails, BackwardReturns
<1>4. QED  BY <1>2, <1>3, CleanupGraph DEF PropagateFails

LEMMA ReturnGraph ==
  ASSUME GraphInv, PropagateNull \/ BackwardDone
  PROVE  GraphInv'
<1>1. UNCHANGED heap /\ \E error : Cleanup(error)
  BY DEF PropagateNull, BackwardDone, BackwardReturns
<1>2. gradient' \in [Tensors -> Nat]
  BY <1>1 DEF GraphInv, HeapInv, heap
<1>3. QED  BY <1>1, <1>2, CleanupGraph DEF heap

(* What a call of the program does to the graph: it creates tensors, destroys  *)
(* one, begins a backward pass, or touches the mode only.                      *)
LEMMA ProgramSteps ==
  ASSUME GraphInv, Program
  PROVE  /\ Idle
         /\ \/ \E new : /\ Create(new) /\ Makes(new)
                        /\ "ternary" \notin Operations => Used(new, Len(nodes))
            \/ \E t \in client : TensorDestroy(t)
            \/ \E x \in client : \E given : BackwardCall(x, given)
            \/ UNCHANGED heap /\ UNCHANGED engine /\ failures' \in {failures, failures + 1}
<1>1. Ordered /\ client \subseteq DOMAIN nodes
  BY DEF GraphInv, HeapInv
<1> DEFINE Creates == \E new : /\ Create(new) /\ Makes(new)
                               /\ "ternary" \notin Operations => Used(new, Len(nodes))
<1>2. ASSUME NEW leaf \in LeafKinds, ApplyCreation(leaf[1], leaf[2])
      PROVE  Creates
  <2>1. leaf \in BOOLEAN \X BOOLEAN /\ Len(nodes) \in Nat
    BY <1>1, LeafKindsAssumption, OrderedFacts
  <2>2. WellFormed(<<Leaf(leaf[1], leaf[2])>>, Len(nodes))
    BY <2>1, LeafWellFormed
  <2>3. QED  BY <1>1, <1>2, <2>2, SingleMakes DEF ApplyCreation
<1>3. ASSUME NEW kind \in Operations \cap UnaryTypes, NEW x \in client, ApplyUnary(kind, x)
      PROVE  Creates
  BY <1>1, <1>3, UnaryWellFormed, SingleMakes DEF ApplyUnary
<1>4. ASSUME NEW x \in client, NEW y \in client, NEW x_expands \in BOOLEAN,
             NEW y_expands \in BOOLEAN, ApplyBinary(x, y, x_expands, y_expands)
      PROVE  Creates
  BY <1>1, <1>4, BinaryMakes
<1>5. ASSUME "ternary" \in Operations, NEW w \in client, NEW x \in client, NEW y \in client,
             NEW x_expands \in BOOLEAN, NEW y_expands \in BOOLEAN,
             NEW w_expands \in BOOLEAN, NEW both_expand \in BOOLEAN,
             ApplyTernary(w, x, y, x_expands, y_expands, w_expands, both_expand)
      PROVE  Creates
  BY <1>1, <1>5, TernaryMakes
<1> HIDE DEF Creates
<1>6. ASSUME NEW flag \in BOOLEAN, WithNoGradient(flag)
      PROVE  UNCHANGED heap /\ UNCHANGED engine /\ failures' = failures
  BY <1>6 DEF WithNoGradient
<1>7. ASSUME NEW x \in client, BackwardRefused(x)
      PROVE  UNCHANGED heap /\ UNCHANGED engine /\ failures' = failures + 1
  BY <1>7 DEF BackwardRefused
<1>8. Idle
  BY DEF Program
<1>9. \/ Creates
      \/ \E t \in client : TensorDestroy(t)
      \/ \E x \in client : \E given : BackwardCall(x, given)
      \/ UNCHANGED heap /\ UNCHANGED engine /\ failures' \in {failures, failures + 1}
  <2>1. CASE \E flag \in BOOLEAN : WithNoGradient(flag)
    BY <2>1, <1>6
  <2>2. CASE \E leaf \in LeafKinds : ApplyCreation(leaf[1], leaf[2])
    BY <2>2, <1>2
  <2>3. CASE \E kind \in Operations \cap UnaryTypes, x \in client : ApplyUnary(kind, x)
    BY <2>3, <1>3
  <2>4. CASE \E x, y \in client, x_expands, y_expands \in BOOLEAN :
               ApplyBinary(x, y, x_expands, y_expands)
    BY <2>4, <1>4
  <2>5. CASE /\ "ternary" \in Operations
             /\ \E w, x, y \in client, x_expands, y_expands, w_expands, both_expand \in BOOLEAN :
                  ApplyTernary(w, x, y, x_expands, y_expands, w_expands, both_expand)
    BY <2>5, <1>5
  <2>6. CASE \E x \in client, given \in {FALSE, MaxFailures > 0} : BackwardCall(x, given)
    BY <2>6
  <2>7. CASE \E x \in client : BackwardRefused(x)
    BY <2>7, <1>7
  <2>8. QED  BY <2>1, <2>2, <2>3, <2>4, <2>5, <2>6, <2>7 DEF Program
<1>10. QED  BY <1>8, <1>9 DEF Creates

LEMMA ProgramGraph == GraphInv /\ Program => GraphInv'
  BY ProgramSteps, CreateGraph, DestroyGraph, CallGraph, WithNoGradientGraph

LEMMA EngineGraph == GraphInv /\ Engine => GraphInv'
  BY SortVisitedGraph, SortDescendGraph, SortPushGraph, SortFailsGraph, SortDoneGraph,
     PropagateGraph, PropagateFailsGraph, ReturnGraph DEF Engine

LEMMA SameGraph == GraphInv /\ UNCHANGED vars => GraphInv'
<1> SUFFICES ASSUME GraphInv, UNCHANGED vars
             PROVE  GraphInv'
  OBVIOUS
<1>1. /\ UNCHANGED heap
      /\ UNCHANGED <<phase, root, frames, visited, tensors, seed>>
  BY DEF vars, engine
<1>2. /\ HeapInv'
      /\ \A s : /\ Reachable(s)' = Reachable(s) /\ Operands(s)' = Operands(s)
                /\ RequiresGradient(s)' = RequiresGradient(s) /\ Persist(s)' = Persist(s)
  BY <1>1, SameHeap, SameNodes DEF GraphInv, heap
<1>3. EngineInv'
  BY <1>1 DEF GraphInv, EngineInv, heap
<1>4. StackInv'
  BY <1>1, <1>2 DEF GraphInv, StackInv, OperandsBelow
<1>5. FramesInv => FramesInv'
  BY <1>1, <1>2 DEF FramesInv, Dealt
<1>6. SortInv' /\ PropagateInv'
  BY <1>1, <1>2, <1>5 DEF GraphInv, SortInv, PropagateInv, heap
<1>7. QED  BY <1>2, <1>3, <1>4, <1>6 DEF GraphInv

LEMMA NextGraph == GraphInv /\ [Next]_vars => GraphInv'
  BY ProgramGraph, EngineGraph, SameGraph DEF Next

-----------------------------------------------------------------------------
(* The theorems. *)

(* The inductive invariant, for graphs of any size and any failures.          *)
THEOREM GraphInvariant == Spec => []GraphInv
  BY InitGraph, NextGraph, PTL DEF Spec

LEMMA SafePointers == GraphInv => NoUseAfterFree
<1> SUFFICES ASSUME GraphInv,
                    NEW t \in ToSet(tensors) \cup {frames[i].tensor : i \in DOMAIN frames}
             PROVE  t \in live /\ ToSet(Operands(t)) \subseteq live
  BY DEF NoUseAfterFree
<1>1. CASE phase = "idle"
  BY <1>1 DEF GraphInv, EngineInv, ToSet
<1>2. CASE phase = "sort"
  <2>1. t \in Reachable(root) /\ Reachable(root) \subseteq live
    BY <1>2 DEF GraphInv, SortInv, FramesInv
  <2>2. Ordered /\ root \in DOMAIN nodes
    BY <1>2 DEF GraphInv, HeapInv, EngineInv
  <2>3. ToSet(Operands(t)) \subseteq Reachable(root)
    BY <2>1, <2>2, ReachableClosed
  <2>4. QED  BY <2>1, <2>3
<1>3. CASE phase = "propagate"
  <2>1. t \in ToSet(tensors) /\ ToSet(tensors) \subseteq live /\ tensors \in Seq(DOMAIN nodes)
    BY <1>3 DEF GraphInv, EngineInv, PropagateInv
  <2>2. PICK i \in DOMAIN tensors : tensors[i] = t
    BY <2>1 DEF ToSet
  <2>3. 1..(i - 1) \subseteq DOMAIN tensors
    <3>1. DOMAIN tensors = 1..Len(tensors) /\ Len(tensors) \in Nat
      BY <2>1
    <3>2. QED  BY <2>2, <3>1
  <2>4. ToSet(Operands(t)) \subseteq {tensors[j] : j \in 1..(i - 1)}
    BY <2>2 DEF GraphInv, StackInv, OperandsBelow
  <2>5. {tensors[j] : j \in 1..(i - 1)} \subseteq ToSet(tensors)
    BY <2>3 DEF ToSet
  <2>6. QED  BY <2>1, <2>4, <2>5
<1>4. QED  BY <1>1, <1>2, <1>3 DEF GraphInv, EngineInv

(* tensor_backward never follows a dangling pointer, whatever the graph, the   *)
(* broadcast copies and the failures: the stack, the calls of the sort and     *)
(* their operands are live, though the pass destroys tensors as it goes.       *)
THEOREM BackwardMemorySafety == Spec => []NoUseAfterFree
  BY GraphInvariant, SafePointers, PTL

(* topological_sort pushes every tensor once, above all of its operands,        *)
(* however the graph shares them.                                              *)
THEOREM TopologicalOrder == Spec => []OperandsBelow
<1>1. GraphInv => OperandsBelow
  BY DEF GraphInv, StackInv
<1>2. QED  BY <1>1, GraphInvariant, PTL

LEMMA GradientsReach == GraphInv => NoNullGradient
<1> SUFFICES ASSUME GraphInv, phase = "propagate", tensors # <<>>, seed[root] > 0,
                    Kind(Last(tensors)) # "none"
             PROVE  gradient[Last(tensors)] > 0
  BY DEF NoNullGradient
<1> DEFINE y == Last(tensors)
<1>1. /\ Ordered /\ root \in DOMAIN nodes /\ visited = Reachable(root)
      /\ gradient[root] > 0
  BY DEF GraphInv, HeapInv, EngineInv, PropagateInv
<1>2. /\ y \in DOMAIN nodes /\ y \in visited
      /\ \A t \in ToSet(tensors) : y \notin ToSet(Operands(t))
  BY TopFacts
<1>3. RequiresGradient(y)
  BY <1>1, <1>2, OrderedFacts DEF Coherent, RequiresGradient, Kind
<1>4. CASE y = root
  BY <1>1, <1>4
<1>5. CASE y # root
  <2>1. PICK z \in Reachable(root) : y \in ToSet(Operands(z))
    BY <1>1, <1>2, <1>5, ReachableUsed
  <2>2. z \in visited \ ToSet(tensors)
    BY <1>1, <1>2, <2>1
  <2>3. QED  BY <1>3, <2>1, <2>2 DEF GraphInv, PropagateInv
<1>6. QED  BY <1>4, <1>5

(* Once the root has a gradient every recorded result that is popped has one:   *)
(* apply_backward never finds a NULL gradient.                                  *)
THEOREM GradientsPresent == Spec => []NoNullGradient
  BY GraphInvariant, GradientsReach, PTL

LEMMA TypesFollow == GraphInv /\ ModeInv /\ FlagInv => TypeOK
<1> SUFFICES ASSUME GraphInv, ModeInv, FlagInv
             PROVE  TypeOK
  OBVIOUS
<1>1. /\ Ordered /\ Len(nodes) <= MaxTensors /\ Len(nodes) \in Nat
      /\ DOMAIN nodes = 1..Len(nodes) /\ nodes \in Seq(MadeNode)
  BY OrderedFacts DEF GraphInv, HeapInv, Ordered, WellFormed
<1>2. DOMAIN nodes \subseteq Tensors
  BY <1>1, BoundsAssumption DEF Tensors
<1>3. ASSUME NEW t \in DOMAIN nodes
      PROVE  nodes[t] \in Node /\ ToSet(Operands(t)) \subseteq 1..(t - 1)
  <2>1. nodes[t] \in MadeNode /\ ToSet(Operands(t)) \subseteq 1..(t - 1) /\ t \in 1..Len(nodes)
    BY <1>1, OrderedFacts
  <2>2. 1..(t - 1) \subseteq Tensors
    BY <1>1, <2>1, BoundsAssumption DEF Tensors
  <2>3. Operands(t) \in Seq(Nat)
    BY <2>1 DEF MadeNode, Operands
  <2>4. \A i \in 1..Len(Operands(t)) : Operands(t)[i] \in Tensors
    BY <2>1, <2>2, <2>3 DEF ToSet
  <2>5. Operands(t) \in Seq(Tensors)
    BY <2>3, <2>4
  <2>6. QED  BY <2>1, <2>5 DEF Node, MadeNode, Operands
<1>4. nodes \in Seq(Node)
  BY <1>1, <1>3
<1>5. /\ tensors \in Seq(Tensors) /\ visited \subseteq Tensors /\ root \in Tensors \cup {0}
      /\ seed \in [Tensors -> Nat]
  <2>1. /\ tensors \in Seq(DOMAIN nodes) /\ visited \subseteq DOMAIN nodes
        /\ root \in DOMAIN nodes \/ root = 0
    BY DEF GraphInv, EngineInv
  <2>2. tensors \in Seq(Tensors)
    BY <1>2, <2>1, SeqMonotonic
  <2>3. QED  BY <1>2, <2>1, <2>2 DEF GraphInv, EngineInv
<1>6. frames \in Seq([tensor : Tensors, next : Nat])
  <2> DEFINE S == [tensor : DOMAIN nodes, next : Nat \ {0}]
             T == [tensor : Tensors, next : Nat]
  <2>1. frames \in Seq(S)
    BY DEF GraphInv, EngineInv
  <2>2. S \subseteq T
    BY <1>2
  <2>3. Seq(S) \subseteq Seq(T)
    <3> HIDE DEF S, T
    <3> QED  BY <2>2, SeqMonotonic
  <2>4. QED  BY <2>1, <2>3
<1>7. no_gradient \in BOOLEAN
  <2>1. previous > 0 \/ previous = 0
    BY BoundsAssumption DEF ModeInv
  <2>2. QED  BY <2>1, Zenon DEF FlagInv
<1>8. depth \in 0..MaxPrevious
  BY BoundsAssumption DEF ModeInv, Running
<1>9. client \subseteq live /\ live \subseteq DOMAIN nodes /\ gradient \in [Tensors -> Nat]
  BY DEF GraphInv, HeapInv
<1>10. previous \in 0..MaxPrevious /\ phase \in {"idle", "sort", "propagate"}
       /\ failures \in 0..(MaxFailures + 1)
  BY DEF ModeInv
<1> HIDE DEF GraphInv, ModeInv, FlagInv
<1>11. QED
  BY <1>1, <1>3, <1>4, <1>5, <1>6, <1>7, <1>8, <1>9, <1>10 DEF TypeOK

(* Type correctness of the engine and of the graph it works on.               *)
THEOREM AutogradTypes == Spec => []TypeOK
<1>1. QED  BY InitFlag, TypesFollow, GraphInvariant, InitMode, NextMode, NextFlag, PTL DEF Spec

-----------------------------------------------------------------------------
(* No tensor is lost.  While no call has failed, what is live is in the        *)
(* program's reach or about to be destroyed by the backward pass.              *)

OrphanInv ==
  failures = 0 =>
    \A t \in live : t \in visited \/ \E c \in client : t \in Reachable(c)

ClosedReach ==
  \A t \in DOMAIN nodes :
    /\ t \in Reachable(t)
    /\ Reachable(t) \subseteq 1..t
    /\ \A y \in Reachable(t) : ToSet(Operands(y)) \subseteq Reachable(t)

LEMMA ClosedNow == Ordered => ClosedReach
  BY ReachableClosed DEF ClosedReach

LEMMA ClosedNext == Ordered' => ClosedReach'
  BY ClosedNow, PTL

(* A new result reaches its expanded copies, and older results what they did.  *)
LEMMA CreateReaches ==
  ASSUME GraphInv, GraphInv', NEW new, Create(new), Makes(new), Used(new, Len(nodes))
  PROVE  /\ \A c \in DOMAIN nodes : Reachable(c) \subseteq Reachable(c)'
         /\ \A i \in 1..Len(new) :
              Len(nodes) + i \in (Reachable(Len(nodes)))'
         /\ Len(nodes') = Len(nodes) + Len(new)
<1> DEFINE n == Len(nodes)
           m == Len(new)
<1>1. /\ nodes \in Seq(MadeNode) /\ new \in Seq(MadeNode) /\ n \in Nat /\ m \in Nat \ {0}
      /\ DOMAIN nodes = 1..n /\ DOMAIN new = 1..m /\ nodes' = nodes \o new
  BY DEF GraphInv, HeapInv, Ordered, WellFormed, Makes, Create
<1>2. /\ Len(nodes') = n + m /\ DOMAIN nodes' = 1..(n + m)
      /\ \A i \in 1..(n + m) : nodes'[i] = IF i <= n THEN nodes[i] ELSE new[i - n]
  BY <1>1, ConcatProperties
<1>3. Ordered /\ ClosedReach'
  BY ClosedNext DEF GraphInv, HeapInv
<1> HIDE DEF n, m
<1>4. ASSUME NEW c \in DOMAIN nodes
      PROVE  Reachable(c) \subseteq Reachable(c)'
  <2>1. c \in 1..n /\ c \in 1..(n + m)
    BY <1>1
  <2>2. c \in DOMAIN nodes'
    BY <1>2, <2>1
  <2>3. /\ c \in Reachable(c)' /\ Reachable(c)' \subseteq 1..c
        /\ \A y \in Reachable(c)' : ToSet(Operands(y)') \subseteq Reachable(c)'
    BY <1>3, <2>2 DEF ClosedReach
  <2>4. \A y \in Reachable(c)' : Operands(y)' = Operands(y)
    <3>1. \A y \in 1..c : y \in 1..(n + m) /\ y <= n
      BY <1>1, <2>1
    <3>2. QED  BY <1>2, <2>3, <3>1 DEF Operands
  <2>5. \A y \in Reachable(c)' : ToSet(Operands(y)) \subseteq Reachable(c)'
    BY <2>3, <2>4
  <2>6. QED  BY <1>3, <2>3, <2>5, ReachableLeast
<1>5. \A i \in 1..m : n + i \in (Reachable(Len(nodes)))'
  <2> DEFINE R == Reachable(Len(nodes))'
             Bad == {d \in 0..(m - 1) : n + (m - d) \notin R}
  <2>1. n + m \in DOMAIN nodes' /\ Len(nodes') = n + m
    BY <1>1, <1>2
  <2>2. n + m \in R /\ \A y \in R : ToSet(Operands(y)') \subseteq R
    BY <1>3, <2>1 DEF ClosedReach
  <2> HIDE DEF R
  <2>3. Bad = {}
    <3> SUFFICES ASSUME Bad # {}
                 PROVE  FALSE
      OBVIOUS
    <3>1. PICK d \in Bad : \A e \in Bad : d <= e
      <4>1. Bad \subseteq Nat
        BY <1>1
      <4> HIDE DEF Bad
      <4>2. QED  BY <4>1, LeastElement
    <3>2. d \in 0..(m - 1) /\ d # 0
      BY <1>1, <2>2, <3>1
    <3>3. m - d \in 1..m /\ m - d # m /\ m - d \in Nat
      BY <1>1, <3>2
    <3>4. PICK j \in 1..m : m - d < j /\ n + (m - d) \in ToSet(new[j].operands)
      BY <1>1, <3>3 DEF Used, n, m
    <3>5. m - j \in 0..(m - 1) /\ m - j < d /\ m - (m - j) = j
      BY <1>1, <3>2, <3>3, <3>4
    <3>6. n + j \in R
      <4>1. m - j \notin Bad
        BY <3>1, <3>2, <3>5
      <4>2. QED  BY <3>5, <4>1
    <3>7. nodes'[n + j] = new[j]
      <4> DEFINE p == n + j
      <4>1. p \in 1..(n + m) /\ ~(p <= n) /\ p - n = j
        BY <1>1, <3>4
      <4> HIDE DEF p
      <4>2. nodes'[p] = IF p <= n THEN nodes[p] ELSE new[p - n]
        BY <1>2, <4>1
      <4>3. nodes'[p] = new[j]
        BY <4>1, <4>2
      <4>4. QED  BY <4>3 DEF p
    <3>8. n + (m - d) \in R
      BY <2>2, <3>4, <3>6, <3>7 DEF Operands
    <3>9. QED  BY <3>1, <3>8
  <2>4. \A i \in 1..m : m - i \in 0..(m - 1) /\ n + (m - (m - i)) = n + i
    BY <1>1
  <2>5. \A i \in 1..m : n + i \in R
    BY <2>3, <2>4
  <2>6. QED  BY <2>5 DEF R
<1>6. QED  BY <1>2, <1>4, <1>5 DEF n, m

LEMMA CreateOrphans ==
  ASSUME GraphInv, GraphInv', OrphanInv, Idle, NEW new,
         Create(new), Makes(new), Used(new, Len(nodes))
  PROVE  OrphanInv'
<1> SUFFICES ASSUME failures' = 0, NEW t \in live'
             PROVE  \E c \in client' : t \in Reachable(c)'
  BY DEF OrphanInv
<1>1. /\ failures = 0 /\ visited = {} /\ client \subseteq DOMAIN nodes
      /\ Len(nodes) \in Nat /\ Len(new) \in Nat
      /\ live' = live \cup (Len(nodes) + 1)..(Len(nodes) + Len(new))
      /\ client' = client \cup {Len(nodes) + Len(new)}
  BY OrderedFacts DEF GraphInv, HeapInv, EngineInv, Idle, Create, Makes
<1>2. /\ \A c \in DOMAIN nodes : Reachable(c) \subseteq Reachable(c)'
      /\ \A i \in 1..Len(new) : Len(nodes) + i \in (Reachable(Len(nodes)))'
      /\ Len(nodes') = Len(nodes) + Len(new)
  BY CreateReaches
<1>3. CASE t \in live
  BY <1>1, <1>2, <1>3 DEF OrphanInv
<1>4. CASE t \in (Len(nodes) + 1)..(Len(nodes) + Len(new))
  <2>1. t - Len(nodes) \in 1..Len(new) /\ Len(nodes) + (t - Len(nodes)) = t
    BY <1>1, <1>4
  <2>2. t \in (Reachable(Len(nodes)))'
    BY <1>2, <2>1
  <2>3. Len(nodes') \in client'
    BY <1>1, <1>2
  <2>4. QED  BY <2>2, <2>3
<1>5. QED  BY <1>1, <1>3, <1>4

LEMMA DestroyOrphans ==
  ASSUME GraphInv, OrphanInv, Idle, NEW t \in client, TensorDestroy(t)
  PROVE  OrphanInv'
<1> SUFFICES ASSUME failures' = 0, NEW s \in live'
             PROVE  \E c \in client' : s \in Reachable(c)'
  BY DEF OrphanInv
<1>1. /\ failures = 0 /\ visited = {} /\ s \in live /\ s # t
      /\ Ordered /\ t \in DOMAIN nodes /\ client' = client \ {t}
  BY DEF GraphInv, HeapInv, EngineInv, Idle, TensorDestroy
<1>2. Reachable(t) = {t}
  <2>1. Operands(t) = <<>>
    BY <1>1, OrderedFacts DEF Coherent, Operands, Kind, TensorDestroy
  <2>2. ToSet(Operands(t)) = {}
    BY <2>1 DEF ToSet
  <2>3. QED  BY <1>1, <2>2, ReachableUnfolds
<1>3. \A c : Reachable(c)' = Reachable(c)
  BY SameNodes DEF TensorDestroy
<1>4. QED  BY <1>1, <1>2, <1>3 DEF OrphanInv

(* A step that leaves the program's tensors alone and visits more of them.     *)
LEMMA VisitOrphans ==
  ASSUME OrphanInv, nodes' = nodes, live' = live, client' = client,
         visited \subseteq visited', failures' = 0 => failures = 0
  PROVE  OrphanInv'
<1>1. \A c : Reachable(c)' = Reachable(c)
  BY SameNodes
<1>2. QED  BY <1>1 DEF OrphanInv

(* What only a destroyed tensor reached is in the graph, to be destroyed too.  *)
LEMMA PropagateOrphans ==
  ASSUME GraphInv, OrphanInv, Propagate
  PROVE  OrphanInv'
<1> DEFINE y == Last(tensors)
<1> SUFFICES ASSUME failures' = 0, NEW t \in live', t \notin visited'
             PROVE  \E c \in client' : t \in Reachable(c)'
  BY DEF OrphanInv
<1>1. /\ failures = 0 /\ t \in live /\ t \notin visited /\ nodes' = nodes
      /\ client \ {y} \subseteq client' /\ phase = "propagate"
  BY DEF Propagate, DestroyedAfter
<1>2. PICK c \in client : t \in Reachable(c)
  BY <1>1 DEF OrphanInv
<1>3. /\ Ordered /\ y \in visited /\ y \in DOMAIN nodes /\ root \in DOMAIN nodes
      /\ visited = Reachable(root)
  BY TopFacts DEF GraphInv, HeapInv, EngineInv, PropagateInv, Propagate
<1> HIDE DEF y
<1>4. Reachable(y) \subseteq visited
  <2>1. \A z \in visited : ToSet(Operands(z)) \subseteq visited
    BY <1>3, ReachableClosed
  <2>2. QED  BY <1>3, <2>1, ReachableLeast
<1>5. c # y
  BY <1>1, <1>2, <1>4
<1>6. Reachable(c)' = Reachable(c)
  BY <1>1, SameNodes
<1>7. QED  BY <1>1, <1>2, <1>5, <1>6

(* When the stack is empty, what is left of the graph persists, and so is in    *)
(* the program's hands.                                                        *)
LEMMA DoneOrphans ==
  ASSUME GraphInv, OrphanInv, BackwardDone, failures' = 0 => failures = 0
  PROVE  OrphanInv'
<1> SUFFICES ASSUME failures' = 0, NEW t \in live'
             PROVE  \E c \in client' : t \in Reachable(c)'
  BY DEF OrphanInv
<1>1. /\ nodes' = nodes /\ live' = live /\ client' = client /\ failures = 0
      /\ phase = "propagate" /\ tensors = <<>> /\ t \in live
  BY DEF BackwardDone, heap
<1>2. \A c : Reachable(c)' = Reachable(c)
  BY <1>1, SameNodes
<1>3. CASE t \in visited
  <2>1. t \notin ToSet(tensors)
    BY <1>1 DEF ToSet
  <2>2. Persist(t)
    BY <1>1, <1>3, <2>1 DEF GraphInv, PropagateInv
  <2>3. t \in client /\ t \in DOMAIN nodes /\ Ordered
    BY <1>1, <2>2 DEF GraphInv, HeapInv
  <2>4. t \in Reachable(t)
    BY <2>3, ReachableClosed
  <2>5. QED  BY <1>1, <1>2, <2>3, <2>4
<1>4. CASE t \notin visited
  BY <1>1, <1>2, <1>4 DEF OrphanInv
<1>5. QED  BY <1>3, <1>4

LEMMA NextOrphans ==
  ASSUME "ternary" \notin Operations
  PROVE  GraphInv /\ GraphInv' /\ ModeInv /\ OrphanInv /\ [Next]_vars => OrphanInv'
<1> SUFFICES ASSUME GraphInv, GraphInv', ModeInv, OrphanInv, [Next]_vars
             PROVE  OrphanInv'
  OBVIOUS
<1>1. failures \in Nat
  BY MaxFailuresAssumption DEF ModeInv
<1>2. ASSUME Program
      PROVE  OrphanInv'
  <2>1. ASSUME NEW new, Create(new), Makes(new), Used(new, Len(nodes)), Idle
        PROVE  OrphanInv'
    BY <2>1, CreateOrphans
  <2>2. ASSUME NEW x \in client, NEW given, BackwardCall(x, given)
        PROVE  OrphanInv'
    BY <2>2, VisitOrphans DEF BackwardCall
  <2>3. ASSUME UNCHANGED heap, UNCHANGED engine, failures' \in {failures, failures + 1}
        PROVE  OrphanInv'
    <3>1. failures' = 0 => failures = 0
      BY <1>1, <2>3
    <3>2. QED  BY <2>3, <3>1, VisitOrphans DEF heap, engine
  <2>4. QED  BY <1>2, <2>1, <2>2, <2>3, ProgramSteps, DestroyOrphans
<1>3. CASE SortVisited \/ SortDescend \/ SortPush \/ SortDone
  <2>1. /\ nodes' = nodes /\ live' = live /\ client' = client
        /\ visited \subseteq visited' /\ failures' = failures
    BY <1>3 DEF SortVisited, SortDescend, SortPush, SortDone, heap
  <2>2. QED  BY <2>1, VisitOrphans
<1>4. ASSUME Cleanup(TRUE)
      PROVE  OrphanInv'
  <2>1. failures' # 0
    BY <1>1, <1>4 DEF Cleanup
  <2>2. QED  BY <2>1 DEF OrphanInv
<1>5. CASE SortFails \/ PropagateNull
  BY <1>4, <1>5 DEF SortFails, PropagateNull, BackwardReturns
<1>6. ASSUME NEW n, NEW in_as_tensor \in BOOLEAN, PropagateFails(n, in_as_tensor)
      PROVE  OrphanInv'
  BY <1>4, <1>6 DEF PropagateFails, BackwardReturns
<1>7. CASE Propagate
  BY <1>7, PropagateOrphans
<1>8. CASE BackwardDone
  <2>1. failures' = failures
    BY <1>1, <1>8 DEF BackwardDone, BackwardReturns, Cleanup
  <2>2. QED  BY <1>8, <2>1, DoneOrphans
<1>9. CASE UNCHANGED vars
  BY <1>9, VisitOrphans DEF vars, heap, engine
<1>10. QED
  BY <1>2, <1>3, <1>5, <1>6, <1>7, <1>8, <1>9 DEF Next, Engine

(* Without ternary operations, and while no call fails, the library loses no    *)
(* tensor: what the program cannot reach when a call returns has been           *)
(* destroyed, expanded copies included.                                        *)
THEOREM NothingLeaks ==
  ASSUME "ternary" \notin Operations
  PROVE  Spec => []NoOrphans
<1>1. Init => OrphanInv
  BY DEF Init, OrphanInv
<1>2. GraphInv /\ OrphanInv => NoOrphans
  <2> SUFFICES ASSUME GraphInv, OrphanInv, phase = "idle", failures = 0
               PROVE  live \subseteq UNION {Reachable(c) : c \in client}
    BY DEF NoOrphans
  <2>1. visited = {}
    BY DEF GraphInv, EngineInv
  <2>2. QED  BY <2>1 DEF OrphanInv
<1>3. QED
  BY <1>1, <1>2, InitGraph, NextGraph, InitMode, NextMode, NextOrphans, PTL DEF Spec

-----------------------------------------------------------------------------
(* The gradients are complete when they are passed on.  FullGradient sums over  *)
(* the tensors computed from t; its facts come from the lemmas about sums of    *)
(* FoldFacts, and SharesInv says how much of that sum has been paid so far.     *)

(* How often y adds its gradient to t's. *)
Edges(t, y) == Cardinality(Places(t, y, Len(Operands(y))))

Users(t) == {y \in visited : y > t /\ t \in ToSet(Operands(y))}

(* What the definition of FullGradient takes for t, given f for its users. *)
FullStep(f, t) == seed[t] + SumFunction([y \in Users(t) |-> Edges(t, y) * f[y]])

LEMMA EdgesFacts ==
  ASSUME HeapInv, NEW y \in DOMAIN nodes, NEW t
  PROVE  /\ Edges(t, y) \in Nat
         /\ t \notin ToSet(Operands(y)) => Edges(t, y) = 0
<1>1. Operands(y) \in Seq(Nat)
  BY OrderedFacts DEF HeapInv, MadeNode, Operands
<1>2. Len(Operands(y)) \in Nat /\ DOMAIN Operands(y) = 1..Len(Operands(y))
  BY <1>1
<1>3. IsFiniteSet(1..Len(Operands(y)))
  BY <1>2, FS_Interval
<1>4. IsFiniteSet(Places(t, y, Len(Operands(y))))
  BY <1>2, <1>3, FS_Subset DEF Places
<1>5. t \notin ToSet(Operands(y)) => Places(t, y, Len(Operands(y))) = {}
  BY DEF Places, ToSet
<1>6. QED  BY <1>4, <1>5, FS_CardinalityType, FS_EmptySet DEF Edges

LEMMA NodesFacts ==
  ASSUME HeapInv
  PROVE  /\ DOMAIN nodes = 1..Len(nodes) /\ Len(nodes) \in Nat
         /\ DOMAIN nodes \subseteq Tensors
<1>1. Ordered /\ Len(nodes) <= MaxTensors
  BY DEF HeapInv
<1>2. DOMAIN nodes = 1..Len(nodes) /\ Len(nodes) \in Nat
  BY <1>1, OrderedFacts
<1>3. QED  BY <1>1, <1>2, BoundsAssumption DEF Tensors

LEMMA UsersFacts ==
  ASSUME HeapInv, EngineInv, NEW t \in Tensors
  PROVE  /\ visited \subseteq DOMAIN nodes /\ DOMAIN nodes \subseteq Tensors
         /\ IsFiniteSet(visited) /\ IsFiniteSet(Users(t))
         /\ \A y \in visited : y \in Tensors /\ Edges(t, y) \in Nat
         /\ \A y \in visited : t \in ToSet(Operands(y)) => y > t
<1>1. visited \subseteq DOMAIN nodes /\ Ordered
  BY DEF HeapInv, EngineInv
<1>2. DOMAIN nodes = 1..Len(nodes) /\ Len(nodes) \in Nat
  BY NodesFacts
<1>3. DOMAIN nodes \subseteq Tensors
  BY NodesFacts
<1>4. IsFiniteSet(Tensors)
  BY BoundsAssumption, FS_Interval DEF Tensors
<1>5. IsFiniteSet(visited) /\ IsFiniteSet(Users(t))
  <2>1. visited \in SUBSET Tensors /\ Users(t) \in SUBSET Tensors
    BY <1>1, <1>3 DEF Users
  <2>2. QED  BY <1>4, <2>1, FS_Subset
<1>6. \A y \in visited : y \in Tensors /\ Edges(t, y) \in Nat
  BY <1>1, <1>3, EdgesFacts
<1>7. ASSUME NEW y \in visited, t \in ToSet(Operands(y))
      PROVE  y > t
  <2>1. t \in 1..(y - 1) /\ y \in 1..Len(nodes)
    BY <1>1, <1>2, <1>7, OrderedFacts
  <2>2. QED  BY <1>2, <2>1
<1>8. QED  BY <1>1, <1>3, <1>5, <1>6, <1>7

(* Users are younger than their operands, so the recursion defines a function. *)
LEMMA FullExists ==
  ASSUME HeapInv, EngineInv
  PROVE  \E f : f = [t \in Tensors |-> FullStep(f, t)]
<1> DEFINE Latest(n) == (MaxTensors - n + 1)..MaxTensors
           Defined(n) == \E f : f = [t \in Latest(n) |-> FullStep(f, t)]
           Missing == {n \in 0..MaxTensors : ~Defined(n)}
<1>1. MaxTensors \in Nat
  BY BoundsAssumption
<1>2. ASSUME NEW n \in 0..(MaxTensors - 1), Defined(n)
      PROVE  Defined(n + 1)
  <2> DEFINE m == MaxTensors - n
  <2>1. PICK f : f = [t \in Latest(n) |-> FullStep(f, t)]
    BY <1>2
  <2> DEFINE g == [t \in Latest(n + 1) |-> IF t = m THEN FullStep(f, m) ELSE f[t]]
  <2>2. /\ m \in Tensors /\ m \in Latest(n + 1) /\ Latest(n + 1) \subseteq Tensors
        /\ \A t \in Latest(n + 1) : t = m \/ t \in Latest(n)
        /\ m \notin Latest(n)
        /\ \A t \in Latest(n + 1), y \in Tensors : y > t => y \in Latest(n) /\ y \in Latest(n + 1)
    BY <1>1 DEF Tensors
  <2>3. \A t \in Latest(n + 1) : g[t] = FullStep(f, t)
    <3> HIDE DEF Latest, m
    <3> QED  BY <2>1, <2>2
  <2>4. \A t \in Latest(n + 1) : FullStep(g, t) = FullStep(f, t)
    <3> SUFFICES ASSUME NEW t \in Latest(n + 1)
                 PROVE  FullStep(g, t) = FullStep(f, t)
      OBVIOUS
    <3>1. \A y \in Users(t) : y \in Tensors /\ y > t
      BY <2>2, UsersFacts DEF Users
    <3>2. \A y \in Users(t) : g[y] = f[y]
      <4>1. \A y \in Users(t) : y \in Latest(n) /\ y \in Latest(n + 1)
        BY <2>2, <3>1
      <4> HIDE DEF Latest, m
      <4>2. \A y \in Users(t) : y # m
        BY <2>2, <4>1
      <4>3. QED  BY <4>1, <4>2
    <3> HIDE DEF g
    <3>3. [y \in Users(t) |-> Edges(t, y) * g[y]] = [y \in Users(t) |-> Edges(t, y) * f[y]]
      BY <3>2
    <3>4. QED  BY <3>3 DEF FullStep
  <2>5. g = [t \in Latest(n + 1) |-> FullStep(g, t)]
    <3>1. \A t \in Latest(n + 1) : g[t] = FullStep(g, t)
      BY <2>3, <2>4
    <3> HIDE DEF Latest, m
    <3>2. g = [t \in Latest(n + 1) |-> g[t]]
      OBVIOUS
    <3> HIDE DEF g
    <3>3. QED  BY <3>1, <3>2
  <2> HIDE DEF g
  <2>6. QED  BY <2>5
<1>3. Defined(0)
  <2> DEFINE f == [t \in {} |-> 0]
  <2>1. Latest(0) = {}
    BY <1>1
  <2>2. f = [t \in Latest(0) |-> FullStep(f, t)]
    BY <2>1
  <2> HIDE DEF f
  <2>3. QED  BY <2>2
<1>4. Missing = {}
  <2> HIDE DEF Defined
  <2> SUFFICES ASSUME Missing # {}
               PROVE  FALSE
    OBVIOUS
  <2>1. PICK n \in Missing : \A i \in Missing : n <= i
    <3> Missing \subseteq Nat OBVIOUS
    <3> HIDE DEF Missing
    <3> QED  BY LeastElement
  <2>2. n # 0
    BY <1>3, <2>1
  <2>3. n - 1 \in 0..(MaxTensors - 1) /\ (n - 1) + 1 = n /\ ~(n <= n - 1)
    BY <1>1, <2>1, <2>2
  <2>4. n - 1 \in 0..MaxTensors /\ n - 1 \notin Missing
    BY <1>1, <2>1, <2>3
  <2>5. Defined(n - 1)
    BY <2>4
  <2>6. QED  BY <1>2, <2>1, <2>3, <2>5
<1>5. Defined(MaxTensors)
  <2> HIDE DEF Defined
  <2> QED  BY <1>1, <1>4
<1>6. Latest(MaxTensors) = Tensors
  BY <1>1 DEF Tensors
<1> HIDE DEF Latest
<1>7. QED  BY <1>5, <1>6

(* What y adds to t's gradient if its own is full. *)
Share(t) == [y \in Tensors |-> Edges(t, y) * FullGradient[y]]

LEMMA FullUnfolds ==
  ASSUME HeapInv, EngineInv
  PROVE  \A t \in Tensors : FullGradient[t] = FullStep(FullGradient, t)
<1> DEFINE Defines(f) == f = [t \in Tensors |-> FullStep(f, t)]
<1>1. \E f : Defines(f)
  BY FullExists
<1>2. Defines(CHOOSE f : Defines(f))
  <2> HIDE DEF Defines
  <2> QED  BY <1>1
<1>3. FullGradient = CHOOSE f : Defines(f)
  BY DEF FullGradient, FullStep, Users, Edges
<1>4. FullGradient = [t \in Tensors |-> FullStep(FullGradient, t)]
  BY <1>2, <1>3
<1>5. QED  BY <1>4

(* The sum in a step, over any set of users: the functions summed agree with   *)
(* Share(t) there.                                                            *)
LEMMA ShareSum ==
  ASSUME HeapInv, EngineInv, \A y \in Tensors : FullGradient[y] \in Nat, NEW t \in Tensors
  PROVE  FullGradient[t] = seed[t] + SumFunctionOnSet(Share(t), Users(t))
<1> DEFINE f == [y \in Users(t) |-> Edges(t, y) * FullGradient[y]]
<1>1. \A y \in Users(t) : f[y] \in Int /\ Share(t)[y] = f[y]
  <2>1. \A y \in Users(t) : y \in Tensors /\ Edges(t, y) \in Nat
    BY UsersFacts DEF Users
  <2> HIDE DEF HeapInv, EngineInv
  <2>2. \A y \in Users(t) : f[y] = Edges(t, y) * FullGradient[y]
    OBVIOUS
  <2>3. \A y \in Users(t) : Share(t)[y] = Edges(t, y) * FullGradient[y]
    BY <2>1 DEF Share
  <2>4. \A y \in Users(t) : Edges(t, y) * FullGradient[y] \in Int
    BY <2>1
  <2> HIDE DEF f
  <2>5. QED  BY <2>2, <2>3, <2>4
<1>2. DOMAIN f = Users(t)
  OBVIOUS
<1>3. SumFunction(f) = SumFunctionOnSet(f, Users(t))
  BY <1>2 DEF SumFunction, SumFunctionOnSet, FoldFunction
<1> HIDE DEF f
<1>4. SumFunctionOnSet(f, Users(t)) = SumFunctionOnSet(Share(t), Users(t))
  BY <1>1, UsersFacts, SumEqual
<1>5. FullGradient[t] = seed[t] + SumFunction(f)
  BY FullUnfolds DEF FullStep, f
<1>6. QED  BY <1>3, <1>4, <1>5

(* Full gradients are natural numbers: those of the users are.                 *)
LEMMA FullNat ==
  ASSUME HeapInv, EngineInv
  PROVE  \A t \in Tensors : FullGradient[t] \in Nat
<1> DEFINE Bad == {n \in 0..MaxTensors : \E t \in Tensors : t = MaxTensors - n
                                                            /\ FullGradient[t] \notin Nat}
<1>1. MaxTensors \in Nat
  BY BoundsAssumption
<1>2. Bad = {}
  <2> SUFFICES ASSUME Bad # {}
               PROVE  FALSE
    OBVIOUS
  <2>1. PICK n \in Bad : \A i \in Bad : n <= i
    <3> Bad \subseteq Nat OBVIOUS
    <3> HIDE DEF Bad
    <3> QED  BY LeastElement
  <2> DEFINE t == MaxTensors - n
  <2>2. t \in Tensors /\ FullGradient[t] \notin Nat
    BY <2>1
  <2>3. ASSUME NEW y \in Tensors, y > t
        PROVE  FullGradient[y] \in Nat
    <3>1. MaxTensors - y \in 0..MaxTensors /\ ~(n <= MaxTensors - y)
          /\ y = MaxTensors - (MaxTensors - y)
      BY <1>1, <2>1, <2>2, <2>3 DEF Tensors
    <3>2. MaxTensors - y \notin Bad
      BY <2>1, <3>1
    <3> DEFINE i == MaxTensors - y
    <3>3. i \in 0..MaxTensors /\ y = MaxTensors - i /\ i \notin Bad
      BY <3>1, <3>2
    <3> HIDE DEF i
    <3>4. QED  BY <2>3, <3>3
  <2> DEFINE f == [y \in Users(t) |-> Edges(t, y) * FullGradient[y]]
  <2> HIDE DEF t
  <2>4. \A y \in Users(t) : f[y] \in Nat
    <3>1. \A y \in Users(t) : y \in Tensors /\ y > t /\ Edges(t, y) \in Nat
      BY <2>2, UsersFacts DEF Users
    <3>2. \A y \in Users(t) : Edges(t, y) \in Nat /\ FullGradient[y] \in Nat
      BY <2>3, <3>1
    <3>3. QED  BY <3>2
  <2>5. DOMAIN f = Users(t)
    OBVIOUS
  <2>6. SumFunction(f) = SumFunctionOnSet(f, Users(t))
    BY <2>5 DEF SumFunction, SumFunctionOnSet, FoldFunction
  <2>7. FullGradient[t] = seed[t] + SumFunction(f)
    BY <2>2, FullUnfolds DEF FullStep
  <2> HIDE DEF f
  <2>8. SumFunction(f) \in Nat
    BY <2>2, <2>4, <2>6, UsersFacts, SumNat
  <2>9. seed[t] \in Nat
    BY <2>2 DEF EngineInv
  <2>10. QED  BY <2>2, <2>7, <2>8, <2>9
<1>3. ASSUME NEW t \in Tensors
      PROVE  FullGradient[t] \in Nat
  <2> DEFINE n == MaxTensors - t
  <2>1. n \in 0..MaxTensors /\ t = MaxTensors - n
    BY <1>1 DEF Tensors
  <2>2. n \notin Bad
    BY <1>2
  <2> HIDE DEF n
  <2>3. QED  BY <2>1, <2>2
<1>4. QED  BY <1>3

(* The users of t that have been popped, whose share t has. *)
Paid(t) == {y \in visited \ ToSet(tensors) : t \in ToSet(Operands(y))}

(* While gradients are propagated, every tensor has its seed and the full      *)
(* share of each of its users that was popped, and nothing else.               *)
SharesInv ==
  phase = "propagate" =>
    \A t \in Tensors : gradient[t] = seed[t] + SumFunctionOnSet(Share(t), Paid(t))

LEMMA PaidFacts ==
  ASSUME HeapInv, EngineInv, NEW t \in Tensors
  PROVE  /\ IsFiniteSet(Paid(t)) /\ Paid(t) \subseteq Users(t)
         /\ \A y \in visited : Share(t)[y] \in Int
         /\ (\A z \in ToSet(tensors) : t \notin ToSet(Operands(z))) => Paid(t) = Users(t)
<1>1. /\ IsFiniteSet(visited) /\ \A y \in visited : y \in Tensors /\ Edges(t, y) \in Nat
      /\ \A y \in visited : t \in ToSet(Operands(y)) => y > t
  BY UsersFacts
<1>2. IsFiniteSet(Paid(t))
  <2>1. Paid(t) \in SUBSET visited
    BY DEF Paid
  <2>2. QED  BY <1>1, <2>1, FS_Subset
<1>3. \A y \in visited : Share(t)[y] \in Int
  <2>1. \A y \in visited : y \in Tensors /\ Edges(t, y) \in Nat /\ FullGradient[y] \in Nat
    BY <1>1, FullNat
  <2>2. QED  BY <2>1 DEF Share
<1>4. QED  BY <1>1, <1>2, <1>3 DEF Paid, Users

(* A tensor whose users are all popped has its full gradient.                  *)
LEMMA AllPaid ==
  ASSUME HeapInv, EngineInv, SharesInv, phase = "propagate", NEW t \in Tensors,
         \A z \in ToSet(tensors) : t \notin ToSet(Operands(z))
  PROVE  gradient[t] = FullGradient[t]
<1>1. Paid(t) = Users(t)
  BY PaidFacts
<1>2. FullGradient[t] = seed[t] + SumFunctionOnSet(Share(t), Users(t))
  BY FullNat, ShareSum
<1>3. QED  BY <1>1, <1>2 DEF SharesInv

LEMMA SortDoneShares ==
  ASSUME GraphInv, SortDone
  PROVE  SharesInv'
<1>1. /\ gradient' = gradient /\ seed' = seed /\ tensors' = tensors /\ visited' = visited
      /\ gradient = seed /\ ToSet(tensors) = visited /\ seed \in [Tensors -> Nat]
  BY DEF GraphInv, SortInv, EngineInv, SortDone, heap
<1>2. \A t \in Tensors : Paid(t)' = {}
  BY <1>1 DEF Paid
<1>3. \A t \in Tensors : gradient[t] = seed[t] + 0
  BY <1>1
<1>4. \A t \in Tensors : SumFunctionOnSet(Share(t)', {}) = 0
  BY SumEmpty
<1>5. QED  BY <1>1, <1>2, <1>3, <1>4 DEF SharesInv

LEMMA PropagateShares ==
  ASSUME GraphInv, SharesInv, Propagate
  PROVE  SharesInv'
<1> DEFINE y == Last(tensors)
<1>1. /\ y \in DOMAIN nodes /\ y \in visited
      /\ ToSet(tensors) = ToSet(Front(tensors)) \cup {y}
      /\ y \notin ToSet(Front(tensors))
      /\ \A z \in ToSet(tensors) : y \notin ToSet(Operands(z))
  BY TopFacts DEF Propagate
<1> HIDE DEF y
<1>2. /\ phase = "propagate"
      /\ gradient' = IF Kind(y) # "none" THEN Accumulate(y, Len(Operands(y))) ELSE gradient
      /\ tensors' = Front(tensors)
      /\ UNCHANGED <<nodes, visited, seed>>
  BY DEF Propagate, y
<1>3. HeapInv /\ EngineInv
  BY DEF GraphInv
<1>4. y \in Tensors
  BY <1>1, <1>3, NodesFacts
<1>5. gradient[y] = FullGradient[y]
  BY <1>1, <1>2, <1>3, <1>4, AllPaid
<1>6. Kind(y) = "none" => Operands(y) = <<>>
  BY <1>1, <1>3, OrderedFacts DEF HeapInv, Coherent, Operands, Kind
<1>7. ASSUME NEW t \in Tensors
      PROVE  gradient'[t] = gradient[t] + Edges(t, y) * gradient[y]
  <2>1. CASE Kind(y) # "none"
    <3>1. gradient' = Accumulate(y, Len(Operands(y)))
      BY <1>2, <2>1
    <3>2. QED  BY <3>1 DEF Accumulate, Edges
  <2>2. CASE Kind(y) = "none"
    <3>1. t \notin ToSet(Operands(y))
      BY <1>6, <2>2 DEF ToSet
    <3>2. Edges(t, y) = 0
      BY <1>1, <1>3, <3>1, EdgesFacts
    <3>3. gradient[t] \in Nat /\ gradient[y] \in Nat
      BY <1>3, <1>4 DEF HeapInv
    <3>4. QED  BY <1>2, <2>2, <3>2, <3>3
  <2>3. QED  BY <2>1, <2>2
<1>8. \A t : Share(t)' = Share(t)
  BY <1>2 DEF Share, FullGradient, Edges, Places, Operands, RequiresGradient
<1>9. ASSUME NEW t \in Tensors
      PROVE  gradient'[t] = seed'[t] + SumFunctionOnSet(Share(t)', Paid(t)')
  <2> DEFINE sum == SumFunctionOnSet(Share(t), Paid(t))
  <2>1. gradient[t] = seed[t] + sum /\ seed[t] \in Nat
    BY <1>2, <1>3 DEF SharesInv, EngineInv
  <2>2. IsFiniteSet(Paid(t)) /\ \A z \in visited : Share(t)[z] \in Int
    BY <1>3, PaidFacts
  <2>3. sum \in Int
    <3>1. Paid(t) \subseteq visited
      BY DEF Paid
    <3>2. QED  BY <2>2, <3>1, SumType
  <2>4. Paid(t)' = {z \in visited \ ToSet(Front(tensors)) : t \in ToSet(Operands(z))}
    BY <1>2 DEF Paid, Operands
  <2>5. CASE t \in ToSet(Operands(y))
    <3>1. Paid(t)' = Paid(t) \cup {y} /\ y \notin Paid(t) /\ Paid(t) \subseteq visited
      BY <1>1, <2>4, <2>5 DEF Paid
    <3>2. SumFunctionOnSet(Share(t), Paid(t) \cup {y}) = Share(t)[y] + sum
      BY <1>1, <2>2, <3>1, SumAdd
    <3>3. Share(t)[y] = Edges(t, y) * gradient[y] /\ Share(t)[y] \in Int
      BY <1>1, <1>4, <1>5, <2>2 DEF Share
    <3> DEFINE share == Share(t)[y]
    <3>4. gradient'[t] = gradient[t] + share
      BY <1>7, <3>3
    <3>5. seed[t] + (share + sum) = (seed[t] + sum) + share
      BY <2>1, <2>3, <3>3
    <3>6. QED  BY <1>2, <1>8, <2>1, <3>1, <3>2, <3>4, <3>5
  <2>6. CASE t \notin ToSet(Operands(y))
    <3>1. Paid(t)' = Paid(t)
      BY <1>1, <2>4, <2>6 DEF Paid
    <3>2. Edges(t, y) = 0
      BY <1>1, <1>3, <2>6, EdgesFacts
    <3>3. gradient[t] \in Nat /\ gradient[y] \in Nat
      BY <1>3, <1>4 DEF HeapInv
    <3>4. gradient'[t] = gradient[t]
      BY <1>7, <3>2, <3>3
    <3>5. QED  BY <1>2, <1>8, <2>1, <3>1, <3>4
  <2>7. QED  BY <2>5, <2>6
<1>10. QED  BY <1>9 DEF SharesInv

LEMMA NextShares == GraphInv /\ SharesInv /\ [Next]_vars => SharesInv'
<1> SUFFICES ASSUME GraphInv, SharesInv, [Next]_vars
             PROVE  SharesInv'
  OBVIOUS
<1>1. ASSUME Program
      PROVE  phase' # "propagate"
  BY <1>1, ProgramSteps DEF Idle, Create, TensorDestroy, BackwardCall, engine
<1>2. CASE Program
  BY <1>1, <1>2 DEF SharesInv
<1>3. CASE SortVisited \/ SortDescend \/ SortPush
  BY <1>3 DEF SortVisited, SortDescend, SortPush, SharesInv
<1>4. ASSUME NEW error, Cleanup(error)
      PROVE  SharesInv'
  BY <1>4 DEF Cleanup, SharesInv
<1>5. CASE SortFails \/ PropagateNull \/ BackwardDone
  BY <1>4, <1>5 DEF SortFails, PropagateNull, BackwardDone, BackwardReturns
<1>6. ASSUME NEW n, NEW in_as_tensor \in BOOLEAN, PropagateFails(n, in_as_tensor)
      PROVE  SharesInv'
  BY <1>4, <1>6 DEF PropagateFails, BackwardReturns
<1>7. CASE UNCHANGED vars
  <2>1. UNCHANGED <<nodes, gradient, phase, visited, tensors, seed>>
    BY <1>7 DEF vars, heap, engine
  <2>2. \A t : Share(t)' = Share(t) /\ Paid(t)' = Paid(t)
    BY <2>1 DEF Share, Paid, FullGradient, Edges, Places, Operands, RequiresGradient
  <2>3. QED  BY <2>1, <2>2 DEF SharesInv
<1>8. QED
  BY <1>2, <1>3, <1>5, <1>6, <1>7, SortDoneShares, PropagateShares DEF Next, Engine

LEMMA SharesComplete == GraphInv /\ SharesInv => GradientsComplete
<1> DEFINE waiting == IF tensors = <<>> THEN {} ELSE ToSet(Front(tensors))
<1> SUFFICES ASSUME GraphInv, SharesInv, phase = "propagate",
                    NEW t \in visited \ waiting
             PROVE  gradient[t] = FullGradient[t]
  BY DEF GradientsComplete
<1>1. HeapInv /\ EngineInv /\ tensors \in Seq(DOMAIN nodes)
  BY DEF GraphInv, EngineInv
<1>2. t \in Tensors
  <2>1. visited \subseteq DOMAIN nodes
    BY <1>1 DEF EngineInv
  <2>2. QED  BY <1>1, <2>1, NodesFacts
<1>3. ASSUME NEW z \in ToSet(tensors), t \in ToSet(Operands(z))
      PROVE  FALSE
  <2>1. tensors # <<>>
    BY DEF ToSet
  <2>2. /\ DOMAIN tensors = 1..Len(tensors) /\ Len(tensors) \in Nat \ {0}
        /\ DOMAIN Front(tensors) = 1..(Len(tensors) - 1)
        /\ \A i \in 1..(Len(tensors) - 1) : Front(tensors)[i] = tensors[i]
    BY <1>1, <2>1, FrontFacts
  <2>3. PICK i \in DOMAIN tensors : tensors[i] = z
    BY DEF ToSet
  <2>4. PICK j \in 1..(i - 1) : tensors[j] = t
    BY <1>3, <2>3 DEF GraphInv, StackInv, OperandsBelow
  <2>5. j \in 1..(Len(tensors) - 1)
    BY <2>2, <2>3
  <2>6. t \in ToSet(Front(tensors))
    BY <2>2, <2>4, <2>5 DEF ToSet
  <2>7. QED  BY <2>1, <2>6
<1>4. QED  BY <1>1, <1>2, <1>3, AllPaid

(* When a tensor is popped its gradient is complete: every path from the root  *)
(* has contributed exactly once, whatever the graph shares and whatever        *)
(* gradients earlier, even failed, passes left behind.                         *)
THEOREM GradientsAreComplete == Spec => []GradientsComplete
<1>1. Init => SharesInv
  BY DEF Init, SharesInv
<1>2. QED
  BY <1>1, InitGraph, NextGraph, NextShares, SharesComplete, PTL DEF Spec

-----------------------------------------------------------------------------
(* The backward pass comes nearer to its end with every step. *)

(* The places of t's operands to which the sort has not yet come. *)
LeftOf(t) ==
  {n \in DOMAIN Operands(t) :
     \A i \in DOMAIN frames : frames[i].tensor = t => frames[i].next <= n}

LEMMA LeftIs ==
  \A t, n : <<t, n>> \in OperandsLeft <=> t \in DOMAIN nodes \ visited /\ n \in LeftOf(t)
BY DEF OperandsLeft, LeftOf

LEMMA LeftPairs == \A e \in OperandsLeft : e = <<e[1], e[2]>>
BY DEF OperandsLeft

LEMMA LeftFinite ==
  ASSUME Ordered
  PROVE  /\ IsFiniteSet(OperandsLeft) /\ Cardinality(OperandsLeft) \in Nat
         /\ IsFiniteSet(DOMAIN nodes \ visited) /\ Cardinality(DOMAIN nodes \ visited) \in Nat
<1> DEFINE S == DOMAIN nodes \ visited
           P(t) == {<<t, n>> : n \in LeftOf(t)}
           T == {P(t) : t \in S}
<1>1. IsFiniteSet(S)
  <2>1. DOMAIN nodes = 1..Len(nodes) /\ Len(nodes) \in Nat
    BY OrderedFacts
  <2>2. IsFiniteSet(1..Len(nodes))
    BY <2>1, FS_Interval
  <2> QED
    BY <2>1, <2>2, FS_Subset
<1>2. ASSUME NEW t \in DOMAIN nodes PROVE IsFiniteSet(P(t))
  <2>1. Operands(t) \in Seq(Nat)
    BY OrderedFacts DEF MadeNode, Operands
  <2>2. Len(Operands(t)) \in Nat /\ DOMAIN Operands(t) = 1..Len(Operands(t))
    BY <2>1
  <2>3. IsFiniteSet(1..Len(Operands(t)))
    BY <2>2, FS_Interval
  <2>4. IsFiniteSet(LeftOf(t))
    BY <2>2, <2>3, FS_Subset DEF LeftOf
  <2> DEFINE f == [n \in LeftOf(t) |-> <<t, n>>]
  <2>5. f \in Surjection(LeftOf(t), P(t))
    BY DEF Surjection
  <2> QED
    BY <2>4, <2>5, FS_Surjection DEF ExistsSurjection
<1>3. IsFiniteSet(T)
  <2> DEFINE f == [t \in S |-> P(t)]
  <2> HIDE DEF P
  <2>1. f \in Surjection(S, T)
    BY DEF Surjection
  <2> QED
    BY <1>1, <2>1, FS_Surjection DEF ExistsSurjection
<1>4. \A X \in T : IsFiniteSet(X)
  BY <1>2
<1>5. OperandsLeft = UNION T
  BY DEF OperandsLeft, LeftOf
<1>6. IsFiniteSet(OperandsLeft)
  <2> HIDE DEF T
  <2> QED
    BY <1>3, <1>4, <1>5, FS_UNION
<1> QED
  BY <1>1, <1>6, FS_CardinalityType

(* A tensor pushed is one tensor less to push. *)
LEMMA UnpushedShrinks ==
  ASSUME Ordered, NEW t \in DOMAIN nodes \ visited
  PROVE  Cardinality(DOMAIN nodes \ (visited \cup {t})) = Cardinality(DOMAIN nodes \ visited) - 1
<1>1. DOMAIN nodes \ (visited \cup {t}) = (DOMAIN nodes \ visited) \ {t}
  OBVIOUS
<1> QED
  BY <1>1, LeftFinite, FS_RemoveElement

(* The three steps of the sort: a call returns, a tensor is pushed and its call  *)
(* returns, an operand is come to and a call made.                              *)
LEMMA WorkArithmetic ==
  ASSUME NEW a \in Nat, NEW b \in Nat, NEW l \in Nat, NEW p \in Nat,
         NEW c \in Nat, NEW d \in Nat, NEW m \in Nat, NEW q \in Nat,
         \/ c <= a /\ d = b /\ m = l - 1 /\ q = p
         \/ c <= a /\ d = b - 1 /\ m = l - 1 /\ q = p + 1
         \/ c <= a - 1 /\ d = b /\ m = l + 1 /\ q = p
  PROVE  2 * c + 2 * d + m + q + 2 < 2 * a + 2 * b + l + p + 2
OBVIOUS

LEMMA SortVisitedWork ==
  ASSUME GraphInv, SortVisited
  PROVE  Work' < Work
<1>1. /\ phase = "sort" /\ phase' = "sort" /\ nodes' = nodes /\ visited' = visited /\ tensors' = tensors
      /\ frames # <<>> /\ frames' = Front(frames) /\ Frame.next = 1
  BY DEF SortVisited, heap
<1>2. /\ Len(frames) \in Nat \ {0} /\ DOMAIN frames = 1..Len(frames) /\ Frame = frames[Len(frames)]
      /\ Len(frames') = Len(frames) - 1 /\ DOMAIN frames' = 1..(Len(frames) - 1)
      /\ \A i \in 1..(Len(frames) - 1) : frames'[i] = frames[i]
  BY <1>1, FrontFacts DEF GraphInv, EngineInv, Frame
<1>3. Ordered /\ Len(tensors) \in Nat
  BY <1>1 DEF GraphInv, HeapInv, EngineInv
<1>4. OperandsLeft' \subseteq OperandsLeft
  <2>1. ASSUME NEW t \in DOMAIN nodes, NEW n \in LeftOf(t)' PROVE n \in LeftOf(t)
    <3>1. n \in DOMAIN Operands(t)
      BY <1>1 DEF LeftOf, Operands
    <3>2. ASSUME NEW i \in DOMAIN frames, frames[i].tensor = t PROVE frames[i].next <= n
      <4>1. CASE i \in 1..(Len(frames) - 1)
        BY <1>2, <3>2, <4>1 DEF LeftOf
      <4>2. CASE i = Len(frames)
        <5>1. Operands(t) \in Seq(Nat)
          BY <1>3, OrderedFacts DEF MadeNode, Operands
        <5>2. DOMAIN Operands(t) = 1..Len(Operands(t)) /\ Len(Operands(t)) \in Nat
          BY <5>1
        <5> QED
          BY <1>1, <1>2, <3>1, <4>2, <5>2
      <4> QED
        BY <1>2, <4>1, <4>2
    <3> QED
      BY <3>1, <3>2 DEF LeftOf
  <2>2. \A t, n : <<t, n>> \in OperandsLeft' <=> t \in DOMAIN nodes' \ visited' /\ n \in LeftOf(t)'
    BY DEF OperandsLeft, LeftOf
  <2>3. \A e \in OperandsLeft' : e = <<e[1], e[2]>>
    BY DEF OperandsLeft
  <2> QED
    BY <1>1, <2>1, <2>2, <2>3, LeftIs
<1>5. Cardinality(OperandsLeft') <= Cardinality(OperandsLeft)
      /\ Cardinality(OperandsLeft') \in Nat /\ Cardinality(OperandsLeft) \in Nat
  BY <1>3, <1>4, LeftFinite, FS_Subset, FS_CardinalityType
<1>6. Cardinality(DOMAIN nodes \ visited) \in Nat
  BY <1>3, LeftFinite
<1>7. /\ Work = 2 * Cardinality(OperandsLeft) + 2 * Cardinality(DOMAIN nodes \ visited)
                + Len(frames) + Len(tensors) + 2
      /\ Work' = 2 * Cardinality(OperandsLeft') + 2 * Cardinality(DOMAIN nodes \ visited)
                 + Len(frames') + Len(tensors) + 2
  BY <1>1 DEF Work
<1>8. Len(frames') \in Nat /\ Len(frames) \in Nat
  BY <1>2
<1> QED
  BY <1>2, <1>3, <1>5, <1>6, <1>7, <1>8, WorkArithmetic

LEMMA SortPushWork ==
  ASSUME GraphInv, SortPush
  PROVE  Work' < Work
<1> DEFINE t == Frame.tensor
<1>1. /\ phase = "sort" /\ phase' = "sort" /\ nodes' = nodes /\ visited' = visited \cup {t}
      /\ tensors' = Append(tensors, t) /\ frames # <<>> /\ frames' = Front(frames)
      /\ ~(Frame.next = 1 /\ t \in visited)
  BY DEF SortPush, heap
<1>2. /\ Len(frames) \in Nat \ {0} /\ DOMAIN frames = 1..Len(frames) /\ Frame = frames[Len(frames)]
      /\ Len(frames') = Len(frames) - 1 /\ DOMAIN frames' = 1..(Len(frames) - 1)
      /\ \A i \in 1..(Len(frames) - 1) : frames'[i] = frames[i]
  BY <1>1, FrontFacts DEF GraphInv, EngineInv, Frame
<1>3. Ordered /\ Len(tensors) \in Nat /\ Len(tensors') = Len(tensors) + 1
  <2> HIDE DEF t
  <2>1. tensors \in Seq(DOMAIN nodes) /\ Ordered
    BY <1>1 DEF GraphInv, HeapInv, EngineInv
  <2>2. t \in DOMAIN nodes
    BY <1>1, FrameFacts DEF t
  <2> QED
    BY <1>1, <2>1, <2>2, AppendFacts
<1>4. t \in DOMAIN nodes \ visited
  <2>1. Frame.next \in Nat \ {0} /\ t \in DOMAIN nodes /\ Len(frames) \in DOMAIN frames
    BY <1>1, FrameFacts
  <2>2. Frame.next > 1 => t \notin visited
    BY <1>1, <1>2, <2>1 DEF GraphInv, SortInv, FramesInv
  <2> QED
    BY <1>1, <2>1, <2>2
<1> HIDE DEF t
<1>5. OperandsLeft' \subseteq OperandsLeft
  <2>1. ASSUME NEW s \in DOMAIN nodes, s # t, NEW n \in LeftOf(s)' PROVE n \in LeftOf(s)
    <3>1. n \in DOMAIN Operands(s)
      BY <1>1 DEF LeftOf, Operands
    <3>2. ASSUME NEW i \in DOMAIN frames, frames[i].tensor = s PROVE frames[i].next <= n
      <4>1. i # Len(frames)
        BY <1>2, <2>1, <3>2 DEF t
      <4>2. i \in 1..(Len(frames) - 1)
        BY <1>2, <4>1
      <4> QED
        BY <1>2, <3>2, <4>2 DEF LeftOf
    <3> QED
      BY <3>1, <3>2 DEF LeftOf
  <2>2. \A s, n : <<s, n>> \in OperandsLeft' <=> s \in DOMAIN nodes' \ visited' /\ n \in LeftOf(s)'
    BY DEF OperandsLeft, LeftOf
  <2>3. \A e \in OperandsLeft' : e = <<e[1], e[2]>>
    BY DEF OperandsLeft
  <2> QED
    BY <1>1, <2>1, <2>2, <2>3, LeftIs
<1>6. Cardinality(OperandsLeft') <= Cardinality(OperandsLeft)
      /\ Cardinality(OperandsLeft') \in Nat /\ Cardinality(OperandsLeft) \in Nat
  BY <1>3, <1>5, LeftFinite, FS_Subset, FS_CardinalityType
<1>7. /\ Cardinality(DOMAIN nodes \ visited) \in Nat
      /\ Cardinality(DOMAIN nodes' \ visited') = Cardinality(DOMAIN nodes \ visited) - 1
  BY <1>1, <1>3, <1>4, LeftFinite, UnpushedShrinks
<1>8. /\ Work = 2 * Cardinality(OperandsLeft) + 2 * Cardinality(DOMAIN nodes \ visited)
                + Len(frames) + Len(tensors) + 2
      /\ Work' = 2 * Cardinality(OperandsLeft') + 2 * Cardinality(DOMAIN nodes' \ visited')
                 + Len(frames') + Len(tensors') + 2
  BY <1>1 DEF Work
<1>9. /\ Len(frames') \in Nat /\ Len(frames) \in Nat /\ Len(tensors') \in Nat
      /\ Cardinality(DOMAIN nodes' \ visited') \in Nat
  BY <1>1, <1>2, <1>3, LeftFinite, FS_Subset, FS_CardinalityType
<1> QED
  BY <1>2, <1>3, <1>6, <1>7, <1>8, <1>9, WorkArithmetic

(* The sort comes to the operand that is next, for the first time: no other     *)
(* call is on the same tensor.                                                 *)
LEMMA SortDescendWork ==
  ASSUME GraphInv, SortDescend
  PROVE  Work' < Work
<1> DEFINE n == Len(frames)
           t == Frame.tensor
           k == Frame.next
           o == Operands(t)[k]
           S == [tensor : DOMAIN nodes, next : Nat \ {0}]
           new == [tensor |-> o, next |-> 1]
           marked == [frames EXCEPT ![Len(frames)].next = @ + 1]
<1>1. /\ phase = "sort" /\ phase' = "sort" /\ nodes' = nodes /\ visited' = visited /\ tensors' = tensors
      /\ frames # <<>> /\ frames' = Append(marked, new) /\ ~(k = 1 /\ t \in visited) /\ Unvisited(Frame)
  BY DEF SortDescend, heap
<1>2. /\ n \in Nat \ {0} /\ DOMAIN frames = 1..n /\ n \in DOMAIN frames /\ Frame = frames[n]
      /\ t \in DOMAIN nodes /\ k \in Nat \ {0} /\ Frame \in S
      /\ DOMAIN Operands(t) = 1..Len(Operands(t)) /\ Len(Operands(t)) \in Nat
      /\ \A i \in 1..(n - 1) : t < frames[i].tensor
  BY <1>1, FrameFacts
<1>3. /\ Ordered /\ frames \in Seq(S) /\ Len(tensors) \in Nat /\ DOMAIN nodes \subseteq Nat
  BY <1>1, OrderedFacts DEF GraphInv, HeapInv, EngineInv
<1>4. k \in DOMAIN Operands(t)
  BY <1>1, <1>2 DEF Unvisited
<1>5. o \in DOMAIN nodes
  <2>1. ToSet(Operands(t)) \subseteq 1..(t - 1) /\ DOMAIN nodes = 1..Len(nodes) /\ Len(nodes) \in Nat
    BY <1>2, <1>3, OrderedFacts
  <2>2. o \in ToSet(Operands(t))
    BY <1>4 DEF ToSet
  <2> HIDE DEF o, t
  <2>3. t \in 1..Len(nodes) /\ o \in 1..(t - 1)
    BY <1>2, <2>1, <2>2
  <2> QED
    BY <2>1, <2>3
<1>6. t \notin visited
  <2>1. k > 1 => t \notin visited
    BY <1>1, <1>2 DEF GraphInv, SortInv, FramesInv
  <2> QED
    BY <1>1, <1>2, <2>1
<1>7. /\ marked \in Seq(S) /\ Len(marked) = n
      /\ \A i \in 1..(n - 1) : marked[i] = frames[i]
      /\ marked[n] = [tensor |-> t, next |-> k + 1]
  <2>1. marked = [frames EXCEPT ![n] = [tensor |-> t, next |-> k + 1]]
    <3>1. [Frame EXCEPT !.next = @ + 1] = [tensor |-> t, next |-> k + 1]
      BY <1>2
    <3>2. marked = [frames EXCEPT ![n] = [Frame EXCEPT !.next = @ + 1]]
      <4> HIDE DEF S, t, o, k
      <4>1. Frame = frames[n]
        BY <1>2
      <4> QED
        BY <1>2, <4>1
    <3> HIDE DEF marked, t, k
    <3> QED
      BY <3>1, <3>2
  <2>2. [tensor |-> t, next |-> k + 1] \in S
    BY <1>2
  <2> QED
    BY <1>2, <1>3, <2>1, <2>2, ExceptSeq
<1>8. /\ Len(frames') = n + 1 /\ DOMAIN frames' = 1..(n + 1)
      /\ \A i \in 1..(n - 1) : frames'[i] = frames[i]
      /\ frames'[n] = [tensor |-> t, next |-> k + 1]
  <2>1. new \in S
    BY <1>5
  <2> HIDE DEF marked, S, new, t, k
  <2>2. /\ Len(frames') = n + 1 /\ DOMAIN frames' = 1..(n + 1)
        /\ \A i \in 1..n : frames'[i] = marked[i]
    BY <1>1, <1>7, <2>1, AppendFacts
  <2>3. n \in 1..n /\ \A i \in 1..(n - 1) : i \in 1..n
    BY <1>2
  <2> QED
    BY <1>7, <2>2, <2>3
<1> HIDE DEF marked, S, new, o, t, k, n
<1>9. <<t, k>> \in OperandsLeft
  <2>1. ASSUME NEW i \in DOMAIN frames, frames[i].tensor = t PROVE frames[i].next <= k
    <3>1. CASE i \in 1..(n - 1)
      <4>1. t < frames[i].tensor /\ t \in Nat
        BY <1>2, <1>3, <3>1
      <4> QED
        BY <2>1, <4>1
    <3>2. CASE i = n
      <4>1. frames[i].next = k
        BY <1>2, <3>2 DEF k
      <4> QED
        BY <1>2, <4>1
    <3> QED
      BY <1>2, <2>1, <3>1, <3>2
  <2> QED
    BY <1>2, <1>4, <1>6, <2>1, LeftIs DEF LeftOf
<1>10. OperandsLeft' \subseteq OperandsLeft \ {<<t, k>>}
  <2>1. ASSUME NEW s \in DOMAIN nodes, NEW m \in LeftOf(s)'
        PROVE  m \in LeftOf(s) /\ <<s, m>> # <<t, k>>
    <3>1. m \in DOMAIN Operands(s)
      BY <1>1 DEF LeftOf, Operands
    <3>2. Operands(s) \in Seq(Nat)
      BY <1>3, OrderedFacts DEF MadeNode, Operands
    <3>3. m \in Nat
      BY <3>1, <3>2
    <3>4. s = t => k + 1 <= m
      <4>1. n \in DOMAIN frames' /\ (frames')[n].tensor = t /\ (frames')[n].next = k + 1
        BY <1>2, <1>8
      <4> QED
        BY <4>1 DEF LeftOf
    <3>5. ASSUME NEW i \in DOMAIN frames, frames[i].tensor = s PROVE frames[i].next <= m
      <4>1. CASE i \in 1..(n - 1)
        <5>1. i \in DOMAIN frames' /\ (frames')[i] = frames[i]
          BY <1>2, <1>8, <4>1
        <5> QED
          BY <3>5, <5>1 DEF LeftOf
      <4>2. CASE i = n
        <5>1. s = t /\ frames[i].next = k
          BY <1>2, <3>5, <4>2 DEF t, k
        <5> QED
          BY <1>2, <3>3, <3>4, <5>1
      <4> QED
        BY <1>2, <4>1, <4>2
    <3>6. <<s, m>> # <<t, k>>
      BY <1>2, <3>3, <3>4
    <3> QED
      BY <3>1, <3>5, <3>6 DEF LeftOf
  <2>2. \A s, m : <<s, m>> \in OperandsLeft' <=> s \in DOMAIN nodes' \ visited' /\ m \in LeftOf(s)'
    BY DEF OperandsLeft, LeftOf
  <2>3. \A e \in OperandsLeft' : e = <<e[1], e[2]>>
    BY DEF OperandsLeft
  <2> QED
    BY <1>1, <2>1, <2>2, <2>3, LeftIs
<1>11. /\ Cardinality(OperandsLeft) \in Nat /\ IsFiniteSet(OperandsLeft \ {<<t, k>>})
       /\ Cardinality(OperandsLeft \ {<<t, k>>}) = Cardinality(OperandsLeft) - 1
  BY <1>3, <1>9, LeftFinite, FS_RemoveElement
<1>12. Cardinality(OperandsLeft') <= Cardinality(OperandsLeft) - 1 /\ Cardinality(OperandsLeft') \in Nat
  BY <1>10, <1>11, FS_Subset, FS_CardinalityType
<1>13. Cardinality(DOMAIN nodes \ visited) \in Nat
  BY <1>3, LeftFinite
<1>14. /\ Work = 2 * Cardinality(OperandsLeft) + 2 * Cardinality(DOMAIN nodes \ visited)
                 + n + Len(tensors) + 2
       /\ Work' = 2 * Cardinality(OperandsLeft') + 2 * Cardinality(DOMAIN nodes \ visited)
                  + (n + 1) + Len(tensors) + 2
  BY <1>1, <1>8 DEF Work, n
<1>15. n \in Nat /\ n + 1 \in Nat
  BY <1>2
<1> QED
  BY <1>3, <1>11, <1>12, <1>13, <1>14, <1>15, WorkArithmetic

(* What is left to do while tensor_backward runs is never nothing. *)
LEMMA WorkPositive ==
  ASSUME GraphInv, phase # "idle"
  PROVE  Work > 0
<1>1. Ordered /\ Len(tensors) \in Nat /\ Len(frames) \in Nat /\ phase \in {"sort", "propagate"}
  BY DEF GraphInv, HeapInv, EngineInv
<1>2. Cardinality(OperandsLeft) \in Nat /\ Cardinality(DOMAIN nodes \ visited) \in Nat
  BY <1>1, LeftFinite
<1> QED
  BY <1>1, <1>2 DEF Work

LEMMA OtherWork ==
  ASSUME GraphInv, phase # "idle", phase' = "idle"
  PROVE  Work' < Work
<1>1. Work' = 0
  BY DEF Work
<1> QED
  BY <1>1, WorkPositive

LEMMA EngineWork ==
  ASSUME GraphInv, Engine, phase # "idle"
  PROVE  Work' < Work
<1>1. CASE SortVisited
  BY <1>1, SortVisitedWork
<1>2. CASE SortDescend
  BY <1>2, SortDescendWork
<1>3. CASE SortPush
  BY <1>3, SortPushWork
<1>4. CASE SortDone
  <2>1. /\ phase = "sort" /\ phase' = "propagate" /\ tensors' = tensors /\ nodes' = nodes
        /\ Ordered /\ Len(tensors) \in Nat /\ Len(frames) \in Nat
    BY <1>4 DEF SortDone, GraphInv, HeapInv, EngineInv, heap
  <2>2. Cardinality(OperandsLeft) \in Nat /\ Cardinality(DOMAIN nodes \ visited) \in Nat
    BY <2>1, LeftFinite
  <2> QED
    BY <2>1, <2>2 DEF Work
<1>5. CASE Propagate
  <2>1. phase = "propagate" /\ phase' = "propagate" /\ tensors # <<>> /\ tensors' = Front(tensors)
    BY <1>5 DEF Propagate
  <2>2. Len(tensors) \in Nat /\ Len(tensors') = Len(tensors) - 1
    BY <2>1, FrontFacts DEF GraphInv, EngineInv
  <2> QED
    BY <2>1, <2>2 DEF Work
<1>6. CASE SortFails \/ PropagateNull \/ BackwardDone
           \/ \E n \in 0..2, in_as_tensor \in BOOLEAN : PropagateFails(n, in_as_tensor)
  <2>1. phase' = "idle"
    BY <1>6 DEF SortFails, PropagateNull, BackwardDone, PropagateFails, BackwardReturns, Cleanup
  <2> QED
    BY <2>1, OtherWork
<1> QED
  BY <1>1, <1>2, <1>3, <1>4, <1>5, <1>6 DEF Engine

(* tensor_backward comes nearer to its end with every step, on any graph and    *)
(* whatever fails: topological_sort comes to each operand of each tensor once,  *)
(* however many paths lead to it, and each tensor is pushed and popped once.    *)
THEOREM EveryStepProgresses == Spec => BackwardProgresses
<1>1. GraphInv /\ [Next]_vars => [phase # "idle" => Work' < Work]_vars
  <2> SUFFICES ASSUME GraphInv, Next, phase # "idle"
               PROVE  Work' < Work
    OBVIOUS
  <2>1. ~Program
    BY DEF Program, Idle
  <2>2. Engine
    BY <2>1 DEF Next
  <2> QED
    BY <2>2, EngineWork
<1> QED
  BY <1>1, GraphInvariant, PTL DEF Spec, BackwardProgresses
=============================================================================
