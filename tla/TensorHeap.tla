----------------------------- MODULE TensorHeap -----------------------------
(***************************************************************************)
(* The lifetime of tensors and of their identifiers                        *)
(* (tensor/tensor.c: tensor_create, tensor_destroy,                        *)
(* tensor_accumulate_gradient; util/id_pool.c).                            *)
(*                                                                         *)
(* Every tensor carries an id.  The ids of destroyed tensors wait in a     *)
(* stack, the id pool, and are handed out again before the counter grows;  *)
(* when the pool holds as many ids as were ever minted, the pool is freed  *)
(* and the counter starts again from 0.  topological_sort, the graph       *)
(* printer and the optimizers all key their maps by this id, so two live   *)
(* tensors must never share one.                                           *)
(*                                                                         *)
(* tensor_destroy recurses into the tensor's gradient.  Here each call of  *)
(* the recursion is a step: `dying` is the tensor whose call comes next.   *)
(***************************************************************************)
EXTENDS Naturals, Sequences, FiniteSets

CONSTANTS
  Tensors,        (* the addresses malloc can return for a tensor_t        *)
  NULL,           (* the null pointer                                      *)
  MallocMayFail,  (* whether an allocation of the id pool or of a tensor   *)
                  (* may fail                                              *)
  MaxId           (* bound: no id is minted beyond it (uint64_t in C)      *)

ASSUME TensorsAssumption == NULL \notin Tensors /\ IsFiniteSet(Tensors)
ASSUME MallocAssumption == MallocMayFail \in BOOLEAN
ASSUME MaxIdAssumption == MaxId \in Nat

VARIABLES
  live,           (* the tensors allocated and not yet released            *)
  tensor_id,      (* tensor->id                                            *)
  gradient,       (* tensor->gradient                                      *)
  pool_created,   (* whether the static id_pool is non-NULL                *)
  id_pool,        (* the ids it holds, the head of the list last           *)
  id,             (* the static counter of minted ids                      *)
  dying           (* the gradient the running tensor_destroy recurses into *)

vars == <<live, tensor_id, gradient, pool_created, id_pool, id, dying>>

Init ==
  /\ live = {}
  /\ tensor_id = [t \in Tensors |-> 0]
  /\ gradient = [t \in Tensors |-> NULL]
  /\ pool_created = FALSE
  /\ id_pool = <<>>
  /\ id = 0
  /\ dying = NULL

Top(s) == s[Len(s)]
Pop(s) == SubSeq(s, 1, Len(s) - 1)

(* t is some live tensor's gradient, and is destroyed with it. *)
Owned(t) == \E s \in live : gradient[s] = t

Idle == dying = NULL

-----------------------------------------------------------------------------
(* id_pool_put, whose error tensor_destroy ignores: with ok = FALSE no node *)
(* could be allocated and the id is lost.                                   *)
id_pool_put(pool, i, ok) == IF ok THEN Append(pool, i) ELSE pool

(* A mutant of id_pool_get that leaves the id at the head of the list. *)
GetKeepsHead(t) ==
  \/ /\ id_pool = <<>>
     /\ id < MaxId
     /\ tensor_id' = [tensor_id EXCEPT ![t] = id]
     /\ id' = id + 1
     /\ UNCHANGED id_pool
  \/ /\ id_pool # <<>>
     /\ tensor_id' = [tensor_id EXCEPT ![t] = Top(id_pool)]
     /\ UNCHANGED <<id, id_pool>>

(* The choice of an id in tensor_create. *)
TakeId(t) ==
  \/ /\ id_pool = <<>>
     /\ id < MaxId
     /\ tensor_id' = [tensor_id EXCEPT ![t] = id]
     /\ id' = id + 1
     /\ UNCHANGED id_pool
  \/ /\ id_pool # <<>>
     /\ tensor_id' = [tensor_id EXCEPT ![t] = Top(id_pool)]
     /\ id_pool' = Pop(id_pool)
     /\ UNCHANGED id

(* tensor_create. *)
TensorCreate(t) ==
  /\ Idle
  /\ t \notin live
  /\ TakeId(t)
  /\ pool_created' = TRUE
  /\ live' = live \cup {t}
  /\ gradient' = [gradient EXCEPT ![t] = NULL]
  /\ UNCHANGED dying

(* tensor_create when the tensor itself cannot be allocated: the pool it   *)
(* created on the way stays.                                               *)
TensorCreateFails ==
  /\ Idle
  /\ MallocMayFail
  /\ pool_created' = TRUE
  /\ UNCHANGED <<live, tensor_id, gradient, id_pool, id, dying>>

(* A mutant of tensor_accumulate_gradient that makes a tensor that exists   *)
(* already x's gradient, where it should make one that shares its storage.  *)
AccumulateAliases(x, g) ==
  /\ Idle
  /\ {x, g} \subseteq live /\ x # g
  /\ gradient' = [gradient EXCEPT ![x] = g]
  /\ dying' = gradient[x]
  /\ UNCHANGED <<live, tensor_id, pool_created, id_pool, id>>

(* tensor_accumulate_gradient: a new tensor g (the aliased first gradient,  *)
(* or the sum with the old one) becomes x's gradient, and the old one, if   *)
(* any, is destroyed.                                                       *)
AccumulateGradient(x, g) ==
  /\ Idle
  /\ x \in live
  /\ g \notin live
  /\ TakeId(g)
  /\ live' = live \cup {g}
  /\ gradient' = [gradient EXCEPT ![g] = NULL, ![x] = g]
  /\ dying' = gradient[x]
  /\ UNCHANGED pool_created

(* A mutant of the test for a full pool: off by one. *)
PoolFullOffByOne(pool) == Len(pool) + 1 >= id

(* id_pool->size == id *)
PoolFull(pool) == Len(pool) = id

(* A mutant of tensor_destroy that frees the pool but keeps the counter. *)
ReleaseKeepsCounter(t, ok) ==
  LET pool == id_pool_put(id_pool, tensor_id[t], ok)
  IN  /\ live' = live \ {t}
      /\ gradient' = [gradient EXCEPT ![t] = NULL]
      /\ dying' = gradient[t]
      /\ pool_created' = ~PoolFull(pool)
      /\ id_pool' = IF PoolFull(pool) THEN <<>> ELSE pool
      /\ UNCHANGED <<id, tensor_id>>

(* A mutant of tensor_destroy that also counts the id down. *)
ReleaseCountsDown(t, ok) ==
  LET pool == id_pool_put(id_pool, tensor_id[t], ok)
  IN  /\ live' = live \ {t}
      /\ gradient' = [gradient EXCEPT ![t] = NULL]
      /\ dying' = gradient[t]
      /\ pool_created' = ~PoolFull(pool)
      /\ id_pool' = IF PoolFull(pool) THEN <<>> ELSE pool
      /\ id' = IF PoolFull(pool) THEN 0 ELSE id - 1
      /\ UNCHANGED tensor_id

(* One call of tensor_destroy: give the id back, free a full pool and reset *)
(* the counter, then go on with the gradient and free the tensor.           *)
Release(t, ok) ==
  LET pool == id_pool_put(id_pool, tensor_id[t], ok)
  IN  /\ live' = live \ {t}
      /\ gradient' = [gradient EXCEPT ![t] = NULL]
      /\ dying' = gradient[t]
      /\ pool_created' = ~PoolFull(pool)
      /\ id_pool' = IF PoolFull(pool) THEN <<>> ELSE pool
      /\ id' = IF PoolFull(pool) THEN 0 ELSE id
      /\ UNCHANGED tensor_id

(* Whether id_pool_put finds memory for its list node. *)
PutOutcomes == IF MallocMayFail THEN BOOLEAN ELSE {TRUE}

(* tensor_destroy called on a tensor the caller owns. *)
TensorDestroy(t) ==
  /\ Idle
  /\ t \in live
  /\ ~Owned(t)
  /\ \E ok \in PutOutcomes : Release(t, ok)

(* The recursive call tensor_destroy(tensor->gradient). *)
DestroyGradient ==
  /\ ~Idle
  /\ \E ok \in PutOutcomes : Release(dying, ok)

Next ==
  \/ \E t \in Tensors : TensorCreate(t) \/ TensorDestroy(t)
  \/ \E x, g \in Tensors : AccumulateGradient(x, g)
  \/ TensorCreateFails
  \/ DestroyGradient

Spec == Init /\ [][Next]_vars

-----------------------------------------------------------------------------
(* Properties *)

TypeOK ==
  /\ live \subseteq Tensors
  /\ tensor_id \in [Tensors -> Nat]
  /\ gradient \in [Tensors -> Tensors \cup {NULL}]
  /\ pool_created \in BOOLEAN
  /\ id_pool \in Seq(Nat)
  /\ id \in Nat
  /\ dying \in Tensors \cup {NULL}

(* No two live tensors share an id: the maps keyed by it (the visited set   *)
(* of topological_sort, the optimizers' state) never confuse two of them.   *)
LiveIdsUnique ==
  \A s, t \in live : tensor_id[s] = tensor_id[t] => s = t

(* An id waits in the pool at most once, and only while no live tensor      *)
(* carries it: no sequence of destroys and creates hands it out twice.      *)
PooledIdsFree ==
  /\ \A i, j \in DOMAIN id_pool : id_pool[i] = id_pool[j] => i = j
  /\ \A i \in DOMAIN id_pool, t \in live : id_pool[i] # tensor_id[t]

(* tensor_destroy frees the pool on a count, id_pool->size == id; it must   *)
(* only be right about it when the last live tensor is gone, the gradient   *)
(* it has yet to recurse into included: the next tensor_destroy would       *)
(* otherwise put an id in a NULL pool.                                      *)
PoolOutlivesTensors == live # {} => pool_created

(* The counter is reset, so that ids start from 0 again, only in the step   *)
(* that releases the last live tensor.                                      *)
ResetOnlyWhenEmpty == [][id' < id => live' = {}]_vars

(* No id is lost or invented while no allocation fails: those minted are    *)
(* those carried and those in the pool, and with no tensor left the pool's  *)
(* memory is returned and the counter is 0.                                 *)
IdsAccounted ==
  ~MallocMayFail =>
    /\ id = Len(id_pool) + Cardinality(live)
    /\ live = {} => ~pool_created /\ id = 0

(* A gradient has one owner, is live as long as its owner is, and no tensor *)
(* that has been released is still to be destroyed: no double free.         *)
GradientOwnership ==
  /\ \A t \in live : gradient[t] # NULL => gradient[t] \in live \ {t}
  /\ \A s, t \in live : gradient[s] = gradient[t] /\ gradient[s] # NULL => s = t
  /\ dying # NULL => dying \in live /\ ~Owned(dying)
=============================================================================
