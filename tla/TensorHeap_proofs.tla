-------------------------- MODULE TensorHeap_proofs --------------------------
(***************************************************************************)
(* Proofs about TensorHeap for any set of tensors, any bound on the ids and *)
(* with or without failing allocations.  The heart of the argument is a     *)
(* pigeonhole: the pool holds distinct ids below the counter, so while some *)
(* tensor holds an id outside it, it cannot hold as many ids as were        *)
(* minted, and tensor_destroy cannot take it for full.                      *)
(***************************************************************************)
EXTENDS TensorHeap, FiniteSetTheorems, SequenceTheorems, TLAPS

(* The ids of the live tensors and those in the pool lie below the counter, *)
(* and a pool that is not there holds nothing.                              *)
IdsBelowCounter ==
  /\ \A t \in live : tensor_id[t] < id
  /\ \A i \in 1..Len(id_pool) : id_pool[i] < id
  /\ ~pool_created => id_pool = <<>>

IInv ==
  /\ TypeOK
  /\ IdsBelowCounter
  /\ LiveIdsUnique
  /\ PooledIdsFree
  /\ PoolOutlivesTensors
  /\ GradientOwnership

-----------------------------------------------------------------------------
(* What the sequence operations of the pool do. *)
LEMMA PopFacts ==
  ASSUME NEW s \in Seq(Nat), s # <<>>
  PROVE  /\ Pop(s) \in Seq(Nat)
         /\ Len(Pop(s)) = Len(s) - 1
         /\ Len(s) \in 1..Len(s)
         /\ Top(s) \in Nat
         /\ \A i \in 1..Len(Pop(s)) : Pop(s)[i] = s[i] /\ i \in 1..Len(s) /\ i # Len(s)
<1>1. Len(s) \in Nat /\ Len(s) # 0
  OBVIOUS
<1>2. Len(s) - 1 \in 0..Len(s)
  BY <1>1
<1> DEFINE n == Len(s) - 1
<1>3. n \in Int /\ \A i \in 1..n : s[i] \in Nat
  BY <1>1, <1>2
<1>4. /\ SubSeq(s, 1, n) \in Seq(Nat)
      /\ Len(SubSeq(s, 1, n)) = n
      /\ \A i \in 1..n : SubSeq(s, 1, n)[i] = s[i]
  <2>1. /\ SubSeq(s, 1, n) \in Seq(Nat)
        /\ Len(SubSeq(s, 1, n)) = IF 1 <= n THEN n - 1 + 1 ELSE 0
        /\ \A i \in 1..(n - 1 + 1) : SubSeq(s, 1, n)[i] = s[1 + i - 1]
    BY <1>3, SubSeqProperties
  <2>2. n \in Nat /\ n - 1 + 1 = n /\ (~(1 <= n) => n = 0)
    <3>1. n \in Nat
      BY <1>2
    <3> HIDE DEF n
    <3>2. QED  BY <3>1
  <2>3. \A i \in 1..n : SubSeq(s, 1, n)[i] = s[i]
    <3>1. \A i \in 1..n : 1 + i - 1 = i
      BY <2>2
    <3> HIDE DEF n
    <3>2. QED  BY <2>1, <2>2, <3>1
  <2> HIDE DEF n
  <2>4. QED  BY <2>1, <2>2, <2>3
<1>5. Top(s) \in Nat
  BY <1>1 DEF Top
<1>6. QED  BY <1>1, <1>4, <1>5 DEF Pop

(* The pigeonhole: n distinct ids below n leave no room for one more. *)
LEMMA PoolNotFull ==
  ASSUME NEW p \in Seq(Nat), NEW n \in Nat, NEW k \in 0..(n - 1),
         \A i \in 1..Len(p) : p[i] < n,
         \A i, j \in 1..Len(p) : p[i] = p[j] => i = j,
         \A i \in 1..Len(p) : p[i] # k
  PROVE  Len(p) # n
<1> SUFFICES ASSUME Len(p) = n PROVE FALSE
  OBVIOUS
<1> DEFINE S == 1..n
           T == (0..(n - 1)) \ {k}
<1>1. IsFiniteSet(S) /\ Cardinality(S) = n
  BY FS_Interval
<1>2. IsFiniteSet(0..(n - 1)) /\ Cardinality(0..(n - 1)) = n
  <2>1. n - 1 \in Int /\ 0 \in Int /\ ~(0 > n - 1) /\ (n - 1) - 0 + 1 = n
    OBVIOUS
  <2> HIDE DEF S, T
  <2>2. QED  BY <2>1, FS_Interval
<1>3. IsFiniteSet(T) /\ Cardinality(T) = n - 1
  BY <1>2, FS_RemoveElement
<1>4. p \in [S -> T]
  <2>1. p = [i \in 1..Len(p) |-> p[i]]
    OBVIOUS
  <2>2. \A i \in S : p[i] \in T
    OBVIOUS
  <2>3. QED  BY <2>1, <2>2
<1>5. \E x, y \in S : x # y /\ p[x] = p[y]
  <2>1. Cardinality(T) < Cardinality(S)
    BY <1>1, <1>3
  <2> HIDE DEF S, T
  <2>2. QED  BY <1>1, <1>3, <1>4, <2>1, FS_PigeonHole
<1>6. QED  BY <1>5

-----------------------------------------------------------------------------
(* tensor_create gives t an id no live tensor holds and leaves in the pool  *)
(* ids that neither t nor another live tensor holds.                        *)
LEMMA TakeIdFacts ==
  ASSUME IInv, NEW t \in Tensors, t \notin live, TakeId(t)
  PROVE  /\ tensor_id' \in [Tensors -> Nat]
         /\ id_pool' \in Seq(Nat)
         /\ id' \in Nat /\ id' >= id
         /\ \A s \in live : tensor_id'[s] = tensor_id[s] /\ tensor_id'[t] # tensor_id[s]
         /\ tensor_id'[t] < id'
         /\ \A i \in 1..Len(id_pool') : id_pool'[i] < id' /\ id_pool'[i] # tensor_id'[t]
         /\ \A i, j \in 1..Len(id_pool') : id_pool'[i] = id_pool'[j] => i = j
         /\ \A i \in 1..Len(id_pool'), s \in live : id_pool'[i] # tensor_id[s]
<1> USE DEF IInv, TypeOK, IdsBelowCounter, LiveIdsUnique, PooledIdsFree
<1>1. CASE id_pool = <<>> /\ tensor_id' = [tensor_id EXCEPT ![t] = id]
           /\ id' = id + 1 /\ UNCHANGED id_pool
  BY <1>1
<1>2. CASE id_pool # <<>> /\ tensor_id' = [tensor_id EXCEPT ![t] = Top(id_pool)]
           /\ id_pool' = Pop(id_pool) /\ UNCHANGED id
  <2>1. /\ Pop(id_pool) \in Seq(Nat)
        /\ Len(Pop(id_pool)) = Len(id_pool) - 1
        /\ Len(id_pool) \in 1..Len(id_pool)
        /\ Top(id_pool) \in Nat
        /\ \A i \in 1..Len(Pop(id_pool)) :
             Pop(id_pool)[i] = id_pool[i] /\ i \in 1..Len(id_pool) /\ i # Len(id_pool)
    BY <1>2, PopFacts
  <2>2. Top(id_pool) = id_pool[Len(id_pool)]
    BY DEF Top
  <2>3. DOMAIN id_pool = 1..Len(id_pool)
    OBVIOUS
  <2>4. \A s \in live : tensor_id'[s] = tensor_id[s] /\ tensor_id'[t] # tensor_id[s]
    BY <1>2, <2>1, <2>2, <2>3
  <2>5. \A i \in 1..Len(id_pool') : id_pool'[i] < id' /\ id_pool'[i] # tensor_id'[t]
    BY <1>2, <2>1, <2>2, <2>3
  <2>6. \A i, j \in 1..Len(id_pool') : id_pool'[i] = id_pool'[j] => i = j
    BY <1>2, <2>1, <2>3
  <2>7. \A i \in 1..Len(id_pool'), s \in live : id_pool'[i] # tensor_id[s]
    BY <1>2, <2>1, <2>3
  <2>8. tensor_id'[t] < id'
    BY <1>2, <2>1, <2>2
  <2>9. QED  BY <1>2, <2>1, <2>4, <2>5, <2>6, <2>7, <2>8
<1>3. QED  BY <1>1, <1>2 DEF TakeId

(* What the pool is once id_pool_put has returned, successfully or not: its *)
(* ids stay distinct and below the counter, and only t's may be one that a   *)
(* live tensor held.  By the pigeonhole, it can be full only if t was the    *)
(* last live tensor.                                                        *)
LEMMA PutFacts ==
  ASSUME IInv, NEW t \in live, NEW ok \in BOOLEAN
  PROVE  LET pool == id_pool_put(id_pool, tensor_id[t], ok)
         IN  /\ pool \in Seq(Nat)
             /\ \A i \in 1..Len(pool) : pool[i] < id
             /\ \A i, j \in 1..Len(pool) : pool[i] = pool[j] => i = j
             /\ \A i \in 1..Len(pool), s \in live \ {t} : pool[i] # tensor_id[s]
             /\ PoolFull(pool) => live = {t}
<1> USE DEF IInv, TypeOK, IdsBelowCounter, LiveIdsUnique, PooledIdsFree
<1> DEFINE pool == id_pool_put(id_pool, tensor_id[t], ok)
<1>0. DOMAIN id_pool = 1..Len(id_pool) /\ tensor_id[t] \in Nat
  OBVIOUS
<1>1. /\ pool \in Seq(Nat)
      /\ \A i \in 1..Len(pool) : pool[i] < id
      /\ \A i, j \in 1..Len(pool) : pool[i] = pool[j] => i = j
      /\ \A i \in 1..Len(pool), s \in live \ {t} : pool[i] # tensor_id[s]
  <2>1. CASE ok
    <3>1. pool = Append(id_pool, tensor_id[t])
      BY <2>1 DEF id_pool_put
    <3>2. /\ pool \in Seq(Nat)
          /\ Len(pool) = Len(id_pool) + 1
          /\ pool[Len(pool)] = tensor_id[t]
          /\ \A i \in 1..Len(pool) : i # Len(pool) => i \in 1..Len(id_pool) /\ pool[i] = id_pool[i]
      BY <1>0, <3>1
    <3> HIDE DEF pool
    <3>3. QED  BY <1>0, <3>2
  <2>2. CASE ~ok
    BY <1>0, <2>2 DEF id_pool_put
  <2>3. QED  BY <2>1, <2>2
<1>2. ASSUME NEW s \in live, s # t
      PROVE  ~PoolFull(pool)
  <2>1. tensor_id[s] \in 0..(id - 1)
    OBVIOUS
  <2>2. \A i \in 1..Len(pool) : pool[i] # tensor_id[s]
    BY <1>1, <1>2
  <2> HIDE DEF pool
  <2>3. Len(pool) # id
    BY <1>1, <2>1, <2>2, PoolNotFull
  <2>4. QED  BY <2>3 DEF PoolFull
<1>3. QED  BY <1>1, <1>2

(* One call of tensor_destroy, on a tensor that nobody owns, keeps the      *)
(* invariant whether or not the pool is freed.                              *)
LEMMA ReleaseStep ==
  ASSUME IInv, NEW t \in live, ~Owned(t), dying \in {NULL, t},
         NEW ok \in BOOLEAN, Release(t, ok)
  PROVE  IInv' /\ (id' < id => live' = {})
<1> DEFINE pool == id_pool_put(id_pool, tensor_id[t], ok)
<1>1. /\ pool \in Seq(Nat)
      /\ \A i \in 1..Len(pool) : pool[i] < id
      /\ \A i, j \in 1..Len(pool) : pool[i] = pool[j] => i = j
      /\ \A i \in 1..Len(pool), s \in live \ {t} : pool[i] # tensor_id[s]
      /\ PoolFull(pool) => live = {t}
  BY PutFacts
<1>2. /\ live' = live \ {t}
      /\ gradient' = [gradient EXCEPT ![t] = NULL]
      /\ dying' = gradient[t]
      /\ pool_created' = ~PoolFull(pool)
      /\ id_pool' = IF PoolFull(pool) THEN <<>> ELSE pool
      /\ id' = IF PoolFull(pool) THEN 0 ELSE id
      /\ tensor_id' = tensor_id
  BY DEF Release
<1> HIDE DEF pool
<1>3. TypeOK'
  BY <1>1, <1>2 DEF IInv, TypeOK, PoolFull
<1>4. DOMAIN id_pool' = 1..Len(id_pool')
  BY <1>3 DEF TypeOK
<1>5. IdsBelowCounter'
  <2>1. CASE PoolFull(pool)
    <3>1. live' = {} /\ id_pool' = <<>>
      BY <1>1, <1>2, <2>1
    <3>2. QED  BY <3>1 DEF IdsBelowCounter
  <2>2. CASE ~PoolFull(pool)
    BY <1>1, <1>2, <2>2 DEF IInv, IdsBelowCounter
  <2>3. QED  BY <2>1, <2>2
<1>6. LiveIdsUnique'
  BY <1>2 DEF IInv, LiveIdsUnique
<1>7. PooledIdsFree'
  <2>1. CASE PoolFull(pool)
    <3>1. live' = {} /\ id_pool' = <<>>
      BY <1>1, <1>2, <2>1
    <3>2. QED  BY <3>1 DEF PooledIdsFree
  <2>2. CASE ~PoolFull(pool)
    BY <1>1, <1>2, <1>4, <2>2 DEF PooledIdsFree
  <2>3. QED  BY <2>1, <2>2
<1>8. PoolOutlivesTensors'
  BY <1>1, <1>2 DEF PoolOutlivesTensors
<1>9. GradientOwnership'
  <2>1. \A s \in live' : gradient'[s] = gradient[s] /\ s \in live /\ s # t
    BY <1>2 DEF IInv, TypeOK
  <2>2. \A s \in live : gradient[s] # t
    BY DEF Owned
  <2>3. gradient[t] # NULL => gradient[t] \in live \ {t} /\ \A s \in live' : gradient[s] # gradient[t]
    BY <2>1 DEF IInv, GradientOwnership
  <2>4. \A s \in live' : gradient'[s] # NULL => gradient'[s] \in live' \ {s}
    BY <1>2, <2>1, <2>2 DEF IInv, GradientOwnership
  <2>5. \A s, u \in live' : gradient'[s] = gradient'[u] /\ gradient'[s] # NULL => s = u
    BY <2>1 DEF IInv, GradientOwnership
  <2>6. dying' # NULL => dying' \in live' /\ ~Owned(dying)'
    BY <1>2, <2>1, <2>3 DEF Owned
  <2>7. QED  BY <2>4, <2>5, <2>6 DEF GradientOwnership
<1>10. id' < id => live' = {}
  BY <1>1, <1>2 DEF IInv, TypeOK
<1>11. QED  BY <1>3, <1>5, <1>6, <1>7, <1>8, <1>9, <1>10 DEF IInv

(* tensor_create keeps the invariant. *)
LEMMA TensorCreateStep ==
  ASSUME IInv, NEW t \in Tensors, TensorCreate(t)
  PROVE  IInv' /\ id' >= id
<1>1. /\ tensor_id' \in [Tensors -> Nat]
      /\ id_pool' \in Seq(Nat)
      /\ id' \in Nat /\ id' >= id
      /\ \A s \in live : tensor_id'[s] = tensor_id[s] /\ tensor_id'[t] # tensor_id[s]
      /\ tensor_id'[t] < id'
      /\ \A i \in 1..Len(id_pool') : id_pool'[i] < id' /\ id_pool'[i] # tensor_id'[t]
      /\ \A i, j \in 1..Len(id_pool') : id_pool'[i] = id_pool'[j] => i = j
      /\ \A i \in 1..Len(id_pool'), s \in live : id_pool'[i] # tensor_id[s]
  BY TakeIdFacts DEF TensorCreate
<1>2. /\ dying = NULL /\ dying' = NULL /\ t \notin live /\ live' = live \cup {t}
      /\ pool_created' = TRUE /\ gradient' = [gradient EXCEPT ![t] = NULL]
  BY DEF TensorCreate, Idle
<1>3. TypeOK'
  BY <1>1, <1>2 DEF IInv, TypeOK
<1>4. DOMAIN id_pool' = 1..Len(id_pool')
  BY <1>1
<1>5. IdsBelowCounter'
  BY <1>1, <1>2 DEF IInv, TypeOK, IdsBelowCounter
<1>6. LiveIdsUnique'
  BY <1>1, <1>2 DEF IInv, LiveIdsUnique
<1>7. PooledIdsFree'
  BY <1>1, <1>2, <1>4 DEF PooledIdsFree
<1>8. PoolOutlivesTensors'
  BY <1>2 DEF PoolOutlivesTensors
<1>9. GradientOwnership'
  BY <1>2 DEF IInv, TypeOK, GradientOwnership, Owned
<1>10. QED  BY <1>1, <1>3, <1>5, <1>6, <1>7, <1>8, <1>9 DEF IInv

(* tensor_accumulate_gradient keeps the invariant: the new gradient has one *)
(* owner, and the old one is nobody's any more when it is to be destroyed.  *)
LEMMA AccumulateGradientStep ==
  ASSUME IInv, NEW x \in Tensors, NEW g \in Tensors, AccumulateGradient(x, g)
  PROVE  IInv' /\ id' >= id
<1>0. g \notin live /\ x \in live /\ x # g /\ dying = NULL
  BY DEF AccumulateGradient, Idle
<1>1. /\ tensor_id' \in [Tensors -> Nat]
      /\ id_pool' \in Seq(Nat)
      /\ id' \in Nat /\ id' >= id
      /\ \A s \in live : tensor_id'[s] = tensor_id[s] /\ tensor_id'[g] # tensor_id[s]
      /\ tensor_id'[g] < id'
      /\ \A i \in 1..Len(id_pool') : id_pool'[i] < id' /\ id_pool'[i] # tensor_id'[g]
      /\ \A i, j \in 1..Len(id_pool') : id_pool'[i] = id_pool'[j] => i = j
      /\ \A i \in 1..Len(id_pool'), s \in live : id_pool'[i] # tensor_id[s]
  BY <1>0, TakeIdFacts DEF AccumulateGradient
<1>2. /\ live' = live \cup {g} /\ dying' = gradient[x] /\ pool_created' = pool_created
      /\ gradient' = [gradient EXCEPT ![g] = NULL, ![x] = g]
  BY DEF AccumulateGradient
<1>3. TypeOK'
  BY <1>1, <1>2 DEF IInv, TypeOK
<1>4. DOMAIN id_pool' = 1..Len(id_pool')
  BY <1>1
<1>5. pool_created
  BY <1>0 DEF IInv, PoolOutlivesTensors
<1>6. IdsBelowCounter'
  BY <1>1, <1>2, <1>5 DEF IInv, TypeOK, IdsBelowCounter
<1>7. LiveIdsUnique'
  BY <1>1, <1>2 DEF IInv, LiveIdsUnique
<1>8. PooledIdsFree'
  BY <1>1, <1>2, <1>4 DEF PooledIdsFree
<1>9. PoolOutlivesTensors'
  BY <1>2, <1>5 DEF PoolOutlivesTensors
<1>10. GradientOwnership'
  <2>1. /\ gradient'[g] = NULL /\ gradient'[x] = g
        /\ \A s \in live' \ {g, x} : s \in live /\ gradient'[s] = gradient[s]
    BY <1>0, <1>2 DEF IInv, TypeOK
  <2>2. \A s \in live : gradient[s] # g
    BY <1>0, TensorsAssumption DEF IInv, TypeOK, GradientOwnership
  <2>3. \A s \in live' : gradient'[s] # NULL => gradient'[s] \in live' \ {s}
    <3> SUFFICES ASSUME NEW s \in live', gradient'[s] # NULL
                 PROVE  gradient'[s] \in live' \ {s}
      OBVIOUS
    <3>1. CASE s = x
      BY <1>0, <1>2, <2>1, <3>1
    <3>2. CASE s # x
      <4>1. s # g
        BY <2>1
      <4>2. s \in live /\ gradient'[s] = gradient[s]
        BY <2>1, <3>2, <4>1
      <4>3. gradient[s] \in live \ {s}
        BY <4>2 DEF IInv, GradientOwnership
      <4>4. QED  BY <1>2, <4>2, <4>3
    <3>3. QED  BY <3>1, <3>2
  <2>4. \A s, u \in live' : gradient'[s] = gradient'[u] /\ gradient'[s] # NULL => s = u
    BY <1>0, <1>2, <2>1, <2>2 DEF IInv, GradientOwnership
  <2>5. ASSUME gradient[x] # NULL
        PROVE  gradient[x] \in live' /\ \A s \in live' : gradient'[s] # gradient[x]
    <3>1. gradient[x] \in live
      BY <1>0, <2>5 DEF IInv, GradientOwnership
    <3>2. ASSUME NEW s \in live', gradient'[s] = gradient[x]
          PROVE  FALSE
      <4>1. s # g /\ s # x
        BY <1>0, <2>1, <2>2, <2>5, <3>2
      <4>2. s \in live /\ gradient[s] = gradient[x]
        BY <2>1, <3>2, <4>1
      <4>3. QED  BY <1>0, <2>5, <4>1, <4>2 DEF IInv, GradientOwnership
    <3>3. QED  BY <1>2, <3>1, <3>2
  <2>6. QED  BY <1>2, <2>3, <2>4, <2>5 DEF GradientOwnership, Owned
<1>11. QED  BY <1>1, <1>3, <1>6, <1>7, <1>8, <1>9, <1>10 DEF IInv

-----------------------------------------------------------------------------
(* The invariant holds at first: no tensor, no id, no pool. *)
LEMMA InitIInv == Init => IInv
<1> SUFFICES ASSUME Init PROVE IInv
  OBVIOUS
<1> USE DEF Init
<1>1. id_pool \in Seq(Nat) /\ 1..Len(id_pool) = {} /\ DOMAIN id_pool = {}
  OBVIOUS
<1>2. TypeOK
  BY <1>1 DEF TypeOK
<1>3. IdsBelowCounter /\ PooledIdsFree
  BY <1>1 DEF IdsBelowCounter, PooledIdsFree
<1>4. LiveIdsUnique /\ PoolOutlivesTensors /\ GradientOwnership
  BY DEF LiveIdsUnique, PoolOutlivesTensors, GradientOwnership
<1>5. QED  BY <1>2, <1>3, <1>4 DEF IInv

(* Every step keeps the invariant, and only one that leaves no live tensor  *)
(* lowers the counter.                                                      *)
LEMMA NextIInv ==
  ASSUME IInv, [Next]_vars
  PROVE  IInv' /\ (id' < id => live' = {})
<1>0. id \in Nat
  BY DEF IInv, TypeOK
<1>1. ASSUME NEW t \in Tensors, TensorCreate(t)
      PROVE  IInv' /\ (id' < id => live' = {})
  <2>1. IInv' /\ id' >= id
    BY <1>1, TensorCreateStep
  <2>2. id' \in Nat
    BY <2>1 DEF IInv, TypeOK
  <2>3. QED  BY <1>0, <2>1, <2>2
<1>2. ASSUME NEW t \in Tensors, TensorDestroy(t)
      PROVE  IInv' /\ (id' < id => live' = {})
  <2>1. PICK ok \in PutOutcomes : Release(t, ok)
    BY <1>2 DEF TensorDestroy
  <2>2. t \in live /\ ~Owned(t) /\ dying = NULL /\ ok \in BOOLEAN
    BY <1>2 DEF TensorDestroy, Idle, PutOutcomes
  <2>3. QED  BY <2>1, <2>2, ReleaseStep
<1>3. ASSUME NEW x \in Tensors, NEW g \in Tensors, AccumulateGradient(x, g)
      PROVE  IInv' /\ (id' < id => live' = {})
  <2>1. IInv' /\ id' >= id
    BY <1>3, AccumulateGradientStep
  <2>2. id' \in Nat
    BY <2>1 DEF IInv, TypeOK
  <2>3. QED  BY <1>0, <2>1, <2>2
<1>4. ASSUME TensorCreateFails
      PROVE  IInv' /\ (id' < id => live' = {})
  BY <1>0, <1>4
  DEF TensorCreateFails, IInv, TypeOK, IdsBelowCounter, LiveIdsUnique, PooledIdsFree,
      PoolOutlivesTensors, GradientOwnership, Owned
<1>5. ASSUME DestroyGradient
      PROVE  IInv' /\ (id' < id => live' = {})
  <2>1. PICK ok \in PutOutcomes : Release(dying, ok)
    BY <1>5 DEF DestroyGradient
  <2>2. dying \in live /\ ~Owned(dying) /\ ok \in BOOLEAN
    BY <1>5 DEF DestroyGradient, Idle, PutOutcomes, IInv, GradientOwnership
  <2>3. QED  BY <2>1, <2>2, ReleaseStep
<1>6. ASSUME UNCHANGED vars
      PROVE  IInv' /\ (id' < id => live' = {})
  BY <1>0, <1>6
  DEF vars, IInv, TypeOK, IdsBelowCounter, LiveIdsUnique, PooledIdsFree,
      PoolOutlivesTensors, GradientOwnership, Owned
<1>7. QED  BY <1>1, <1>2, <1>3, <1>4, <1>5, <1>6 DEF Next

(* The inductive invariant holds in every behaviour of the tensor heap. *)
THEOREM HeapInvariant == Spec => []IInv
<1>1. Init => IInv
  BY InitIInv
<1>2. IInv /\ [Next]_vars => IInv'
  BY NextIInv
<1>3. QED  BY <1>1, <1>2, PTL DEF Spec

(* Type correctness of the heap of tensors. *)
THEOREM HeapTypeOK == Spec => []TypeOK
<1>1. IInv => TypeOK
  BY DEF IInv
<1>2. QED  BY <1>1, HeapInvariant, PTL

(* No two live tensors ever share an id, whatever order they are created,   *)
(* given gradients and destroyed in, and whichever allocations fail         *)
(* (tensor_create, tensor_destroy and tensor_accumulate_gradient).          *)
THEOREM UniqueIds == Spec => []LiveIdsUnique
<1>1. IInv => LiveIdsUnique
  BY DEF IInv
<1>2. QED  BY <1>1, HeapInvariant, PTL

(* The pool never holds an id twice nor one a live tensor carries.          *)
THEOREM FreePooledIds == Spec => []PooledIdsFree
<1>1. IInv => PooledIdsFree
  BY DEF IInv
<1>2. QED  BY <1>1, HeapInvariant, PTL

(* tensor_destroy never finds the pool gone while a tensor is live: its     *)
(* test id_pool->size == id is never true too early.                        *)
THEOREM PoolSafety == Spec => []PoolOutlivesTensors
<1>1. IInv => PoolOutlivesTensors
  BY DEF IInv
<1>2. QED  BY <1>1, HeapInvariant, PTL

(* Gradients have one owner and are destroyed exactly once.                 *)
THEOREM SingleOwner == Spec => []GradientOwnership
<1>1. IInv => GradientOwnership
  BY DEF IInv
<1>2. QED  BY <1>1, HeapInvariant, PTL

(* The counter restarts only in the step that releases the last tensor.     *)
THEOREM CounterReset == Spec => ResetOnlyWhenEmpty
<1>1. IInv /\ [Next]_vars => [id' < id => live' = {}]_vars
  BY NextIInv
<1>2. QED  BY <1>1, HeapInvariant, PTL DEF Spec, ResetOnlyWhenEmpty

-----------------------------------------------------------------------------
(* The live tensors can be counted. *)
LEMMA LiveFinite ==
  ASSUME TypeOK
  PROVE  /\ IsFiniteSet(live)
         /\ Cardinality(live) \in Nat
         /\ Cardinality(live) = 0 <=> live = {}
<1>1. IsFiniteSet(live)
  BY TensorsAssumption, FS_Subset DEF TypeOK
<1>2. QED  BY <1>1, FS_CardinalityType, FS_EmptySet

(* A new tensor takes an id that is minted for it or leaves the pool. *)
LEMMA TakeAccounted ==
  ASSUME TypeOK, IdsAccounted, NEW t, t \notin live, TakeId(t), live' = live \cup {t}
  PROVE  IdsAccounted'
<1> SUFFICES ASSUME ~MallocMayFail
             PROVE  id' = Len(id_pool') + Cardinality(live') /\ live' # {}
  BY DEF IdsAccounted
<1>1. Cardinality(live') = Cardinality(live) + 1 /\ Cardinality(live) \in Nat
  BY LiveFinite, FS_AddElement
<1>2. id = Len(id_pool) + Cardinality(live)
  BY DEF IdsAccounted
<1>3. id_pool \in Seq(Nat) /\ Len(id_pool) \in Nat
  BY DEF TypeOK
<1>4. CASE id_pool = <<>> /\ id' = id + 1 /\ id_pool' = id_pool
  BY <1>1, <1>2, <1>3, <1>4
<1>5. CASE id_pool # <<>> /\ id_pool' = Pop(id_pool) /\ id' = id
  <2>1. Len(id_pool') = Len(id_pool) - 1
    BY <1>3, <1>5, PopFacts
  <2>2. QED  BY <1>1, <1>2, <1>3, <1>5, <2>1
<1>6. QED  BY <1>4, <1>5 DEF TakeId

(* A destroyed tensor puts its id in the pool, which is full if and only if  *)
(* no live tensor is left.                                                   *)
LEMMA ReleaseAccounted ==
  ASSUME TypeOK, IdsAccounted, NEW t \in live, NEW ok \in PutOutcomes, Release(t, ok)
  PROVE  IdsAccounted'
<1> SUFFICES ASSUME ~MallocMayFail
             PROVE  /\ id' = Len(id_pool') + Cardinality(live')
                    /\ live' = {} => ~pool_created' /\ id' = 0
  BY DEF IdsAccounted
<1> DEFINE pool == Append(id_pool, tensor_id[t])
<1>1. /\ live' = live \ {t}
      /\ pool_created' = ~PoolFull(pool)
      /\ id_pool' = IF PoolFull(pool) THEN <<>> ELSE pool
      /\ id' = IF PoolFull(pool) THEN 0 ELSE id
  BY DEF Release, PutOutcomes, id_pool_put
<1>2. Len(pool) = Len(id_pool) + 1 /\ Len(id_pool) \in Nat
  BY DEF TypeOK
<1>3. Cardinality(live') = Cardinality(live) - 1 /\ Cardinality(live) \in Nat
  BY <1>1, LiveFinite, FS_RemoveElement
<1>4. id = Len(id_pool) + Cardinality(live)
  BY DEF IdsAccounted
<1> HIDE DEF pool
<1>5. live' = {} <=> Cardinality(live') = 0
  BY <1>1, LiveFinite, FS_EmptySet, FS_Subset
<1>6. PoolFull(pool) <=> Cardinality(live') = 0
  BY <1>2, <1>3, <1>4 DEF PoolFull
<1>7. CASE PoolFull(pool)
  <2>1. id' = Len(id_pool') + Cardinality(live') /\ id' = 0
    BY <1>1, <1>6, <1>7
  <2>2. ~pool_created'
    BY <1>1, <1>7, Zenon
  <2>3. QED  BY <2>1, <2>2
<1>8. CASE ~PoolFull(pool)
  BY <1>1, <1>2, <1>3, <1>4, <1>5, <1>6, <1>8
<1>9. QED  BY <1>7, <1>8

LEMMA NextAccounted ==
  ASSUME IInv, IdsAccounted, [Next]_vars
  PROVE  IdsAccounted'
<1>0. TypeOK
  BY DEF IInv
<1>1. ASSUME NEW t \in Tensors, TensorCreate(t) PROVE IdsAccounted'
  BY <1>0, <1>1, TakeAccounted DEF TensorCreate
<1>2. ASSUME NEW t \in Tensors, TensorDestroy(t) PROVE IdsAccounted'
  <2>1. t \in live /\ \E ok \in PutOutcomes : Release(t, ok)
    BY <1>2 DEF TensorDestroy
  <2>2. QED  BY <1>0, <2>1, ReleaseAccounted
<1>3. ASSUME NEW x \in Tensors, NEW g \in Tensors, AccumulateGradient(x, g)
      PROVE  IdsAccounted'
  BY <1>0, <1>3, TakeAccounted DEF AccumulateGradient
<1>4. ASSUME TensorCreateFails PROVE IdsAccounted'
  BY <1>4 DEF TensorCreateFails, IdsAccounted
<1>5. ASSUME DestroyGradient PROVE IdsAccounted'
  <2>1. dying \in live /\ \E ok \in PutOutcomes : Release(dying, ok)
    BY <1>5 DEF DestroyGradient, Idle, IInv, GradientOwnership
  <2>2. QED  BY <1>0, <2>1, ReleaseAccounted
<1>6. ASSUME UNCHANGED vars PROVE IdsAccounted'
  BY <1>6 DEF vars, IdsAccounted
<1>7. QED  BY <1>1, <1>2, <1>3, <1>4, <1>5, <1>6 DEF Next

(* While no allocation fails, the ids minted are those that live tensors    *)
(* carry and those in the pool, and when the last tensor is destroyed the    *)
(* pool has been freed and ids start from 0 again: tensor_destroy's test     *)
(* id_pool->size == id is true then, and only then.                          *)
THEOREM AccountedIds == Spec => []IdsAccounted
<1>1. Init => IdsAccounted
  BY FS_EmptySet DEF Init, IdsAccounted
<1>2. IInv /\ IdsAccounted /\ [Next]_vars => IdsAccounted'
  BY NextAccounted
<1>3. QED  BY <1>1, <1>2, HeapInvariant, PTL DEF Spec
=============================================================================
