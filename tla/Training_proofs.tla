-------------------------- MODULE Training_proofs --------------------------
(***************************************************************************)
(* What fit does to the parameters and the modes of a model, for every      *)
(* network, however its blocks are nested, every number of epochs and        *)
(* samples, and every failure.                                               *)
(*                                                                         *)
(* The loops over the layers of a block are recursive functions on the       *)
(* blocks.  They exist and can be reasoned about by induction because no     *)
(* block is within itself.                                                   *)
(***************************************************************************)
EXTENDS Training, FoldFacts

-----------------------------------------------------------------------------
(* Induction on the nesting of blocks *)

AllBlocks == DOMAIN Blocks

BlocksIn(b) == {layer.block : layer \in {l \in Range(Blocks[b]) : IsBlock(l)}}

(* A number for every block, below those of the blocks it is in. *)
IsHeight(height) ==
  /\ height \in [AllBlocks -> Nat]
  /\ \A b \in AllBlocks : \A c \in BlocksIn(b) : c \in AllBlocks /\ height[c] < height[b]

LEMMA HeightExists ==
  \E N \in Nat : \E height \in [AllBlocks -> 0..N] : IsHeight(height)
<1>1. Cardinality(AllBlocks) \in Nat
  BY NetworkAssumption, FS_CardinalityType DEF AllBlocks
<1>2. PICK height \in [AllBlocks -> 0..Cardinality(AllBlocks)] :
        \A b \in AllBlocks : \A layer \in Range(Blocks[b]) :
          IsBlock(layer) => layer.block \in AllBlocks /\ height[layer.block] < height[b]
  BY NetworkAssumption DEF AllBlocks
<1>3. IsHeight(height)
  BY <1>1, <1>2 DEF IsHeight, BlocksIn
<1>4. QED  BY <1>1, <1>2, <1>3

(* I holds of a block if it holds of those in it. *)
Climbs(I) == \A b \in AllBlocks : BlocksIn(b) \subseteq I => b \in I

LEMMA NestingInduction ==
  ASSUME NEW I, Climbs(I)
  PROVE  \A b \in AllBlocks : b \in I
<1>1. PICK height : IsHeight(height)
  BY HeightExists
<1> DEFINE Bad == {b \in AllBlocks : b \notin I}
           Heights == {height[b] : b \in Bad}
<1> SUFFICES ASSUME Bad # {}
             PROVE  FALSE
  OBVIOUS
<1>2. Heights \subseteq Nat /\ Heights # {}
  BY <1>1 DEF IsHeight
<1> HIDE DEF Heights
<1>3. PICK least \in Heights : \A h \in Heights : least <= h
  BY <1>2, LeastElement
<1>4. PICK b \in Bad : \A c \in Bad : height[b] <= height[c]
  BY <1>3 DEF Heights
<1>5. \A c \in BlocksIn(b) : c \in AllBlocks /\ height[c] < height[b]
  BY <1>1, <1>4 DEF IsHeight
<1>6. \A c \in BlocksIn(b) : c \notin Bad
  <2> SUFFICES ASSUME NEW c \in BlocksIn(b), c \in Bad PROVE FALSE
    OBVIOUS
  <2>1. height[c] \in Nat /\ height[b] \in Nat
    BY <1>1, <1>4, <1>5 DEF IsHeight
  <2>2. height[b] <= height[c] /\ height[c] < height[b]
    BY <1>4, <1>5
  <2>3. QED  BY <2>1, <2>2
<1>7. BlocksIn(b) \subseteq I
  BY <1>5, <1>6
<1>8. QED  BY <1>4, <1>7 DEF Climbs

-----------------------------------------------------------------------------
(* Recursion on the nesting of blocks *)

(* op computes a value for a block from those of the blocks in it. *)
Descends(op, V) ==
  /\ V # {}
  /\ \A b \in AllBlocks : \A g \in [AllBlocks -> V] :
       /\ op[<<b, g>>] \in V
       /\ \A h \in [AllBlocks -> V] :
            (\A c \in BlocksIn(b) : g[c] = h[c]) => op[<<b, g>>] = op[<<b, h>>]

IsRecursion(f, op, V) ==
  f \in [AllBlocks -> V] /\ \A b \in AllBlocks : f[b] = op[<<b, f>>]

LEMMA NestingRecursion ==
  ASSUME NEW V, NEW op, Descends(op, V)
  PROVE  \E f : IsRecursion(f, op, V)
<1>1. PICK N \in Nat : \E height \in [AllBlocks -> 0..N] : IsHeight(height)
  BY HeightExists
<1>11. PICK height \in [AllBlocks -> 0..N] : IsHeight(height)
  BY <1>1
<1> DEFINE Solves(g, k) == \A b \in AllBlocks : height[b] < k => g[b] = op[<<b, g>>]
           I == {k \in 0..(N + 1) : \E g \in [AllBlocks -> V] : Solves(g, k)}
<1>2. \A b \in AllBlocks : height[b] \in Nat /\ height[b] <= N
  BY <1>11
<1>3. 0 \in I
  <2>1. PICK v \in V : TRUE
    BY DEF Descends
  <2>2. [b \in AllBlocks |-> v] \in [AllBlocks -> V]
    OBVIOUS
  <2>3. \A b \in AllBlocks : ~(height[b] < 0)
    BY <1>2
  <2>4. Solves([b \in AllBlocks |-> v], 0)
    BY <2>3
  <2>5. \E g \in [AllBlocks -> V] : Solves(g, 0)
    BY <2>2, <2>4
  <2>6. 0 \in 0..(N + 1)
    OBVIOUS
  <2> HIDE DEF Solves
  <2>7. QED  BY <2>5, <2>6
<1>4. ASSUME NEW k \in 1..(N + 1), k - 1 \in I
      PROVE  k \in I
  <2>1. PICK g \in [AllBlocks -> V] : Solves(g, k - 1)
    BY <1>4
  <2> DEFINE h == [b \in AllBlocks |-> op[<<b, g>>]]
  <2>2. h \in [AllBlocks -> V]
    BY DEF Descends
  <2>3. ASSUME NEW b \in AllBlocks, height[b] < k
        PROVE  h[b] = op[<<b, h>>]
    <3>1. \A c \in BlocksIn(b) : c \in AllBlocks /\ height[c] < height[b]
      BY <1>11 DEF IsHeight
    <3>2. \A c \in BlocksIn(b) : height[c] < k - 1
      BY <1>2, <2>3, <3>1
    <3>3. \A c \in BlocksIn(b) : g[c] = h[c]
      BY <2>1, <3>1, <3>2
    <3> HIDE DEF h
    <3>4. op[<<b, g>>] = op[<<b, h>>]
      BY <2>2, <3>3 DEF Descends
    <3>5. QED  BY <3>4 DEF h
  <2> HIDE DEF h
  <2>4. Solves(h, k)
    BY <2>3
  <2>5. \E g1 \in [AllBlocks -> V] : Solves(g1, k)
    BY <2>2, <2>4
  <2>6. k \in 0..(N + 1)
    OBVIOUS
  <2> HIDE DEF Solves
  <2>7. QED  BY <2>5, <2>6
<1> HIDE DEF I, Solves
<1>5. CountsUp(I, N + 1)
  BY <1>3, <1>4 DEF CountsUp
<1>6. N + 1 \in I
  <2>1. N + 1 \in Nat /\ N + 1 \in 0..(N + 1)
    OBVIOUS
  <2>2. QED  BY <1>5, <2>1, LoopInduction
<1>7. PICK g \in [AllBlocks -> V] : Solves(g, N + 1)
  BY <1>6 DEF I
<1>8. \A b \in AllBlocks : height[b] < N + 1
  BY <1>2
<1>9. IsRecursion(g, op, V)
  BY <1>7, <1>8 DEF Solves, IsRecursion
<1>10. QED  BY <1>9

-----------------------------------------------------------------------------
(* The loops over the layers *)

Layers == UNION {Range(Blocks[b]) : b \in AllBlocks}

LEMMA NestedBlocks ==
  ASSUME NEW b \in AllBlocks, NEW layer \in Range(Blocks[b])
  PROVE  /\ layer \in Layers
         /\ IsBlock(layer) => layer.block \in BlocksIn(b) /\ layer.block \in AllBlocks
<1>1. PICK N \in Nat : \E height \in [AllBlocks -> 0..N] : IsHeight(height)
  BY HeightExists
<1>2. IsBlock(layer) => layer.block \in BlocksIn(b)
  BY DEF BlocksIn
<1>3. layer \in Layers
  BY DEF Layers
<1>4. QED  BY <1>1, <1>2, <1>3 DEF IsHeight

(* A loop that collects something of every layer, calling itself for blocks. *)
Collects(f, leaf) ==
  f = [b \in AllBlocks |->
         UNION {IF IsBlock(layer) THEN f[layer.block] ELSE leaf[layer] : layer \in Range(Blocks[b])}]

LEMMA CollectionExists ==
  ASSUME NEW S, NEW leaf \in [Layers -> SUBSET S]
  PROVE  \E f : Collects(f, leaf)
<1>0. PICK V : V = SUBSET S
  OBVIOUS
<1> DEFINE Union(b, g) == UNION {IF IsBlock(layer) THEN g[layer.block] ELSE leaf[layer] :
                                   layer \in Range(Blocks[b])}
           op == [bg \in AllBlocks \X [AllBlocks -> V] |-> Union(bg[1], bg[2])]
<1>1. \A b \in AllBlocks, g \in [AllBlocks -> V] : op[<<b, g>>] = Union(b, g)
  OBVIOUS
<1> HIDE DEF op
<1>2. ASSUME NEW b \in AllBlocks, NEW g \in [AllBlocks -> V]
      PROVE  Union(b, g) \in V
  <2>1. \A layer \in Range(Blocks[b]) : (IF IsBlock(layer) THEN g[layer.block] ELSE leaf[layer]) \subseteq S
    BY <1>0, NestedBlocks
  <2>2. QED  BY <1>0, <2>1
<1>3. ASSUME NEW b \in AllBlocks, NEW g \in [AllBlocks -> V], NEW h \in [AllBlocks -> V],
             \A c \in BlocksIn(b) : g[c] = h[c]
      PROVE  Union(b, g) = Union(b, h)
  <2>1. \A layer \in Range(Blocks[b]) :
          (IF IsBlock(layer) THEN g[layer.block] ELSE leaf[layer])
            = (IF IsBlock(layer) THEN h[layer.block] ELSE leaf[layer])
    BY <1>3, NestedBlocks
  <2>2. QED  BY <2>1
<1> HIDE DEF Union
<1>4. Descends(op, V)
  <2>1. V # {}
    BY <1>0
  <2>2. ASSUME NEW b \in AllBlocks, NEW g \in [AllBlocks -> V]
        PROVE  op[<<b, g>>] \in V
    BY <1>1, <1>2
  <2>3. ASSUME NEW b \in AllBlocks, NEW g \in [AllBlocks -> V], NEW h \in [AllBlocks -> V],
               \A c \in BlocksIn(b) : g[c] = h[c]
        PROVE  op[<<b, g>>] = op[<<b, h>>]
    <3>1. Union(b, g) = Union(b, h)
      BY <1>3, <2>3
    <3>2. QED  BY <1>1, <3>1
  <2>4. QED  BY <2>1, <2>2, <2>3, Zenon DEF Descends
<1>5. PICK f : IsRecursion(f, op, V)
  BY <1>4, NestingRecursion
<1>6. f \in [AllBlocks -> V] /\ \A b \in AllBlocks : f[b] = op[<<b, f>>]
  BY <1>5 DEF IsRecursion
<1>7. \A b \in AllBlocks : f[b] = Union(b, f)
  BY <1>1, <1>6
<1>8. f = [b \in AllBlocks |-> Union(b, f)]
  BY <1>6, <1>7
<1>9. QED  BY <1>8 DEF Collects, Union

LEMMA LayersOfIs == Collects(LayersOf, [layer \in Layers |-> {layer}])
<1> DEFINE leaf == [layer \in Layers |-> {layer}]
           IsIt(f) == f = [b \in AllBlocks |->
                             UNION {IF IsBlock(layer) THEN f[layer.block] ELSE {layer} :
                                      layer \in Range(Blocks[b])}]
<1>1. ASSUME NEW f
      PROVE  IsIt(f) <=> Collects(f, leaf)
  <2>1. \A b \in AllBlocks : \A layer \in Range(Blocks[b]) : leaf[layer] = {layer}
    BY NestedBlocks
  <2> HIDE DEF leaf
  <2>2. \A b \in AllBlocks :
          UNION {IF IsBlock(layer) THEN f[layer.block] ELSE {layer} : layer \in Range(Blocks[b])}
            = UNION {IF IsBlock(layer) THEN f[layer.block] ELSE leaf[layer] : layer \in Range(Blocks[b])}
    BY <2>1
  <2>3. QED  BY <2>2 DEF Collects
<1>2. \E f : Collects(f, leaf)
  <2>1. leaf \in [Layers -> SUBSET Layers]
    OBVIOUS
  <2> HIDE DEF leaf
  <2>2. QED  BY <2>1, CollectionExists
<1>3. LayersOf = CHOOSE f : IsIt(f)
  BY DEF LayersOf, AllBlocks
<1> HIDE DEF IsIt, leaf
<1>4. IsIt(LayersOf)
  BY <1>1, <1>2, <1>3
<1>5. QED  BY <1>1, <1>4 DEF leaf

LEMMA ZeroedIs == Collects(zero_gradient_block, [layer \in Layers |-> ParametersOf(layer)])
<1> DEFINE S == UNION {ParametersOf(layer) : layer \in Layers}
           leaf == [layer \in Layers |-> ParametersOf(layer)]
           IsIt(f) == f = [b \in AllBlocks |->
                             UNION {IF IsBlock(layer) THEN f[layer.block] ELSE ParametersOf(layer) :
                                      layer \in Range(Blocks[b])}]
<1>1. ASSUME NEW f
      PROVE  IsIt(f) <=> Collects(f, leaf)
  <2>1. \A b \in AllBlocks : \A layer \in Range(Blocks[b]) : leaf[layer] = ParametersOf(layer)
    BY NestedBlocks
  <2> HIDE DEF leaf
  <2>2. \A b \in AllBlocks :
          UNION {IF IsBlock(layer) THEN f[layer.block] ELSE ParametersOf(layer) : layer \in Range(Blocks[b])}
            = UNION {IF IsBlock(layer) THEN f[layer.block] ELSE leaf[layer] : layer \in Range(Blocks[b])}
    BY <2>1
  <2>3. QED  BY <2>2 DEF Collects
<1>2. \E f : Collects(f, leaf)
  <2>1. leaf \in [Layers -> SUBSET S]
    OBVIOUS
  <2> HIDE DEF leaf, S
  <2>2. QED  BY <2>1, CollectionExists
<1>3. zero_gradient_block = CHOOSE f : IsIt(f)
  BY DEF zero_gradient_block, AllBlocks
<1> HIDE DEF IsIt, leaf
<1>4. IsIt(zero_gradient_block)
  BY <1>1, <1>2, <1>3
<1>5. QED  BY <1>1, <1>4 DEF leaf

(* The parameters of all layers of a block. *)
ParametersIn(b) == UNION {ParametersOf(layer) : layer \in LayersOf[b]}

LEMMA LayersOfBlock ==
  ASSUME NEW b \in AllBlocks
  PROVE  LayersOf[b] = UNION {IF IsBlock(layer) THEN LayersOf[layer.block] ELSE {layer} :
                                layer \in Range(Blocks[b])}
<1>1. LayersOf[b] = UNION {IF IsBlock(layer) THEN LayersOf[layer.block]
                           ELSE [k \in Layers |-> {k}][layer] : layer \in Range(Blocks[b])}
  BY LayersOfIs DEF Collects
<1>2. \A layer \in Range(Blocks[b]) : [k \in Layers |-> {k}][layer] = {layer}
  BY NestedBlocks
<1>3. \A layer \in Range(Blocks[b]) :
        (IF IsBlock(layer) THEN LayersOf[layer.block] ELSE [k \in Layers |-> {k}][layer])
          = (IF IsBlock(layer) THEN LayersOf[layer.block] ELSE {layer})
  BY <1>2
<1> DEFINE A(layer) == IF IsBlock(layer) THEN LayersOf[layer.block] ELSE [k \in Layers |-> {k}][layer]
           B(layer) == IF IsBlock(layer) THEN LayersOf[layer.block] ELSE {layer}
<1>4. LayersOf[b] = UNION {A(layer) : layer \in Range(Blocks[b])}
  BY <1>1
<1>5. \A layer \in Range(Blocks[b]) : A(layer) = B(layer)
  BY <1>3
<1> HIDE DEF A, B
<1>6. LayersOf[b] = UNION {B(layer) : layer \in Range(Blocks[b])}
  BY <1>4, <1>5
<1>7. QED  BY <1>6 DEF B

LEMMA ParametersInBlock ==
  ASSUME NEW b \in AllBlocks
  PROVE  ParametersIn(b) = UNION {IF IsBlock(layer) THEN ParametersIn(layer.block) ELSE ParametersOf(layer) :
                                    layer \in Range(Blocks[b])}
<1> DEFINE Leaf(layer) == IF IsBlock(layer) THEN LayersOf[layer.block] ELSE {layer}
           Part(layer) == IF IsBlock(layer) THEN ParametersIn(layer.block) ELSE ParametersOf(layer)
<1>1. LayersOf[b] = UNION {Leaf(layer) : layer \in Range(Blocks[b])}
  BY LayersOfBlock
<1>2. \A layer : Part(layer) = UNION {ParametersOf(k) : k \in Leaf(layer)}
  BY DEF ParametersIn
<1> HIDE DEF Leaf, Part
<1>3. UNION {ParametersOf(k) : k \in LayersOf[b]} = UNION {Part(layer) : layer \in Range(Blocks[b])}
  BY <1>1, <1>2
<1>4. QED  BY <1>3 DEF ParametersIn, Part

(* zero_gradient_block reaches the parameters in every block. *)
LEMMA ZeroesAll == \A b \in AllBlocks : zero_gradient_block[b] = ParametersIn(b)
<1> DEFINE I == {b \in AllBlocks : zero_gradient_block[b] = ParametersIn(b)}
<1>1. ASSUME NEW b \in AllBlocks, BlocksIn(b) \subseteq I
      PROVE  b \in I
  <2>1. zero_gradient_block[b]
          = UNION {IF IsBlock(layer) THEN zero_gradient_block[layer.block]
                   ELSE [k \in Layers |-> ParametersOf(k)][layer] : layer \in Range(Blocks[b])}
    BY ZeroedIs DEF Collects
  <2>2. \A layer \in Range(Blocks[b]) :
          (IF IsBlock(layer) THEN zero_gradient_block[layer.block]
           ELSE [k \in Layers |-> ParametersOf(k)][layer])
            = (IF IsBlock(layer) THEN ParametersIn(layer.block) ELSE ParametersOf(layer))
    BY <1>1, NestedBlocks
  <2>3. zero_gradient_block[b] = ParametersIn(b)
    BY <2>1, <2>2, ParametersInBlock
  <2>4. QED  BY <2>3
<1> HIDE DEF I
<1>2. Climbs(I)
  BY <1>1 DEF Climbs
<1>3. \A b \in AllBlocks : b \in I
  BY <1>2, NestingInduction
<1>4. QED  BY <1>3 DEF I

-----------------------------------------------------------------------------
(* update_model *)

(* What updating the parameters P gives: only those that have a gradient, and *)
(* all of them unless one failed, which an error always means.                *)
Updates(result, P) ==
  /\ result.updated \subseteq P
  /\ \A p \in result.updated : gradient[p] # <<>>
  /\ result.error => result.failed # {}
  /\ result.failed = {} => result.updated = P

Results(S) == [updated : SUBSET S, failed : SUBSET S, error : BOOLEAN]

LEMMA FieldsNumbered ==
  ASSUME NEW type
  PROVE  DOMAIN Fields(type) \subseteq Nat
<1>1. \/ Fields(type) = <<>>
      \/ \E x : Fields(type) = <<x>>
      \/ \E x, y : Fields(type) = <<x, y>>
      \/ \E x, y, z, w : Fields(type) = <<x, y, z, w>>
  BY DEF Fields
<1>2. /\ DOMAIN <<>> \subseteq Nat
      /\ \A x : DOMAIN <<x>> \subseteq Nat
      /\ \A x, y : DOMAIN <<x, y>> \subseteq Nat
      /\ \A x, y, z, w : DOMAIN <<x, y, z, w>> \subseteq Nat
  OBVIOUS
<1>3. QED  BY <1>1, <1>2

LEMMA LayerUpdates ==
  ASSUME NEW layer, NEW failing
  PROVE  /\ Updates(update_layer(layer, failing), ParametersOf(layer))
         /\ update_layer(layer, failing) \in Results(ParametersOf(layer))
<1> DEFINE fields == Fields(layer.type)
           Parameter(n) == <<layer.name, fields[n]>>
           wrong == {n \in DOMAIN fields : ~update_parametersOK(Parameter(n), failing)}
           up == {Parameter(n) : n \in {k \in DOMAIN fields : \A m \in wrong : k < m}}
           down == {Parameter(n) : n \in {k \in wrong : \A m \in wrong : k <= m}}
           s == update_layer(layer, failing)
<1>1. DOMAIN fields \subseteq Nat
  BY FieldsNumbered
<1>2. ParametersOf(layer) = {Parameter(n) : n \in DOMAIN fields}
  BY DEF ParametersOf, Range
<1>3. s = [updated |-> up, failed |-> down, error |-> wrong # {}]
  BY DEF update_layer
<1> HIDE DEF s
<1>4. s.updated = up /\ s.failed = down
  BY <1>3
<1>5. s.error = (wrong # {}) /\ s.error \in BOOLEAN
  BY <1>3
<1>6. up \subseteq ParametersOf(layer) /\ down \subseteq ParametersOf(layer)
  BY <1>2
<1>7. \A p \in up : gradient[p] # <<>>
  <2> SUFFICES ASSUME NEW n \in DOMAIN fields, \A m \in wrong : n < m
               PROVE  gradient[Parameter(n)] # <<>>
    OBVIOUS
  <2>1. n \in Nat /\ ~(n < n)
    BY <1>1
  <2>2. n \notin wrong
    BY <2>1
  <2>3. QED  BY <2>2 DEF update_parametersOK
<1>8. wrong # {} => down # {}
  <2> SUFFICES ASSUME wrong # {} PROVE down # {}
    OBVIOUS
  <2>1. PICK k \in wrong : \A m \in wrong : k <= m
    <3>1. wrong \subseteq Nat
      BY <1>1
    <3> HIDE DEF wrong
    <3>2. QED  BY <3>1, LeastElement
  <2>2. Parameter(k) \in down
    BY <2>1
  <2>3. QED  BY <2>2
<1>9. wrong = {} => up = ParametersOf(layer)
  BY <1>2
<1> HIDE DEF up, down, wrong
<1>10. Updates(s, ParametersOf(layer))
  BY <1>4, <1>5, <1>6, <1>7, <1>8, <1>9 DEF Updates
<1>11. s \in Results(ParametersOf(layer))
  BY <1>3, <1>6 DEF Results
<1>12. QED  BY <1>10, <1>11 DEF s

(* The parameters a loop is to update at a layer. *)
Part(layer) == IF IsBlock(layer) THEN ParametersIn(layer.block) ELSE ParametersOf(layer)

LEMMA PartsOfBlock ==
  ASSUME NEW b \in AllBlocks
  PROVE  /\ DOMAIN Blocks[b] \subseteq Nat
         /\ ParametersIn(b) = UNION {Part(Blocks[b][n]) : n \in DOMAIN Blocks[b]}
<1>1. DOMAIN Blocks[b] \subseteq Nat
  <2>1. Blocks[b] \in Seq(Range(Blocks[b]))
    BY NetworkAssumption DEF AllBlocks
  <2>2. QED  BY <2>1
<1>2. Range(Blocks[b]) = {Blocks[b][n] : n \in DOMAIN Blocks[b]}
  BY DEF Range
<1>3. ParametersIn(b) = UNION {Part(layer) : layer \in Range(Blocks[b])}
  BY ParametersInBlock DEF Part
<1>4. QED  BY <1>1, <1>2, <1>3

LEMMA LoopUpdates ==
  ASSUME NEW b \in AllBlocks, NEW result,
         \A n \in DOMAIN Blocks[b] : Updates(result[n], Part(Blocks[b][n]))
  PROVE  Updates(LoopResult(Blocks[b], result), ParametersIn(b))
<1> DEFINE layers == Blocks[b]
           returning == {n \in DOMAIN layers : IsBlock(layers[n]) /\ result[n].error}
           reached == {n \in DOMAIN layers : \A m \in returning : n <= m}
           assigning == {n \in reached : IsBlock(layers[n]) \/ Fields(layers[n].type) # <<>>}
           results == {result[n] : n \in reached}
           s == LoopResult(layers, result)
<1>1. /\ s.updated = UNION {r.updated : r \in results}
      /\ s.failed = UNION {r.failed : r \in results}
  BY DEF LoopResult
<1>2. s.error => \/ returning # {}
                 \/ \E n \in assigning : result[n].error
  BY DEF LoopResult
<1> HIDE DEF s
<1>3. DOMAIN layers \subseteq Nat
  BY PartsOfBlock
<1>4. ParametersIn(b) = UNION {Part(layers[n]) : n \in DOMAIN layers}
  BY PartsOfBlock
<1>5. returning # {} => \E n \in reached : result[n].error
  <2> SUFFICES ASSUME returning # {} PROVE \E n \in reached : result[n].error
    OBVIOUS
  <2>1. returning \subseteq Nat
    BY <1>3
  <2>2. PICK n \in returning : \A m \in returning : n <= m
    <3> HIDE DEF returning
    <3>1. QED  BY <2>1, LeastElement
  <2>3. QED  BY <2>2
<1>6. s.error => \E n \in reached : result[n].error
  BY <1>2, <1>5
<1> DEFINE P(n) == Part(layers[n])
<1>7. \A n \in reached : Updates(result[n], P(n))
  OBVIOUS
<1>8. reached \subseteq DOMAIN layers /\ (returning = {} => reached = DOMAIN layers)
  OBVIOUS
<1> HIDE DEF reached, returning, P, layers
<1>9. (\E n \in reached : result[n].error) => s.failed # {}
  BY <1>1, <1>7 DEF Updates
<1>10. s.updated \subseteq ParametersIn(b)
  <2>1. \A n \in reached : result[n].updated \subseteq P(n)
    BY <1>7 DEF Updates
  <2>2. QED  BY <1>1, <1>4, <1>8, <2>1 DEF P
<1>11. \A p \in s.updated : gradient[p] # <<>>
  BY <1>1, <1>7 DEF Updates
<1>12. ASSUME s.failed = {}
       PROVE  s.updated = ParametersIn(b)
  <2>1. reached = DOMAIN layers
    BY <1>5, <1>8, <1>9, <1>12
  <2>2. \A n \in reached : result[n].failed = {}
    BY <1>1, <1>12
  <2>3. \A n \in reached : result[n].updated = P(n)
    BY <1>7, <2>2 DEF Updates
  <2>4. QED  BY <1>1, <1>4, <2>1, <2>3 DEF P
<1>13. QED
  BY <1>6, <1>9, <1>10, <1>11, <1>12 DEF Updates, s, layers

AllParameters == UNION {ParametersOf(layer) : layer \in Layers}

(* What update_block(failing) calls for its layers. *)
Called(g, b, failing) ==
  [n \in DOMAIN Blocks[b] |->
     IF IsBlock(Blocks[b][n]) THEN g[Blocks[b][n].block] ELSE update_layer(Blocks[b][n], failing)]

LEMMA LoopResultType ==
  ASSUME NEW b \in AllBlocks, NEW S, NEW result,
         \A n \in DOMAIN Blocks[b] : result[n] \in Results(S)
  PROVE  LoopResult(Blocks[b], result) \in Results(S)
<1> DEFINE layers == Blocks[b]
           returning == {n \in DOMAIN layers : IsBlock(layers[n]) /\ result[n].error}
           reached == {n \in DOMAIN layers : \A m \in returning : n <= m}
           assigning == {n \in reached : IsBlock(layers[n]) \/ Fields(layers[n].type) # <<>>}
           results == {result[n] : n \in reached}
           up == UNION {r.updated : r \in results}
           down == UNION {r.failed : r \in results}
           error == \/ returning # {}
                    \/ \E n \in assigning : /\ \A m \in assigning : m <= n
                                            /\ ~IsBlock(layers[n]) /\ result[n].error
<1>1. LoopResult(layers, result) = [updated |-> up, failed |-> down, error |-> error]
  BY DEF LoopResult
<1>2. \A r \in results : r \in Results(S)
  OBVIOUS
<1> HIDE DEF results
<1>3. up \subseteq S /\ down \subseteq S
  BY <1>2 DEF Results
<1>4. error \in BOOLEAN
  OBVIOUS
<1> HIDE DEF up, down, error
<1>5. QED  BY <1>1, <1>3, <1>4 DEF Results, layers

LEMMA UpdateExists ==
  ASSUME NEW failing
  PROVE  \E f : /\ f = [b \in AllBlocks |-> LoopResult(Blocks[b], Called(f, b, failing))]
                /\ \A b \in AllBlocks : f[b] \in Results(AllParameters)
<1>0. PICK V : V = Results(AllParameters)
  OBVIOUS
<1> DEFINE op == [bg \in AllBlocks \X [AllBlocks -> V] |->
                    LoopResult(Blocks[bg[1]], Called(bg[2], bg[1], failing))]
<1>1. \A b \in AllBlocks, g \in [AllBlocks -> V] :
        op[<<b, g>>] = LoopResult(Blocks[b], Called(g, b, failing))
  OBVIOUS
<1> HIDE DEF op
<1>2. ASSUME NEW b \in AllBlocks, NEW n \in DOMAIN Blocks[b]
      PROVE  Blocks[b][n] \in Range(Blocks[b])
  BY DEF Range
<1>3. ASSUME NEW b \in AllBlocks, NEW g \in [AllBlocks -> V]
      PROVE  op[<<b, g>>] \in V
  <2>1. ASSUME NEW n \in DOMAIN Blocks[b]
        PROVE  Called(g, b, failing)[n] \in Results(AllParameters)
    <3>1. Blocks[b][n] \in Layers /\ (IsBlock(Blocks[b][n]) => Blocks[b][n].block \in AllBlocks)
      BY <1>2, NestedBlocks
    <3>2. Called(g, b, failing)[n] = IF IsBlock(Blocks[b][n]) THEN g[Blocks[b][n].block]
                                     ELSE update_layer(Blocks[b][n], failing)
      BY DEF Called
    <3>3. CASE IsBlock(Blocks[b][n])
      BY <1>0, <3>1, <3>2, <3>3
    <3>4. CASE ~IsBlock(Blocks[b][n])
      <4>1. ParametersOf(Blocks[b][n]) \subseteq AllParameters
        BY <3>1 DEF AllParameters
      <4>2. update_layer(Blocks[b][n], failing) \in Results(ParametersOf(Blocks[b][n]))
        BY LayerUpdates
      <4>3. \A S, T : S \subseteq T => Results(S) \subseteq Results(T)
        BY DEF Results
      <4>4. QED  BY <3>2, <3>4, <4>1, <4>2, <4>3
    <3>5. QED  BY <3>3, <3>4
  <2>2. LoopResult(Blocks[b], Called(g, b, failing)) \in Results(AllParameters)
    BY <2>1, LoopResultType
  <2>3. QED  BY <1>0, <1>1, <2>2
<1>4. ASSUME NEW b \in AllBlocks, NEW g \in [AllBlocks -> V], NEW h \in [AllBlocks -> V],
             \A c \in BlocksIn(b) : g[c] = h[c]
      PROVE  op[<<b, g>>] = op[<<b, h>>]
  <2>1. \A n \in DOMAIN Blocks[b] : IsBlock(Blocks[b][n]) => Blocks[b][n].block \in BlocksIn(b)
    BY <1>2, NestedBlocks
  <2>2. Called(g, b, failing) = Called(h, b, failing)
    BY <1>4, <2>1 DEF Called
  <2>3. QED  BY <1>1, <2>2
<1>5. Descends(op, V)
  <2>1. [updated |-> {}, failed |-> {}, error |-> FALSE] \in Results(AllParameters)
    BY DEF Results
  <2>2. V # {}
    BY <1>0, <2>1
  <2>3. QED  BY <1>3, <1>4, <2>2, Zenon DEF Descends
<1>6. PICK f : IsRecursion(f, op, V)
  BY <1>5, NestingRecursion
<1>7. f \in [AllBlocks -> V] /\ \A b \in AllBlocks : f[b] = LoopResult(Blocks[b], Called(f, b, failing))
  BY <1>1, <1>6 DEF IsRecursion
<1>8. f = [b \in AllBlocks |-> LoopResult(Blocks[b], Called(f, b, failing))]
  BY <1>7
<1>9. QED  BY <1>0, <1>7, <1>8

LEMMA UpdateIs ==
  ASSUME NEW failing
  PROVE  \A b \in AllBlocks :
           update_block(failing)[b] = LoopResult(Blocks[b], Called(update_block(failing), b, failing))
<1> DEFINE IsIt(f) == f = [b \in AllBlocks |-> LoopResult(Blocks[b], Called(f, b, failing))]
<1>1. update_block(failing) = CHOOSE f : IsIt(f)
  BY DEF update_block, Called, AllBlocks
<1>2. \E f : IsIt(f)
  BY UpdateExists
<1> HIDE DEF IsIt
<1>3. IsIt(update_block(failing))
  BY <1>1, <1>2
<1>4. QED  BY <1>3 DEF IsIt

(* In whatever block a parameter is, update_model updates it unless a failure *)
(* comes first, which is reported or counted.                                 *)
LEMMA ModelUpdates ==
  ASSUME NEW failing
  PROVE  Updates(update_model(failing), Parameters)
<1> DEFINE f == update_block(failing)
           I == {b \in AllBlocks : Updates(f[b], ParametersIn(b))}
<1>1. ASSUME NEW b \in AllBlocks, BlocksIn(b) \subseteq I
      PROVE  b \in I
  <2>1. f[b] = LoopResult(Blocks[b], Called(f, b, failing))
    BY UpdateIs
  <2> HIDE DEF f
  <2>2. ASSUME NEW n \in DOMAIN Blocks[b]
        PROVE  Updates(Called(f, b, failing)[n], Part(Blocks[b][n]))
    <3>1. Called(f, b, failing)[n] = IF IsBlock(Blocks[b][n]) THEN f[Blocks[b][n].block]
                                     ELSE update_layer(Blocks[b][n], failing)
      BY DEF Called
    <3>2. CASE IsBlock(Blocks[b][n])
      <4>1. Blocks[b][n].block \in I
        BY <1>1, <3>2, NestedBlocks DEF Range
      <4>2. QED  BY <3>1, <3>2, <4>1 DEF Part
    <3>3. CASE ~IsBlock(Blocks[b][n])
      BY <3>1, <3>3, LayerUpdates DEF Part
    <3>4. QED  BY <3>2, <3>3
  <2>3. Updates(f[b], ParametersIn(b))
    BY <2>1, <2>2, LoopUpdates
  <2>4. QED  BY <2>3
<1> HIDE DEF I
<1>2. Climbs(I)
  BY <1>1 DEF Climbs
<1>3. Root \in AllBlocks
  BY NetworkAssumption DEF AllBlocks
<1>4. Root \in I
  BY <1>2, <1>3, NestingInduction
<1>5. Parameters = ParametersIn(Root)
  BY DEF Parameters, ParametersIn
<1>6. QED  BY <1>4, <1>5 DEF I, update_model

-----------------------------------------------------------------------------
(* The inductive invariant *)

TrainingPhases == {"zero_gradient", "clip", "backward", "update", "checkpoint"}

LoopPhases == {"iterate", "zero_gradient", "dataloader", "forward", "criterion", "metrics",
               "clip", "backward", "update", "release"}

Flagged == {layer.name : layer \in {k \in LayersOf[Root] : HasInferenceFlag(k)}}

TypesInv ==
  /\ DOMAIN value = Parameters
  /\ DOMAIN gradient = Parameters
  /\ {recorded, swallowed, no_gradient} \subseteq BOOLEAN
  /\ inference \in [Flagged -> BOOLEAN]
  /\ dataset \in {"TRAIN", "VALID", "TEST"}
  /\ phase \in TrainingPhases => dataset = "TRAIN"

(* The modes of training, or those of validation and testing. *)
ModesAre(flag) ==
  /\ previous = IF flag THEN 1 ELSE 0
  /\ no_gradient <=> flag
  /\ \A l \in DOMAIN inference : l \in block_inference[Root] => (inference[l] <=> flag)

ModesInv ==
  ~swallowed =>
    /\ phase \in {"epoch", "checkpoint"} => ModesAre(FALSE)
    /\ phase \in LoopPhases /\ dataset = "TRAIN" => ModesAre(FALSE)
    /\ phase \in LoopPhases /\ dataset # "TRAIN" => ModesAre(TRUE)

(* What an iteration has made and not yet destroyed. *)
HeldInv ==
  ~swallowed =>
    /\ phase \in {"epoch", "checkpoint", "iterate", "zero_gradient", "dataloader"} => held = {}
    /\ phase = "forward" => held = {"x", "y"}
    /\ phase = "criterion" =>
         held = {"x", "y", "y_pred"} \union (IF dataset = "TRAIN" THEN {"graph"} ELSE {})
    /\ phase \in {"metrics", "clip", "backward"} =>
         held = {"x", "y", "y_pred", "cost"} \union (IF dataset = "TRAIN" THEN {"graph"} ELSE {})
    /\ phase \in {"metrics", "clip", "backward"} => (recorded <=> dataset = "TRAIN")
    /\ phase = "update" => held = {"x", "y"}
    /\ phase = "release" =>
         held = {"x", "y"} \union (IF dataset = "TRAIN" THEN {} ELSE {"y_pred", "cost"})

(* The gradients of an iteration are NULL, or come from its cost alone. *)
GradientsInv ==
  dataset = "TRAIN" =>
    /\ phase \in {"dataloader", "forward", "criterion", "metrics", "clip", "backward"} =>
         \A p \in Parameters : gradient[p] = <<>>
    /\ phase = "update" =>
         \A p \in Parameters :
           gradient[p] = IF recorded THEN <<[of |-> cost, clipped |-> FALSE]>> ELSE <<>>
    /\ phase \in {"metrics", "clip", "backward", "update"} =>
         cost = [batch |-> indicies[j + 1] * BatchSize, value |-> value]

TrainingInv == TypesInv /\ ModesInv /\ HeldInv /\ GradientsInv /\ FreshUpdates

LEMMA InitTraining == Init => TrainingInv
<1> SUFFICES ASSUME Init PROVE TrainingInv
  OBVIOUS
<1>1. TypesInv
  BY DEF Init, TypesInv, TrainingPhases, Flagged
<1>2. ModesInv
  <2>1. \A l \in DOMAIN inference : ~inference[l]
    BY DEF Init
  <2>2. ModesAre(FALSE)
    BY <2>1 DEF Init, ModesAre
  <2>3. phase \notin LoopPhases
    BY DEF Init, LoopPhases
  <2>4. QED  BY <2>2, <2>3 DEF ModesInv
<1>3. HeldInv
  BY DEF Init, HeldInv
<1>4. GradientsInv
  BY DEF Init, GradientsInv
<1>5. FreshUpdates
  BY DEF Init, FreshUpdates
<1>6. QED  BY <1>1, <1>2, <1>3, <1>4, <1>5 DEF TrainingInv

-----------------------------------------------------------------------------
(* What an update does *)

LEMMA UpdateFacts ==
  ASSUME TypesInv, GradientsInv, UpdateModel
  PROVE  /\ phase = "update" /\ dataset = "TRAIN"
         /\ phase' \in {"failed", "release"}
         /\ DOMAIN value' = Parameters
         /\ {swallowed', no_gradient'} \subseteq BOOLEAN
         /\ swallowed => swallowed'
         /\ \A u \in updated' :
              /\ u[1] \in Parameters
              /\ recorded
              /\ u[2] = <<[of |-> cost, clipped |-> FALSE]>>
              /\ value'[u[1]] = value[u[1]] + 1
         /\ phase' = "release" /\ ~swallowed' =>
              /\ {u[1] : u \in updated'} = Parameters
              /\ previous' = previous + 0
              /\ no_gradient' <=> no_gradient
<1>1. PICK failing : \E early \in SUBSET failing :
        LET s == update_model(failing)
            left == s.failed \ early
        IN  /\ phase' = IF s.error THEN "failed" ELSE "release"
            /\ value' = [p \in DOMAIN value |-> IF p \in s.updated THEN value[p] + 1 ELSE value[p]]
            /\ updated' = {<<p, gradient[p]>> : p \in s.updated}
            /\ swallowed' = (swallowed \/ (s.failed # {} /\ ~s.error))
            /\ previous' = previous + Cardinality(left)
            /\ no_gradient' = (no_gradient \/ left # {})
  BY DEF UpdateModel
<1>2. phase = "update" /\ dataset = "TRAIN"
  BY DEF UpdateModel, TypesInv, TrainingPhases
<1>3. Updates(update_model(failing), Parameters)
  BY ModelUpdates
<1> DEFINE s == update_model(failing)
<1>4. PICK left : /\ left \subseteq s.failed
                  /\ phase' = IF s.error THEN "failed" ELSE "release"
                  /\ value' = [p \in DOMAIN value |-> IF p \in s.updated THEN value[p] + 1 ELSE value[p]]
                  /\ updated' = {<<p, gradient[p]>> : p \in s.updated}
                  /\ swallowed' = (swallowed \/ (s.failed # {} /\ ~s.error))
                  /\ previous' = previous + Cardinality(left)
                  /\ no_gradient' = (no_gradient \/ left # {})
  BY <1>1
<1> HIDE DEF s
<1>5. /\ s.updated \subseteq Parameters
      /\ \A p \in s.updated : gradient[p] # <<>>
      /\ s.error => s.failed # {}
      /\ s.failed = {} => s.updated = Parameters
  BY <1>3 DEF Updates, s
<1>6. {swallowed', no_gradient'} \subseteq BOOLEAN
  BY <1>4, Zenon
<1>7. swallowed => swallowed'
  BY <1>4, Zenon
<1>8. DOMAIN value' = Parameters
  BY <1>4 DEF TypesInv
<1>9. ASSUME NEW u \in updated'
      PROVE  /\ u[1] \in Parameters
             /\ recorded
             /\ u[2] = <<[of |-> cost, clipped |-> FALSE]>>
             /\ value'[u[1]] = value[u[1]] + 1
  <2>1. PICK p \in s.updated : u = <<p, gradient[p]>>
    BY <1>4, <1>9
  <2>2. u[1] = p /\ u[2] = gradient[p] /\ p \in Parameters
    BY <1>5, <2>1
  <2>3. gradient[p] = IF recorded THEN <<[of |-> cost, clipped |-> FALSE]>> ELSE <<>>
    BY <1>2, <2>2 DEF GradientsInv
  <2>4. recorded /\ gradient[p] = <<[of |-> cost, clipped |-> FALSE]>>
    BY <1>5, <2>3
  <2>5. value'[p] = value[p] + 1
    BY <1>4, <2>2 DEF TypesInv
  <2>6. QED  BY <2>2, <2>4, <2>5
<1>10. ASSUME phase' = "release", ~swallowed'
       PROVE  /\ {u[1] : u \in updated'} = Parameters
              /\ previous' = previous + 0
              /\ no_gradient' <=> no_gradient
  <2>1. ~s.error
    BY <1>4, <1>10
  <2>2. s.failed = {}
    BY <1>4, <1>10, <2>1, Zenon
  <2>3. left = {}
    BY <1>4, <2>2
  <2>4. no_gradient' <=> no_gradient
    BY <1>4, <2>3, Zenon
  <2>5. previous' = previous + 0
    BY <1>4, <2>3, FS_EmptySet
  <2>6. updated' = {<<p, gradient[p]>> : p \in Parameters}
    BY <1>4, <1>5, <2>2
  <2>7. \A p \in Parameters : \E u \in updated' : u[1] = p
    <3> SUFFICES ASSUME NEW p \in Parameters PROVE \E u \in updated' : u[1] = p
      OBVIOUS
    <3>1. <<p, gradient[p]>> \in updated' /\ <<p, gradient[p]>>[1] = p
      BY <2>6
    <3>2. QED  BY <3>1
  <2>8. QED  BY <1>9, <2>4, <2>5, <2>7
<1>11. phase' \in {"failed", "release"}
  BY <1>4
<1>12. QED  BY <1>2, <1>6, <1>7, <1>8, <1>9, <1>10, <1>11

-----------------------------------------------------------------------------
(* The modes are switched on and off *)

LEMMA ModeOn ==
  ASSUME with_no_gradient(TRUE)
  PROVE  /\ no_gradient' = TRUE
         /\ previous = 0 => previous' = 1
BY DEF with_no_gradient

LEMMA ModeOff ==
  ASSUME with_no_gradient(FALSE)
  PROVE  /\ no_gradient' \in BOOLEAN
         /\ previous = 1 => previous' = 0 /\ ~no_gradient'
<1>1. no_gradient' = (no_gradient /\ previous # 1)
  BY DEF with_no_gradient
<1>2. no_gradient' \in BOOLEAN
  BY <1>1, Zenon
<1>3. previous = 1 => ~no_gradient'
  BY <1>1, Zenon
<1>4. previous = 1 => previous' = 0
  BY DEF with_no_gradient
<1>5. QED  BY <1>2, <1>3, <1>4

LEMMA FlagsSet ==
  ASSUME NEW flag \in BOOLEAN, model_inference(flag)
  PROVE  /\ \A l \in DOMAIN inference' : l \in block_inference[Root] => (inference'[l] <=> flag)
         /\ inference \in [Flagged -> BOOLEAN] => inference' \in [Flagged -> BOOLEAN]
BY DEF model_inference

-----------------------------------------------------------------------------
(* Every step keeps the invariant *)

LEMMA TypesNext ==
  ASSUME TypesInv, GradientsInv, [Next]_vars
  PROVE  TypesInv'
<1>1. CASE EpochBegins
  BY <1>1 DEF EpochBegins, TypesInv, TrainingPhases, place, pass, parameters, modes, Enter
<1>2. CASE Iterate
  BY <1>2 DEF Iterate, TypesInv, TrainingPhases, place, pass, parameters, modes, Enter
<1>3. CASE ZeroGradient
  BY <1>3 DEF ZeroGradient, zero_gradient_model, TypesInv, TrainingPhases, place, pass, modes
<1>4. CASE Dataloader
  BY <1>4 DEF Dataloader, TypesInv, TrainingPhases, place, pass, parameters, modes, Enter
<1>5. CASE ModelForward
  BY <1>5 DEF ModelForward, TypesInv, TrainingPhases, place, pass, parameters, modes, Enter
<1>6. CASE Criterion
  <2>1. recorded' = ~no_gradient
    BY <1>6 DEF Criterion
  <2>2. recorded' \in BOOLEAN
    BY <2>1, Zenon
  <2>3. QED  BY <1>6, <2>2 DEF Criterion, TypesInv, TrainingPhases, place, parameters, modes
<1>7. CASE Metrics
  <2>1. no_gradient' = (no_gradient /\ ~(dataset = "TRAIN" /\ previous = 0))
    BY <1>7 DEF Metrics
  <2>2. no_gradient' \in BOOLEAN
    BY <2>1, Zenon
  <2>3. QED  BY <1>7, <2>2 DEF Metrics, TypesInv, TrainingPhases, place, pass, parameters
<1>8. CASE ClipGradientNormModel
  BY <1>8 DEF ClipGradientNormModel, TypesInv, TrainingPhases, place, pass, parameters, modes, Enter
<1>9. CASE Backward
  BY <1>9 DEF Backward, TypesInv, TrainingPhases, place, pass, parameters, modes, Enter
<1>10. CASE UpdateModel
  <2>1. /\ recorded' = recorded /\ dataset' = dataset /\ gradient' = gradient
        /\ inference' = inference
        /\ phase' \notin TrainingPhases
        /\ DOMAIN value' = Parameters
        /\ {swallowed', no_gradient'} \subseteq BOOLEAN
    BY <1>10, UpdateFacts DEF UpdateModel, place, pass, TrainingPhases
  <2>2. QED  BY <2>1 DEF TypesInv
<1>11. CASE Release
  BY <1>11 DEF Release, TypesInv, TrainingPhases, place, pass, parameters, modes, Enter
<1>12. CASE TrainLoopEnds
  <2>1. inference' \in [Flagged -> BOOLEAN]
    BY <1>12, FlagsSet DEF TrainLoopEnds, TypesInv
  <2>2. QED  BY <1>12, <2>1 DEF TrainLoopEnds, TypesInv, TrainingPhases, place, pass, parameters
<1>13. CASE CheckpointAndValidate
  <2>1. no_gradient' \in BOOLEAN
    BY <1>13, ModeOn DEF CheckpointAndValidate
  <2>2. inference' \in [Flagged -> BOOLEAN]
    BY <1>13, FlagsSet DEF CheckpointAndValidate, TypesInv
  <2>3. QED  BY <1>13, <2>1, <2>2 DEF CheckpointAndValidate, TypesInv, TrainingPhases, place, pass, parameters, modes, Enter
<1>14. CASE ValidLoopEnds
  <2>1. no_gradient' \in BOOLEAN
    BY <1>14, ModeOff DEF ValidLoopEnds
  <2>2. inference' \in [Flagged -> BOOLEAN]
    BY <1>14, FlagsSet DEF ValidLoopEnds, TypesInv
  <2>3. QED  BY <1>14, <2>1, <2>2 DEF ValidLoopEnds, TypesInv, TrainingPhases, place, pass, parameters, modes, Enter
<1>15. CASE TestBegins
  <2>1. no_gradient' \in BOOLEAN
    BY <1>15, ModeOn DEF TestBegins
  <2>2. inference' \in [Flagged -> BOOLEAN]
    BY <1>15, FlagsSet DEF TestBegins, TypesInv
  <2>3. QED  BY <1>15, <2>1, <2>2 DEF TestBegins, TypesInv, TrainingPhases, place, pass, parameters, modes, Enter
<1>16. CASE TestLoopEnds
  <2>1. no_gradient' \in BOOLEAN
    BY <1>16, ModeOff DEF TestLoopEnds
  <2>2. QED  BY <1>16, <2>1 DEF TestLoopEnds, TypesInv, TrainingPhases, place, pass, parameters, modes, Enter
<1>17. CASE FitFails
  <2>1. no_gradient' \in BOOLEAN
    <3>1. CASE with_no_gradient(TRUE)
      BY <3>1, ModeOn
    <3>2. CASE no_gradient' = no_gradient
      BY <3>2 DEF TypesInv
    <3>3. QED  BY <1>17, <3>1, <3>2 DEF FitFails
  <2>2. QED  BY <1>17, <2>1 DEF FitFails, TypesInv, TrainingPhases, place, pass, parameters
<1>18. CASE UNCHANGED vars
  BY <1>18 DEF vars, TypesInv, TrainingPhases, place, pass, parameters, modes, Enter
<1>19. QED
  BY <1>1, <1>2, <1>3, <1>4, <1>5, <1>6, <1>7, <1>8, <1>9, <1>10, <1>11, <1>12, <1>13, <1>14, <1>15, <1>16, <1>17, <1>18 DEF Next, Returned

LEMMA ModesNext ==
  ASSUME TypesInv, GradientsInv, ModesInv, [Next]_vars
  PROVE  ModesInv'
<1>1. CASE EpochBegins
  BY <1>1 DEF EpochBegins, ModesInv, ModesAre, LoopPhases, place, pass, parameters, modes, Enter
<1>2. CASE Iterate
  BY <1>2 DEF Iterate, ModesInv, ModesAre, LoopPhases, place, pass, parameters, modes, Enter
<1>3. CASE ZeroGradient
  BY <1>3 DEF ZeroGradient, ModesInv, ModesAre, LoopPhases, place, pass, parameters, modes, Enter
<1>4. CASE Dataloader
  BY <1>4 DEF Dataloader, ModesInv, ModesAre, LoopPhases, place, pass, parameters, modes, Enter
<1>5. CASE ModelForward
  BY <1>5 DEF ModelForward, ModesInv, ModesAre, LoopPhases, place, pass, parameters, modes, Enter
<1>6. CASE Criterion
  BY <1>6 DEF Criterion, ModesInv, ModesAre, LoopPhases, place, pass, parameters, modes, Enter
<1>7. CASE Metrics
  <2>1. no_gradient' = (no_gradient /\ ~(dataset = "TRAIN" /\ previous = 0))
    BY <1>7 DEF Metrics
  <2>2. dataset # "TRAIN" => (no_gradient' <=> no_gradient)
    BY <2>1, Zenon
  <2>3. dataset = "TRAIN" /\ ~no_gradient => ~no_gradient'
    BY <2>1, Zenon
  <2>4. phase' \in LoopPhases /\ phase \in LoopPhases /\ phase' \notin {"epoch", "checkpoint"}
    BY <1>7 DEF Metrics, LoopPhases
  <2>5. UNCHANGED <<dataset, swallowed, inference, previous>>
    BY <1>7 DEF Metrics, place, parameters
  <2>6. QED  BY <2>2, <2>3, <2>4, <2>5 DEF ModesInv, ModesAre
<1>8. CASE ClipGradientNormModel
  BY <1>8 DEF ClipGradientNormModel, ModesInv, ModesAre, LoopPhases, place, pass, parameters, modes, Enter
<1>9. CASE Backward
  BY <1>9 DEF Backward, ModesInv, ModesAre, LoopPhases, place, pass, parameters, modes, Enter
<1>10. CASE UpdateModel
  <2>1. /\ phase = "update" /\ dataset = "TRAIN"
        /\ phase' \in {"failed", "release"}
        /\ swallowed => swallowed'
        /\ phase' = "release" /\ ~swallowed' => previous' = previous + 0 /\ (no_gradient' <=> no_gradient)
    BY <1>10, UpdateFacts
  <2>2. UNCHANGED <<dataset, inference>>
    BY <1>10 DEF UpdateModel, place
  <2>3. QED  BY <2>1, <2>2 DEF ModesInv, ModesAre, LoopPhases
<1>11. CASE Release
  BY <1>11 DEF Release, ModesInv, ModesAre, LoopPhases, place, pass, parameters, modes, Enter
<1>12. CASE TrainLoopEnds
  <2>1. \A l \in DOMAIN inference' : ~swallowed /\ l \in block_inference[Root] => ~inference'[l]
    BY <1>12, FlagsSet DEF TrainLoopEnds, ModesInv, ModesAre, LoopPhases
  <2>2. QED  BY <1>12, <2>1 DEF TrainLoopEnds, ModesInv, ModesAre, LoopPhases, place, pass, parameters
<1>13. CASE CheckpointAndValidate
  <2>1. ~swallowed => previous' = 1 /\ (no_gradient' <=> TRUE)
    BY <1>13, ModeOn DEF CheckpointAndValidate, ModesInv, ModesAre, LoopPhases, TypesInv, TrainingPhases
  <2>2. \A l \in DOMAIN inference' : l \in block_inference[Root] => (inference'[l] <=> TRUE)
    BY <1>13, FlagsSet DEF CheckpointAndValidate
  <2>3. /\ phase' = "iterate"
        /\ dataset' # "TRAIN"
        /\ swallowed' = swallowed
    BY <1>13 DEF CheckpointAndValidate, Enter, parameters
  <2>4. QED  BY <2>1, <2>2, <2>3 DEF ModesInv, ModesAre, LoopPhases
<1>14. CASE ValidLoopEnds
  <2>1. ~swallowed => previous' = 0 /\ (no_gradient' <=> FALSE)
    BY <1>14, ModeOff DEF ValidLoopEnds, ModesInv, ModesAre, LoopPhases, TypesInv, TrainingPhases
  <2>2. \A l \in DOMAIN inference' : l \in block_inference[Root] => (inference'[l] <=> FALSE)
    BY <1>14, FlagsSet DEF ValidLoopEnds
  <2>3. /\ phase' = "epoch"
        /\ dataset' = dataset
        /\ swallowed' = swallowed
    BY <1>14 DEF ValidLoopEnds, Enter, parameters
  <2>4. QED  BY <2>1, <2>2, <2>3 DEF ModesInv, ModesAre, LoopPhases
<1>15. CASE TestBegins
  <2>1. ~swallowed => previous' = 1 /\ (no_gradient' <=> TRUE)
    BY <1>15, ModeOn DEF TestBegins, ModesInv, ModesAre, LoopPhases, TypesInv, TrainingPhases
  <2>2. \A l \in DOMAIN inference' : l \in block_inference[Root] => (inference'[l] <=> TRUE)
    BY <1>15, FlagsSet DEF TestBegins
  <2>3. /\ phase' = "iterate"
        /\ dataset' # "TRAIN"
        /\ swallowed' = swallowed
    BY <1>15 DEF TestBegins, Enter, parameters
  <2>4. QED  BY <2>1, <2>2, <2>3 DEF ModesInv, ModesAre, LoopPhases
<1>16. CASE TestLoopEnds
  <2>1. phase' = "returned"
    BY <1>16 DEF TestLoopEnds
  <2>2. QED  BY <2>1 DEF ModesInv, LoopPhases
<1>17. CASE FitFails
  <2>1. phase' = "failed"
    BY <1>17 DEF FitFails
  <2>2. QED  BY <2>1 DEF ModesInv, LoopPhases
<1>18. CASE UNCHANGED vars
  BY <1>18 DEF vars, ModesInv, ModesAre, LoopPhases, place, pass, parameters, modes, Enter
<1>19. QED
  BY <1>1, <1>2, <1>3, <1>4, <1>5, <1>6, <1>7, <1>8, <1>9, <1>10, <1>11, <1>12, <1>13, <1>14, <1>15, <1>16, <1>17, <1>18 DEF Next, Returned

LEMMA HeldNext ==
  ASSUME TypesInv, ModesInv, GradientsInv, HeldInv, [Next]_vars
  PROVE  HeldInv'
<1>1. CASE EpochBegins
  BY <1>1 DEF EpochBegins, HeldInv, TypesInv, TrainingPhases, place, pass, parameters, modes, Enter
<1>2. CASE Iterate
  BY <1>2 DEF Iterate, HeldInv, TypesInv, TrainingPhases, place, pass, parameters, modes, Enter
<1>3. CASE ZeroGradient
  BY <1>3 DEF ZeroGradient, HeldInv, TypesInv, TrainingPhases, place, pass, parameters, modes, Enter
<1>4. CASE Dataloader
  BY <1>4 DEF Dataloader, HeldInv, TypesInv, TrainingPhases, place, pass, parameters, modes, Enter
<1>5. CASE ModelForward
  <2>1. ~swallowed => (no_gradient <=> dataset # "TRAIN")
    BY <1>5 DEF ModelForward, ModesInv, ModesAre, LoopPhases
  <2>2. QED  BY <1>5, <2>1 DEF ModelForward, HeldInv, place, parameters
<1>6. CASE Criterion
  <2>1. ~swallowed => (no_gradient <=> dataset # "TRAIN")
    BY <1>6 DEF Criterion, ModesInv, ModesAre, LoopPhases
  <2>2. recorded' = ~no_gradient
    BY <1>6 DEF Criterion
  <2>3. ~swallowed => (recorded' <=> dataset = "TRAIN")
    BY <2>1, <2>2, Zenon
  <2>4. QED  BY <1>6, <2>3 DEF Criterion, HeldInv, place, parameters
<1>7. CASE Metrics
  BY <1>7 DEF Metrics, HeldInv, TypesInv, TrainingPhases, place, pass, parameters, modes, Enter
<1>8. CASE ClipGradientNormModel
  <2>1. dataset = "TRAIN"
    BY <1>8 DEF ClipGradientNormModel, TypesInv, TrainingPhases
  <2>2. QED  BY <1>8, <2>1 DEF ClipGradientNormModel, HeldInv, place, pass
<1>9. CASE Backward
  <2>1. dataset = "TRAIN"
    BY <1>9 DEF Backward, TypesInv, TrainingPhases
  <2>2. QED  BY <1>9, <2>1 DEF Backward, HeldInv, place, pass
<1>10. CASE UpdateModel
  <2>1. /\ phase = "update" /\ dataset = "TRAIN"
        /\ phase' \in {"failed", "release"}
        /\ swallowed => swallowed'
    BY <1>10, UpdateFacts
  <2>2. UNCHANGED <<dataset, held>>
    BY <1>10 DEF UpdateModel, place, pass
  <2>3. QED  BY <2>1, <2>2 DEF HeldInv
<1>11. CASE Release
  BY <1>11 DEF Release, HeldInv, TypesInv, TrainingPhases, place, pass, parameters, modes, Enter
<1>12. CASE TrainLoopEnds
  BY <1>12 DEF TrainLoopEnds, HeldInv, TypesInv, TrainingPhases, place, pass, parameters, modes, Enter
<1>13. CASE CheckpointAndValidate
  BY <1>13 DEF CheckpointAndValidate, HeldInv, TypesInv, TrainingPhases, place, pass, parameters, modes, Enter
<1>14. CASE ValidLoopEnds
  BY <1>14 DEF ValidLoopEnds, HeldInv, TypesInv, TrainingPhases, place, pass, parameters, modes, Enter
<1>15. CASE TestBegins
  BY <1>15 DEF TestBegins, HeldInv, TypesInv, TrainingPhases, place, pass, parameters, modes, Enter
<1>16. CASE TestLoopEnds
  BY <1>16 DEF TestLoopEnds, HeldInv, TypesInv, TrainingPhases, place, pass, parameters, modes, Enter
<1>17. CASE FitFails
  <2>1. phase' = "failed"
    BY <1>17 DEF FitFails
  <2>2. QED  BY <2>1 DEF HeldInv
<1>18. CASE UNCHANGED vars
  BY <1>18 DEF vars, HeldInv, TypesInv, TrainingPhases, place, pass, parameters, modes, Enter
<1>19. QED
  BY <1>1, <1>2, <1>3, <1>4, <1>5, <1>6, <1>7, <1>8, <1>9, <1>10, <1>11, <1>12, <1>13, <1>14, <1>15, <1>16, <1>17, <1>18 DEF Next, Returned

LEMMA GradientsNext ==
  ASSUME TypesInv, GradientsInv, [Next]_vars
  PROVE  GradientsInv'
<1>1. CASE EpochBegins
  <2>1. phase' = "iterate"
    BY <1>1 DEF EpochBegins
  <2>2. QED  BY <2>1 DEF GradientsInv
<1>2. CASE Iterate
  BY <1>2 DEF Iterate, GradientsInv, place, pass, parameters, TypesInv
<1>3. CASE ZeroGradient
  <2>1. zero_gradient_block[Root] = Parameters
    BY ZeroesAll, NetworkAssumption DEF AllBlocks, ParametersIn, Parameters
  <2>2. \A p \in Parameters : gradient'[p] = <<>>
    BY <1>3, <2>1 DEF ZeroGradient, zero_gradient_model, TypesInv
  <2>3. phase' = "dataloader"
    BY <1>3 DEF ZeroGradient
  <2>4. QED  BY <2>2, <2>3 DEF GradientsInv
<1>4. CASE Dataloader
  BY <1>4 DEF Dataloader, GradientsInv, place, pass, parameters, TypesInv
<1>5. CASE ModelForward
  BY <1>5 DEF ModelForward, GradientsInv, place, pass, parameters, TypesInv
<1>6. CASE Criterion
  <2>1. phase = "criterion" /\ phase' = "metrics"
    BY <1>6 DEF Criterion
  <2>2. UNCHANGED <<place, value, gradient>> /\ cost' = [batch |-> indicies[j + 1] * BatchSize, value |-> value]
    BY <1>6 DEF Criterion, parameters
  <2>3. QED  BY <2>1, <2>2 DEF GradientsInv, place
<1>7. CASE Metrics
  BY <1>7 DEF Metrics, GradientsInv, place, pass, parameters, TypesInv
<1>8. CASE ClipGradientNormModel
  <2>1. phase = "clip" /\ phase' = "backward" /\ dataset = "TRAIN"
    BY <1>8 DEF ClipGradientNormModel, TypesInv, TrainingPhases
  <2>2. \A p \in Parameters : gradient[p] = <<>>
    BY <2>1 DEF GradientsInv
  <2>3. ASSUME NEW p \in Parameters PROVE gradient'[p] = <<>>
    <3>1. gradient'[p] = [n \in DOMAIN gradient[p] |-> [gradient[p][n] EXCEPT !.clipped = TRUE]]
      BY <1>8 DEF ClipGradientNormModel
    <3>2. DOMAIN gradient[p] = {}
      BY <2>2
    <3>3. QED  BY <3>1, <3>2
  <2>4. UNCHANGED <<place, cost, value>>
    BY <1>8 DEF ClipGradientNormModel, pass
  <2>5. QED  BY <2>1, <2>3, <2>4 DEF GradientsInv, place
<1>9. CASE Backward
  <2>1. phase = "backward" /\ phase' = "update" /\ dataset = "TRAIN"
    BY <1>9 DEF Backward, TypesInv, TrainingPhases
  <2>2. \A p \in Parameters : gradient[p] = <<>>
    BY <2>1 DEF GradientsInv
  <2>3. UNCHANGED <<place, recorded, cost, value>>
    BY <1>9 DEF Backward
  <2>4. ASSUME NEW p \in Parameters
        PROVE  gradient'[p] = IF recorded THEN <<[of |-> cost, clipped |-> FALSE]>> ELSE <<>>
    <3>1. recorded => gradient'[p] = Append(gradient[p], [of |-> cost, clipped |-> FALSE])
      BY <1>9 DEF Backward
    <3>2. ~recorded => gradient'[p] = gradient[p]
      BY <1>9 DEF Backward
    <3>3. \A x : Append(<<>>, x) = <<x>>
      OBVIOUS
    <3>4. QED  BY <2>2, <3>1, <3>2, <3>3
  <2>5. QED  BY <2>1, <2>3, <2>4 DEF GradientsInv, place
<1>10. CASE UpdateModel
  <2>1. phase' \in {"failed", "release"}
    BY <1>10, UpdateFacts
  <2>2. QED  BY <2>1 DEF GradientsInv
<1>11. CASE Release
  <2>1. phase' = "iterate"
    BY <1>11 DEF Release
  <2>2. QED  BY <2>1 DEF GradientsInv
<1>12. CASE TrainLoopEnds
  <2>1. phase' = "checkpoint"
    BY <1>12 DEF TrainLoopEnds
  <2>2. QED  BY <2>1 DEF GradientsInv
<1>13. CASE CheckpointAndValidate
  <2>1. phase' = "iterate"
    BY <1>13 DEF CheckpointAndValidate
  <2>2. QED  BY <2>1 DEF GradientsInv
<1>14. CASE ValidLoopEnds
  <2>1. phase' = "epoch"
    BY <1>14 DEF ValidLoopEnds
  <2>2. QED  BY <2>1 DEF GradientsInv
<1>15. CASE TestBegins
  <2>1. phase' = "iterate"
    BY <1>15 DEF TestBegins
  <2>2. QED  BY <2>1 DEF GradientsInv
<1>16. CASE TestLoopEnds
  <2>1. phase' = "returned"
    BY <1>16 DEF TestLoopEnds
  <2>2. QED  BY <2>1 DEF GradientsInv
<1>17. CASE FitFails
  <2>1. phase' = "failed"
    BY <1>17 DEF FitFails
  <2>2. QED  BY <2>1 DEF GradientsInv
<1>18. CASE UNCHANGED vars
  BY <1>18 DEF vars, GradientsInv, place, pass, parameters, TypesInv
<1>19. QED
  BY <1>1, <1>2, <1>3, <1>4, <1>5, <1>6, <1>7, <1>8, <1>9, <1>10, <1>11, <1>12, <1>13, <1>14, <1>15, <1>16, <1>17, <1>18 DEF Next, Returned

LEMMA UpdatesNext ==
  ASSUME TypesInv, GradientsInv, FreshUpdates, [Next]_vars
  PROVE  FreshUpdates'
<1>1. CASE EpochBegins
  <2>1. phase' # "release"
    BY <1>1 DEF EpochBegins
  <2>2. QED  BY <2>1 DEF FreshUpdates
<1>2. CASE Iterate
  <2>1. phase' # "release"
    BY <1>2 DEF Iterate
  <2>2. QED  BY <2>1 DEF FreshUpdates
<1>3. CASE ZeroGradient
  <2>1. phase' # "release"
    BY <1>3 DEF ZeroGradient
  <2>2. QED  BY <2>1 DEF FreshUpdates
<1>4. CASE Dataloader
  <2>1. phase' # "release"
    BY <1>4 DEF Dataloader
  <2>2. QED  BY <2>1 DEF FreshUpdates
<1>5. CASE ModelForward
  <2>1. phase' # "release"
    BY <1>5 DEF ModelForward
  <2>2. QED  BY <2>1 DEF FreshUpdates
<1>6. CASE Criterion
  <2>1. phase' # "release"
    BY <1>6 DEF Criterion
  <2>2. QED  BY <2>1 DEF FreshUpdates
<1>7. CASE Metrics
  <2>1. phase' = "release" => dataset' # "TRAIN"
    BY <1>7 DEF Metrics, place
  <2>2. QED  BY <2>1 DEF FreshUpdates
<1>8. CASE ClipGradientNormModel
  <2>1. phase' # "release"
    BY <1>8 DEF ClipGradientNormModel
  <2>2. QED  BY <2>1 DEF FreshUpdates
<1>9. CASE Backward
  <2>1. phase' # "release"
    BY <1>9 DEF Backward
  <2>2. QED  BY <2>1 DEF FreshUpdates
<1>10. CASE UpdateModel
  <2>1. /\ phase = "update" /\ dataset = "TRAIN"
        /\ \A u \in updated' :
             /\ u[1] \in Parameters
             /\ u[2] = <<[of |-> cost, clipped |-> FALSE]>>
             /\ value'[u[1]] = value[u[1]] + 1
        /\ phase' = "release" /\ ~swallowed' => {u[1] : u \in updated'} = Parameters
    BY <1>10, UpdateFacts
  <2>2. cost = [batch |-> indicies[j + 1] * BatchSize, value |-> value]
    BY <2>1 DEF GradientsInv
  <2>3. UNCHANGED <<dataset, j, indicies, cost>>
    BY <1>10 DEF UpdateModel, place, pass
  <2>4. ASSUME NEW u \in updated'
        PROVE  Len(u[2]) = 1 /\ u[2][1].of = cost' /\ value'[u[1]] = cost'.value[u[1]] + 1
    BY <2>1, <2>2, <2>3
  <2>5. cost'.batch = indicies'[j' + 1] * BatchSize
    BY <2>2, <2>3
  <2>6. QED  BY <2>1, <2>4, <2>5 DEF FreshUpdates
<1>11. CASE Release
  <2>1. phase' # "release"
    BY <1>11 DEF Release
  <2>2. QED  BY <2>1 DEF FreshUpdates
<1>12. CASE TrainLoopEnds
  <2>1. phase' # "release"
    BY <1>12 DEF TrainLoopEnds
  <2>2. QED  BY <2>1 DEF FreshUpdates
<1>13. CASE CheckpointAndValidate
  <2>1. phase' # "release"
    BY <1>13 DEF CheckpointAndValidate
  <2>2. QED  BY <2>1 DEF FreshUpdates
<1>14. CASE ValidLoopEnds
  <2>1. phase' # "release"
    BY <1>14 DEF ValidLoopEnds
  <2>2. QED  BY <2>1 DEF FreshUpdates
<1>15. CASE TestBegins
  <2>1. phase' # "release"
    BY <1>15 DEF TestBegins
  <2>2. QED  BY <2>1 DEF FreshUpdates
<1>16. CASE TestLoopEnds
  <2>1. phase' # "release"
    BY <1>16 DEF TestLoopEnds
  <2>2. QED  BY <2>1 DEF FreshUpdates
<1>17. CASE FitFails
  <2>1. phase' # "release"
    BY <1>17 DEF FitFails
  <2>2. QED  BY <2>1 DEF FreshUpdates
<1>18. CASE UNCHANGED vars
  BY <1>18 DEF vars, FreshUpdates, place, pass, parameters
<1>19. QED
  BY <1>1, <1>2, <1>3, <1>4, <1>5, <1>6, <1>7, <1>8, <1>9, <1>10, <1>11, <1>12, <1>13, <1>14, <1>15, <1>16, <1>17, <1>18 DEF Next, Returned

LEMMA NextTraining == TrainingInv /\ [Next]_vars => TrainingInv'
BY TypesNext, ModesNext, HeldNext, GradientsNext, UpdatesNext DEF TrainingInv

-----------------------------------------------------------------------------
(* What fit relies on *)

LEMMA CleanIterations == TrainingInv => IterationsStartClean
<1> SUFFICES ASSUME TrainingInv, phase = "dataloader", ~swallowed
             PROVE  /\ held = {}
                    /\ no_gradient = (dataset # "TRAIN")
                    /\ \A layer \in LayersOf[Root] :
                         HasInferenceFlag(layer) /\ layer.name \in block_inference[Root]
                           => inference[layer.name] = (dataset # "TRAIN")
  BY DEF IterationsStartClean
<1>1. held = {}
  BY DEF TrainingInv, HeldInv
<1>2. no_gradient <=> dataset # "TRAIN"
  BY DEF TrainingInv, ModesInv, ModesAre, LoopPhases
<1>3. no_gradient \in BOOLEAN
  BY DEF TrainingInv, TypesInv
<1>4. no_gradient = (dataset # "TRAIN")
  BY <1>2, <1>3, Zenon
<1>5. ASSUME NEW layer \in LayersOf[Root], HasInferenceFlag(layer), layer.name \in block_inference[Root]
      PROVE  inference[layer.name] = (dataset # "TRAIN")
  <2>1. layer.name \in Flagged
    BY <1>5 DEF Flagged
  <2>2. DOMAIN inference = Flagged /\ inference[layer.name] \in BOOLEAN
    BY <2>1 DEF TrainingInv, TypesInv
  <2>3. \A l \in DOMAIN inference : l \in block_inference[Root] => (inference[l] <=> dataset # "TRAIN")
    BY DEF TrainingInv, ModesInv, ModesAre, LoopPhases
  <2>4. inference[layer.name] <=> dataset # "TRAIN"
    BY <1>5, <2>1, <2>2, <2>3
  <2>5. QED  BY <2>2, <2>4, Zenon
<1>6. QED  BY <1>1, <1>4, <1>5

(* The invariant holds in every state of fit, for every network, every split   *)
(* of the samples and every combination of arguments, whatever calls fail.     *)
THEOREM TrainingInvariant == Spec => []TrainingInv
BY InitTraining, NextTraining, PTL DEF Spec

(* Every iteration of the three loops of fit (train.c) starts with no tensor   *)
(* of an earlier one and in the modes of its data set: with_no_gradient and    *)
(* model_inference are paired on every path that goes on.                     *)
THEOREM IterationsAreClean == Spec => []IterationsStartClean
BY TrainingInvariant, CleanIterations, PTL

(* update_model (optimizer.c) changes every parameter once, whatever blocks it *)
(* is nested in, by the gradient of this iteration's cost alone:               *)
(* zero_gradient_model reaches all that update_block reaches.                 *)
THEOREM UpdatesAreFresh == Spec => []FreshUpdates
<1>1. TrainingInv => FreshUpdates
  BY DEF TrainingInv
<1>2. QED  BY TrainingInvariant, <1>1, PTL
=============================================================================
