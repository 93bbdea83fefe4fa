------------------------ MODULE TensorBuffers_proofs -----------------------
(***************************************************************************)
(* The reference counts of storages and the bounds of views, for any shapes *)
(* and any number of buffers.  Every operation creates a view of an existing *)
(* storage (Share), a storage with its first view (Allocate), destroys a     *)
(* view, or overwrites data.  For the counts, what it computes does not      *)
(* matter; for the bounds, the view it makes has to fit the data.  The first  *)
(* part of the module is about views of any shape alone.                      *)
(***************************************************************************)
EXTENDS TensorBuffers, FoldFacts, SequenceTheorems

-----------------------------------------------------------------------------
(* Products, as FoldFacts has them for sums *)

(* The recursion that defines a product, as the community modules write it. *)
ProductStep(f, g, s) == IF s = {} THEN 1 ELSE f[Taken(s)] * g[s \ {Taken(s)}]

ProductIter(f, S) == CHOOSE g : g = [s \in SUBSET S |-> ProductStep(f, g, s)]

LEMMA ProductIs ==
  ASSUME NEW f, NEW S
  PROVE  ProductOf(f, S) = ProductIter(f, S)[S]
BY DEF ProductOf, FoldFunctionOnSet, MapThenFoldSet, ProductIter, ProductStep, Taken

LEMMA ProductIterates ==
  ASSUME NEW f, NEW S, IsFiniteSet(S), \A x \in S : f[x] \in Int
  PROVE  /\ \A s \in SUBSET S : ProductIter(f, S)[s] = ProductStep(f, ProductIter(f, S), s)
         /\ \A s \in SUBSET S : ProductIter(f, S)[s] \in Int
<1> DEFINE op == [xv \in S \X Int |-> f[xv[1]] * xv[2]]
<1>1. op \in [S \X Int -> Int] /\ \A x \in S, v \in Int : op[<<x, v>>] = f[x] * v
  OBVIOUS
<1>2. \A s \in SUBSET S : s # {} => Taken(s) \in S /\ s \ {Taken(s)} \in SUBSET S
  BY TakenIn
<1>3. \A g \in [SUBSET S -> Int], s \in SUBSET S :
        FoldStep(op, 1, g, s) = ProductStep(f, g, s) /\ ProductStep(f, g, s) \in Int
  <2> HIDE DEF op
  <2> SUFFICES ASSUME NEW g \in [SUBSET S -> Int], NEW s \in SUBSET S
               PROVE  FoldStep(op, 1, g, s) = ProductStep(f, g, s) /\ ProductStep(f, g, s) \in Int
    OBVIOUS
  <2>1. CASE s = {}
    BY <2>1 DEF FoldStep, ProductStep
  <2>2. CASE s # {}
    <3>1. g[s \ {Taken(s)}] \in Int /\ Taken(s) \in S
      BY <1>2, <2>2
    <3>2. op[<<Taken(s), g[s \ {Taken(s)}]>>] = f[Taken(s)] * g[s \ {Taken(s)}]
      BY <1>1, <3>1
    <3>3. QED  BY <2>2, <3>1, <3>2 DEF FoldStep, ProductStep
  <2>3. QED  BY <2>1, <2>2
<1> HIDE DEF op
<1>4. PICK g \in [SUBSET S -> Int] : \A s \in SUBSET S : g[s] = FoldStep(op, 1, g, s)
  <2>1. 1 \in Int /\ Adds(op, S, Int)
    BY <1>1 DEF Adds
  <2>2. \E g : IsFold(g, op, 1, S, Int)
    BY <2>1, FoldExists
  <2>3. QED  BY <2>2 DEF IsFold
<1>5. g = [s \in SUBSET S |-> ProductStep(f, g, s)]
  BY <1>3, <1>4
<1>6. ProductIter(f, S) = [s \in SUBSET S |-> ProductStep(f, ProductIter(f, S), s)]
  BY <1>5 DEF ProductIter
<1>7. ProductIter(f, S) = g
  <2>1. \A s \in SUBSET S : ProductIter(f, S)[s] = ProductStep(f, ProductIter(f, S), s)
                            /\ g[s] = ProductStep(f, g, s)
    BY <1>5, <1>6
  <2>2. ASSUME NEW R \in SUBSET S
        PROVE  ProductIter(f, S)[R] = g[R]
    <3>1. IsFiniteSet(R)
      BY FS_Subset
    <3>2. FoldAlike(ProductIter(f, S), g, R)
      BY <2>1 DEF ProductStep, FoldAlike
    <3>3. QED  BY <3>1, <3>2, FoldUnique
  <2>3. QED  BY <1>5, <1>6, <2>2
<1>8. QED  BY <1>6, <1>7

LEMMA ProductType ==
  ASSUME NEW f, NEW S, IsFiniteSet(S), \A x \in S : f[x] \in Int
  PROVE  ProductOf(f, S) \in Int
<1>1. S \in SUBSET S
  OBVIOUS
<1>2. ProductIter(f, S)[S] \in Int
  BY <1>1, ProductIterates
<1>3. QED  BY <1>2, ProductIs

LEMMA ProductEmpty == ASSUME NEW f PROVE ProductOf(f, {}) = 1
<1>1. \A s \in SUBSET {} : ProductIter(f, {})[s] = ProductStep(f, ProductIter(f, {}), s)
  BY ProductIterates, FS_EmptySet
<1>2. QED  BY <1>1, ProductIs DEF ProductStep

(* Within a larger set the recursion comes to the same product. *)
LEMMA ProductWithin ==
  ASSUME NEW f, NEW S, IsFiniteSet(S), \A x \in S : f[x] \in Int, NEW T \in SUBSET S
  PROVE  ProductIter(f, S)[T] = ProductOf(f, T)
<1>1. IsFiniteSet(T) /\ \A x \in T : f[x] \in Int
  BY FS_Subset
<1> DEFINE g == ProductIter(f, S)
           h == ProductIter(f, T)
<1>2. \A s \in SUBSET T : g[s] = ProductStep(f, g, s) /\ h[s] = ProductStep(f, h, s)
  BY <1>1, ProductIterates
<1>3. g[{}] = h[{}]
  BY <1>2 DEF ProductStep
<1>4. \A s \in SUBSET T : s # {} /\ g[s \ {Taken(s)}] = h[s \ {Taken(s)}] => g[s] = h[s]
  <2> HIDE DEF g, h
  <2> QED  BY <1>2 DEF ProductStep
<1>5. g[T] = h[T]
  <2> HIDE DEF g, h
  <2>1. IsFiniteSet(T)
    BY <1>1
  <2>2. FoldAlike(g, h, T)
    BY <1>3, <1>4 DEF FoldAlike
  <2> QED  BY <2>1, <2>2, FoldUnique
<1>6. QED  BY <1>5, ProductIs

LEMMA ProductTaken ==
  ASSUME NEW f, NEW S, IsFiniteSet(S), \A x \in S : f[x] \in Int, S # {}
  PROVE  ProductOf(f, S) = f[Taken(S)] * ProductOf(f, S \ {Taken(S)})
<1>1. ProductIter(f, S)[S] = ProductStep(f, ProductIter(f, S), S)
  <2> S \in SUBSET S OBVIOUS
  <2> QED  BY ProductIterates
<1>2. ProductIter(f, S)[S] = f[Taken(S)] * ProductIter(f, S)[S \ {Taken(S)}]
  BY <1>1 DEF ProductStep
<1>3. QED  BY <1>2, ProductIs, ProductWithin

(* The order of a product does not matter: any element can be taken out first. *)
LEMMA ProductRemove ==
  ASSUME NEW f, NEW S, IsFiniteSet(S), \A x \in S : f[x] \in Int, NEW x \in S
  PROVE  ProductOf(f, S) = f[x] * ProductOf(f, S \ {x})
<1> DEFINE Product(s) == ProductOf(f, s)
           Divides(s) == \A y \in s : Product(s) = f[y] * Product(s \ {y})
           Bad == {s \in SUBSET S : ~Divides(s)}
<1>1. \A s \in SUBSET S : IsFiniteSet(s) /\ \A y \in s : f[y] \in Int
  BY FS_Subset
<1>2. \A s \in SUBSET S : Product(s) \in Int
  BY <1>1, ProductType
<1>3. \A s \in SUBSET S : s # {} => Product(s) = f[Taken(s)] * Product(s \ {Taken(s)})
  BY <1>1, ProductTaken
<1> SUFFICES ASSUME Bad # {}
             PROVE  FALSE
  OBVIOUS
<1> HIDE DEF Product
<1>4. PICK s \in Bad : \A y \in s : s \ {y} \notin Bad
  <2>1. \A t \in Bad : IsFiniteSet(t)
    BY <1>1
  <2> HIDE DEF Bad
  <2> QED  BY <2>1, SmallestSet
<1>5. PICK y \in s : Product(s) # f[y] * Product(s \ {y})
  BY <1>4
<1> DEFINE t == Taken(s)
<1>6. t \in s /\ s \in SUBSET S
  BY <1>4, <1>5, TakenIn
<1> HIDE DEF t
<1>7. Product(s) = f[t] * Product(s \ {t}) /\ t # y
  BY <1>3, <1>5, <1>6 DEF t
<1>8. Product(s \ {t}) = f[y] * Product((s \ {t}) \ {y})
  BY <1>4, <1>5, <1>6, <1>7
<1>9. Product(s \ {y}) = f[t] * Product((s \ {y}) \ {t})
  BY <1>4, <1>5, <1>6, <1>7
<1>10. (s \ {t}) \ {y} = (s \ {y}) \ {t}
  OBVIOUS
<1>11. Product((s \ {t}) \ {y}) \in Int /\ f[t] \in Int /\ f[y] \in Int
  BY <1>1, <1>2, <1>5, <1>6
<1>12. Product((s \ {y}) \ {t}) = Product((s \ {t}) \ {y})
  BY <1>10
<1> HIDE DEF Bad
<1>13. QED  BY <1>5, <1>7, <1>8, <1>9, <1>11, <1>12

LEMMA ProductPositive ==
  ASSUME NEW f, NEW S, IsFiniteSet(S), \A x \in S : f[x] \in Nat \ {0}
  PROVE  ProductOf(f, S) \in Nat \ {0}
<1> DEFINE Good == {s \in SUBSET S : ProductOf(f, s) \in Nat \ {0}}
<1>1. ASSUME NEW s \in SUBSET S, \A x \in s : s \ {x} \in Good
      PROVE  s \in Good
  <2>1. IsFiniteSet(s)
    BY FS_Subset
  <2>2. CASE s = {}
    BY <2>2, ProductEmpty
  <2>3. CASE s # {}
    <3>1. Taken(s) \in s
      BY <2>3, TakenIn
    <3>2. ProductOf(f, s) = f[Taken(s)] * ProductOf(f, s \ {Taken(s)})
      BY <2>1, <2>3, ProductTaken
    <3>3. ProductOf(f, s \ {Taken(s)}) \in Nat \ {0} /\ f[Taken(s)] \in Nat \ {0}
      BY <1>1, <3>1
    <3>4. \A a, b \in Nat \ {0} : a * b \in Nat \ {0}
      OBVIOUS
    <3>5. QED  BY <3>2, <3>3, <3>4
  <2>4. QED  BY <2>2, <2>3
<1> HIDE DEF Good
<1>2. Progresses(Good, S)
  BY <1>1 DEF Progresses
<1>3. S \in Good
  BY <1>2, SetInduction
<1>4. QED  BY <1>3 DEF Good

(* Factors that are 1 can be left out. *)
LEMMA ProductSkip ==
  ASSUME NEW f, NEW S, IsFiniteSet(S), NEW T \in SUBSET S,
         \A x \in S : f[x] \in Int, \A x \in S \ T : f[x] = 1
  PROVE  ProductOf(f, S) = ProductOf(f, T)
<1> DEFINE Good == {s \in SUBSET S : ProductOf(f, s) = ProductOf(f, s \cap T)}
<1>1. ASSUME NEW s \in SUBSET S, \A x \in s : s \ {x} \in Good
      PROVE  s \in Good
  <2>1. IsFiniteSet(s) /\ IsFiniteSet(s \cap T)
    BY FS_Subset
  <2>2. CASE s \subseteq T
    <3> s \cap T = s  BY <2>2
    <3> QED  OBVIOUS
  <2>3. CASE \E x \in s : x \notin T
    <3>1. PICK x \in s : x \notin T
      BY <2>3
    <3>2. ProductOf(f, s) = f[x] * ProductOf(f, s \ {x})
      BY <2>1, ProductRemove
    <3>3. f[x] = 1 /\ (s \ {x}) \cap T = s \cap T
      BY <3>1
    <3>4. ProductOf(f, s \ {x}) = ProductOf(f, s \cap T)
      BY <1>1, <3>3
    <3>5. ProductOf(f, s \cap T) \in Int
      BY <2>1, ProductType
    <3>6. QED  BY <3>2, <3>3, <3>4, <3>5
  <2>4. QED  BY <2>2, <2>3
<1> HIDE DEF Good
<1>2. Progresses(Good, S)
  BY <1>1 DEF Progresses
<1>3. S \in Good
  BY <1>2, SetInduction
<1>4. S \cap T = T
  OBVIOUS
<1>5. QED  BY <1>3, <1>4 DEF Good

LEMMA ProductImage ==
  ASSUME NEW f, NEW g, NEW h, NEW S, IsFiniteSet(S), Renames(h, S),
         \A x \in S : f[h[x]] \in Int /\ g[x] = f[h[x]]
  PROVE  ProductOf(g, S) = ProductOf(f, {h[x] : x \in S})
<1> DEFINE Image(s) == {h[x] : x \in s}
           Good == {s \in SUBSET S : /\ IsFiniteSet(Image(s))
                                     /\ ProductOf(g, s) = ProductOf(f, Image(s))}
<1>1. ASSUME NEW s \in SUBSET S, \A x \in s : s \ {x} \in Good
      PROVE  s \in Good
  <2>1. IsFiniteSet(s)
    BY FS_Subset
  <2>2. CASE s = {}
    BY <2>2, ProductEmpty, FS_EmptySet
  <2>3. CASE s # {}
    <3>1. PICK x \in s : TRUE
      BY <2>3
    <3>2. Image(s) \ {h[x]} = Image(s \ {x}) /\ h[x] \in Image(s)
      BY DEF Renames
    <3>3. IsFiniteSet(Image(s))
      <4>1. IsFiniteSet(Image(s \ {x})) /\ Image(s) = Image(s \ {x}) \cup {h[x]}
        BY <1>1
      <4> HIDE DEF Image
      <4>2. IsFiniteSet(Image(s \ {x}) \cup {h[x]})
        BY <4>1, FS_AddElement
      <4>3. QED  BY <4>1, <4>2
    <3>4. ProductOf(g, s) = g[x] * ProductOf(g, s \ {x})
      BY <2>1, ProductRemove
    <3>5. ProductOf(f, Image(s)) = f[h[x]] * ProductOf(f, Image(s) \ {h[x]})
      <4>1. \A y \in Image(s) : f[y] \in Int
        OBVIOUS
      <4> HIDE DEF Image
      <4>2. QED  BY <3>2, <3>3, <4>1, ProductRemove
    <3>6. ProductOf(g, s \ {x}) = ProductOf(f, Image(s \ {x}))
      BY <1>1
    <3> HIDE DEF Image
    <3>7. QED  BY <3>2, <3>3, <3>4, <3>5, <3>6 DEF Good
  <2>4. QED  BY <2>2, <2>3
<1> HIDE DEF Good
<1>2. Progresses(Good, S)
  BY <1>1 DEF Progresses
<1>3. S \in Good
  BY <1>2, SetInduction
<1>4. QED  BY <1>3 DEF Good

-----------------------------------------------------------------------------
(* Row-major strides: each dimension in S strides over the product of those   *)
(* after it.  The last element is then one less than the product of all.      *)

After(S, n) == {m \in S : m > n}

AreNumbers(S) == S \subseteq Nat

LastTerms(f, S) == [n \in S |-> (f[n] - 1) * ProductOf(f, After(S, n))]

LEMMA Telescope ==
  ASSUME NEW f, NEW S, IsFiniteSet(S), AreNumbers(S), \A n \in S : f[n] \in Nat \ {0}
  PROVE  SumFunctionOnSet(LastTerms(f, S), S) = ProductOf(f, S) - 1
<1> DEFINE Good == {s \in SUBSET S : SumFunctionOnSet(LastTerms(f, s), s) = ProductOf(f, s) - 1}
<1>1. ASSUME NEW s \in SUBSET S, \A x \in s : s \ {x} \in Good
      PROVE  s \in Good
  <2>1. IsFiniteSet(s)
    BY FS_Subset
  <2>2. CASE s = {}
    BY <2>2, SumEmpty, ProductEmpty
  <2>3. CASE s # {}
    <3>1. PICK a \in s : After(s, a) = s \ {a} /\ \A n \in s : After(s, n) = After(s \ {a}, n)
      <4>1. s \subseteq Nat
        BY DEF AreNumbers
      <4>2. PICK a \in s : \A n \in s : a <= n
        BY <2>3, <4>1, LeastElement
      <4>3. \A m, n \in s : (m > a <=> m # a) /\ (m > n => m # a)
        BY <4>1, <4>2
      <4>4. QED  BY <4>3 DEF After
    <3> DEFINE t == s \ {a}
    <3>2. t \in Good /\ IsFiniteSet(t)
      BY <1>1, <2>1, <3>1, FS_Subset
    <3>3. After(s, a) = t
      BY <3>1
    <3>4. \A n \in t : After(s, n) = After(t, n)
      BY <3>1
    <3>5. \A r \in SUBSET S : ProductOf(f, r) \in Nat \ {0}
      BY FS_Subset, ProductPositive
    <3>6. \A n \in s : LastTerms(f, s)[n] \in Int
      <4> SUFFICES ASSUME NEW n \in s PROVE LastTerms(f, s)[n] \in Int
        OBVIOUS
      <4>1. After(s, n) \in SUBSET S
        BY DEF After
      <4>2. ProductOf(f, After(s, n)) \in Int /\ f[n] - 1 \in Int
        BY <3>5, <4>1
      <4>3. LastTerms(f, s)[n] = (f[n] - 1) * ProductOf(f, After(s, n))
        BY DEF LastTerms
      <4>4. QED  BY <4>2, <4>3
    <3>7. \A n \in t : LastTerms(f, t)[n] = LastTerms(f, s)[n]
      BY <3>4 DEF LastTerms
    <3> HIDE DEF t, Good
    <3>8. SumFunctionOnSet(LastTerms(f, s), s)
            = LastTerms(f, s)[a] + SumFunctionOnSet(LastTerms(f, s), t)
      <4>1. SumFunctionOnSet(LastTerms(f, s), s)
              = LastTerms(f, s)[a] + SumFunctionOnSet(LastTerms(f, s), s \ {a})
        BY <2>1, <3>1, <3>6, SumRemove
      <4>2. QED  BY <4>1 DEF t
    <3>9. SumFunctionOnSet(LastTerms(f, s), t) = SumFunctionOnSet(LastTerms(f, t), t)
      BY <3>2, <3>6, <3>7, SumEqual DEF t
    <3>10. LastTerms(f, s)[a] = (f[a] - 1) * ProductOf(f, t)
      BY <3>3 DEF LastTerms
    <3>11. ProductOf(f, s) = f[a] * ProductOf(f, t)
      <4>1. \A n \in s : f[n] \in Int
        OBVIOUS
      <4>2. ProductOf(f, s) = f[a] * ProductOf(f, s \ {a})
        BY <2>1, <3>1, <4>1, ProductRemove
      <4>3. QED  BY <4>2 DEF t
    <3>12. ProductOf(f, t) \in Nat /\ f[a] \in Nat
      BY <3>5 DEF t
    <3>13. SumFunctionOnSet(LastTerms(f, t), t) = ProductOf(f, t) - 1
      BY <3>2 DEF Good
    <3>14. \A b, c \in Nat : (b - 1) * c + (c - 1) = b * c - 1
      OBVIOUS
    <3>15. SumFunctionOnSet(LastTerms(f, s), s) = ProductOf(f, s) - 1
      BY <3>8, <3>9, <3>10, <3>11, <3>12, <3>13, <3>14
    <3>16. QED  BY <3>15 DEF Good
  <2>4. QED  BY <2>2, <2>3
<1> HIDE DEF Good
<1>2. Progresses(Good, S)
  BY <1>1 DEF Progresses
<1>3. S \in Good
  BY <1>2, SetInduction
<1>4. QED  BY <1>3 DEF Good

-----------------------------------------------------------------------------
(* The last element of a view *)

LastIndex(v) == [n \in DOMAIN v.shape |-> v.shape[n] - 1]

(* How far each dimension reaches. *)
Steps(v) == [n \in 1..Rank(v) |-> (v.shape[n] - 1) * v.strides[n]]

LEMMA DimensionFacts ==
  ASSUME NEW v, IsView(v)
  PROVE  /\ Rank(v) \in Nat
         /\ DOMAIN v.shape = 1..Rank(v)
         /\ DOMAIN v.strides = 1..Rank(v)
         /\ \A n \in 1..Rank(v) : v.shape[n] \in Nat \ {0} /\ v.strides[n] \in Nat
         /\ IsFiniteSet(1..Rank(v))
         /\ \A n \in 1..Rank(v) : Steps(v)[n] \in Nat
<1>1. /\ Rank(v) \in Nat
      /\ DOMAIN v.shape = 1..Rank(v)
      /\ DOMAIN v.strides = 1..Rank(v)
      /\ \A n \in 1..Rank(v) : v.shape[n] \in Nat \ {0} /\ v.strides[n] \in Nat
  BY DEF IsView, Rank
<1>2. \A a \in Nat \ {0}, b \in Nat : (a - 1) * b \in Nat
  OBVIOUS
<1>3. \A n \in 1..Rank(v) : Steps(v)[n] \in Nat
  <2> SUFFICES ASSUME NEW n \in 1..Rank(v) PROVE Steps(v)[n] \in Nat
    OBVIOUS
  <2>1. Steps(v)[n] = (v.shape[n] - 1) * v.strides[n]
    BY DEF Steps
  <2>2. QED  BY <1>1, <1>2, <2>1
<1>4. QED  BY <1>1, <1>3, FS_Interval

Reach(v) == SumFunctionOnSet(Steps(v), 1..Rank(v))

LEMMA LastAddress ==
  ASSUME NEW v, IsView(v)
  PROVE  /\ Address(v, LastIndex(v)) = v.offset + Reach(v)
         /\ Reach(v) \in Nat
<1>1. DOMAIN v.shape = 1..Rank(v)
  BY DimensionFacts
<1>2. [n \in 1..Rank(v) |-> LastIndex(v)[n] * v.strides[n]] = Steps(v)
  BY <1>1 DEF LastIndex, Steps
<1>3. DOMAIN Steps(v) = 1..Rank(v)
  BY DEF Steps
<1>4. QED  BY <1>2, <1>3, DimensionFacts, SumNat DEF Address, SumFunction, Reach

(* The dimensions along which there is more than one element in the storage. *)
StoredIn(v) == {n \in DOMAIN v.shape : v.strides[n] # 0}

(* The elements of v fill their storage, row after row. *)
IsDense(v) ==
  /\ v.offset = 0
  /\ \A n \in StoredIn(v) : v.strides[n] = ProductOf(v.shape, After(StoredIn(v), n))

LEMMA DenseReach ==
  ASSUME NEW v, IsView(v), IsDense(v)
  PROVE  /\ Address(v, LastIndex(v)) = ViewPhysicalSize(v) - 1
         /\ ViewPhysicalSize(v) \in Nat \ {0}
<1> DEFINE S == StoredIn(v)
<1>1. /\ S \subseteq 1..Rank(v)
      /\ IsFiniteSet(S)
      /\ AreNumbers(S)
      /\ \A n \in S : v.shape[n] \in Nat \ {0}
  BY DimensionFacts, FS_Subset DEF StoredIn, AreNumbers
<1>2. \A n \in 1..Rank(v) : n \notin S => v.strides[n] = 0
  BY DimensionFacts DEF StoredIn
<1>3. \A n \in 1..Rank(v) : n \notin S => Steps(v)[n] = 0
  <2> SUFFICES ASSUME NEW n \in 1..Rank(v), n \notin S PROVE Steps(v)[n] = 0
    OBVIOUS
  <2>1. Steps(v)[n] = (v.shape[n] - 1) * 0
    BY <1>2 DEF Steps
  <2>2. v.shape[n] - 1 \in Int
    BY DimensionFacts
  <2>3. QED  BY <2>1, <2>2
<1>4. \A n \in S : LastTerms(v.shape, S)[n] = Steps(v)[n]
  BY <1>1 DEF LastTerms, Steps, IsDense
<1> HIDE DEF S
<1>5. \A n \in 1..Rank(v) : Steps(v)[n] \in Int
  BY DimensionFacts
<1>6. Reach(v) = SumFunctionOnSet(Steps(v), S)
  BY <1>1, <1>3, <1>5, DimensionFacts, SumSkip DEF Reach
<1>7. SumFunctionOnSet(Steps(v), S) = SumFunctionOnSet(LastTerms(v.shape, S), S)
  BY <1>1, <1>4, <1>5, SumEqual
<1>8. SumFunctionOnSet(LastTerms(v.shape, S), S) = ProductOf(v.shape, S) - 1
  BY <1>1, Telescope
<1>9. ProductOf(v.shape, S) \in Nat \ {0}
  BY <1>1, ProductPositive
<1>10. ProductOf(v.shape, S) = ViewPhysicalSize(v)
  BY DEF S, StoredIn, ViewPhysicalSize
<1>11. Address(v, LastIndex(v)) = 0 + Reach(v)
  BY LastAddress DEF IsDense
<1>12. QED  BY <1>6, <1>7, <1>8, <1>9, <1>10, <1>11

(* The shapes a view can have. *)
IsShape(shape) == shape \in Seq(Nat \ {0}) /\ Len(shape) <= MAX_RANK

LEMMA ShapeIsCreated ==
  ASSUME NEW shape \in Seq(Int), ViewCreateOK(shape)
  PROVE  IsShape(shape)
<1>1. \A n \in 1..Len(shape) : shape[n] \in Nat \ {0}
  BY DEF ViewCreateOK
<1>2. shape \in Seq(Nat \ {0})
  BY <1>1, SeqDef, LenProperties
<1>3. QED  BY <1>2 DEF IsShape, ViewCreateOK

(* Row-major strides leave no gaps. *)
LEMMA ContiguousDense ==
  ASSUME NEW shape, IsShape(shape)
  PROVE  /\ IsView(ViewCreateContiguous(shape))
         /\ IsDense(ViewCreateContiguous(shape))
<1> DEFINE v == ViewCreateContiguous(shape)
           N == 1..Len(shape)
           S == StoredIn(v)
<1>1. /\ Len(shape) \in Nat
      /\ DOMAIN shape = N
      /\ IsFiniteSet(N)
      /\ \A n \in N : shape[n] \in Nat \ {0}
  BY FS_Interval DEF IsShape
<1>2. /\ v.offset = 0
      /\ v.shape = shape
      /\ DOMAIN v.strides = N
      /\ \A n \in N : v.strides[n] = IF shape[n] = 1 THEN 0 ELSE TailProduct(shape, n)
  BY <1>1 DEF ViewCreateContiguous, View, StridesFromShape
<1> HIDE DEF v
<1>3. \A n \in N : /\ IsFiniteSet((n + 1)..Len(shape))
                   /\ (n + 1)..Len(shape) \subseteq N
  BY <1>1, FS_Interval
<1>4. \A n \in N : TailProduct(shape, n) \in Nat \ {0}
  <2> SUFFICES ASSUME NEW n \in N PROVE TailProduct(shape, n) \in Nat \ {0}
    OBVIOUS
  <2>1. \A m \in (n + 1)..Len(shape) : shape[m] \in Nat \ {0}
    BY <1>1, <1>3
  <2>2. IsFiniteSet((n + 1)..Len(shape))
    BY <1>3
  <2>3. QED  BY <2>1, <2>2, ProductPositive DEF TailProduct
<1>5. S = {n \in N : shape[n] # 1}
  BY <1>1, <1>2, <1>4 DEF StoredIn
<1>6. ASSUME NEW n \in S
      PROVE  v.strides[n] = ProductOf(shape, After(S, n))
  <2> DEFINE T == (n + 1)..Len(shape)
  <2>1. n \in N /\ v.strides[n] = TailProduct(shape, n)
    BY <1>2, <1>5
  <2>2. After(S, n) = T \cap S
    BY <1>1, <1>5, <2>1 DEF After
  <2>3. IsFiniteSet(T) /\ \A m \in T : shape[m] \in Nat \ {0}
    BY <1>1, <1>3, <2>1
  <2>4. \A m \in T : m \notin S => shape[m] = 1
    BY <1>3, <1>5, <2>1
  <2> HIDE DEF T, S
  <2>5. \A m \in T : shape[m] \in Int
    BY <2>3
  <2>6. ProductOf(shape, T) = ProductOf(shape, T \cap S)
    BY <2>3, <2>4, <2>5, ProductSkip
  <2>7. QED  BY <2>1, <2>2, <2>6 DEF TailProduct, T
<1>7. \A n \in N : v.strides[n] \in Nat
  BY <1>2, <1>4
<1>8. v.strides \in Seq(Nat) /\ Len(v.strides) = Len(shape)
  <2>1. v.strides = [n \in N |-> v.strides[n]]
    BY DEF v, ViewCreateContiguous, View, StridesFromShape, IsShape
  <2>2. [n \in N |-> v.strides[n]] \in [N -> Nat]
    BY <1>7
  <2>3. QED  BY <1>1, <2>1, <2>2
<1>9. QED  BY <1>2, <1>6, <1>8 DEF IsView, IsDense, IsShape, v

-----------------------------------------------------------------------------
(* The dimensions that a reduction keeps *)

(* The sequence q has the elements of S, in order. *)
IsOrdered(q, S) ==
  /\ q \in Seq(S)
  /\ \A n \in S : \E k \in 1..Len(q) : q[k] = n
  /\ \A j, k \in 1..Len(q) : j < k => q[j] < q[k]

LEMMA OrderedAppend ==
  ASSUME NEW n \in Nat, NEW S, \A m \in S : m \in Nat /\ m < n, NEW q, IsOrdered(q, S)
  PROVE  IsOrdered(Append(q, n), S \cup {n})
<1> DEFINE r == Append(q, n)
<1>1. /\ q \in Seq(S) /\ Len(q) \in Nat
      /\ \A k \in 1..Len(q) : q[k] \in S
  BY DEF IsOrdered
<1>2. q \in Seq(S \cup {n})
  BY <1>1
<1>3. /\ r \in Seq(S \cup {n})
      /\ Len(r) = Len(q) + 1
      /\ r[Len(q) + 1] = n
      /\ \A k \in 1..Len(q) : r[k] = q[k]
  BY <1>2, AppendProperties
<1> HIDE DEF r
<1>4. ASSUME NEW m \in S \cup {n}
      PROVE  \E k \in 1..Len(r) : r[k] = m
  <2>1. CASE m = n
    BY <1>1, <1>3, <2>1
  <2>2. CASE m \in S
    <3>1. PICK k \in 1..Len(q) : q[k] = m
      BY <2>2 DEF IsOrdered
    <3>2. k \in 1..Len(r) /\ r[k] = m
      BY <1>1, <1>3, <3>1
    <3>3. QED  BY <3>2
  <2>3. QED  BY <2>1, <2>2
<1>5. ASSUME NEW j \in 1..Len(r), NEW k \in 1..Len(r), j < k
      PROVE  r[j] < r[k]
  <2>1. j \in 1..Len(q)
    BY <1>1, <1>3, <1>5
  <2>2. CASE k = Len(q) + 1
    BY <1>1, <1>3, <2>1, <2>2
  <2>3. CASE k # Len(q) + 1
    <3>1. k \in 1..Len(q)
      BY <1>1, <1>3, <2>3
    <3>2. QED  BY <1>3, <1>5, <2>1, <3>1 DEF IsOrdered
  <2>4. QED  BY <2>2, <2>3
<1>6. QED  BY <1>3, <1>4, <1>5 DEF IsOrdered, r

UpTo(S, n) == {m \in S : m <= n}

LEMMA UpToFacts ==
  ASSUME NEW rank \in Nat, NEW S, S \subseteq 1..rank
  PROVE  /\ UpTo(S, 0) = {}
         /\ UpTo(S, rank) = S
         /\ \A n \in 1..rank : UpTo(S, n) = UpTo(S, n - 1) \cup (S \cap {n})
         /\ \A n \in 1..rank : \A m \in UpTo(S, n - 1) : m \in Nat /\ m < n
<1>1. \A m \in S : m \in Int /\ 1 <= m /\ m <= rank
  OBVIOUS
<1>2. UpTo(S, 0) = {}
  <2>1. \A m \in S : ~(m <= 0)
    BY <1>1
  <2>2. QED  BY <2>1 DEF UpTo
<1>3. UpTo(S, rank) = S
  BY <1>1 DEF UpTo
<1>4. ASSUME NEW n \in 1..rank
      PROVE  UpTo(S, n) = UpTo(S, n - 1) \cup (S \cap {n})
  <2>1. \A m \in S : m <= n <=> (m <= n - 1 \/ m = n)
    BY <1>1
  <2>2. QED  BY <2>1 DEF UpTo
<1>5. \A n \in 1..rank : \A m \in UpTo(S, n - 1) : m \in Nat /\ m < n
  BY <1>1 DEF UpTo
<1>6. QED  BY <1>2, <1>3, <1>4, <1>5

LEMMA OrderedFacts ==
  ASSUME NEW rank \in Nat, NEW S, S \subseteq 1..rank
  PROVE  /\ IsOrdered(Ordered(S, rank), S)
         /\ Len(Ordered(S, rank)) <= rank
<1> DEFINE V == Seq(S)
           op == [nv \in (1..rank) \X V |-> IF nv[1] \in S THEN Append(nv[2], nv[1]) ELSE nv[2]]
           IsIt(F) == F = [n \in 0..rank |->
                             IF n = 0 THEN << >> ELSE IF n \in S THEN Append(F[n - 1], n) ELSE F[n - 1]]
           F == CHOOSE F : IsIt(F)
           I == {n \in 0..rank : IsOrdered(F[n], UpTo(S, n)) /\ Len(F[n]) <= n}
<1> HIDE DEF I, IsIt, op, V
<1>0. /\ UpTo(S, 0) = {}
      /\ UpTo(S, rank) = S
      /\ \A n \in 1..rank : UpTo(S, n) = UpTo(S, n - 1) \cup (S \cap {n})
      /\ \A n \in 1..rank : \A m \in UpTo(S, n - 1) : m \in Nat /\ m < n
  BY UpToFacts
<1>1. Ordered(S, rank) = F[rank]
  BY DEF Ordered, IsIt
<1>2. \E g : IsIt(g)
  <2>1. \A n \in 1..rank, q \in V :
          op[<<n, q>>] = (IF n \in S THEN Append(q, n) ELSE q) /\ op[<<n, q>>] \in V
    BY DEF op, V
  <2>2. << >> \in V
    BY DEF V
  <2>3. Adds(op, 1..rank, V)
    BY <2>1 DEF Adds
  <2>4. PICK g \in [0..rank -> V] : IsLoop(g, op, << >>, rank)
    BY <2>2, <2>3, LoopExists
  <2>5. \A n \in 0..rank : n # 0 => op[<<n, g[n - 1]>>] = IF n \in S THEN Append(g[n - 1], n) ELSE g[n - 1]
    <3>1. \A n \in 0..rank : n # 0 => n \in 1..rank /\ g[n - 1] \in V
      OBVIOUS
    <3>2. QED  BY <2>1, <3>1
  <2>6. \A n \in 0..rank : g[n] = IF n = 0 THEN << >> ELSE op[<<n, g[n - 1]>>]
    BY <2>4 DEF IsLoop
  <2>7. g = [n \in 0..rank |-> g[n]]
    OBVIOUS
  <2>8. IsIt(g)
    BY <2>5, <2>6, <2>7 DEF IsIt
  <2>9. QED  BY <2>8
<1>3. /\ F[0] = << >>
      /\ \A n \in 1..rank : F[n] = IF n \in S THEN Append(F[n - 1], n) ELSE F[n - 1]
  <2>1. IsIt(F)
    BY <1>2
  <2> HIDE DEF F
  <2>2. F = [n \in 0..rank |-> IF n = 0 THEN << >> ELSE IF n \in S THEN Append(F[n - 1], n) ELSE F[n - 1]]
    BY <2>1 DEF IsIt
  <2>3. \A n \in 0..rank :
          F[n] = IF n = 0 THEN << >> ELSE IF n \in S THEN Append(F[n - 1], n) ELSE F[n - 1]
    BY <2>2
  <2>4. \A n \in 1..rank : n \in 0..rank /\ n # 0
    OBVIOUS
  <2>5. QED  BY <2>3, <2>4
<1> HIDE DEF F
<1>4. 0 \in I
  <2>1. UpTo(S, 0) = {}
    BY <1>0
  <2>2. IsOrdered(<< >>, {})
    BY DEF IsOrdered
  <2>3. IsOrdered(F[0], UpTo(S, 0))
    BY <1>3, <2>1, <2>2
  <2>4. Len(F[0]) <= 0 /\ 0 \in 0..rank
    BY <1>3
  <2>5. QED  BY <2>3, <2>4 DEF I
<1>5. ASSUME NEW n \in 1..rank, n - 1 \in I
      PROVE  n \in I
  <2>1. UpTo(S, n) = UpTo(S, n - 1) \cup (S \cap {n}) /\ \A m \in UpTo(S, n - 1) : m \in Nat /\ m < n
    BY <1>0
  <2>2. IsOrdered(F[n - 1], UpTo(S, n - 1)) /\ Len(F[n - 1]) <= n - 1
    BY <1>5 DEF I
  <2>3. F[n - 1] \in Seq(UpTo(S, n - 1)) /\ Len(F[n - 1]) \in Nat
    BY <2>2 DEF IsOrdered
  <2>4. IsOrdered(F[n], UpTo(S, n)) /\ Len(F[n]) <= n
    <3>1. CASE n \in S
      <4>1. F[n] = Append(F[n - 1], n) /\ S \cap {n} = {n}
        BY <1>3, <3>1
      <4>2. IsOrdered(Append(F[n - 1], n), UpTo(S, n - 1) \cup {n})
        BY <2>1, <2>2, OrderedAppend
      <4>3. Len(F[n]) = Len(F[n - 1]) + 1
        BY <2>3, <4>1
      <4>4. Len(F[n]) <= n
        BY <2>2, <2>3, <4>3
      <4>5. QED  BY <2>1, <4>1, <4>2, <4>4
    <3>2. CASE n \notin S
      <4>1. F[n] = F[n - 1] /\ S \cap {n} = {}
        BY <1>3, <3>2
      <4>2. UpTo(S, n) = UpTo(S, n - 1)
        BY <2>1, <4>1
      <4>3. Len(F[n - 1]) <= n
        BY <2>2, <2>3
      <4>4. QED  BY <2>2, <4>1, <4>2, <4>3
    <3>3. QED  BY <3>1, <3>2
  <2>5. n \in 0..rank
    OBVIOUS
  <2>6. QED  BY <2>4, <2>5 DEF I
<1>6. CountsUp(I, rank)
  BY <1>4, <1>5 DEF CountsUp
<1>7. rank \in I
  BY <1>6, LoopInduction
<1>8. UpTo(S, rank) = S
  BY <1>0
<1>9. QED  BY <1>1, <1>7, <1>8 DEF I

LEMMA ReduceDense ==
  ASSUME NEW v, IsView(v), NEW axes, NEW keep_dimensions
  PROVE  /\ IsView(ViewReduce(v, axes, keep_dimensions))
         /\ IsDense(ViewReduce(v, axes, keep_dimensions))
<1> DEFINE K == IF keep_dimensions THEN 1..Rank(v) ELSE (1..Rank(v)) \ Reduced(v, axes)
           kept == Ordered(K, Rank(v))
           L == Len(kept)
           stored == StoredIn(v) \ Reduced(v, axes)
           r == ViewReduce(v, axes, keep_dimensions)
           R == StoredIn(r)
<1>1. /\ Rank(v) \in Nat
      /\ DOMAIN v.shape = 1..Rank(v)
      /\ \A n \in 1..Rank(v) : v.shape[n] \in Nat \ {0}
      /\ IsFiniteSet(1..Rank(v))
  BY DimensionFacts
<1>2. K \subseteq 1..Rank(v)
  OBVIOUS
<1>3. IsOrdered(kept, K) /\ L <= Rank(v)
  <2> HIDE DEF K
  <2> QED  BY <1>1, <1>2, OrderedFacts
<1>4. stored \subseteq K /\ stored \subseteq 1..Rank(v)
  BY <1>1 DEF StoredIn
<1> HIDE DEF K, kept
<1>5. /\ L \in Nat
      /\ kept \in Seq(K)
      /\ DOMAIN kept = 1..L
      /\ \A k \in 1..L : kept[k] \in K
      /\ \A n \in K : \E k \in 1..L : kept[k] = n
      /\ \A j, k \in 1..L : j < k => kept[j] < kept[k]
  BY <1>3 DEF IsOrdered
<1> HIDE DEF L
<1>6. /\ r.offset = 0
      /\ r.shape = [k \in 1..L |-> IF kept[k] \in Reduced(v, axes) THEN 1 ELSE v.shape[kept[k]]]
      /\ r.strides = [k \in 1..L |-> ReducedStride(v, axes, kept[k])]
  <2>1. r.offset = 0
    BY DEF ViewReduce, View
  <2>2. /\ r.shape = [k \in DOMAIN kept |-> IF kept[k] \in Reduced(v, axes) THEN 1 ELSE v.shape[kept[k]]]
        /\ r.strides = [k \in DOMAIN kept |-> ReducedStride(v, axes, kept[k])]
    BY DEF ViewReduce, View, kept, K
  <2>3. QED  BY <1>5, <2>1, <2>2
<1> HIDE DEF r
<1>7. \A n \in 1..Rank(v) :
        ReducedStride(v, axes, n) = IF n \in stored THEN ProductOf(v.shape, After(stored, n)) ELSE 0
  BY DEF ReducedStride, StoredIn, After
<1> HIDE DEF stored
<1>8. \A n \in 1..Rank(v) : ProductOf(v.shape, After(stored, n)) \in Nat \ {0}
  <2> SUFFICES ASSUME NEW n \in 1..Rank(v) PROVE ProductOf(v.shape, After(stored, n)) \in Nat \ {0}
    OBVIOUS
  <2>1. After(stored, n) \subseteq 1..Rank(v)
    BY <1>4 DEF After
  <2>2. IsFiniteSet(After(stored, n)) /\ \A m \in After(stored, n) : v.shape[m] \in Nat \ {0}
    BY <1>1, <2>1, FS_Subset
  <2>3. QED  BY <2>2, ProductPositive
<1>9. \A k \in 1..L : kept[k] \in 1..Rank(v)
  BY <1>2, <1>5
<1>10. \A k \in 1..L : /\ r.shape[k] \in Nat \ {0}
                       /\ r.strides[k] \in Nat
                       /\ r.strides[k] # 0 <=> kept[k] \in stored
                       /\ r.strides[k] # 0 => r.strides[k] = ProductOf(v.shape, After(stored, kept[k]))
  BY <1>1, <1>6, <1>7, <1>8, <1>9
<1>11. IsView(r)
  <2>1. r.shape \in [1..L -> Nat \ {0}] /\ r.strides \in [1..L -> Nat]
    BY <1>6, <1>10
  <2>2. r.shape \in Seq(Nat \ {0}) /\ r.strides \in Seq(Nat) /\ Len(r.shape) = L /\ Len(r.strides) = L
    BY <1>5, <2>1
  <2>3. L <= MAX_RANK
    BY <1>1, <1>3, <1>5 DEF IsView, Rank, L, MAX_RANK
  <2>4. r.offset \in Nat
    BY <1>6
  <2>5. Len(r.strides) = Len(r.shape) /\ Len(r.shape) <= MAX_RANK
    BY <2>2, <2>3
  <2>6. QED  BY <2>2, <2>4, <2>5 DEF IsView
<1>12. R = {k \in 1..L : kept[k] \in stored}
  BY <1>6, <1>10 DEF StoredIn
<1> HIDE DEF R
<1>13. ASSUME NEW k \in R
       PROVE  r.strides[k] = ProductOf(r.shape, After(R, k))
  <2> DEFINE T == After(R, k)
  <2>1. k \in 1..L /\ kept[k] \in stored
    BY <1>12
  <2>2. T \subseteq R /\ R \subseteq 1..L
    BY <1>12 DEF After
  <2>3. IsFiniteSet(T)
    <3>1. IsFiniteSet(1..L)
      BY <1>5, FS_Interval
    <3>2. T \subseteq 1..L
      BY <2>2
    <3> HIDE DEF T
    <3>3. QED  BY <3>1, <3>2, FS_Subset
  <2>4. Renames(kept, T)
    <3>1. \A i, j \in 1..L : i = j \/ i < j \/ j < i
      BY <1>5
    <3>2. \A i, j \in 1..L : kept[i] = kept[j] => ~(kept[i] < kept[j])
      BY <1>1, <1>9
    <3>3. \A i, j \in 1..L : kept[i] = kept[j] => i = j
      BY <1>5, <3>1, <3>2
    <3>4. QED  BY <2>2, <3>3 DEF Renames
  <2>5. \A j \in T : /\ v.shape[kept[j]] \in Int
                     /\ r.shape[j] = v.shape[kept[j]]
    BY <1>1, <1>6, <1>9, <1>12, <2>2 DEF stored
  <2>6. {kept[j] : j \in T} = After(stored, kept[k])
    <3>1. ASSUME NEW j \in T PROVE kept[j] \in After(stored, kept[k])
      <4>1. j \in 1..L /\ k < j /\ kept[j] \in stored
        BY <1>5, <1>12, <2>1, <2>2 DEF After
      <4>2. kept[k] < kept[j]
        BY <1>5, <2>1, <4>1
      <4>3. kept[j] > kept[k]
        BY <1>1, <1>9, <2>1, <4>1, <4>2
      <4>4. QED  BY <4>1, <4>3 DEF After
    <3>2. ASSUME NEW n \in After(stored, kept[k]) PROVE \E j \in T : kept[j] = n
      <4>1. n \in stored /\ n > kept[k]
        BY DEF After
      <4>2. PICK j \in 1..L : kept[j] = n
        BY <1>4, <1>5, <4>1
      <4>3. ~(j = k) /\ ~(j < k)
        <5>1. j < k => kept[j] < kept[k]
          BY <1>5, <2>1, <4>2
        <5>2. kept[j] \in Nat /\ kept[k] \in Nat /\ kept[j] > kept[k]
          BY <1>1, <1>9, <2>1, <4>1, <4>2
        <5>3. QED  BY <5>1, <5>2
      <4>4. j > k
        BY <1>5, <2>1, <4>2, <4>3
      <4>5. j \in R
        BY <1>12, <4>1, <4>2
      <4>6. QED  BY <4>2, <4>4, <4>5 DEF After
    <3>3. QED  BY <3>1, <3>2
  <2> HIDE DEF T
  <2>7. ProductOf(r.shape, T) = ProductOf(v.shape, {kept[j] : j \in T})
    BY <2>3, <2>4, <2>5, ProductImage
  <2>8. r.strides[k] = ProductOf(v.shape, After(stored, kept[k]))
    BY <1>10, <1>12, <2>1 
  <2>9. QED  BY <2>6, <2>7, <2>8 DEF T
<1>14. IsDense(r)
  BY <1>6, <1>13 DEF IsDense, R
<1>15. QED  BY <1>11, <1>14 DEF r

-----------------------------------------------------------------------------
(* Views of the same storage: the last element of the new view is in the old one *)

LastPlace(v) == Address(v, LastIndex(v))

(* Along an added or an expanded dimension nothing is added. *)
LEMMA ExpandLast ==
  ASSUME NEW v, IsView(v), NEW shape, IsShape(shape), IsExpandable(v.shape, shape)
  PROVE  /\ IsView(ViewExpand(v, shape))
         /\ LastPlace(ViewExpand(v, shape)) = LastPlace(v)
<1> DEFINE e == ViewExpand(v, shape)
           L == Len(shape)
           added == L - Rank(v)
           T == (added + 1)..L
           h == [n \in T |-> n - added]
<1>1. /\ Rank(v) \in Nat
      /\ \A n \in 1..Rank(v) : v.shape[n] \in Nat \ {0} /\ v.strides[n] \in Nat
      /\ IsFiniteSet(1..Rank(v))
      /\ \A n \in 1..Rank(v) : Steps(v)[n] \in Nat
  BY DimensionFacts
<1>2. /\ L \in Nat
      /\ added \in Nat
      /\ DOMAIN shape = 1..L
      /\ \A n \in 1..L : shape[n] \in Nat \ {0}
  BY <1>1 DEF IsExpandable, IsShape, Rank
<1>3. /\ e.offset = v.offset
      /\ e.shape = shape
      /\ e.strides = [n \in 1..L |-> IF n <= added THEN 0
                                     ELSE IF v.shape[n - added] = 1 THEN 0 ELSE v.strides[n - added]]
  BY <1>2 DEF ViewExpand, View
<1> HIDE DEF e
<1>4. \A n \in T : n \in 1..L /\ ~(n <= added) /\ n - added \in 1..Rank(v)
  BY <1>1, <1>2
<1>5. \A n \in 1..L : n <= added \/ n \in T
  BY <1>1, <1>2
<1>6. \A n \in T : v.shape[n - added] = 1 \/ v.shape[n - added] = shape[n]
  <2> SUFFICES ASSUME NEW n \in T PROVE v.shape[n - added] = 1 \/ v.shape[n - added] = shape[n]
    OBVIOUS
  <2> DEFINE m == L - n + 1
  <2>1. m \in 1..Rank(v) /\ ~(m > Rank(v)) /\ ~(m > L)
        /\ Rank(v) - m + 1 = n - added /\ L - m + 1 = n
    BY <1>1, <1>2
  <2> HIDE DEF m
  <2>2. SizeFromEnd(v.shape, m) = v.shape[n - added] /\ SizeFromEnd(shape, m) = shape[n]
    BY <2>1 DEF SizeFromEnd, Rank
  <2>3. SizeFromEnd(v.shape, m) \in {1, SizeFromEnd(shape, m)}
    BY <2>1 DEF IsExpandable, Rank
  <2>4. QED  BY <2>2, <2>3
<1>7. IsView(e)
  <2>1. e.strides \in [1..L -> Nat]
    BY <1>1, <1>3, <1>4, <1>5
  <2>2. e.strides \in Seq(Nat) /\ Len(e.strides) = L
    BY <1>2, <2>1
  <2>3. e.offset \in Nat
    BY <1>3 DEF IsView
  <2>4. QED  BY <1>3, <2>2, <2>3 DEF IsView, IsShape
<1>8. \A n \in 1..L : n \notin T => Steps(e)[n] = 0
  <2> SUFFICES ASSUME NEW n \in 1..L, n \notin T PROVE Steps(e)[n] = 0
    OBVIOUS
  <2>1. Steps(e)[n] = (shape[n] - 1) * 0
    BY <1>3, <1>5 DEF Steps, Rank
  <2>2. shape[n] - 1 \in Int
    BY <1>2
  <2>3. QED  BY <2>1, <2>2
<1>9. \A n \in T : Steps(e)[n] = Steps(v)[n - added]
  <2> SUFFICES ASSUME NEW n \in T PROVE Steps(e)[n] = Steps(v)[n - added]
    OBVIOUS
  <2>1. n \in 1..L /\ n - added \in 1..Rank(v) /\ ~(n <= added)
    BY <1>4
  <2>2. Steps(e)[n] = (shape[n] - 1) * e.strides[n]
    BY <1>3, <2>1 DEF Steps, Rank
  <2>3. Steps(v)[n - added] = (v.shape[n - added] - 1) * v.strides[n - added]
    BY <2>1 DEF Steps
  <2>4. CASE v.shape[n - added] = 1
    <3>1. e.strides[n] = 0 /\ shape[n] - 1 \in Int /\ v.strides[n - added] \in Int
      BY <1>1, <1>2, <1>3, <2>1, <2>4
    <3>2. \A a \in Int : a * 0 = 0 /\ 0 * a = 0
      OBVIOUS
    <3>3. Steps(e)[n] = 0
      BY <2>2, <3>1, <3>2
    <3>4. Steps(v)[n - added] = (1 - 1) * v.strides[n - added]
      BY <2>3, <2>4
    <3>5. QED  BY <3>1, <3>2, <3>3, <3>4
  <2>5. CASE v.shape[n - added] # 1
    <3>1. e.strides[n] = v.strides[n - added] /\ shape[n] = v.shape[n - added]
      BY <1>3, <1>6, <2>1, <2>5
    <3>2. QED  BY <2>2, <2>3, <3>1
  <2>6. QED  BY <2>4, <2>5
<1>10. {h[n] : n \in T} = 1..Rank(v)
  <2>1. \A n \in T : h[n] \in 1..Rank(v)
    BY <1>4
  <2>2. ASSUME NEW m \in 1..Rank(v) PROVE \E n \in T : h[n] = m
    <3>1. m + added \in T /\ (m + added) - added = m
      BY <1>1, <1>2
    <3>2. h[m + added] = m
      BY <3>1
    <3>3. QED  BY <3>1, <3>2
  <2>3. QED  BY <2>1, <2>2
<1>11. Renames(h, T)
  BY <1>2 DEF Renames
<1>12. IsFiniteSet(T) /\ IsFiniteSet(1..L) /\ T \subseteq 1..L
  BY <1>2, <1>4, FS_Interval
<1>13. \A n \in T : Steps(v)[h[n]] \in Int /\ Steps(e)[n] = Steps(v)[h[n]]
  BY <1>1, <1>4, <1>9
<1>14. \A n \in 1..L : Steps(e)[n] \in Int
  BY <1>5, <1>8, <1>13
<1> HIDE DEF h, T, L, added
<1>15. SumFunctionOnSet(Steps(e), 1..L) = SumFunctionOnSet(Steps(e), T)
  BY <1>8, <1>12, <1>14, SumSkip
<1>16. SumFunctionOnSet(Steps(e), T) = SumFunctionOnSet(Steps(v), {h[n] : n \in T})
  <2>1. IsFiniteSet(T)
    BY <1>12
  <2>2. QED  BY <1>11, <1>13, <2>1, SumImage
<1>17. Reach(e) = Reach(v)
  BY <1>3, <1>10, <1>15, <1>16 DEF Reach, Rank, L
<1>18. LastPlace(e) = LastPlace(v)
  BY <1>3, <1>7, <1>17, LastAddress DEF LastPlace
<1>19. QED  BY <1>7, <1>18 DEF e

LEMMA FunctionIsSequence ==
  ASSUME NEW n \in Nat, NEW S, NEW f \in [1..n -> S]
  PROVE  f \in Seq(S) /\ Len(f) = n
OBVIOUS

(* A permutation takes the same steps in another order. *)
LEMMA PermuteLast ==
  ASSUME NEW v, IsView(v), NEW axes \in Injection(1..Rank(v), 0..(Rank(v) - 1))
  PROVE  /\ IsView(ViewPermute(v, axes))
         /\ LastPlace(ViewPermute(v, axes)) = LastPlace(v)
<1> DEFINE p == ViewPermute(v, axes)
           N == 1..Rank(v)
           h == [n \in N |-> axes[n] + 1]
<1>1. /\ Rank(v) \in Nat
      /\ \A n \in N : v.shape[n] \in Nat \ {0} /\ v.strides[n] \in Nat
      /\ IsFiniteSet(N)
      /\ \A n \in N : Steps(v)[n] \in Nat
  BY DimensionFacts
<1>2. /\ DOMAIN axes = N
      /\ \A n \in N : axes[n] \in 0..(Rank(v) - 1)
      /\ \A m, n \in N : axes[m] = axes[n] => m = n
  BY DEF Injection, IsInjective
<1>3. \A n \in N : Dimension(axes[n], Rank(v)) = h[n] /\ h[n] \in N
  BY <1>1, <1>2 DEF Dimension, DimensionToIndex
<1>4. h \in Injection(N, N)
  BY <1>1, <1>2, <1>3 DEF Injection, IsInjective
<1>5. {h[n] : n \in N} = N
  <2> HIDE DEF h, N
  <2>1. h \in Surjection(N, N)
    BY <1>1, <1>4, FS_Injection
  <2>2. QED  BY <2>1 DEF Surjection
<1>6. Renames(h, N)
  BY <1>4 DEF Injection, IsInjective, Renames
<1>7. /\ p.offset = v.offset
      /\ p.shape = [n \in N |-> v.shape[h[n]]]
      /\ p.strides = [n \in N |-> v.strides[h[n]]]
  BY <1>2, <1>3 DEF ViewPermute, View
<1> HIDE DEF p, h
<1>8. IsView(p) /\ Rank(p) = Rank(v)
  <2>1. p.shape \in [N -> Nat \ {0}] /\ p.strides \in [N -> Nat]
    BY <1>1, <1>3, <1>7
  <2>2. /\ p.shape \in Seq(Nat \ {0}) /\ p.strides \in Seq(Nat)
        /\ Len(p.shape) = Rank(v) /\ Len(p.strides) = Rank(v)
    BY <1>1, <2>1, FunctionIsSequence
  <2>3. p.offset \in Nat /\ Rank(v) <= MAX_RANK
    BY <1>7 DEF IsView, Rank
  <2>4. Len(p.strides) = Len(p.shape) /\ Len(p.shape) <= MAX_RANK
    BY <2>2, <2>3
  <2>5. QED  BY <2>2, <2>3, <2>4 DEF IsView, Rank
<1>9. \A n \in N : Steps(p)[n] = Steps(v)[h[n]]
  BY <1>3, <1>7, <1>8 DEF Steps
<1>10. \A n \in N : Steps(v)[h[n]] \in Int /\ Steps(p)[n] = Steps(v)[h[n]]
  BY <1>1, <1>3, <1>9
<1>11. SumFunctionOnSet(Steps(p), N) = SumFunctionOnSet(Steps(v), {h[n] : n \in N})
  <2> HIDE DEF N
  <2>1. IsFiniteSet(N)
    BY <1>1
  <2>2. QED  BY <1>6, <1>10, <2>1, SumImage
<1>12. Reach(p) = Reach(v)
  BY <1>5, <1>8, <1>11 DEF Reach
<1>13. LastPlace(p) = LastPlace(v)
  BY <1>7, <1>8, <1>12, LastAddress DEF LastPlace
<1>14. QED  BY <1>8, <1>13 DEF p

(* A slice ends where the view ends, or before; also when it begins at the   *)
(* start of the storage because the offset of the view is forgotten.          *)
LEMMA SliceLast ==
  ASSUME NEW v, IsView(v), NEW arguments, DOMAIN arguments = DOMAIN v.shape,
         \A n \in DOMAIN arguments : arguments[n][1] \in Int /\ arguments[n][2] \in Int,
         ViewSliceOK(v, arguments)
  PROVE  /\ IsView(ViewSlice(v, arguments))
         /\ LastPlace(ViewSlice(v, arguments)) <= LastPlace(v)
<1> DEFINE s == ViewSlice(v, arguments)
           N == 1..Rank(v)
           first == [n \in N |-> arguments[n][1] * v.strides[n]]
           last == [n \in N |-> (arguments[n][2] - 1) * v.strides[n]]
<1>1. /\ Rank(v) \in Nat
      /\ DOMAIN v.shape = N
      /\ \A n \in N : v.shape[n] \in Nat \ {0} /\ v.strides[n] \in Nat
      /\ IsFiniteSet(N)
      /\ \A n \in N : Steps(v)[n] \in Nat
  BY DimensionFacts
<1>2. \A n \in N : /\ arguments[n][1] \in Nat
                   /\ arguments[n][2] \in Nat
                   /\ arguments[n][1] < arguments[n][2]
                   /\ arguments[n][2] <= v.shape[n]
  BY <1>1 DEF ViewSliceOK
<1>3. /\ s.offset = SumFunctionOnSet(first, N)
      /\ s.shape = [n \in N |-> arguments[n][2] - arguments[n][1]]
      /\ s.strides = v.strides
  BY <1>1 DEF ViewSlice, View, SumFunction
<1> HIDE DEF s
<1>4. \A a, b \in Nat : a * b \in Nat
  OBVIOUS
<1>5. \A n \in N : first[n] \in Nat
  BY <1>1, <1>2, <1>4
<1>6. s.offset \in Nat
  <2> HIDE DEF first, N
  <2>1. IsFiniteSet(N)
    BY <1>1
  <2>2. QED  BY <1>3, <1>5, <2>1, SumNat
<1>7. IsView(s) /\ Rank(s) = Rank(v)
  <2>1. s.shape \in [N -> Nat \ {0}]
    BY <1>2, <1>3
  <2>2. s.shape \in Seq(Nat \ {0}) /\ Len(s.shape) = Rank(v)
    BY <1>1, <2>1, FunctionIsSequence
  <2>3. s.strides \in Seq(Nat) /\ Len(s.strides) = Rank(v) /\ Rank(v) <= MAX_RANK
    BY <1>3 DEF IsView, Rank
  <2>4. Len(s.strides) = Len(s.shape) /\ Len(s.shape) <= MAX_RANK
    BY <2>2, <2>3
  <2>5. QED  BY <1>6, <2>2, <2>3, <2>4 DEF IsView, Rank
<1>8. \A n \in N : Steps(s)[n] = (arguments[n][2] - arguments[n][1] - 1) * v.strides[n]
  BY <1>3, <1>7 DEF Steps
<1>9. \A a, b, c \in Nat : a * c + (b - a - 1) * c = (b - 1) * c
  OBVIOUS
<1>10. \A a, b, c \in Nat : a <= b => (a - 1) * c <= (b - 1) * c
  OBVIOUS
<1>11. \A n \in N : /\ last[n] \in Int
                    /\ last[n] = first[n] + Steps(s)[n]
                    /\ last[n] <= Steps(v)[n]
  <2> SUFFICES ASSUME NEW n \in N
               PROVE  /\ last[n] \in Int
                      /\ last[n] = first[n] + Steps(s)[n]
                      /\ last[n] <= Steps(v)[n]
    OBVIOUS
  <2>1. last[n] = (arguments[n][2] - 1) * v.strides[n] /\ first[n] = arguments[n][1] * v.strides[n]
    OBVIOUS
  <2>2. Steps(v)[n] = (v.shape[n] - 1) * v.strides[n]
    BY DEF Steps
  <2>3. /\ arguments[n][1] \in Nat /\ arguments[n][2] \in Nat /\ v.shape[n] \in Nat
        /\ v.strides[n] \in Nat /\ arguments[n][2] <= v.shape[n]
    BY <1>1, <1>2
  <2> HIDE DEF last, first
  <2>4. last[n] = first[n] + Steps(s)[n]
    BY <1>8, <1>9, <2>1, <2>3
  <2>5. last[n] <= Steps(v)[n]
    BY <1>10, <2>1, <2>2, <2>3
  <2>6. last[n] \in Int
    BY <2>1, <2>3
  <2>7. QED  BY <2>4, <2>5, <2>6
<1> HIDE DEF first, last
<1>12. \A n \in N : Steps(s)[n] \in Nat
  BY <1>7, DimensionFacts
<1>13. SumFunctionOnSet(last, N) = SumFunctionOnSet(first, N) + SumFunctionOnSet(Steps(s), N)
  <2> HIDE DEF N
  <2>1. IsFiniteSet(N)
    BY <1>1
  <2>2. \A n \in N : first[n] \in Int /\ Steps(s)[n] \in Int /\ last[n] = first[n] + Steps(s)[n]
    BY <1>5, <1>11, <1>12
  <2>3. QED  BY <2>1, <2>2, SumOfTwo
<1>14. SumFunctionOnSet(last, N) <= SumFunctionOnSet(Steps(v), N)
  <2> HIDE DEF N
  <2>1. IsFiniteSet(N)
    BY <1>1
  <2>2. \A n \in N : last[n] \in Int /\ Steps(v)[n] \in Int /\ last[n] <= Steps(v)[n]
    BY <1>1, <1>11
  <2>3. QED  BY <2>1, <2>2, SumAtMost
<1>15. LastPlace(s) = SumFunctionOnSet(last, N)
  BY <1>3, <1>7, <1>13, LastAddress DEF LastPlace, Reach
<1>16. LastPlace(v) = v.offset + SumFunctionOnSet(Steps(v), N) /\ v.offset \in Nat
  BY LastAddress DEF LastPlace, Reach, IsView
<1>17. Reach(v) \in Nat /\ LastPlace(s) \in Nat
  BY <1>7, LastAddress DEF LastPlace, IsView
<1>18. LastPlace(s) <= LastPlace(v)
  BY <1>14, <1>15, <1>16, <1>17, LastAddress DEF Reach
<1>19. QED  BY <1>7, <1>18 DEF s

-----------------------------------------------------------------------------
(* The shapes of results *)

Sizes == Nat \ {0}

LEMMA ConcatenationShape ==
  ASSUME NEW a \in Seq(Sizes), NEW b \in Seq(Sizes)
  PROVE  a \o b \in Seq(Sizes) /\ Len(a \o b) = Len(a) + Len(b)
BY ConcatProperties

LEMMA SubShape ==
  ASSUME NEW a \in Seq(Sizes), NEW m \in 1..(Len(a) + 1), NEW n \in 0..Len(a), n >= m - 1
  PROVE  SubSeq(a, m, n) \in Seq(Sizes) /\ Len(SubSeq(a, m, n)) = n - m + 1
BY SubSeqProperties

LEMMA BroadcastShape ==
  ASSUME NEW a \in Seq(Sizes), NEW b \in Seq(Sizes)
  PROVE  /\ ViewBroadcast(a, b) \in Seq(Sizes)
         /\ Len(ViewBroadcast(a, b)) = Longer(a, b)
         /\ Longer(a, b) \in Nat
<1> DEFINE long == IF Len(a) > Len(b) THEN a ELSE b
           short == IF Len(a) > Len(b) THEN b ELSE a
           added == Len(long) - Len(short)
           both == [n \in DOMAIN short |-> IF short[n] = 1 THEN long[n + added] ELSE short[n]]
<1>1. /\ Len(long) = Longer(a, b) /\ Len(long) \in Nat /\ Len(short) \in Nat /\ added \in Nat
      /\ long \in Seq(Sizes) /\ short \in Seq(Sizes)
  BY DEF Longer
<1> HIDE DEF long, short
<1>2. \A n \in 1..Len(short) : n + added \in 1..Len(long)
  BY <1>1
<1>3. /\ \A n \in 1..Len(short) : long[n + added] \in Sizes /\ short[n] \in Sizes
      /\ DOMAIN short = 1..Len(short)
  BY <1>1, <1>2
<1>4. both \in [1..Len(short) -> Sizes]
  BY <1>3
<1>5. both \in Seq(Sizes) /\ Len(both) = Len(short)
  <2> HIDE DEF both
  <2> QED  BY <1>1, <1>4, FunctionIsSequence
<1>6. SubSeq(long, 1, added) \in Seq(Sizes) /\ Len(SubSeq(long, 1, added)) = added
  <2>1. 1 \in 1..(Len(long) + 1) /\ added \in 0..Len(long) /\ added >= 1 - 1 /\ added - 1 + 1 = added
    BY <1>1
  <2> HIDE DEF added
  <2>2. QED  BY <1>1, <2>1, SubShape
<1>7. ViewBroadcast(a, b) = SubSeq(long, 1, added) \o both
  BY DEF ViewBroadcast, long, short
<1> HIDE DEF both
<1>8. Len(SubSeq(long, 1, added) \o both) = Len(long)
  BY <1>1, <1>5, <1>6, ConcatenationShape
<1>9. QED  BY <1>1, <1>5, <1>6, <1>7, <1>8, ConcatenationShape

LEMMA ShapeFacts ==
  ASSUME NEW shape
  PROVE  IsShape(shape) <=> shape \in Seq(Sizes) /\ Len(shape) <= MAX_RANK
BY DEF IsShape, Sizes

LEMMA BatchShape ==
  ASSUME NEW a \in Seq(Sizes), Len(a) >= 2
  PROVE  /\ BatchDimensions(a) \in Seq(Sizes)
         /\ Len(BatchDimensions(a)) = Len(a) - 2
         /\ MatrixDimensions(a) \in Seq(Sizes)
         /\ Len(MatrixDimensions(a)) = 2
         /\ SizeFromEnd(a, 1) \in Sizes
         /\ SizeFromEnd(a, 2) \in Sizes
<1>1. /\ 1 \in 1..(Len(a) + 1) /\ Len(a) - 2 \in 0..Len(a) /\ Len(a) - 2 >= 1 - 1
      /\ Len(a) - 1 \in 1..(Len(a) + 1) /\ Len(a) \in 0..Len(a) /\ Len(a) >= (Len(a) - 1) - 1
      /\ (Len(a) - 2) - 1 + 1 = Len(a) - 2
      /\ Len(a) - (Len(a) - 1) + 1 = 2
  OBVIOUS
<1>2. BatchDimensions(a) \in Seq(Sizes) /\ Len(BatchDimensions(a)) = (Len(a) - 2) - 1 + 1
  BY <1>1, SubShape DEF BatchDimensions
<1>3. MatrixDimensions(a) \in Seq(Sizes) /\ Len(MatrixDimensions(a)) = Len(a) - (Len(a) - 1) + 1
  BY <1>1, SubShape DEF MatrixDimensions
<1>4. /\ ~(1 > Len(a)) /\ ~(2 > Len(a))
      /\ a[Len(a) - 1 + 1] \in Sizes /\ a[Len(a) - 2 + 1] \in Sizes
  OBVIOUS
<1>5. SizeFromEnd(a, 1) \in Sizes /\ SizeFromEnd(a, 2) \in Sizes
  BY <1>4 DEF SizeFromEnd
<1>6. QED  BY <1>1, <1>2, <1>3, <1>5

(* The result of a matrix multiplication has no more dimensions than one of   *)
(* the operands.                                                               *)
LEMMA MatrixShape ==
  ASSUME NEW a, IsShape(a), NEW b, IsShape(b), MatrixMultiplicationOK(a, b)
  PROVE  \E shape : /\ IsShape(shape)
                    /\ ViewMatrixMultiplication(ViewBroadcastMatrixMultiplication(a, b),
                                                ViewBroadcastMatrixMultiplication(b, a))
                         = ViewCreateContiguous(shape)
<1> DEFINE x == ViewBroadcastMatrixMultiplication(a, b)
           y == ViewBroadcastMatrixMultiplication(b, a)
           last == <<SizeFromEnd(x, 2), SizeFromEnd(y, 1)>>
           shape == BatchDimensions(x) \o last
<1>1. /\ a \in Seq(Sizes) /\ Len(a) <= MAX_RANK /\ Len(a) >= 2
      /\ b \in Seq(Sizes) /\ Len(b) <= MAX_RANK /\ Len(b) >= 2
  BY ShapeFacts DEF MatrixMultiplicationOK
<1>2. ASSUME NEW p \in Seq(Sizes), NEW q \in Seq(Sizes),
             Len(p) <= MAX_RANK, Len(p) >= 2, Len(q) <= MAX_RANK, Len(q) >= 2
      PROVE  /\ ViewBroadcastMatrixMultiplication(p, q) \in Seq(Sizes)
             /\ Len(ViewBroadcastMatrixMultiplication(p, q)) <= MAX_RANK
             /\ Len(ViewBroadcastMatrixMultiplication(p, q)) >= 2
  <2> DEFINE batch == ViewBroadcast(BatchDimensions(p), BatchDimensions(q))
  <2>1. /\ BatchDimensions(p) \in Seq(Sizes) /\ Len(BatchDimensions(p)) = Len(p) - 2
        /\ BatchDimensions(q) \in Seq(Sizes) /\ Len(BatchDimensions(q)) = Len(q) - 2
        /\ MatrixDimensions(p) \in Seq(Sizes) /\ Len(MatrixDimensions(p)) = 2
    BY <1>2, BatchShape
  <2>2. /\ batch \in Seq(Sizes)
        /\ Len(batch) = Longer(BatchDimensions(p), BatchDimensions(q))
    BY <2>1, BroadcastShape
  <2>3. Len(batch) \in Nat /\ (Len(batch) = Len(p) - 2 \/ Len(batch) = Len(q) - 2)
    BY <2>1, <2>2 DEF Longer
  <2> HIDE DEF batch
  <2>4. /\ batch \o MatrixDimensions(p) \in Seq(Sizes)
        /\ Len(batch \o MatrixDimensions(p)) = Len(batch) + 2
    BY <2>1, <2>2, ConcatenationShape
  <2>5. Len(batch) + 2 <= MAX_RANK /\ Len(batch) + 2 >= 2
    BY <1>2, <2>3 DEF MAX_RANK
  <2>6. QED  BY <2>4, <2>5 DEF ViewBroadcastMatrixMultiplication, batch
<1>3. /\ x \in Seq(Sizes) /\ Len(x) <= MAX_RANK /\ Len(x) >= 2
      /\ y \in Seq(Sizes) /\ Len(y) >= 2
  BY <1>1, <1>2
<1> HIDE DEF x, y
<1>4. SizeFromEnd(x, 2) \in Sizes /\ SizeFromEnd(y, 1) \in Sizes
  BY <1>3, BatchShape
<1>5. last \in Seq(Sizes) /\ Len(last) = 2
  BY <1>4
<1> HIDE DEF last
<1>6. BatchDimensions(x) \in Seq(Sizes) /\ Len(BatchDimensions(x)) = Len(x) - 2
  BY <1>3, BatchShape
<1>7. shape \in Seq(Sizes) /\ Len(shape) = (Len(x) - 2) + 2
  BY <1>5, <1>6, ConcatenationShape
<1> HIDE DEF shape
<1>8. Len(shape) <= MAX_RANK
  BY <1>3, <1>7
<1>9. IsShape(shape)
  BY <1>7, <1>8, ShapeFacts
<1>10. ViewMatrixMultiplication(x, y) = ViewCreateContiguous(shape)
  BY DEF ViewMatrixMultiplication, shape, last
<1>11. QED  BY <1>9, <1>10 DEF x, y

-----------------------------------------------------------------------------
(* Contiguous views have as many places as elements *)

LEMMA LastIsNat ==
  ASSUME NEW v, IsView(v)
  PROVE  LastPlace(v) \in Nat
BY LastAddress DEF LastPlace, IsView

LEMMA ContiguousSize ==
  ASSUME NEW shape, IsShape(shape)
  PROVE  /\ ViewPhysicalSize(ViewCreateContiguous(shape)) = ArrayProduct(shape)
         /\ LastPlace(ViewCreateContiguous(shape)) = ArrayProduct(shape) - 1
         /\ ArrayProduct(shape) \in Nat \ {0}
<1> DEFINE v == ViewCreateContiguous(shape)
           N == 1..Len(shape)
           S == StoredIn(v)
<1>1. IsView(v) /\ IsDense(v)
  BY ContiguousDense
<1>2. v.shape = shape /\ v.strides = StridesFromShape(shape)
  BY DEF ViewCreateContiguous, View
<1>3. \A n \in N : shape[n] # 1 => v.strides[n] = TailProduct(shape, n)
  BY <1>2 DEF StridesFromShape, IsShape
<1> HIDE DEF v
<1>4. /\ Len(shape) \in Nat
      /\ DOMAIN shape = N
      /\ IsFiniteSet(N)
      /\ \A n \in N : shape[n] \in Nat \ {0}
  BY FS_Interval DEF IsShape
<1>5. \A n \in N : IsFiniteSet((n + 1)..Len(shape)) /\ (n + 1)..Len(shape) \subseteq N
  BY <1>4, FS_Interval
<1>6. \A n \in N : TailProduct(shape, n) # 0
  <2> SUFFICES ASSUME NEW n \in N PROVE TailProduct(shape, n) # 0
    OBVIOUS
  <2>1. \A m \in (n + 1)..Len(shape) : shape[m] \in Nat \ {0}
    BY <1>4, <1>5
  <2>2. IsFiniteSet((n + 1)..Len(shape))
    BY <1>5
  <2>3. TailProduct(shape, n) \in Nat \ {0}
    BY <2>1, <2>2, ProductPositive DEF TailProduct
  <2>4. QED  BY <2>3
<1>7. S \subseteq N /\ \A n \in N \ S : shape[n] = 1
  BY <1>2, <1>3, <1>4, <1>6 DEF StoredIn
<1>8. ProductOf(shape, N) = ProductOf(shape, S)
  <2> HIDE DEF S, N
  <2>1. \A n \in N : shape[n] \in Int
    BY <1>4
  <2>2. QED  BY <1>4, <1>7, <2>1, ProductSkip
<1>9. ViewPhysicalSize(v) = ArrayProduct(shape)
  BY <1>2, <1>4, <1>8 DEF ViewPhysicalSize, ArrayProduct, StoredIn
<1>10. QED  BY <1>1, <1>9, DenseReach DEF LastPlace, v

(* A contiguous view takes the steps of the row-major view of its shape. *)
LEMMA ContiguousLast ==
  ASSUME NEW v, IsView(v), ViewIsContiguous(v)
  PROVE  /\ v.offset = 0
         /\ IsShape(v.shape)
         /\ LastPlace(v) = ArrayProduct(v.shape) - 1
<1> DEFINE c == ViewCreateContiguous(v.shape)
           N == 1..Rank(v)
<1>1. IsShape(v.shape) /\ v.offset = 0
  BY DEF IsView, IsShape, ViewIsContiguous
<1>2. IsView(c) /\ c.offset = 0 /\ c.shape = v.shape /\ c.strides = StridesFromShape(v.shape)
  BY <1>1, ContiguousDense DEF ViewCreateContiguous, View
<1> HIDE DEF c
<1>3. Rank(c) = Rank(v)
  BY <1>2 DEF Rank
<1>4. \A n \in N : v.strides[n] = c.strides[n] \/ v.shape[n] = 1
  BY <1>2, DimensionFacts DEF ViewIsContiguous
<1>5. /\ \A n \in N : v.shape[n] \in Nat \ {0} /\ v.strides[n] \in Nat
      /\ \A n \in N : c.strides[n] \in Nat
      /\ \A n \in N : Steps(v)[n] \in Int
      /\ IsFiniteSet(N)
  BY <1>2, <1>3, DimensionFacts
<1>6. \A n \in N : Steps(c)[n] = Steps(v)[n]
  <2> SUFFICES ASSUME NEW n \in N PROVE Steps(c)[n] = Steps(v)[n]
    OBVIOUS
  <2>1. Steps(c)[n] = (v.shape[n] - 1) * c.strides[n] /\ Steps(v)[n] = (v.shape[n] - 1) * v.strides[n]
    BY <1>2, <1>3 DEF Steps
  <2>2. CASE v.strides[n] = c.strides[n]
    BY <2>1, <2>2
  <2>3. CASE v.shape[n] = 1
    <3>1. Steps(c)[n] = (1 - 1) * c.strides[n] /\ Steps(v)[n] = (1 - 1) * v.strides[n]
      BY <2>1, <2>3
    <3>2. QED  BY <1>5, <3>1
  <2>4. QED  BY <1>4, <2>2, <2>3
<1>7. Reach(v) = Reach(c)
  <2> HIDE DEF N
  <2>1. SumFunctionOnSet(Steps(v), N) = SumFunctionOnSet(Steps(c), N)
    BY <1>5, <1>6, SumEqual
  <2>2. QED  BY <1>3, <2>1 DEF Reach, N
<1>8. LastPlace(v) = LastPlace(c)
  BY <1>1, <1>2, <1>7, LastAddress DEF LastPlace
<1>9. QED  BY <1>1, <1>8, ContiguousSize DEF c

(* The last element of a view is the one with the highest address. *)
LEMMA EveryAddress ==
  ASSUME NEW v, IsView(v), NEW index,
         \A n \in DOMAIN v.shape : index[n] \in 0..(v.shape[n] - 1)
  PROVE  Address(v, index) \in 0..LastPlace(v)
<1> DEFINE N == 1..Rank(v)
           terms == [n \in N |-> index[n] * v.strides[n]]
<1>1. /\ DOMAIN v.shape = N
      /\ \A n \in N : v.shape[n] \in Nat \ {0} /\ v.strides[n] \in Nat
      /\ IsFiniteSet(N)
      /\ \A n \in N : Steps(v)[n] \in Nat
  BY DimensionFacts
<1>2. \A n \in N : index[n] \in Nat /\ index[n] <= v.shape[n] - 1
  BY <1>1
<1>3. \A a, b, c \in Nat : a <= b - 1 => a * c \in Nat /\ a * c <= (b - 1) * c
  OBVIOUS
<1>4. \A n \in N : terms[n] \in Nat /\ terms[n] <= Steps(v)[n]
  <2> SUFFICES ASSUME NEW n \in N PROVE terms[n] \in Nat /\ terms[n] <= Steps(v)[n]
    OBVIOUS
  <2>1. terms[n] = index[n] * v.strides[n] /\ Steps(v)[n] = (v.shape[n] - 1) * v.strides[n]
    BY DEF Steps
  <2>2. index[n] \in Nat /\ v.shape[n] \in Nat /\ v.strides[n] \in Nat /\ index[n] <= v.shape[n] - 1
    BY <1>1, <1>2
  <2> HIDE DEF terms
  <2>3. QED  BY <1>3, <2>1, <2>2
<1>5. Address(v, index) = v.offset + SumFunctionOnSet(terms, N)
  BY DEF Address, SumFunction
<1> HIDE DEF terms
<1>6. SumFunctionOnSet(terms, N) \in Nat /\ SumFunctionOnSet(terms, N) <= SumFunctionOnSet(Steps(v), N)
  <2> HIDE DEF N
  <2>1. \A n \in N : terms[n] \in Int /\ Steps(v)[n] \in Int /\ terms[n] <= Steps(v)[n]
    BY <1>1, <1>4
  <2>2. \A n \in N : terms[n] \in Nat
    BY <1>4
  <2>3. IsFiniteSet(N)
    BY <1>1
  <2>4. QED  BY <2>1, <2>2, <2>3, SumAtMost, SumNat
<1>7. LastPlace(v) = v.offset + SumFunctionOnSet(Steps(v), N) /\ v.offset \in Nat /\ LastPlace(v) \in Nat
      /\ SumFunctionOnSet(Steps(v), N) \in Nat
  BY LastAddress, LastIsNat DEF LastPlace, Reach, IsView
<1>8. QED  BY <1>5, <1>6, <1>7

-----------------------------------------------------------------------------
(* Row-major order: the coordinates of an index are the digits of a number,   *)
(* and the sizes r of the L dimensions their radices.                         *)

Radices(r, L) == \A n \in 1..L : r[n] \in Nat \ {0}

Weight(r, L, n) == ProductOf(r, (n + 1)..L)

LEMMA WeightFacts ==
  ASSUME NEW L \in Nat, NEW r, Radices(r, L)
  PROVE  /\ \A n \in 0..L : Weight(r, L, n) \in Nat \ {0}
         /\ Weight(r, L, L) = 1
         /\ \A n \in 1..L : Weight(r, L, n - 1) = r[n] * Weight(r, L, n)
<1>1. ASSUME NEW n \in 0..L
      PROVE  Weight(r, L, n) \in Nat \ {0}
  <2> DEFINE S == (n + 1)..L
  <2>1. IsFiniteSet(S)
    BY FS_Interval
  <2>2. \A x \in S : r[x] \in Nat \ {0}
    BY DEF Radices
  <2> HIDE DEF S
  <2>3. ProductOf(r, S) \in Nat \ {0}
    BY <2>1, <2>2, ProductPositive
  <2>4. QED  BY <2>3 DEF Weight, S
<1>2. Weight(r, L, L) = 1
  <2>1. (L + 1)..L = {}
    OBVIOUS
  <2>2. QED  BY <2>1, ProductEmpty DEF Weight
<1>3. ASSUME NEW n \in 1..L
      PROVE  Weight(r, L, n - 1) = r[n] * Weight(r, L, n)
  <2> DEFINE S == n..L
  <2>1. IsFiniteSet(S)
    BY FS_Interval
  <2>2. \A x \in S : r[x] \in Int
    BY DEF Radices
  <2>3. n \in S /\ S \ {n} = (n + 1)..L /\ (n - 1) + 1 = n
    OBVIOUS
  <2>4. Weight(r, L, n) = ProductOf(r, S \ {n}) /\ Weight(r, L, n - 1) = ProductOf(r, S)
    BY <2>3 DEF Weight
  <2> HIDE DEF S
  <2>5. ProductOf(r, S) = r[n] * ProductOf(r, S \ {n})
    BY <2>1, <2>2, <2>3, ProductRemove
  <2>6. QED  BY <2>4, <2>5
<1>4. QED  BY <1>1, <1>2, <1>3

IsIndex(i, r, L) == \A n \in 1..L : i[n] \in 0..(r[n] - 1)

Digits(r, L, i) == [n \in 1..L |-> i[n] * Weight(r, L, n)]

(* What the dimensions after the k-th add. *)
PositionAfter(r, L, i, k) == SumFunctionOnSet(Digits(r, L, i), (k + 1)..L)

Position(r, L, i) == SumFunctionOnSet(Digits(r, L, i), 1..L)

LEMMA PositionSteps ==
  ASSUME NEW L \in Nat, NEW r, Radices(r, L), NEW i, IsIndex(i, r, L)
  PROVE  /\ PositionAfter(r, L, i, L) = 0
         /\ PositionAfter(r, L, i, 0) = Position(r, L, i)
         /\ \A n \in 1..L : /\ i[n] * Weight(r, L, n) \in Nat
                            /\ PositionAfter(r, L, i, n - 1)
                                 = i[n] * Weight(r, L, n) + PositionAfter(r, L, i, n)
         /\ \A n \in 0..L : PositionAfter(r, L, i, n) \in Nat
<1> DEFINE f == Digits(r, L, i)
<1>1. \A n \in 1..L : f[n] = i[n] * Weight(r, L, n) /\ f[n] \in Nat
  <2>1. ASSUME NEW n \in 1..L PROVE f[n] = i[n] * Weight(r, L, n) /\ f[n] \in Nat
    <3>1. Weight(r, L, n) \in Nat
      BY WeightFacts
    <3>2. i[n] \in Nat
      BY DEF IsIndex, Radices
    <3>3. \A a, b \in Nat : a * b \in Nat
      OBVIOUS
    <3>4. QED  BY <3>1, <3>2, <3>3 DEF Digits
  <2>2. QED  BY <2>1
<1>2. PositionAfter(r, L, i, L) = 0
  <2>1. (L + 1)..L = {}
    OBVIOUS
  <2>2. QED  BY <2>1, SumEmpty DEF PositionAfter
<1>3. PositionAfter(r, L, i, 0) = Position(r, L, i)
  <2>1. 0 + 1 = 1
    OBVIOUS
  <2>2. QED  BY <2>1 DEF PositionAfter, Position
<1>4. ASSUME NEW n \in 1..L
      PROVE  PositionAfter(r, L, i, n - 1) = i[n] * Weight(r, L, n) + PositionAfter(r, L, i, n)
  <2> DEFINE S == n..L
  <2> HIDE DEF f
  <2>1. IsFiniteSet(S)
    BY FS_Interval
  <2>2. \A x \in S : f[x] \in Int
    BY <1>1
  <2>3. n \in S /\ S \ {n} = (n + 1)..L /\ (n - 1) + 1 = n
    OBVIOUS
  <2>4. /\ PositionAfter(r, L, i, n - 1) = SumFunctionOnSet(f, S)
        /\ PositionAfter(r, L, i, n) = SumFunctionOnSet(f, S \ {n})
    BY <2>3 DEF PositionAfter, f
  <2> HIDE DEF S
  <2>5. SumFunctionOnSet(f, S) = f[n] + SumFunctionOnSet(f, S \ {n})
    BY <2>1, <2>2, <2>3, SumRemove
  <2>6. QED  BY <1>1, <2>4, <2>5
<1>5. ASSUME NEW n \in 0..L
      PROVE  PositionAfter(r, L, i, n) \in Nat
  <2> DEFINE S == (n + 1)..L
  <2> HIDE DEF f
  <2>1. IsFiniteSet(S)
    BY FS_Interval
  <2>2. \A x \in S : f[x] \in Nat
    BY <1>1
  <2>3. PositionAfter(r, L, i, n) = SumFunctionOnSet(f, S)
    BY DEF PositionAfter, f
  <2> HIDE DEF S
  <2>4. QED  BY <2>1, <2>2, <2>3, SumNat
<1>6. QED
  <2> HIDE DEF f
  <2> QED  BY <1>1, <1>2, <1>3, <1>4, <1>5

(* Counting down from N. *)
LEMMA LoopDown ==
  ASSUME NEW N \in Nat, NEW I, N \in I, \A n \in 1..N : n \in I => n - 1 \in I
  PROVE  \A n \in 0..N : n \in I
<1> DEFINE J == {m \in 0..N : N - m \in I}
<1>1. CountsUp(J, N)
  <2>1. 0 \in J
    BY DEF J
  <2>2. ASSUME NEW m \in 1..N, m - 1 \in J PROVE m \in J
    <3>1. N - (m - 1) \in I /\ N - (m - 1) \in 1..N /\ N - m = N - (m - 1) - 1
      BY <2>2
    <3>2. N - m \in I
      BY <3>1
    <3>3. QED  BY <3>2
  <2> HIDE DEF J
  <2>3. QED  BY <2>1, <2>2 DEF CountsUp
<1>2. \A m \in 0..N : m \in J
  <2> HIDE DEF J
  <2> QED  BY <1>1, LoopInduction
<1>3. ASSUME NEW n \in 0..N PROVE n \in I
  <2>1. N - n \in 0..N /\ N - (N - n) = n
    OBVIOUS
  <2>2. N - n \in J
    BY <1>2, <2>1
  <2>3. QED  BY <2>1, <2>2
<1>4. QED  BY <1>3

(* A digit and what is below it are less than the radix above. *)
LEMMA DigitBound ==
  ASSUME NEW t \in Nat, NEW q \in Nat, NEW a \in Nat, NEW b \in Nat, q <= t - 1, a <= b - 1
  PROVE  a * t + q \in Nat /\ a * t + q <= b * t - 1
<1>1. a * t <= (b - 1) * t /\ (b - 1) * t = b * t - t /\ a * t \in Nat /\ b * t \in Nat
  OBVIOUS
<1>2. QED  BY <1>1

(* They add less than one step of the k-th dimension. *)
LEMMA PositionBound ==
  ASSUME NEW L \in Nat, NEW r, Radices(r, L), NEW i, IsIndex(i, r, L)
  PROVE  \A k \in 0..L : PositionAfter(r, L, i, k) \in 0..(Weight(r, L, k) - 1)
<1> DEFINE I == {k \in 0..L : PositionAfter(r, L, i, k) \in 0..(Weight(r, L, k) - 1)}
<1>1. Weight(r, L, L) = 1 /\ PositionAfter(r, L, i, L) = 0
  BY WeightFacts, PositionSteps
<1>2. L \in I
  BY <1>1
<1>3. ASSUME NEW n \in 1..L, n \in I PROVE n - 1 \in I
  <2>1. Weight(r, L, n) \in Nat /\ Weight(r, L, n - 1) = r[n] * Weight(r, L, n)
    BY WeightFacts
  <2>2. PositionAfter(r, L, i, n - 1) = i[n] * Weight(r, L, n) + PositionAfter(r, L, i, n)
    BY PositionSteps
  <2>3. r[n] \in Nat /\ i[n] \in Nat /\ i[n] <= r[n] - 1
    BY DEF IsIndex, Radices
  <2>4. PositionAfter(r, L, i, n) \in Nat /\ PositionAfter(r, L, i, n) <= Weight(r, L, n) - 1
    BY <1>3, <2>1
  <2>5. /\ i[n] * Weight(r, L, n) + PositionAfter(r, L, i, n) \in Nat
        /\ i[n] * Weight(r, L, n) + PositionAfter(r, L, i, n) <= r[n] * Weight(r, L, n) - 1
    BY <2>1, <2>3, <2>4, DigitBound
  <2>6. PositionAfter(r, L, i, n - 1) \in 0..(Weight(r, L, n - 1) - 1)
    <3>1. \A a, b \in Int : a \in Nat /\ a <= b - 1 => a \in 0..(b - 1)
      OBVIOUS
    <3>2. r[n] * Weight(r, L, n) \in Int
      BY <2>1, <2>3
    <3>3. QED  BY <2>1, <2>2, <2>5, <3>1, <3>2
  <2>7. n - 1 \in 0..L
    OBVIOUS
  <2>8. QED  BY <2>6, <2>7
<1>4. \A k \in 0..L : k \in I
  <2> HIDE DEF I
  <2> QED  BY <1>2, <1>3, LoopDown
<1>5. QED  BY <1>4

(* Equal coordinates up to the n-th leave the difference to those after it. *)
LEMMA PositionCommon ==
  ASSUME NEW L \in Nat, NEW r, Radices(r, L), NEW i, IsIndex(i, r, L), NEW j, IsIndex(j, r, L)
  PROVE  \A n \in 0..L :
           (\A m \in 1..n : i[m] = j[m])
             => Position(r, L, i) - Position(r, L, j)
                  = PositionAfter(r, L, i, n) - PositionAfter(r, L, j, n)
<1> DEFINE Claim(n) == (\A m \in 1..n : i[m] = j[m])
                         => Position(r, L, i) - Position(r, L, j)
                              = PositionAfter(r, L, i, n) - PositionAfter(r, L, j, n)
           I == {n \in 0..L : Claim(n)}
<1>1. 0 \in I
  BY PositionSteps
<1>2. ASSUME NEW n \in 1..L, n - 1 \in I PROVE n \in I
  <2> SUFFICES ASSUME \A m \in 1..n : i[m] = j[m]
               PROVE  Position(r, L, i) - Position(r, L, j)
                        = PositionAfter(r, L, i, n) - PositionAfter(r, L, j, n)
    OBVIOUS
  <2>1. Position(r, L, i) - Position(r, L, j)
          = PositionAfter(r, L, i, n - 1) - PositionAfter(r, L, j, n - 1)
    <3>1. \A m \in 1..(n - 1) : i[m] = j[m]
      OBVIOUS
    <3>2. QED  BY <1>2, <3>1
  <2>2. /\ PositionAfter(r, L, i, n - 1) = i[n] * Weight(r, L, n) + PositionAfter(r, L, i, n)
        /\ i[n] * Weight(r, L, n) \in Nat
        /\ PositionAfter(r, L, i, n) \in Nat
    BY PositionSteps
  <2>3. /\ PositionAfter(r, L, j, n - 1) = j[n] * Weight(r, L, n) + PositionAfter(r, L, j, n)
        /\ PositionAfter(r, L, j, n) \in Nat
    BY PositionSteps
  <2>4. i[n] = j[n]
    OBVIOUS
  <2> HIDE DEF I, Claim
  <2>5. QED  BY <2>1, <2>2, <2>3, <2>4
<1>3. CountsUp(I, L)
  <2> HIDE DEF I
  <2> QED  BY <1>1, <1>2 DEF CountsUp
<1>4. \A n \in 0..L : n \in I
  <2> HIDE DEF I
  <2> QED  BY <1>3, LoopInduction
<1>5. QED  BY <1>4

IsBefore(i, j, L) == \E n \in 1..L : i[n] < j[n] /\ \A m \in 1..(n - 1) : i[m] = j[m]

LEMMA PositionBefore ==
  ASSUME NEW L \in Nat, NEW r, Radices(r, L), NEW i, IsIndex(i, r, L), NEW j, IsIndex(j, r, L),
         IsBefore(i, j, L)
  PROVE  Position(r, L, i) < Position(r, L, j)
<1>1. PICK n \in 1..L : i[n] < j[n] /\ \A m \in 1..(n - 1) : i[m] = j[m]
  BY DEF IsBefore
<1>2. Position(r, L, i) - Position(r, L, j)
        = PositionAfter(r, L, i, n - 1) - PositionAfter(r, L, j, n - 1)
  <2>1. n - 1 \in 0..L
    OBVIOUS
  <2>2. QED  BY <1>1, <2>1, PositionCommon
<1>3. /\ PositionAfter(r, L, i, n - 1) = i[n] * Weight(r, L, n) + PositionAfter(r, L, i, n)
      /\ PositionAfter(r, L, i, n) \in Nat
  BY PositionSteps
<1>4. /\ PositionAfter(r, L, j, n - 1) = j[n] * Weight(r, L, n) + PositionAfter(r, L, j, n)
      /\ PositionAfter(r, L, j, n) \in Nat
      /\ j[n] * Weight(r, L, n) \in Nat
  BY PositionSteps
<1>5. PositionAfter(r, L, i, n) <= Weight(r, L, n) - 1
  BY PositionBound
<1>6. Weight(r, L, n) \in Nat
  BY WeightFacts
<1>7. i[n] \in Nat /\ j[n] \in Nat /\ i[n] <= j[n] - 1
  BY <1>1 DEF IsIndex, Radices
<1>8. i[n] * Weight(r, L, n) + PositionAfter(r, L, i, n) <= j[n] * Weight(r, L, n) - 1
  BY <1>3, <1>5, <1>6, <1>7, DigitBound
<1>9. PositionAfter(r, L, i, n - 1) < PositionAfter(r, L, j, n - 1)
  <2>1. i[n] * Weight(r, L, n) \in Nat
    BY PositionSteps
  <2>2. QED  BY <1>3, <1>4, <1>8, <2>1
<1>10. Position(r, L, i) \in Nat /\ Position(r, L, j) \in Nat
  BY PositionSteps
<1>11. PositionAfter(r, L, i, n - 1) \in Nat /\ PositionAfter(r, L, j, n - 1) \in Nat
  <2>1. n - 1 \in 0..L
    OBVIOUS
  <2>2. QED  BY <2>1, PositionSteps
<1>12. QED  BY <1>2, <1>9, <1>10, <1>11

LEMMA OneBefore ==
  ASSUME NEW L \in Nat, NEW r, Radices(r, L), NEW i, IsIndex(i, r, L), NEW j, IsIndex(j, r, L),
         NEW d \in 1..L, i[d] # j[d]
  PROVE  IsBefore(i, j, L) \/ IsBefore(j, i, L)
<1> DEFINE D == {n \in 1..L : i[n] # j[n]}
<1>1. PICK n \in D : \A m \in D : n <= m
  <2>1. D \subseteq Nat /\ D # {}
    OBVIOUS
  <2> HIDE DEF D
  <2>2. QED  BY <2>1, LeastElement
<1>2. \A m \in 1..(n - 1) : i[m] = j[m] /\ j[m] = i[m]
  BY <1>1
<1>3. i[n] \in Int /\ j[n] \in Int /\ i[n] # j[n]
  BY DEF IsIndex, Radices
<1>4. i[n] < j[n] \/ j[n] < i[n]
  BY <1>3
<1>5. QED  BY <1>2, <1>4 DEF IsBefore

(* The position tells the index, and the order. *)
LEMMA PositionTells ==
  ASSUME NEW L \in Nat, NEW r, Radices(r, L), NEW i, IsIndex(i, r, L), NEW j, IsIndex(j, r, L)
  PROVE  /\ Position(r, L, i) = Position(r, L, j) => \A n \in 1..L : i[n] = j[n]
         /\ IsBefore(i, j, L) <=> Position(r, L, i) < Position(r, L, j)
<1>1. Position(r, L, i) \in Nat /\ Position(r, L, j) \in Nat
  BY PositionSteps
<1>2. ASSUME NEW d \in 1..L, i[d] # j[d]
      PROVE  /\ Position(r, L, i) # Position(r, L, j)
             /\ Position(r, L, i) < Position(r, L, j) => IsBefore(i, j, L)
  <2>1. IsBefore(i, j, L) \/ IsBefore(j, i, L)
    BY <1>2, OneBefore
  <2>2. IsBefore(i, j, L) => Position(r, L, i) < Position(r, L, j)
    BY PositionBefore
  <2>3. IsBefore(j, i, L) => Position(r, L, j) < Position(r, L, i)
    BY PositionBefore
  <2>4. QED  BY <1>1, <2>1, <2>2, <2>3
<1>3. ASSUME \A n \in 1..L : i[n] = j[n]
      PROVE  Position(r, L, i) = Position(r, L, j)
  <2>1. Digits(r, L, i) = Digits(r, L, j)
    BY <1>3 DEF Digits
  <2>2. QED  BY <2>1 DEF Position
<1>4. Position(r, L, i) < Position(r, L, j) => \E d \in 1..L : i[d] # j[d]
  BY <1>1, <1>3
<1>5. IsBefore(i, j, L) => Position(r, L, i) < Position(r, L, j)
  BY PositionBefore
<1>6. QED  BY <1>2, <1>4, <1>5

LEMMA Remainder ==
  ASSUME NEW p \in Nat, NEW m \in Nat \ {0}, NEW k \in Nat, NEW d \in 0..(m - 1), p = k * m + d
  PROVE  p % m = d
<1> DEFINE q == p \div m
           e == p % m
<1>1. q \in Nat /\ e \in 0..(m - 1) /\ p = q * m + e
  BY Z3
<1> HIDE DEF q, e
<1>2. (q - k) * m = d - e
  BY <1>1
<1>3. q - k \in Int /\ d - e \in Int /\ d - e < m /\ d - e > -m
  BY <1>1
<1>4. q - k >= 1 => (q - k) * m >= m
  BY <1>1
<1>5. q - k <= -1 => (q - k) * m <= -m
  BY <1>1
<1>6. q - k = 0
  BY <1>1, <1>2, <1>3, <1>4, <1>5
<1>7. d = e
  BY <1>1, <1>2, <1>6
<1>8. QED  BY <1>7 DEF e

(* One digit more. *)
LEMMA RemainderDigit ==
  ASSUME NEW p \in Nat, NEW t \in Nat \ {0}, NEW s \in Nat \ {0}
  PROVE  ((p \div t) % s) * t + (p % t) = p % (s * t)
<1> DEFINE q == p \div t
           e == p % t
           k == q \div s
           d == q % s
<1>1. q \in Nat /\ e \in 0..(t - 1) /\ p = q * t + e
  BY Z3
<1> HIDE DEF q, e
<1>2. k \in Nat /\ d \in 0..(s - 1) /\ q = k * s + d
  BY <1>1, Z3
<1> HIDE DEF k, d
<1>3. p = (k * s + d) * t + e
  BY <1>1, <1>2
<1>4. (k * s + d) * t + e = k * (s * t) + (d * t + e)
  BY <1>1, <1>2
<1>5. d * t + e \in Nat /\ d * t + e <= s * t - 1
  <2>1. e \in Nat /\ e <= t - 1 /\ d \in Nat /\ d <= s - 1
    BY <1>1, <1>2
  <2>2. QED  BY <2>1, DigitBound
<1>6. s * t \in Nat \ {0}
  OBVIOUS
<1>7. d * t + e \in 0..(s * t - 1)
  BY <1>5, <1>6
<1>8. p % (s * t) = d * t + e
  BY <1>2, <1>3, <1>4, <1>6, <1>7, Remainder
<1>9. QED  BY <1>8 DEF d, e, q

(* The index at a position. *)
LEMMA PositionOfDigits ==
  ASSUME NEW L \in Nat, NEW r, Radices(r, L), NEW p \in 0..(Weight(r, L, 0) - 1), NEW i,
         \A n \in 1..L : i[n] = (p \div Weight(r, L, n)) % r[n]
  PROVE  /\ IsIndex(i, r, L)
         /\ Position(r, L, i) = p
<1>1. p \in Nat
  BY WeightFacts
<1>2. IsIndex(i, r, L)
  <2>1. ASSUME NEW n \in 1..L PROVE i[n] \in 0..(r[n] - 1)
    <3>1. Weight(r, L, n) \in Nat \ {0}
      BY WeightFacts
    <3>2. r[n] \in Nat \ {0}
      BY DEF Radices
    <3>3. \A a, b, c \in Nat : b # 0 /\ c # 0 => (a \div b) % c \in 0..(c - 1)
      BY Z3
    <3>4. QED  BY <1>1, <3>1, <3>2, <3>3
  <2>2. QED  BY <2>1 DEF IsIndex
<1> DEFINE I == {n \in 0..L : PositionAfter(r, L, i, n) = p % Weight(r, L, n)}
<1>3. L \in I
  <2>1. PositionAfter(r, L, i, L) = 0 /\ Weight(r, L, L) = 1
    BY <1>2, PositionSteps, WeightFacts
  <2>2. p % 1 = 0
    BY <1>1
  <2>3. QED  BY <2>1, <2>2
<1>4. ASSUME NEW n \in 1..L, n \in I PROVE n - 1 \in I
  <2>1. PositionAfter(r, L, i, n - 1) = i[n] * Weight(r, L, n) + PositionAfter(r, L, i, n)
    BY <1>2, PositionSteps
  <2>2. Weight(r, L, n) \in Nat \ {0} /\ Weight(r, L, n - 1) = r[n] * Weight(r, L, n)
    BY WeightFacts
  <2>3. r[n] \in Nat \ {0}
    BY DEF Radices
  <2>4. ((p \div Weight(r, L, n)) % r[n]) * Weight(r, L, n) + (p % Weight(r, L, n)) = p % (r[n] * Weight(r, L, n))
    BY <1>1, <2>2, <2>3, RemainderDigit
  <2>5. PositionAfter(r, L, i, n) = p % Weight(r, L, n) /\ i[n] = (p \div Weight(r, L, n)) % r[n]
    BY <1>4
  <2>6. PositionAfter(r, L, i, n - 1) = p % Weight(r, L, n - 1)
    BY <2>1, <2>2, <2>4, <2>5
  <2>7. QED  BY <2>6
<1>5. \A n \in 0..L : n \in I
  <2> HIDE DEF I
  <2> QED  BY <1>3, <1>4, LoopDown
<1>6. p % Weight(r, L, 0) = p
  <2>1. Weight(r, L, 0) \in Nat \ {0}
    BY WeightFacts
  <2>2. p = 0 * Weight(r, L, 0) + p
    BY <1>1, <2>1
  <2>3. QED  BY <1>1, <2>1, <2>2, Remainder
<1>7. PositionAfter(r, L, i, 0) = p % Weight(r, L, 0)
  BY <1>5
<1>8. QED  BY <1>2, <1>6, <1>7, PositionSteps

-----------------------------------------------------------------------------
(* The indices of a shape, and the loops over them *)

AllIndices(shape) == {i \in [1..Len(shape) -> Nat] : \A n \in 1..Len(shape) : i[n] < shape[n]}

PositionIn(shape, i) == Position(shape, Len(shape), i)

LEMMA SizesAreRadices ==
  ASSUME NEW shape \in Seq(Sizes)
  PROVE  /\ Len(shape) \in Nat
         /\ DOMAIN shape = 1..Len(shape)
         /\ Radices(shape, Len(shape))
         /\ Weight(shape, Len(shape), 0) = ArrayProduct(shape)
         /\ ArrayProduct(shape) \in Nat \ {0}
         /\ \A n \in 1..Len(shape) : TailProduct(shape, n) = Weight(shape, Len(shape), n)
<1>1. Len(shape) \in Nat /\ DOMAIN shape = 1..Len(shape)
  OBVIOUS
<1>2. Radices(shape, Len(shape))
  BY DEF Radices, Sizes
<1>3. Weight(shape, Len(shape), 0) = ArrayProduct(shape)
  <2>1. 0 + 1 = 1
    OBVIOUS
  <2>2. QED  BY <1>1, <2>1 DEF Weight, ArrayProduct
<1>4. Weight(shape, Len(shape), 0) \in Nat \ {0}
  <2>1. 0 \in 0..Len(shape)
    BY <1>1
  <2>2. QED  BY <1>1, <1>2, <2>1, WeightFacts
<1>5. QED  BY <1>1, <1>2, <1>3, <1>4 DEF Weight, TailProduct

LEMMA IndexFacts ==
  ASSUME NEW shape \in Seq(Sizes), NEW i
  PROVE  i \in AllIndices(shape)
           <=> i = [n \in 1..Len(shape) |-> i[n]] /\ IsIndex(i, shape, Len(shape))
<1>1. \A n \in 1..Len(shape) : shape[n] \in Nat \ {0}
  BY DEF Sizes
<1>2. QED  BY <1>1 DEF AllIndices, IsIndex

(* The loops come to each index, at its position. *)
LEMMA LoopVisits ==
  ASSUME NEW shape \in Seq(Sizes)
  PROVE  /\ Len(LoopOrder(shape)) = ArrayProduct(shape)
         /\ DOMAIN LoopOrder(shape) = 1..ArrayProduct(shape)
         /\ \A p \in 1..ArrayProduct(shape) :
              /\ LoopOrder(shape)[p] \in AllIndices(shape)
              /\ PositionIn(shape, LoopOrder(shape)[p]) = p - 1
         /\ \A i \in AllIndices(shape) :
              /\ PositionIn(shape, i) \in 0..(ArrayProduct(shape) - 1)
              /\ LoopOrder(shape)[PositionIn(shape, i) + 1] = i
<1> DEFINE L == Len(shape)
           P == ArrayProduct(shape)
           order == LoopOrder(shape)
<1>1. /\ L \in Nat
      /\ DOMAIN shape = 1..L
      /\ Radices(shape, L)
      /\ Weight(shape, L, 0) = P
      /\ P \in Nat \ {0}
      /\ \A n \in 1..L : TailProduct(shape, n) = Weight(shape, L, n)
  BY SizesAreRadices
<1>2. DOMAIN order = 1..P /\ Len(order) = P /\ \A p \in 1..P : order[p] = LoopIndex(shape, p - 1)
  BY <1>1 DEF LoopOrder
<1> HIDE DEF order, P, L
<1>3. ASSUME NEW p \in 1..P
      PROVE  order[p] \in AllIndices(shape) /\ PositionIn(shape, order[p]) = p - 1
  <2> DEFINE i == order[p]
  <2>1. \A n \in 1..L : i[n] = ((p - 1) \div Weight(shape, L, n)) % shape[n]
    BY <1>1, <1>2 DEF LoopIndex
  <2>2. i = [n \in 1..L |-> i[n]]
    BY <1>1, <1>2 DEF LoopIndex
  <2>3. p - 1 \in 0..(Weight(shape, L, 0) - 1)
    BY <1>1
  <2> HIDE DEF i
  <2>4. IsIndex(i, shape, L) /\ Position(shape, L, i) = p - 1
    BY <1>1, <2>1, <2>3, PositionOfDigits
  <2>5. i \in AllIndices(shape)
    BY <2>2, <2>4, IndexFacts DEF L
  <2>6. QED  BY <2>4, <2>5 DEF i, PositionIn, L
<1>4. ASSUME NEW i \in AllIndices(shape)
      PROVE  PositionIn(shape, i) \in 0..(P - 1) /\ order[PositionIn(shape, i) + 1] = i
  <2> DEFINE q == Position(shape, L, i)
             j == order[q + 1]
  <2>1. i = [n \in 1..L |-> i[n]] /\ IsIndex(i, shape, L)
    BY IndexFacts DEF L
  <2>2. q \in 0..(P - 1)
    <3>1. 0 \in 0..L
      BY <1>1
    <3>2. PositionAfter(shape, L, i, 0) \in 0..(Weight(shape, L, 0) - 1)
      BY <1>1, <2>1, <3>1, PositionBound
    <3>3. PositionAfter(shape, L, i, 0) = q
      BY <1>1, <2>1, PositionSteps
    <3>4. QED  BY <1>1, <3>2, <3>3
  <2>3. q + 1 \in 1..P /\ (q + 1) - 1 = q
    BY <1>1, <2>2
  <2>4. j \in AllIndices(shape) /\ Position(shape, L, j) = q
    BY <1>3, <2>3 DEF PositionIn, L
  <2>5. j = [n \in 1..L |-> j[n]] /\ IsIndex(j, shape, L)
    BY <2>4, IndexFacts DEF L
  <2>6. \A n \in 1..L : i[n] = j[n]
    BY <1>1, <2>1, <2>4, <2>5, PositionTells
  <2>7. i = j
    BY <2>1, <2>5, <2>6
  <2>8. PositionIn(shape, i) = q
    BY DEF PositionIn, L
  <2>9. QED  BY <2>2, <2>7, <2>8
<1>5. QED  BY <1>2, <1>3, <1>4 DEF order, P, L

LEMMA IndicesFinite ==
  ASSUME NEW shape \in Seq(Sizes)
  PROVE  /\ IsFiniteSet(AllIndices(shape))
         /\ Range(LoopOrder(shape)) = AllIndices(shape)
<1> DEFINE P == ArrayProduct(shape)
           order == LoopOrder(shape)
           S == AllIndices(shape)
<1>1. P \in Nat
  BY SizesAreRadices
<1>2. /\ DOMAIN order = 1..P
      /\ \A p \in 1..P : order[p] \in S
      /\ \A i \in S : PositionIn(shape, i) \in 0..(P - 1) /\ order[PositionIn(shape, i) + 1] = i
  BY LoopVisits
<1>3. order = [p \in 1..P |-> order[p]]
  BY DEF LoopOrder
<1> HIDE DEF P, order, S
<1>4. \A i \in S : \E p \in 1..P : order[p] = i
  <2>1. ASSUME NEW i \in S PROVE \E p \in 1..P : order[p] = i
    <3>1. PositionIn(shape, i) + 1 \in 1..P
      BY <1>1, <1>2
    <3>2. QED  BY <1>2, <3>1
  <2>2. QED  BY <2>1
<1>5. order \in Surjection(1..P, S)
  BY <1>2, <1>3, <1>4 DEF Surjection
<1>6. IsFiniteSet(1..P)
  BY <1>1, FS_Interval
<1>7. IsFiniteSet(S)
  BY <1>5, <1>6, FS_Surjection
<1>8. Range(order) = S
  BY <1>2, <1>4 DEF Range
<1>9. QED  BY <1>7, <1>8 DEF order, S

-----------------------------------------------------------------------------
(* Where elements are *)

Moves(v, index) == [n \in 1..Rank(v) |-> index[n] * v.strides[n]]

LEMMA MovesFacts ==
  ASSUME NEW v, IsView(v), NEW index \in AllIndices(v.shape)
  PROVE  /\ Address(v, index) = v.offset + SumFunctionOnSet(Moves(v, index), 1..Rank(v))
         /\ \A n \in 1..Rank(v) : index[n] \in Nat /\ Moves(v, index)[n] \in Nat
         /\ SumFunctionOnSet(Moves(v, index), 1..Rank(v)) \in Nat
<1> DEFINE N == 1..Rank(v)
           f == Moves(v, index)
<1>1. DOMAIN f = N /\ IsFiniteSet(N)
  BY DimensionFacts DEF Moves
<1>2. Address(v, index) = v.offset + SumFunctionOnSet(f, N)
  BY <1>1 DEF Address, SumFunction, Moves
<1>3. \A a, b \in Nat : a * b \in Nat
  OBVIOUS
<1>4. \A n \in N : index[n] \in Nat /\ v.strides[n] \in Nat
  BY DimensionFacts DEF AllIndices, Rank
<1>5. \A n \in N : index[n] \in Nat /\ f[n] \in Nat
  BY <1>3, <1>4 DEF Moves
<1> HIDE DEF f, N
<1>6. SumFunctionOnSet(f, N) \in Nat
  BY <1>1, <1>5, SumNat
<1>7. QED  BY <1>2, <1>5, <1>6 DEF f, N

LEMMA ViewShape ==
  ASSUME NEW v, IsView(v)
  PROVE  v.shape \in Seq(Sizes) /\ Rank(v) = Len(v.shape)
BY DEF IsView, Sizes, Rank

(* A contiguous view counts its elements in order. *)
LEMMA ContiguousAddress ==
  ASSUME NEW v, IsView(v), ViewIsContiguous(v), NEW index \in AllIndices(v.shape)
  PROVE  Address(v, index) = PositionIn(v.shape, index)
<1> DEFINE N == 1..Rank(v)
           f == Moves(v, index)
           g == Digits(v.shape, Rank(v), index)
<1>1. /\ Address(v, index) = v.offset + SumFunctionOnSet(f, N)
      /\ \A n \in N : index[n] \in Nat /\ f[n] \in Nat
      /\ SumFunctionOnSet(f, N) \in Nat
  BY MovesFacts
<1>2. v.shape \in Seq(Sizes) /\ Rank(v) = Len(v.shape) /\ Rank(v) \in Nat
  BY ViewShape, DimensionFacts
<1>3. \A n \in N : TailProduct(v.shape, n) = Weight(v.shape, Rank(v), n)
  BY <1>2, SizesAreRadices
<1>4. \A n \in N : v.shape[n] = 1 => index[n] = 0
  BY <1>1, <1>2 DEF AllIndices
<1>5. \A n \in N : v.shape[n] # 1 => v.strides[n] = TailProduct(v.shape, n)
  BY DimensionFacts DEF ViewIsContiguous, StridesFromShape
<1>6. ASSUME NEW n \in N
      PROVE  f[n] \in Int /\ g[n] = f[n]
  <2>1. f[n] = index[n] * v.strides[n] /\ g[n] = index[n] * Weight(v.shape, Rank(v), n)
    BY DEF Moves, Digits
  <2>2. CASE v.shape[n] = 1
    <3>1. Weight(v.shape, Rank(v), n) \in Nat
      <4>1. Radices(v.shape, Rank(v)) /\ n \in 0..Rank(v)
        BY <1>2, SizesAreRadices
      <4>2. QED  BY <1>2, <4>1, WeightFacts
    <3>2. v.strides[n] \in Nat
      BY DimensionFacts
    <3>3. \A a \in Nat : 0 * a = 0
      OBVIOUS
    <3>4. QED  BY <1>4, <2>1, <2>2, <3>1, <3>2, <3>3
  <2>3. CASE v.shape[n] # 1
    BY <1>1, <1>3, <1>5, <2>1, <2>3
  <2>4. QED  BY <2>2, <2>3
<1>7. SumFunctionOnSet(f, N) = SumFunctionOnSet(g, N)
  <2>1. IsFiniteSet(N)
    BY DimensionFacts
  <2> HIDE DEF f, g, N
  <2>2. QED  BY <1>6, <2>1, SumEqual
<1>8. v.offset = 0
  BY DEF ViewIsContiguous
<1>9. QED  BY <1>1, <1>2, <1>7, <1>8 DEF PositionIn, Position

LEMMA CreatedContiguous ==
  ASSUME NEW shape, IsShape(shape)
  PROVE  /\ IsView(ViewCreateContiguous(shape))
         /\ ViewIsContiguous(ViewCreateContiguous(shape))
         /\ ViewCreateContiguous(shape).shape = shape
         /\ shape \in Seq(Sizes)
  BY ContiguousDense DEF ViewIsContiguous, ViewCreateContiguous, View, IsShape, Sizes

(* An element of an expanded view is one of the view. *)
LEMMA ExpandAddress ==
  ASSUME NEW v, IsView(v), NEW shape, IsShape(shape), IsExpandable(v.shape, shape),
         NEW i \in AllIndices(shape), NEW j,
         j = [n \in 1..Rank(v) |-> IF v.shape[n] = 1 THEN 0 ELSE i[n + (Len(shape) - Rank(v))]]
  PROVE  /\ j \in AllIndices(v.shape)
         /\ Address(ViewExpand(v, shape), i) = Address(v, j)
<1> DEFINE e == ViewExpand(v, shape)
           L == Len(shape)
           added == L - Rank(v)
           T == (added + 1)..L
           h == [n \in T |-> n - added]
<1>1. /\ Rank(v) \in Nat
      /\ Rank(v) = Len(v.shape)
      /\ \A n \in 1..Rank(v) : v.shape[n] \in Nat \ {0} /\ v.strides[n] \in Nat
      /\ IsFiniteSet(1..Rank(v))
  BY DimensionFacts DEF Rank
<1>2. /\ L \in Nat
      /\ added \in Nat
      /\ DOMAIN shape = 1..L
      /\ \A n \in 1..L : shape[n] \in Nat \ {0}
  BY <1>1 DEF IsExpandable, IsShape
<1>3. /\ e.offset = v.offset
      /\ e.shape = shape
      /\ e.strides = [n \in 1..L |-> IF n <= added THEN 0
                                     ELSE IF v.shape[n - added] = 1 THEN 0 ELSE v.strides[n - added]]
  BY <1>2 DEF ViewExpand, View
<1>4. IsView(e)
  BY ExpandLast
<1> HIDE DEF e
<1>5. \A n \in T : n \in 1..L /\ ~(n <= added) /\ n - added \in 1..Rank(v)
  BY <1>1, <1>2
<1>6. \A n \in 1..L : n <= added \/ n \in T
  BY <1>1, <1>2
<1>7. \A n \in T : v.shape[n - added] = 1 \/ v.shape[n - added] = shape[n]
  <2> SUFFICES ASSUME NEW n \in T PROVE v.shape[n - added] = 1 \/ v.shape[n - added] = shape[n]
    OBVIOUS
  <2> DEFINE m == L - n + 1
  <2>1. m \in 1..Rank(v) /\ ~(m > Rank(v)) /\ ~(m > L)
        /\ Rank(v) - m + 1 = n - added /\ L - m + 1 = n
    BY <1>1, <1>2
  <2> HIDE DEF m
  <2>2. SizeFromEnd(v.shape, m) = v.shape[n - added] /\ SizeFromEnd(shape, m) = shape[n]
    BY <2>1 DEF SizeFromEnd, Rank
  <2>3. SizeFromEnd(v.shape, m) \in {1, SizeFromEnd(shape, m)}
    BY <2>1 DEF IsExpandable, Rank
  <2>4. QED  BY <2>2, <2>3
<1>8. \A n \in 1..L : i[n] \in Nat /\ i[n] < shape[n]
  BY DEF AllIndices
<1>9. \A m \in 1..Rank(v) : m + added \in T /\ (m + added) - added = m
  BY <1>1, <1>2
<1>10. j \in AllIndices(v.shape)
  <2>1. \A m \in 1..Rank(v) : j[m] \in Nat /\ j[m] < v.shape[m]
    <3> SUFFICES ASSUME NEW m \in 1..Rank(v) PROVE j[m] \in Nat /\ j[m] < v.shape[m]
      OBVIOUS
    <3>1. j[m] = IF v.shape[m] = 1 THEN 0 ELSE i[m + added]
      OBVIOUS
    <3>2. v.shape[m] = 1 \/ v.shape[m] = shape[m + added]
      BY <1>7, <1>9
    <3>3. i[m + added] \in Nat /\ i[m + added] < shape[m + added]
      BY <1>5, <1>8, <1>9
    <3> HIDE DEF added
    <3>4. QED  BY <3>1, <3>2, <3>3
  <2>2. j \in [1..Rank(v) -> Nat]
    BY <2>1
  <2>3. QED  BY <1>1, <2>1, <2>2 DEF AllIndices
<1> DEFINE f == Moves(e, i)
           g == Moves(v, j)
<1>11. /\ \A n \in 1..L : f[n] = i[n] * e.strides[n]
       /\ \A m \in 1..Rank(v) : g[m] = j[m] * v.strides[m]
  BY <1>3 DEF Moves, Rank
<1>12. /\ Address(e, i) = v.offset + SumFunctionOnSet(f, 1..L)
       /\ \A n \in 1..L : f[n] \in Int
  <2>1. i \in AllIndices(e.shape) /\ Rank(e) = L
    BY <1>3 DEF Rank
  <2>2. /\ Address(e, i) = e.offset + SumFunctionOnSet(f, 1..Rank(e))
        /\ \A n \in 1..Rank(e) : f[n] \in Nat
    BY <1>4, <2>1, MovesFacts
  <2>3. QED  BY <1>3, <2>1, <2>2
<1>13. /\ Address(v, j) = v.offset + SumFunctionOnSet(g, 1..Rank(v))
       /\ \A m \in 1..Rank(v) : g[m] \in Nat
  BY <1>10, MovesFacts
<1>14. \A n \in 1..L : n \notin T => f[n] = 0
  <2> SUFFICES ASSUME NEW n \in 1..L, n \notin T PROVE f[n] = 0
    OBVIOUS
  <2>1. e.strides[n] = 0 /\ i[n] \in Nat
    BY <1>3, <1>6, <1>8
  <2>2. f[n] = i[n] * 0
    BY <1>11, <2>1
  <2>3. QED  BY <2>1, <2>2
<1>15. \A n \in T : f[n] = g[n - added]
  <2> SUFFICES ASSUME NEW n \in T PROVE f[n] = g[n - added]
    OBVIOUS
  <2>1. n \in 1..L /\ n - added \in 1..Rank(v) /\ ~(n <= added) /\ (n - added) + added = n
    BY <1>1, <1>2, <1>5
  <2>2. f[n] = i[n] * e.strides[n] /\ g[n - added] = j[n - added] * v.strides[n - added]
    BY <1>11, <2>1
  <2>3. CASE v.shape[n - added] = 1
    <3>1. e.strides[n] = 0 /\ j[n - added] = 0
      BY <1>3, <2>1, <2>3
    <3>2. i[n] \in Int /\ v.strides[n - added] \in Int
      BY <1>1, <1>8, <2>1
    <3>3. \A a \in Int : a * 0 = 0 /\ 0 * a = 0
      OBVIOUS
    <3>4. QED  BY <2>2, <3>1, <3>2, <3>3
  <2>4. CASE v.shape[n - added] # 1
    <3>1. e.strides[n] = v.strides[n - added] /\ j[n - added] = i[n]
      BY <1>3, <2>1, <2>4
    <3>2. QED  BY <2>2, <3>1
  <2>5. QED  BY <2>3, <2>4
<1>16. {h[n] : n \in T} = 1..Rank(v)
  <2>1. \A n \in T : h[n] \in 1..Rank(v)
    BY <1>5
  <2>2. ASSUME NEW m \in 1..Rank(v) PROVE \E n \in T : h[n] = m
    <3>1. h[m + added] = m
      BY <1>9
    <3>2. QED  BY <1>9, <3>1
  <2>3. QED  BY <2>1, <2>2
<1>17. Renames(h, T)
  BY <1>2 DEF Renames
<1>18. IsFiniteSet(T) /\ IsFiniteSet(1..L) /\ T \subseteq 1..L
  BY <1>2, <1>5, FS_Interval
<1>19. \A n \in T : g[h[n]] \in Int /\ f[n] = g[h[n]]
  BY <1>5, <1>13, <1>15
<1> HIDE DEF h, T, L, added, f, g
<1>20. SumFunctionOnSet(f, 1..L) = SumFunctionOnSet(f, T)
  BY <1>12, <1>14, <1>18, SumSkip
<1>21. SumFunctionOnSet(f, T) = SumFunctionOnSet(g, {h[n] : n \in T})
  <2>1. IsFiniteSet(T)
    BY <1>18
  <2>2. QED  BY <1>17, <1>19, <2>1, SumImage
<1>22. Address(e, i) = Address(v, j)
  BY <1>12, <1>13, <1>16, <1>20, <1>21
<1>23. QED  BY <1>10, <1>22 DEF e

(* The index j has the coordinates of i, each in the dimension of its axis. *)
PermutedFrom(axes, rank, i, j) ==
  /\ j = [m \in 1..rank |-> j[m]]
  /\ \A n \in 1..rank : j[axes[n] + 1] = i[n]

(* An element of a permuted view is one of the view. *)
LEMMA PermuteAddress ==
  ASSUME NEW v, IsView(v), NEW axes \in Injection(1..Rank(v), 0..(Rank(v) - 1)),
         NEW i \in AllIndices(ViewPermute(v, axes).shape),
         NEW j, PermutedFrom(axes, Rank(v), i, j)
  PROVE  /\ j \in AllIndices(v.shape)
         /\ Address(ViewPermute(v, axes), i) = Address(v, j)
<1> DEFINE p == ViewPermute(v, axes)
           N == 1..Rank(v)
           h == [n \in N |-> axes[n] + 1]
<1>1. /\ Rank(v) \in Nat
      /\ Rank(v) = Len(v.shape)
      /\ \A n \in N : v.shape[n] \in Nat \ {0} /\ v.strides[n] \in Nat
      /\ IsFiniteSet(N)
  BY DimensionFacts DEF Rank
<1>2. /\ DOMAIN axes = N
      /\ \A n \in N : axes[n] \in 0..(Rank(v) - 1)
      /\ \A m, n \in N : axes[m] = axes[n] => m = n
  BY DEF Injection, IsInjective
<1>3. \A n \in N : Dimension(axes[n], Rank(v)) = h[n] /\ h[n] \in N
  BY <1>1, <1>2 DEF Dimension, DimensionToIndex
<1>4. h \in Injection(N, N)
  BY <1>1, <1>2, <1>3 DEF Injection, IsInjective
<1>5. {h[n] : n \in N} = N
  <2> HIDE DEF h, N
  <2>1. h \in Surjection(N, N)
    BY <1>1, <1>4, FS_Injection
  <2>2. QED  BY <2>1 DEF Surjection
<1>6. Renames(h, N)
  BY <1>4 DEF Injection, IsInjective, Renames
<1>7. /\ p.offset = v.offset
      /\ p.shape = [n \in N |-> v.shape[h[n]]]
      /\ p.strides = [n \in N |-> v.strides[h[n]]]
  BY <1>2, <1>3 DEF ViewPermute, View
<1>8. IsView(p)
  BY PermuteLast
<1>9. i \in AllIndices(p.shape)
  OBVIOUS
<1>10. \A n \in N : j[h[n]] = i[n]
  BY DEF PermutedFrom
<1> HIDE DEF p, h
<1>11. Rank(p) = Rank(v) /\ Len(p.shape) = Rank(v)
  BY <1>1, <1>7 DEF Rank
<1>12. \A n \in N : i[n] \in Nat /\ i[n] < v.shape[h[n]]
  <2>1. i \in [N -> Nat] /\ \A n \in N : i[n] < p.shape[n]
    BY <1>9, <1>11 DEF AllIndices
  <2>2. \A n \in N : i[n] \in Nat
    BY <2>1
  <2>3. QED  BY <1>7, <2>1, <2>2
<1>13. j \in AllIndices(v.shape)
  <2>1. ASSUME NEW m \in N PROVE j[m] \in Nat /\ j[m] < v.shape[m]
    <3>1. PICK n \in N : h[n] = m
      BY <1>5
    <3>2. j[m] = i[n] /\ i[n] \in Nat /\ i[n] < v.shape[h[n]]
      BY <1>10, <1>12, <3>1
    <3>3. QED  BY <3>1, <3>2
  <2>2. j \in [N -> Nat]
    BY <2>1 DEF PermutedFrom
  <2>3. QED  BY <1>1, <2>1, <2>2 DEF AllIndices
<1> DEFINE f == Moves(p, i)
           g == Moves(v, j)
<1>14. /\ Address(p, i) = v.offset + SumFunctionOnSet(f, N)
       /\ \A n \in N : f[n] \in Nat
  BY <1>7, <1>8, <1>9, <1>11, MovesFacts
<1>15. /\ Address(v, j) = v.offset + SumFunctionOnSet(g, N)
       /\ \A n \in N : g[n] \in Nat
  BY <1>13, MovesFacts
<1>16. \A n \in N : f[n] = g[h[n]]
  <2>1. \A n \in N : f[n] = i[n] * p.strides[n] /\ g[n] = j[n] * v.strides[n]
    BY <1>11 DEF Moves
  <2>2. \A n \in N : p.strides[n] = v.strides[h[n]] /\ h[n] \in N
    BY <1>3, <1>7
  <2>3. ASSUME NEW n \in N PROVE f[n] = g[h[n]]
    <3>1. f[n] = i[n] * v.strides[h[n]]
      BY <2>1, <2>2
    <3>2. g[h[n]] = i[n] * v.strides[h[n]]
      BY <1>10, <2>1, <2>2
    <3>3. QED  BY <3>1, <3>2
  <2>4. QED  BY <2>3
<1>17. \A n \in N : g[h[n]] \in Int /\ f[n] = g[h[n]]
  BY <1>3, <1>15, <1>16
<1>18. SumFunctionOnSet(f, N) = SumFunctionOnSet(g, {h[n] : n \in N})
  <2> HIDE DEF N, f, g
  <2>1. IsFiniteSet(N)
    BY <1>1
  <2>2. QED  BY <1>6, <1>17, <2>1, SumImage
<1>19. Address(p, i) = Address(v, j)
  BY <1>5, <1>14, <1>15, <1>18
<1>20. QED  BY <1>13, <1>19 DEF p

(* An element of a slice is one of the view, but for its forgotten offset. *)
LEMMA SliceAddress ==
  ASSUME NEW v, IsView(v), NEW arguments, DOMAIN arguments = DOMAIN v.shape,
         \A n \in DOMAIN arguments : arguments[n][1] \in Int /\ arguments[n][2] \in Int,
         ViewSliceOK(v, arguments),
         NEW i \in AllIndices(ViewSlice(v, arguments).shape), NEW j,
         j = [n \in 1..Rank(v) |-> i[n] + arguments[n][1]]
  PROVE  /\ j \in AllIndices(v.shape)
         /\ v.offset + Address(ViewSlice(v, arguments), i) = Address(v, j)
<1> DEFINE s == ViewSlice(v, arguments)
           N == 1..Rank(v)
           first == [n \in N |-> arguments[n][1] * v.strides[n]]
<1>1. /\ Rank(v) \in Nat
      /\ Rank(v) = Len(v.shape)
      /\ DOMAIN v.shape = N
      /\ \A n \in N : v.shape[n] \in Nat \ {0} /\ v.strides[n] \in Nat
      /\ IsFiniteSet(N)
  BY DimensionFacts DEF Rank
<1>2. \A n \in N : /\ arguments[n][1] \in Nat
                   /\ arguments[n][2] \in Nat
                   /\ arguments[n][1] < arguments[n][2]
                   /\ arguments[n][2] <= v.shape[n]
  BY <1>1 DEF ViewSliceOK
<1>3. /\ s.offset = SumFunctionOnSet(first, N)
      /\ s.shape = [n \in N |-> arguments[n][2] - arguments[n][1]]
      /\ s.strides = v.strides
  BY <1>1 DEF ViewSlice, View, SumFunction
<1>4. IsView(s)
  BY SliceLast
<1>5. i \in AllIndices(s.shape)
  OBVIOUS
<1> HIDE DEF s
<1>6. Rank(s) = Rank(v) /\ Len(s.shape) = Rank(v)
  BY <1>1, <1>3 DEF Rank
<1>7. \A n \in N : i[n] \in Nat /\ i[n] < arguments[n][2] - arguments[n][1]
  BY <1>3, <1>5, <1>6 DEF AllIndices
<1>8. \A a, b \in Nat : a * b \in Nat
  OBVIOUS
<1>9. \A n \in N : first[n] \in Nat
  BY <1>1, <1>2, <1>8
<1>10. j \in AllIndices(v.shape)
  <2>1. ASSUME NEW m \in N PROVE j[m] \in Nat /\ j[m] < v.shape[m]
    <3>1. j[m] = i[m] + arguments[m][1]
      OBVIOUS
    <3>2. i[m] \in Nat /\ i[m] < arguments[m][2] - arguments[m][1]
      BY <1>7
    <3>3. /\ arguments[m][1] \in Nat /\ arguments[m][2] \in Nat /\ v.shape[m] \in Nat
          /\ arguments[m][2] <= v.shape[m]
      BY <1>1, <1>2
    <3>4. QED  BY <3>1, <3>2, <3>3
  <2>2. j \in [N -> Nat]
    BY <2>1
  <2>3. QED  BY <1>1, <2>1, <2>2 DEF AllIndices
<1> DEFINE f == Moves(s, i)
           g == Moves(v, j)
<1>11. /\ Address(s, i) = s.offset + SumFunctionOnSet(f, N)
       /\ \A n \in N : f[n] \in Nat
       /\ SumFunctionOnSet(f, N) \in Nat
  BY <1>4, <1>5, <1>6, MovesFacts
<1>12. /\ Address(v, j) = v.offset + SumFunctionOnSet(g, N)
       /\ \A n \in N : g[n] \in Nat
  BY <1>10, MovesFacts
<1>13. \A n \in N : g[n] = first[n] + f[n]
  <2> SUFFICES ASSUME NEW n \in N PROVE g[n] = first[n] + f[n]
    OBVIOUS
  <2>1. /\ f[n] = i[n] * v.strides[n]
        /\ g[n] = (i[n] + arguments[n][1]) * v.strides[n]
        /\ first[n] = arguments[n][1] * v.strides[n]
    BY <1>3, <1>6 DEF Moves
  <2>2. i[n] \in Nat /\ v.strides[n] \in Nat /\ arguments[n][1] \in Nat
    BY <1>1, <1>2, <1>7
  <2>3. \A a, b, c \in Nat : (a + b) * c = b * c + a * c
    OBVIOUS
  <2> HIDE DEF f, g, first
  <2>4. QED  BY <2>1, <2>2, <2>3
<1>14. SumFunctionOnSet(g, N) = SumFunctionOnSet(first, N) + SumFunctionOnSet(f, N)
  <2> HIDE DEF N, f, g, first
  <2>1. IsFiniteSet(N)
    BY <1>1
  <2>2. \A n \in N : first[n] \in Int /\ f[n] \in Int /\ g[n] = first[n] + f[n]
    BY <1>9, <1>11, <1>13
  <2>3. QED  BY <2>1, <2>2, SumOfTwo
<1>15. s.offset \in Nat /\ v.offset \in Nat
  BY <1>4 DEF IsView
<1>16. v.offset + Address(s, i) = Address(v, j)
  BY <1>3, <1>11, <1>12, <1>14, <1>15
<1>17. QED  BY <1>10, <1>16 DEF s

-----------------------------------------------------------------------------
(* The order of what is kept *)

(* The p-th element has p - 1 before it. *)
LEMMA OrderedRank ==
  ASSUME NEW rank \in Nat, NEW S, S \subseteq 1..rank, NEW q, IsOrdered(q, S)
  PROVE  /\ \A p \in 1..Len(q) : Cardinality({m \in S : m <= q[p]}) = p
         /\ Cardinality(S) = Len(q)
<1> DEFINE L == Len(q)
<1>1. /\ L \in Nat
      /\ \A k \in 1..L : q[k] \in S
      /\ \A m \in S : \E k \in 1..L : q[k] = m
      /\ \A j, k \in 1..L : j < k => q[j] < q[k]
  BY DEF IsOrdered
<1>2. \A m \in S : m \in Nat
  OBVIOUS
<1> HIDE DEF L
<1>3. \A j, k \in 1..L : j <= k <=> q[j] <= q[k]
  <2> SUFFICES ASSUME NEW j \in 1..L, NEW k \in 1..L PROVE j <= k <=> q[j] <= q[k]
    OBVIOUS
  <2>1. q[j] \in Nat /\ q[k] \in Nat /\ (j < k => q[j] < q[k]) /\ (k < j => q[k] < q[j])
    BY <1>1, <1>2
  <2>2. j < k \/ j = k \/ k < j
    BY <1>1
  <2>3. QED  BY <1>1, <2>1, <2>2
<1>4. \A j, k \in 1..L : q[j] = q[k] => j = k
  <2> SUFFICES ASSUME NEW j \in 1..L, NEW k \in 1..L, q[j] = q[k] PROVE j = k
    OBVIOUS
  <2>1. q[j] \in Nat
    BY <1>1, <1>2
  <2>2. j <= k /\ k <= j
    BY <1>3, <2>1
  <2>3. QED  BY <1>1, <2>2
<1>5. ASSUME NEW p \in 0..L, NEW T, T = {q[k] : k \in 1..p}
      PROVE  Cardinality(T) = p
  <2> DEFINE f == [k \in 1..p |-> q[k]]
  <2>1. \A k \in 1..p : k \in 1..L
    BY <1>1
  <2>2. f \in Bijection(1..p, T)
    BY <1>4, <1>5, <2>1 DEF Bijection, Injection, Surjection, IsInjective
  <2> HIDE DEF f
  <2>3. ExistsBijection(1..p, T)
    BY <2>2 DEF ExistsBijection
  <2>4. IsFiniteSet(1..p) /\ Cardinality(1..p) = p
    BY <1>1, FS_Interval
  <2>5. QED  BY <2>3, <2>4, FS_Bijection
<1>6. ASSUME NEW p \in 1..L
      PROVE  Cardinality({m \in S : m <= q[p]}) = p
  <2>1. {m \in S : m <= q[p]} = {q[k] : k \in 1..p}
    <3>1. ASSUME NEW m \in S, m <= q[p] PROVE \E k \in 1..p : m = q[k]
      <4>1. PICK k \in 1..L : q[k] = m
        BY <1>1
      <4>2. k <= p
        BY <1>3, <3>1, <4>1
      <4>3. k \in 1..p
        BY <1>1, <4>2
      <4>4. QED  BY <4>1, <4>3
    <3>2. ASSUME NEW k \in 1..p PROVE q[k] \in S /\ q[k] <= q[p]
      <4>1. k \in 1..L /\ k <= p
        BY <1>1
      <4>2. QED  BY <1>1, <1>3, <4>1
    <3>3. QED  BY <3>1, <3>2
  <2>2. p \in 0..L
    BY <1>1
  <2>3. QED  BY <1>5, <2>1, <2>2
<1>7. Cardinality(S) = L
  <2>1. S = {q[k] : k \in 1..L}
    BY <1>1
  <2>2. L \in 0..L
    BY <1>1
  <2>3. QED  BY <1>5, <2>1, <2>2
<1>8. QED  BY <1>6, <1>7 DEF L

(* There is one order. *)
LEMMA OrderedUnique ==
  ASSUME NEW rank \in Nat, NEW S, S \subseteq 1..rank, NEW q, IsOrdered(q, S), NEW r, IsOrdered(r, S)
  PROVE  q = r
<1>1. Len(q) = Len(r)
  BY OrderedRank
<1>2. q \in Seq(S) /\ r \in Seq(S) /\ Len(q) \in Nat
  BY DEF IsOrdered
<1>3. ASSUME NEW p \in 1..Len(q)
      PROVE  q[p] = r[p]
  <2>1. q[p] \in S
    BY <1>2
  <2>2. PICK k \in 1..Len(r) : r[k] = q[p]
    BY <2>1 DEF IsOrdered
  <2>3. Cardinality({m \in S : m <= q[p]}) = p /\ Cardinality({m \in S : m <= r[k]}) = k
    BY OrderedRank
  <2>4. QED  BY <2>2, <2>3
<1>4. QED  BY <1>1, <1>2, <1>3

(* What has all the numbers up to d begins with them. *)
LEMMA OrderedLow ==
  ASSUME NEW rank \in Nat, NEW S, S \subseteq 1..rank, NEW q, IsOrdered(q, S), NEW d \in Nat, 1..d \subseteq S
  PROVE  d <= Len(q) /\ \A p \in 1..d : q[p] = p
<1>1. Len(q) \in Nat
  BY DEF IsOrdered
<1>2. ASSUME NEW p \in 1..d
      PROVE  p \in 1..Len(q) /\ q[p] = p
  <2>1. PICK k \in 1..Len(q) : q[k] = p
    BY DEF IsOrdered
  <2>2. {m \in S : m <= p} = 1..p
    <3>1. \A m \in S : m \in Nat /\ 1 <= m
      OBVIOUS
    <3>2. \A m \in 1..p : m \in 1..d /\ m <= p
      OBVIOUS
    <3>3. \A m \in S : m <= p => m \in 1..p
      BY <3>1
    <3>4. QED  BY <3>2, <3>3
  <2>3. Cardinality(1..p) = p
    BY FS_Interval
  <2>4. Cardinality({m \in S : m <= q[k]}) = k
    BY OrderedRank
  <2>5. QED  BY <2>1, <2>2, <2>3, <2>4
<1>3. d <= Len(q)
  <2>1. CASE d = 0
    BY <1>1, <2>1
  <2>2. CASE d # 0
    BY <1>1, <1>2, <2>2
  <2>3. QED  BY <2>1, <2>2
<1>4. QED  BY <1>2, <1>3

(* The dimensions of the result of a reduction of D: all of them, or the others. *)
Kept(rank, D, keep) == IF keep THEN 1..rank ELSE (1..rank) \ D

(* Where those of the result of a reduction of d alone were. *)
KeptSize(L, keep) == IF keep THEN L ELSE L - 1

Skips(d, keep, L) == [p \in 1..KeptSize(L, keep) |-> IF keep \/ p < d THEN p ELSE p + 1]

AreSkips(s, n, d, keep, L) ==
  /\ n \in Nat
  /\ DOMAIN s = 1..n
  /\ Len(s) = n
  /\ \A p \in 1..n : s[p] \in Kept(L, {d}, keep) /\ s[p] \in 1..L
  /\ \A m \in 1..L : m # d => \E p \in 1..n : s[p] = m
  /\ IsOrdered(s, Kept(L, {d}, keep))

LEMMA SkipsFacts ==
  ASSUME NEW L \in Nat, NEW d \in 1..L, NEW keep
  PROVE  AreSkips(Skips(d, keep, L), KeptSize(L, keep), d, keep, L)
<1> DEFINE s == Skips(d, keep, L)
           n == KeptSize(L, keep)
           K == Kept(L, {d}, keep)
<1>1. n \in Nat /\ (keep => n = L) /\ (~keep => n = L - 1)
  BY DEF KeptSize
<1>2. \A p \in 1..n : s[p] = IF keep \/ p < d THEN p ELSE p + 1
  BY DEF Skips
<1>3. s = [p \in 1..n |-> s[p]]
  BY DEF Skips
<1>4. (keep => K = 1..L) /\ (~keep => K = (1..L) \ {d})
  BY DEF Kept
<1> HIDE DEF s, n, K
<1>5. \A p \in 1..n : s[p] \in K /\ s[p] \in 1..L
  <2>1. CASE keep
    BY <1>1, <1>2, <1>4, <2>1
  <2>2. CASE ~keep
    <3> SUFFICES ASSUME NEW p \in 1..n PROVE s[p] \in 1..L /\ s[p] # d
      BY <1>4, <2>2
    <3>1. s[p] = IF p < d THEN p ELSE p + 1
      BY <1>2, <2>2
    <3>2. QED  BY <1>1, <2>2, <3>1
  <2>3. QED  BY <2>1, <2>2
<1>6. s \in Seq(K) /\ Len(s) = n /\ DOMAIN s = 1..n
  <2>1. s \in [1..n -> K]
    BY <1>3, <1>5
  <2>2. QED  BY <1>1, <2>1
<1>7. \A m \in K : \E p \in 1..n : s[p] = m
  <2>1. CASE keep
    BY <1>1, <1>2, <1>4, <2>1
  <2>2. CASE ~keep
    <3> SUFFICES ASSUME NEW m \in 1..L, m # d PROVE \E p \in 1..n : s[p] = m
      BY <1>4, <2>2
    <3>1. CASE m < d
      <4>1. m \in 1..n
        BY <1>1, <2>2, <3>1
      <4>2. QED  BY <1>2, <3>1, <4>1
    <3>2. CASE ~(m < d)
      <4>1. m - 1 \in 1..n /\ ~(m - 1 < d) /\ (m - 1) + 1 = m
        BY <1>1, <2>2, <3>2
      <4>2. s[m - 1] = m
        BY <1>2, <2>2, <4>1
      <4>3. QED  BY <4>1, <4>2
    <3>3. QED  BY <3>1, <3>2
  <2>3. QED  BY <2>1, <2>2
<1>8. \A j, k \in 1..n : j < k => s[j] < s[k]
  <2> SUFFICES ASSUME NEW j \in 1..n, NEW k \in 1..n, j < k PROVE s[j] < s[k]
    OBVIOUS
  <2>1. s[j] = (IF keep \/ j < d THEN j ELSE j + 1) /\ s[k] = (IF keep \/ k < d THEN k ELSE k + 1)
    BY <1>2
  <2>2. QED  BY <2>1
<1>9. IsOrdered(s, K)
  BY <1>6, <1>7, <1>8 DEF IsOrdered
<1>10. \A m \in 1..L : m # d => m \in K
  BY <1>4
<1>11. QED
  <2>1. \A m \in 1..L : m # d => \E p \in 1..n : s[p] = m
    BY <1>7, <1>10
  <2>2. AreSkips(s, n, d, keep, L)
    BY <1>1, <1>5, <1>6, <1>9, <2>1 DEF AreSkips, K
  <2>3. QED  BY <2>2 DEF s, n

(* Without d, the order of the others is as it was. *)
LEMMA OrderedWithout ==
  ASSUME NEW rank \in Nat, NEW D, NEW keep, NEW q, IsOrdered(q, Kept(rank, D, keep)),
         NEW d \in 1..Len(q), q[d] = d
  PROVE  IsOrdered([p \in 1..KeptSize(Len(q), keep) |-> q[Skips(d, keep, Len(q))[p]]],
                   Kept(rank, D \cup {d}, keep))
<1> DEFINE L == Len(q)
           s == Skips(d, keep, L)
           n == KeptSize(L, keep)
           t == [p \in 1..n |-> q[s[p]]]
           K == Kept(rank, D, keep)
           M == Kept(rank, D \cup {d}, keep)
<1>1. /\ L \in Nat
      /\ \A p \in 1..L : q[p] \in K
      /\ \A m \in K : \E p \in 1..L : q[p] = m
      /\ \A j, k \in 1..L : j < k => q[j] < q[k]
  BY DEF IsOrdered
<1>2. /\ n \in Nat
      /\ \A p \in 1..n : s[p] \in Kept(L, {d}, keep) /\ s[p] \in 1..L
      /\ \A m \in 1..L : m # d => \E p \in 1..n : s[p] = m
      /\ IsOrdered(s, Kept(L, {d}, keep)) /\ Len(s) = n
  <2>1. L \in Nat /\ d \in 1..L
    BY <1>1
  <2> HIDE DEF L, s, n, t
  <2>2. AreSkips(Skips(d, keep, L), KeptSize(L, keep), d, keep, L)
    BY <2>1, SkipsFacts
  <2>3. QED  BY <2>2 DEF s, n, AreSkips
<1>3. /\ keep => K = 1..rank /\ M = 1..rank /\ Kept(L, {d}, keep) = 1..L
      /\ ~keep => K = (1..rank) \ D /\ M = (1..rank) \ (D \cup {d}) /\ Kept(L, {d}, keep) = (1..L) \ {d}
  BY DEF Kept
<1>4. \A p \in 1..n : t[p] = q[s[p]]
  OBVIOUS
<1>5. t = [p \in 1..n |-> t[p]]
  OBVIOUS
<1>6. d \in 1..L /\ q[d] = d
  OBVIOUS
<1> HIDE DEF t, n, s, K, M, L
<1>7. \A j, k \in 1..L : q[j] = q[k] => j = k
  <2> SUFFICES ASSUME NEW j \in 1..L, NEW k \in 1..L, q[j] = q[k] PROVE j = k
    OBVIOUS
  <2>1. q[j] \in Int
    BY <1>1, <1>3
  <2>2. ~(q[j] < q[k]) /\ ~(q[k] < q[j])
    BY <2>1
  <2>3. ~(j < k) /\ ~(k < j)
    BY <1>1, <2>2
  <2>4. QED  BY <1>1, <2>3
<1>8. \A p \in 1..n : t[p] \in M
  <2> SUFFICES ASSUME NEW p \in 1..n PROVE q[s[p]] \in M
    BY <1>4
  <2>1. s[p] \in 1..L /\ q[s[p]] \in K
    BY <1>1, <1>2
  <2>2. CASE keep
    BY <1>3, <2>1, <2>2
  <2>3. CASE ~keep
    <3>1. s[p] # d
      BY <1>2, <1>3, <2>3
    <3>2. q[s[p]] # d
      BY <1>6, <1>7, <2>1, <3>1
    <3>3. QED  BY <1>3, <2>1, <2>3, <3>2
  <2>4. QED  BY <2>2, <2>3
<1>9. t \in Seq(M) /\ Len(t) = n
  <2>1. t \in [1..n -> M]
    BY <1>5, <1>8
  <2>2. QED  BY <1>2, <2>1
<1>10. \A m \in M : \E p \in 1..n : t[p] = m
  <2> SUFFICES ASSUME NEW m \in M PROVE \E p \in 1..n : q[s[p]] = m
    BY <1>4
  <2>1. m \in K
    BY <1>3
  <2>2. PICK k \in 1..L : q[k] = m
    BY <1>1, <2>1
  <2>3. k \in Kept(L, {d}, keep)
    <3>1. CASE keep
      BY <1>3, <3>1
    <3>2. CASE ~keep
      <4>1. m # d
        BY <1>3, <3>2
      <4>2. QED  BY <1>3, <1>6, <2>2, <3>2, <4>1
    <3>3. QED  BY <3>1, <3>2
  <2>4. PICK p \in 1..n : s[p] = k
    BY <1>2, <2>3 DEF IsOrdered
  <2>5. QED  BY <2>2, <2>4
<1>11. \A j, k \in 1..n : j < k => t[j] < t[k]
  <2> SUFFICES ASSUME NEW j \in 1..n, NEW k \in 1..n, j < k PROVE q[s[j]] < q[s[k]]
    BY <1>4
  <2>1. s[j] < s[k]
    BY <1>2 DEF IsOrdered
  <2>2. QED  BY <1>1, <1>2, <2>1
<1>12. IsOrdered(t, M)
  BY <1>9, <1>10, <1>11 DEF IsOrdered
<1>13. QED  BY <1>12 DEF t, n, s, M, L

(* r is a view for what is left of v when D is reduced; dimension k of it was    *)
(* dimension q[k].                                                              *)
IsReduction(v, D, keep, q, r) ==
  /\ IsOrdered(q, Kept(Rank(v), D, keep))
  /\ Rank(r) = Len(q)
  /\ \A k \in 1..Len(q) : /\ q[k] \in 1..Rank(v)
                          /\ r.shape[k] = IF q[k] \in D THEN 1 ELSE v.shape[q[k]]
                          /\ r.strides[k] # 0 <=> q[k] \notin D /\ v.strides[q[k]] # 0

LEMMA ViewReduceIs ==
  ASSUME NEW v, IsView(v), NEW axes, NEW keep, NEW D, D = Reduced(v, axes)
  PROVE  /\ IsReduction(v, D, keep, Ordered(Kept(Rank(v), D, keep), Rank(v)), ViewReduce(v, axes, keep))
         /\ IsView(ViewReduce(v, axes, keep))
         /\ IsDense(ViewReduce(v, axes, keep))
<1> DEFINE K == Kept(Rank(v), D, keep)
           kept == Ordered(K, Rank(v))
           stored == StoredIn(v) \ D
           r == ViewReduce(v, axes, keep)
<1>1. /\ Rank(v) \in Nat
      /\ DOMAIN v.shape = 1..Rank(v)
      /\ \A n \in 1..Rank(v) : v.shape[n] \in Nat \ {0}
      /\ IsFiniteSet(1..Rank(v))
  BY DimensionFacts
<1>2. K \subseteq 1..Rank(v) /\ stored \subseteq 1..Rank(v)
  BY <1>1 DEF Kept, StoredIn
<1>3. K = IF keep THEN 1..Rank(v) ELSE (1..Rank(v)) \ Reduced(v, axes)
  BY DEF Kept
<1> HIDE DEF K
<1>4. IsOrdered(kept, K)
  BY <1>1, <1>2, OrderedFacts
<1> HIDE DEF kept
<1>5. /\ Len(kept) \in Nat
      /\ DOMAIN kept = 1..Len(kept)
      /\ \A k \in 1..Len(kept) : kept[k] \in 1..Rank(v)
  <2>1. /\ kept \in Seq(K)
    BY <1>4 DEF IsOrdered
  <2>2. /\ Len(kept) \in Nat
        /\ DOMAIN kept = 1..Len(kept)
        /\ \A k \in 1..Len(kept) : kept[k] \in K
    BY <2>1
  <2>3. QED  BY <1>2, <2>2
<1>6. /\ r.shape = [k \in DOMAIN kept |-> IF kept[k] \in Reduced(v, axes) THEN 1 ELSE v.shape[kept[k]]]
      /\ r.strides = [k \in DOMAIN kept |-> ReducedStride(v, axes, kept[k])]
  BY <1>3 DEF ViewReduce, View, kept
<1>7. IsView(r) /\ IsDense(r)
  BY ReduceDense
<1> HIDE DEF r
<1>8. Rank(r) = Len(kept)
  <2>1. DOMAIN r.shape = 1..Rank(r) /\ Rank(r) \in Nat
    BY <1>7, DimensionFacts
  <2>2. DOMAIN r.shape = 1..Len(kept)
    BY <1>5, <1>6
  <2>3. \A m, n \in Nat : 1..m = 1..n => m = n
    <3> SUFFICES ASSUME NEW m \in Nat, NEW n \in Nat, 1..m = 1..n PROVE m = n
      OBVIOUS
    <3>1. Cardinality(1..m) = m /\ Cardinality(1..n) = n
      BY FS_Interval
    <3>2. QED  BY <3>1
  <2>4. QED  BY <1>5, <2>1, <2>2, <2>3
<1>9. \A n \in 1..Rank(v) :
        ReducedStride(v, axes, n) = IF n \in stored THEN ProductOf(v.shape, After(stored, n)) ELSE 0
  BY DEF ReducedStride, StoredIn, After
<1>10. \A n \in 1..Rank(v) : n \in stored <=> n \notin D /\ v.strides[n] # 0
  BY <1>1 DEF StoredIn
<1> HIDE DEF stored
<1>11. \A n \in 1..Rank(v) : ProductOf(v.shape, After(stored, n)) # 0
  <2> SUFFICES ASSUME NEW n \in 1..Rank(v) PROVE ProductOf(v.shape, After(stored, n)) # 0
    OBVIOUS
  <2>1. After(stored, n) \subseteq 1..Rank(v)
    BY <1>2 DEF After
  <2>2. IsFiniteSet(After(stored, n)) /\ \A m \in After(stored, n) : v.shape[m] \in Nat \ {0}
    BY <1>1, <2>1, FS_Subset
  <2>3. QED  BY <2>2, ProductPositive
<1>12. \A k \in 1..Len(kept) : /\ r.shape[k] = IF kept[k] \in D THEN 1 ELSE v.shape[kept[k]]
                               /\ r.strides[k] # 0 <=> kept[k] \notin D /\ v.strides[kept[k]] # 0
  BY <1>5, <1>6, <1>9, <1>10, <1>11
<1>13. IsReduction(v, D, keep, kept, r)
  BY <1>4, <1>5, <1>8, <1>12 DEF IsReduction, K
<1>14. QED  BY <1>7, <1>13 DEF kept, K, r

-----------------------------------------------------------------------------
(* Elements with one place *)

(* Products of the same factors are equal. *)
LEMMA ProductEqual ==
  ASSUME NEW f, NEW g, NEW S, IsFiniteSet(S),
         \A x \in S : f[x] \in Int /\ g[x] = f[x]
  PROVE  ProductOf(f, S) = ProductOf(g, S)
<1> DEFINE Good == {s \in SUBSET S : ProductOf(f, s) = ProductOf(g, s)}
<1>1. ASSUME NEW s \in SUBSET S, \A x \in s : s \ {x} \in Good
      PROVE  s \in Good
  <2>1. IsFiniteSet(s) /\ \A x \in s : f[x] \in Int /\ g[x] \in Int
    BY FS_Subset
  <2>2. CASE s = {}
    BY <2>2, ProductEmpty
  <2>3. CASE s # {}
    <3>1. PICK x \in s : TRUE
      BY <2>3
    <3>2. /\ ProductOf(f, s) = f[x] * ProductOf(f, s \ {x})
          /\ ProductOf(g, s) = g[x] * ProductOf(g, s \ {x})
      BY <2>1, ProductRemove
    <3>3. QED  BY <1>1, <3>2
  <2>4. QED  BY <2>2, <2>3
<1> HIDE DEF Good
<1>2. Progresses(Good, S)
  BY <1>1 DEF Progresses
<1>3. S \in Good
  BY <1>2, SetInduction
<1>4. QED  BY <1>3 DEF Good

AgreeOn(S, i, j) == \A n \in S : i[n] = j[n]

(* Along a dimension of stride 0 the elements have one place. *)
LEMMA SameAddress ==
  ASSUME NEW v, IsView(v), NEW i \in AllIndices(v.shape), NEW j \in AllIndices(v.shape),
         AgreeOn(StoredIn(v), i, j)
  PROVE  Address(v, i) = Address(v, j)
<1> DEFINE N == 1..Rank(v)
<1>1. /\ Address(v, i) = v.offset + SumFunctionOnSet(Moves(v, i), N)
      /\ Address(v, j) = v.offset + SumFunctionOnSet(Moves(v, j), N)
      /\ \A n \in N : i[n] \in Nat /\ j[n] \in Nat /\ Moves(v, i)[n] \in Nat
  BY MovesFacts
<1>2. \A n \in N : Moves(v, i)[n] = Moves(v, j)[n]
  <2> SUFFICES ASSUME NEW n \in N PROVE i[n] * v.strides[n] = j[n] * v.strides[n]
    BY DEF Moves
  <2>1. CASE v.strides[n] = 0
    BY <1>1, <2>1
  <2>2. CASE v.strides[n] # 0
    <3>1. n \in StoredIn(v)
      BY <2>2, DimensionFacts DEF StoredIn
    <3>2. QED  BY <3>1 DEF AgreeOn
  <2>3. QED  BY <2>1, <2>2
<1>3. IsFiniteSet(N)
  BY DimensionFacts
<1> HIDE DEF N
<1>4. SumFunctionOnSet(Moves(v, i), N) = SumFunctionOnSet(Moves(v, j), N)
  BY <1>1, <1>2, <1>3, SumEqual
<1>5. QED  BY <1>1, <1>4

(* In a dense view only those. *)
LEMMA DenseAddress ==
  ASSUME NEW v, IsView(v), IsDense(v), NEW i \in AllIndices(v.shape), NEW j \in AllIndices(v.shape)
  PROVE  Address(v, i) = Address(v, j) <=> AgreeOn(StoredIn(v), i, j)
<1> DEFINE L == Rank(v)
           S == StoredIn(v)
           r == [n \in 1..L |-> IF n \in S THEN v.shape[n] ELSE 1]
           At(k) == [n \in 1..L |-> IF n \in S THEN k[n] ELSE 0]
<1>1. /\ L \in Nat
      /\ DOMAIN v.shape = 1..L
      /\ \A n \in 1..L : v.shape[n] \in Nat \ {0}
      /\ S \subseteq 1..L
      /\ \A n \in S : v.strides[n] = ProductOf(v.shape, After(S, n))
      /\ \A n \in 1..L : n \notin S => v.strides[n] = 0
      /\ v.offset = 0
      /\ L = Len(v.shape)
  BY DimensionFacts DEF StoredIn, IsDense, Rank
<1> HIDE DEF L, S
<1>2. \A n \in 1..L : r[n] \in Nat \ {0} /\ (n \in S => r[n] = v.shape[n]) /\ (n \notin S => r[n] = 1)
  BY <1>1
<1> HIDE DEF r
<1>3. Radices(r, L)
  BY <1>2 DEF Radices
<1>4. \A n \in S : v.strides[n] = Weight(r, L, n)
  <2> SUFFICES ASSUME NEW n \in S PROVE ProductOf(v.shape, After(S, n)) = Weight(r, L, n)
    BY <1>1
  <2> DEFINE T == (n + 1)..L
             A == After(S, n)
  <2>1. IsFiniteSet(T) /\ A \in SUBSET T /\ IsFiniteSet(A)
    <3>1. n \in 1..L
      BY <1>1
    <3>2. IsFiniteSet(T)
      BY <1>1, <3>1, FS_Interval
    <3>3. \A m \in S : m > n => m \in T
      BY <1>1
    <3>4. A \in SUBSET T
      BY <3>3 DEF After
    <3>5. QED  BY <3>2, <3>4, FS_Subset
  <2>2. \A m \in T : m \in 1..L
    BY <1>1
  <2>3. \A m \in T : r[m] \in Int /\ (m \notin A => r[m] = 1)
    <3>1. \A m \in T : m > n
      BY <1>1
    <3>2. \A m \in T : m \notin A => m \notin S
      BY <3>1 DEF After
    <3>3. QED  BY <1>2, <2>2, <3>2
  <2>4. \A m \in A : v.shape[m] \in Int /\ v.shape[m] = r[m]
    BY <1>1, <1>2 DEF After
  <2> HIDE DEF T, A
  <2>5. ProductOf(r, T) = ProductOf(r, A)
    BY <2>1, <2>3, ProductSkip
  <2>6. ProductOf(v.shape, A) = ProductOf(r, A)
    BY <2>1, <2>4, ProductEqual
  <2>7. QED  BY <2>5, <2>6 DEF T, A, Weight
<1>5. ASSUME NEW k \in AllIndices(v.shape)
      PROVE  IsIndex(At(k), r, L) /\ Address(v, k) = Position(r, L, At(k))
  <2>1. \A n \in 1..L : k[n] \in Nat /\ k[n] < v.shape[n]
    BY <1>1 DEF AllIndices
  <2>2. IsIndex(At(k), r, L)
    <3> SUFFICES ASSUME NEW n \in 1..L PROVE At(k)[n] \in 0..(r[n] - 1)
      BY DEF IsIndex
    <3>1. k[n] \in Nat /\ k[n] < v.shape[n] /\ v.shape[n] \in Nat
      BY <1>1, <2>1
    <3>2. CASE n \in S
      BY <1>2, <3>1, <3>2
    <3>3. CASE n \notin S
      BY <1>2, <3>3
    <3>4. QED  BY <3>2, <3>3
  <2>3. /\ Address(v, k) = v.offset + SumFunctionOnSet(Moves(v, k), 1..L)
        /\ \A n \in 1..L : Moves(v, k)[n] \in Nat
        /\ SumFunctionOnSet(Moves(v, k), 1..L) \in Nat
    BY MovesFacts DEF L
  <2>4. \A n \in 1..L : Digits(r, L, At(k))[n] = Moves(v, k)[n]
    <3> SUFFICES ASSUME NEW n \in 1..L PROVE At(k)[n] * Weight(r, L, n) = k[n] * v.strides[n]
      BY DEF Digits, Moves, L
    <3>1. CASE n \in S
      BY <1>4, <3>1
    <3>2. CASE n \notin S
      <4>1. At(k)[n] = 0 /\ v.strides[n] = 0
        BY <1>1, <3>2
      <4>2. Weight(r, L, n) \in Nat /\ k[n] \in Nat
        BY <1>1, <1>3, <2>1, WeightFacts
      <4> HIDE DEF At
      <4>3. QED  BY <4>1, <4>2
    <3>3. QED  BY <3>1, <3>2
  <2>5. IsFiniteSet(1..L)
    BY <1>1, FS_Interval
  <2> HIDE DEF At
  <2>6. SumFunctionOnSet(Moves(v, k), 1..L) = SumFunctionOnSet(Digits(r, L, At(k)), 1..L)
    <3> DEFINE f == Moves(v, k)
               g == Digits(r, L, At(k))
    <3>1. \A n \in 1..L : f[n] \in Int /\ g[n] = f[n]
      BY <2>3, <2>4
    <3> HIDE DEF f, g
    <3>2. SumFunctionOnSet(f, 1..L) = SumFunctionOnSet(g, 1..L)
      BY <2>5, <3>1, SumEqual
    <3>3. QED  BY <3>2 DEF f, g
  <2>7. QED  BY <1>1, <2>2, <2>3, <2>6 DEF Position
<1>6. ASSUME Address(v, i) = Address(v, j) PROVE AgreeOn(S, i, j)
  <2>1. IsIndex(At(i), r, L) /\ IsIndex(At(j), r, L) /\ Position(r, L, At(i)) = Position(r, L, At(j))
    BY <1>5, <1>6
  <2>2. \A n \in S : At(i)[n] = i[n] /\ At(j)[n] = j[n] /\ n \in 1..L
    BY <1>1
  <2> HIDE DEF At
  <2>3. \A n \in 1..L : At(i)[n] = At(j)[n]
    BY <1>1, <1>3, <2>1, PositionTells
  <2>4. QED  BY <2>2, <2>3 DEF AgreeOn
<1>7. QED  BY <1>6, SameAddress DEF S

-----------------------------------------------------------------------------
(* Buffers and storages *)

(* Numbers are not reused, and every storage has both its fields. *)
Numbered ==
  /\ made \in Nat
  /\ DOMAIN buffers \subseteq 1..made
  /\ DOMAIN storages \subseteq 1..made
  /\ \A s \in DOMAIN storages : {"reference_count", "data"} \subseteq DOMAIN storages[s]

CountsInv == Numbered /\ CountsMatch

(* The numbers of the buffers that were created are finitely many. *)
LEMMA HoldersFinite ==
  ASSUME Numbered, NEW s
  PROVE  IsFiniteSet(Holders(s)) /\ Cardinality(Holders(s)) \in Nat
<1>1. IsFiniteSet(1..made)
  BY FS_Interval DEF Numbered
<1>2. IsFiniteSet(Holders(s))
  BY <1>1, FS_Subset DEF Holders, Numbered
<1>3. QED  BY <1>2, FS_CardinalityType

LEMMA NewIsNew ==
  ASSUME Numbered
  PROVE  /\ New \in Nat
         /\ 1..New = 1..made \cup {New}
         /\ New \notin DOMAIN buffers
         /\ New \notin DOMAIN storages
BY DEF Numbered, New

(* What a new buffer changes. *)
LEMMA AttachFacts ==
  ASSUME Numbered, NEW view, NEW s, Attach(view, s)
  PROVE  /\ made' = New
         /\ DOMAIN buffers' = DOMAIN buffers \cup {New}
         /\ buffers'[New].storage = s
         /\ \A b \in DOMAIN buffers : buffers'[b] = buffers[b]
         /\ Holders(s)' = Holders(s) \cup {New}
         /\ \A other : other # s => Holders(other)' = Holders(other)
<1>1. New \notin DOMAIN buffers
  BY NewIsNew
<1>2. buffers' = [b \in DOMAIN buffers \cup {New} |->
                    IF b = New THEN [view |-> view, storage |-> s] ELSE buffers[b]]
  BY DEF Attach, AddNew
<1>3. /\ DOMAIN buffers' = DOMAIN buffers \cup {New}
      /\ buffers'[New].storage = s
      /\ \A b \in DOMAIN buffers : buffers'[b] = buffers[b]
  BY <1>1, <1>2
<1>4. \A other : Holders(other)' = IF other = s THEN Holders(other) \cup {New} ELSE Holders(other)
  BY <1>1, <1>3 DEF Holders, StorageOf
<1>5. QED  BY <1>3, <1>4 DEF Attach

-----------------------------------------------------------------------------
(* The steps *)

LEMMA InitCounts == Init => CountsInv
BY DEF Init, CountsInv, Numbered, CountsMatch

LEMMA ShareCounts ==
  ASSUME CountsInv, NEW x, NEW view, Share(x, view)
  PROVE  CountsInv'
<1>0. PICK s : s = StorageOf(x)
  OBVIOUS
<1>1. x \in DOMAIN buffers /\ Attach(view, s)
  BY <1>0 DEF Share
<1>2. s \in DOMAIN storages
  BY <1>0, <1>1 DEF CountsInv, CountsMatch
<1>3. storages' = [storages EXCEPT ![s].reference_count = @ + 1]
  BY <1>0 DEF Share
<1>4. /\ DOMAIN storages' = DOMAIN storages
      /\ storages'[s].reference_count = storages[s].reference_count + 1
      /\ \A t \in DOMAIN storages : t # s => storages'[t] = storages[t]
      /\ \A t \in DOMAIN storages : {"reference_count", "data"} \subseteq DOMAIN storages'[t]
  BY <1>2, <1>3 DEF CountsInv, Numbered
<1>5. Numbered'
  BY <1>1, <1>4, AttachFacts, NewIsNew DEF CountsInv, Numbered
<1>6. Cardinality(Holders(s)') = Cardinality(Holders(s)) + 1
  <2>1. New \notin Holders(s)
    BY NewIsNew DEF Holders, CountsInv
  <2>2. Holders(s)' = Holders(s) \cup {New}
    BY <1>1, AttachFacts DEF CountsInv
  <2>3. QED  BY <2>1, <2>2, HoldersFinite, FS_AddElement DEF CountsInv
<1>7. CountsMatch'
  <2>1. \A b \in DOMAIN buffers' : StorageOf(b)' \in DOMAIN storages'
    BY <1>1, <1>2, <1>4, AttachFacts DEF CountsInv, CountsMatch, StorageOf
  <2>2. ASSUME NEW t \in DOMAIN storages'
        PROVE  /\ storages'[t].reference_count = Cardinality(Holders(t)')
               /\ storages'[t].reference_count > 0
    <3>1. CASE t = s
      BY <1>2, <1>4, <1>6, <3>1, HoldersFinite DEF CountsInv, CountsMatch
    <3>2. CASE t # s
      BY <1>1, <1>4, <2>2, <3>2, AttachFacts DEF CountsInv, CountsMatch
    <3>3. QED  BY <3>1, <3>2
  <2>3. QED  BY <2>1, <2>2 DEF CountsMatch
<1>8. QED  BY <1>5, <1>7 DEF CountsInv

LEMMA AllocateCounts ==
  ASSUME CountsInv, NEW view, NEW data, Allocate(view, data)
  PROVE  CountsInv'
<1>0. PICK n : n = New
  OBVIOUS
<1>1. Attach(view, n)
  BY <1>0 DEF Allocate
<1>2. n \notin DOMAIN storages
  BY <1>0, NewIsNew DEF CountsInv
<1>3. storages' = [s \in DOMAIN storages \cup {n} |->
                     IF s = n THEN [reference_count |-> 1, data |-> data] ELSE storages[s]]
  BY <1>0 DEF Allocate, AddNew
<1>4. /\ DOMAIN storages' = DOMAIN storages \cup {n}
      /\ storages'[n] = [reference_count |-> 1, data |-> data]
      /\ \A t \in DOMAIN storages : storages'[t] = storages[t]
  BY <1>2, <1>3
<1>5. Numbered'
  BY <1>0, <1>1, <1>4, AttachFacts, NewIsNew DEF CountsInv, Numbered
<1>6. Holders(n) = {}
  BY <1>2 DEF CountsInv, CountsMatch, Holders
<1>7. Holders(n)' = {n}
  BY <1>0, <1>1, <1>6, AttachFacts DEF CountsInv
<1>8. CountsMatch'
  <2>1. \A b \in DOMAIN buffers' : StorageOf(b)' \in DOMAIN storages'
    BY <1>0, <1>1, <1>4, AttachFacts DEF CountsInv, CountsMatch, StorageOf
  <2>2. ASSUME NEW t \in DOMAIN storages'
        PROVE  /\ storages'[t].reference_count = Cardinality(Holders(t)')
               /\ storages'[t].reference_count > 0
    <3>1. CASE t = n
      <4>1. Cardinality(Holders(t)') = 1
        BY <1>7, <3>1, FS_Singleton
      <4>2. storages'[t].reference_count = 1
        BY <1>4, <3>1
      <4>3. QED  BY <4>1, <4>2
    <3>2. CASE t # n
      BY <1>1, <1>4, <2>2, <3>2, AttachFacts DEF CountsInv, CountsMatch
    <3>3. QED  BY <3>1, <3>2
  <2>3. QED  BY <2>1, <2>2 DEF CountsMatch
<1>9. QED  BY <1>5, <1>8 DEF CountsInv

LEMMA DestroyCounts ==
  ASSUME CountsInv, NEW x, Destroy(x)
  PROVE  CountsInv'
<1>0. PICK s : s = StorageOf(x)
  OBVIOUS
<1>1. /\ x \in DOMAIN buffers
      /\ made' = made
      /\ buffers' = [b \in DOMAIN buffers \ {x} |-> buffers[b]]
  BY DEF Destroy, Restrict
<1>2. storages' = IF LastReference(s)
                  THEN [t \in DOMAIN storages \ {s} |-> storages[t]]
                  ELSE [storages EXCEPT ![s].reference_count = @ - 1]
  BY <1>0 DEF Destroy, Restrict
<1>3. s \in DOMAIN storages /\ x \in Holders(s)
  BY <1>0, <1>1 DEF CountsInv, CountsMatch, Holders
<1>4. \A t : Holders(t)' = IF t = s THEN Holders(s) \ {x} ELSE Holders(t)
  BY <1>0, <1>1 DEF Holders, StorageOf
<1>5. /\ Cardinality(Holders(s)') = Cardinality(Holders(s)) - 1
      /\ Cardinality(Holders(s)) \in Nat
      /\ IsFiniteSet(Holders(s)')
  BY <1>3, <1>4, HoldersFinite, FS_RemoveElement DEF CountsInv
<1>6. storages[s].reference_count = Cardinality(Holders(s)) /\ storages[s].reference_count > 0
  BY <1>3 DEF CountsInv, CountsMatch
<1>7. DOMAIN buffers' = DOMAIN buffers \ {x} /\ \A b \in DOMAIN buffers' : StorageOf(b)' = StorageOf(b)
  BY <1>1 DEF StorageOf
<1>8. CASE LastReference(s)
  <2>1. DOMAIN storages' = DOMAIN storages \ {s} /\ \A t \in DOMAIN storages' : storages'[t] = storages[t]
    BY <1>2, <1>8
  <2>2. Holders(s)' = {}
    BY <1>5, <1>6, <1>8, FS_EmptySet DEF LastReference
  <2>3. \A b \in DOMAIN buffers' : StorageOf(b)' # s
    BY <2>2 DEF Holders
  <2>4. Numbered'
    BY <1>1, <1>7, <2>1 DEF CountsInv, Numbered
  <2>5. CountsMatch'
    BY <1>4, <1>7, <2>1, <2>3 DEF CountsInv, CountsMatch
  <2>6. QED  BY <2>4, <2>5 DEF CountsInv
<1>9. CASE ~LastReference(s)
  <2>1. /\ DOMAIN storages' = DOMAIN storages
        /\ storages'[s].reference_count = storages[s].reference_count - 1
        /\ \A t \in DOMAIN storages : t # s => storages'[t] = storages[t]
        /\ \A t \in DOMAIN storages : {"reference_count", "data"} \subseteq DOMAIN storages'[t]
    BY <1>2, <1>3, <1>9 DEF CountsInv, Numbered
  <2>2. Numbered'
    BY <1>1, <1>7, <2>1 DEF CountsInv, Numbered
  <2>3. /\ storages'[s].reference_count = Cardinality(Holders(s)')
        /\ storages'[s].reference_count > 0
    BY <1>5, <1>6, <1>9, <2>1 DEF LastReference
  <2>4. CountsMatch'
    BY <1>4, <1>7, <2>1, <2>3 DEF CountsInv, CountsMatch
  <2>5. QED  BY <2>2, <2>4 DEF CountsInv
<1>10. QED  BY <1>8, <1>9

(* Writing to a storage leaves its count alone. *)
LEMMA AddToCounts ==
  ASSUME CountsInv, NEW z \in DOMAIN buffers, NEW y, AddTo(z, y)
  PROVE  CountsInv'
<1>1. /\ UNCHANGED <<buffers, made>>
      /\ \E data : storages' = [storages EXCEPT ![StorageOf(z)].data = data]
  BY DEF AddTo
<1>2. PICK data : storages' = [storages EXCEPT ![StorageOf(z)].data = data]
  BY <1>1
<1>3. /\ DOMAIN storages' = DOMAIN storages
      /\ \A t \in DOMAIN storages : /\ DOMAIN storages'[t] = DOMAIN storages[t]
                                    /\ storages'[t].reference_count = storages[t].reference_count
  BY <1>2 DEF CountsInv, Numbered
<1>4. \A t : Holders(t)' = Holders(t)
  BY <1>1 DEF Holders, StorageOf
<1>5. QED  BY <1>1, <1>3, <1>4 DEF CountsInv, Numbered, CountsMatch, StorageOf

LEMMA UnchangedCounts ==
  ASSUME CountsInv, UNCHANGED <<buffers, storages, made>>
  PROVE  CountsInv'
BY DEF CountsInv, Numbered, CountsMatch, Holders, StorageOf

(* An operation on one buffer shares its storage, or fills a new one. *)
LEMMA UnaryCounts ==
  ASSUME CountsInv, NEW x \in DOMAIN buffers,
         \/ As(x) \/ Contiguous(x) \/ Negation(x)
         \/ \E shape : Expand(x, shape) \/ Reshape(x, shape)
         \/ \E arguments : Slice(x, arguments) \/ Padding(x, arguments)
         \/ \E axes : Permute(x, axes) \/ \E keep : Summation(x, axes, keep)
  PROVE  CountsInv'
<1>1. (\E view : Share(x, view)) \/ (\E view, data : Allocate(view, data))
  BY DEF As, Contiguous, Negation, Expand, Reshape, Slice, Padding, Permute, Summation
<1>2. QED  BY <1>1, ShareCounts, AllocateCounts

(* An operation on several buffers fills a new storage. *)
LEMMA BinaryCounts ==
  ASSUME CountsInv, NEW w, NEW x, NEW y,
         Addition(x, y) \/ MatrixMultiplication(x, y) \/ Where(w, x, y)
  PROVE  CountsInv'
<1>1. \E view, data : Allocate(view, data)
  BY DEF Addition, MatrixMultiplication, Where
<1>2. QED  BY <1>1, AllocateCounts

LEMMA NextCounts == CountsInv /\ [Next]_vars => CountsInv'
<1> SUFFICES ASSUME CountsInv, [Next]_vars
             PROVE  CountsInv'
  OBVIOUS
<1>1. CASE Load
  BY <1>1, AllocateCounts DEF Load
<1>2. ASSUME NEW shape \in NewShapes, Create(shape)
      PROVE  CountsInv'
  BY <1>2, AllocateCounts DEF Create
<1>3. ASSUME NEW x \in DOMAIN buffers, Destroy(x)
      PROVE  CountsInv'
  BY <1>3, DestroyCounts
<1>4. ASSUME NEW x \in DOMAIN buffers, Save(x)
      PROVE  CountsInv'
  BY <1>4, UnchangedCounts DEF Save
<1>5. ASSUME NEW x \in DOMAIN buffers,
             \/ As(x) \/ Contiguous(x) \/ Negation(x)
             \/ \E shape \in Targets : Expand(x, shape) \/ Reshape(x, shape)
             \/ \E arguments \in SliceArguments(ShapeOf(x)) : Slice(x, arguments)
             \/ \E arguments \in PaddingArguments(Rank(ViewOf(x))) : Padding(x, arguments)
             \/ \E axes \in AxesOf[Rank(ViewOf(x))] :
                   Permute(x, axes) \/ \E keep \in BOOLEAN : Summation(x, axes, keep)
      PROVE  CountsInv'
  BY <1>5, UnaryCounts
<1>6. ASSUME NEW x \in DOMAIN buffers, NEW y \in DOMAIN buffers, AddTo(x, y)
      PROVE  CountsInv'
  BY <1>6, AddToCounts
<1>7. ASSUME NEW x \in DOMAIN buffers, NEW y \in DOMAIN buffers,
             \/ Addition(x, y) \/ MatrixMultiplication(x, y)
             \/ \E w \in DOMAIN buffers : Where(w, x, y)
      PROVE  CountsInv'
  BY <1>7, BinaryCounts
<1>8. CASE UNCHANGED vars
  BY <1>8, UnchangedCounts DEF vars
<1>9. QED  BY <1>1, <1>2, <1>3, <1>4, <1>5, <1>6, <1>7, <1>8 DEF Next

(* Whatever a program does with its tensors, a storage lives exactly as long *)
(* as some buffer is a view of it.  (storage_destroy, buffer_create,          *)
(* storage_load)                                                              *)
THEOREM StoragesCounted == Spec => []CountsMatch
<1>1. CountsInv => CountsMatch
  BY DEF CountsInv
<1>2. QED  BY <1>1, InitCounts, NextCounts, PTL DEF Spec

-----------------------------------------------------------------------------
(* What the loops write leaves the places of a storage as they are *)

(* Places numbered from 0 on. *)
IsMemory(data) ==
  /\ \E size \in Nat : DOMAIN data = 0..(size - 1)
  /\ data = [address \in DOMAIN data |-> data[address]]

(* The same places. *)
SamePlaces(other, data) ==
  /\ DOMAIN other = DOMAIN data
  /\ other = [address \in DOMAIN other |-> other[address]]

(* The data after each turn of the loops. *)
IsKernel(stored, data, view, value) ==
  /\ stored[0] = data
  /\ \A p \in 1..Len(LoopOrder(view.shape)) :
       stored[p] = [stored[p - 1] EXCEPT ![Address(view, LoopOrder(view.shape)[p])]
                                           = value[LoopOrder(view.shape)[p]]]
  /\ Kernel(data, view, value) = stored[Len(LoopOrder(view.shape))]

LEMMA KernelLoop ==
  ASSUME NEW data, IsMemory(data), NEW view, IsShape(view.shape), NEW value
  PROVE  /\ Len(LoopOrder(view.shape)) \in Nat
         /\ \E stored : IsKernel(stored, data, view, value)
<1> DEFINE order == LoopOrder(view.shape)
           N == Len(order)
           D == DOMAIN data
           V == [D -> {data[address] : address \in D} \cup {value[order[p]] : p \in 1..N}]
           op == [pv \in (1..N) \X V |->
                    [pv[2] EXCEPT ![Address(view, order[pv[1]])] = value[order[pv[1]]]]]
           IsIt(g) == g = [p \in 0..N |->
                             IF p = 0 THEN data
                             ELSE [g[p - 1] EXCEPT ![Address(view, order[p])] = value[order[p]]]]
           stored == CHOOSE g : IsIt(g)
<1>0. N \in Nat
  <2>1. ArrayProduct(view.shape) \in Nat
    BY ContiguousSize
  <2>2. order = [p \in 1..ArrayProduct(view.shape) |-> LoopIndex(view.shape, p - 1)]
    BY DEF LoopOrder
  <2>3. QED  BY <2>1, <2>2
<1> HIDE DEF N, order, IsIt, op, V
<1>1. Kernel(data, view, value) = stored[N]
  BY DEF Kernel, IsIt, N, order
<1>2. \E g : IsIt(g)
  <2>1. data \in V
    BY DEF V, IsMemory
  <2>2. \A p \in 1..N, w \in V :
          /\ op[<<p, w>>] = [w EXCEPT ![Address(view, order[p])] = value[order[p]]]
          /\ op[<<p, w>>] \in V
    BY DEF op, V
  <2>3. Adds(op, 1..N, V)
    BY <2>2 DEF Adds
  <2>4. PICK g \in [0..N -> V] : IsLoop(g, op, data, N)
    BY <1>0, <2>1, <2>3, LoopExists
  <2>5. \A p \in 0..N : p # 0 => p \in 1..N /\ g[p - 1] \in V
    BY <1>0
  <2>6. \A p \in 0..N :
          p # 0 => op[<<p, g[p - 1]>>] = [g[p - 1] EXCEPT ![Address(view, order[p])] = value[order[p]]]
    BY <2>2, <2>5
  <2>7. \A p \in 0..N : g[p] = IF p = 0 THEN data ELSE op[<<p, g[p - 1]>>]
    BY <2>4 DEF IsLoop
  <2>8. g = [p \in 0..N |-> g[p]]
    BY <2>4
  <2>9. IsIt(g)
    BY <2>6, <2>7, <2>8 DEF IsIt
  <2>10. QED  BY <2>9
<1>3. /\ stored[0] = data
      /\ \A p \in 1..N :
           stored[p] = [stored[p - 1] EXCEPT ![Address(view, order[p])] = value[order[p]]]
  <2>1. IsIt(stored)
    BY <1>2
  <2> HIDE DEF stored
  <2>2. \A p \in 0..N :
          stored[p] = IF p = 0 THEN data
                      ELSE [stored[p - 1] EXCEPT ![Address(view, order[p])] = value[order[p]]]
    BY <2>1 DEF IsIt
  <2>3. \A p \in 1..N : p \in 0..N /\ p # 0
    BY <1>0
  <2>4. 0 \in 0..N
    BY <1>0
  <2>5. QED  BY <2>2, <2>3, <2>4
<1> HIDE DEF stored
<1>4. IsKernel(stored, data, view, value)
  BY <1>1, <1>3 DEF IsKernel, N, order
<1>5. QED  BY <1>0, <1>4 DEF N, order

LEMMA KernelPlaces ==
  ASSUME NEW data, IsMemory(data), NEW view, IsShape(view.shape), NEW value
  PROVE  SamePlaces(Kernel(data, view, value), data)
<1>1. PICK stored : IsKernel(stored, data, view, value)
  BY KernelLoop
<1> DEFINE order == LoopOrder(view.shape)
           N == Len(order)
           I == {p \in 0..N : SamePlaces(stored[p], data)}
<1>2. N \in Nat
  BY KernelLoop
<1>3. /\ stored[0] = data
      /\ \A p \in 1..N :
           stored[p] = [stored[p - 1] EXCEPT ![Address(view, order[p])] = value[order[p]]]
      /\ Kernel(data, view, value) = stored[N]
  BY <1>1 DEF IsKernel
<1> HIDE DEF I, N, order
<1>4. 0 \in I
  <2>1. SamePlaces(data, data)
    BY DEF IsMemory, SamePlaces
  <2>2. 0 \in 0..N
    BY <1>2
  <2>3. QED  BY <1>3, <2>1, <2>2 DEF I
<1>5. ASSUME NEW p \in 1..N, p - 1 \in I
      PROVE  p \in I
  <2>1. SamePlaces(stored[p - 1], data)
    BY <1>5 DEF I
  <2>2. stored[p] = [stored[p - 1] EXCEPT ![Address(view, order[p])] = value[order[p]]]
    BY <1>3
  <2>3. SamePlaces(stored[p], data)
    BY <2>1, <2>2 DEF SamePlaces
  <2>4. p \in 0..N
    BY <1>2
  <2>5. QED  BY <2>3, <2>4 DEF I
<1>6. CountsUp(I, N)
  BY <1>4, <1>5 DEF CountsUp
<1>7. \A p \in 0..N : p \in I
  BY <1>2, <1>6, LoopInduction
<1>8. N \in 0..N
  BY <1>2
<1>9. QED  BY <1>3, <1>7, <1>8 DEF I

LEMMA ComputedPlaces ==
  ASSUME NEW view, IsShape(view.shape), ViewPhysicalSize(view) \in Nat, NEW value
  PROVE  /\ DOMAIN Computed(view, value) = 0..(ViewPhysicalSize(view) - 1)
         /\ IsMemory(Computed(view, value))
<1> DEFINE data == Empty(ViewPhysicalSize(view))
<1>1. DOMAIN data = 0..(ViewPhysicalSize(view) - 1) /\ IsMemory(data)
  BY DEF Empty, IsMemory
<1> HIDE DEF data
<1>2. SamePlaces(Kernel(data, view, value), data)
  BY <1>1, KernelPlaces
<1>3. Computed(view, value) = Kernel(data, view, value)
  BY DEF Computed, data
<1>4. QED  BY <1>1, <1>2, <1>3 DEF SamePlaces, IsMemory

(* Elements with one place have one value. *)
StoredOnce(view, value) ==
  \A i, j \in AllIndices(view.shape) : Address(view, i) = Address(view, j) => value[i] = value[j]

HasPlaces(view, data) == \A i \in AllIndices(view.shape) : Address(view, i) \in DOMAIN data

Untouched(view, address) == \A i \in AllIndices(view.shape) : Address(view, i) # address

(* The loops store every element at its address, and nothing elsewhere. *)
LEMMA KernelStores ==
  ASSUME NEW data, IsMemory(data), NEW view, IsShape(view.shape), NEW value,
         StoredOnce(view, value), HasPlaces(view, data)
  PROVE  /\ \A i \in AllIndices(view.shape) : Kernel(data, view, value)[Address(view, i)] = value[i]
         /\ \A address \in DOMAIN data :
              Untouched(view, address) => Kernel(data, view, value)[address] = data[address]
<1>1. PICK stored : IsKernel(stored, data, view, value)
  BY KernelLoop
<1> DEFINE order == LoopOrder(view.shape)
           N == Len(order)
           place == [p \in 1..N |-> Address(view, order[p])]
           new == [p \in 1..N |-> value[order[p]]]
           D == DOMAIN data
           Free == {address \in D : Untouched(view, address)}
           Right(p) == /\ SamePlaces(stored[p], data)
                       /\ \A q \in 1..p : stored[p][place[q]] = new[q]
                       /\ \A address \in Free : stored[p][address] = data[address]
           I == {p \in 0..N : Right(p)}
<1>2. N \in Nat
  BY KernelLoop
<1>3. view.shape \in Seq(Sizes)
  BY DEF IsShape, Sizes
<1>4. /\ N = ArrayProduct(view.shape)
      /\ \A p \in 1..N : order[p] \in AllIndices(view.shape)
      /\ \A i \in AllIndices(view.shape) : PositionIn(view.shape, i) \in 0..(N - 1)
                                           /\ order[PositionIn(view.shape, i) + 1] = i
  BY <1>3, LoopVisits
<1>5. /\ stored[0] = data
      /\ \A p \in 1..N : stored[p] = [stored[p - 1] EXCEPT ![place[p]] = new[p]]
      /\ Kernel(data, view, value) = stored[N]
  BY <1>1 DEF IsKernel
<1>6. /\ \A p \in 1..N : place[p] \in D /\ place[p] \notin Free
      /\ \A p, q \in 1..N : place[p] = place[q] => new[p] = new[q]
  BY <1>4 DEF HasPlaces, StoredOnce, Untouched
<1>7. \A i \in AllIndices(view.shape) : \E p \in 1..N : place[p] = Address(view, i) /\ new[p] = value[i]
  <2>1. ASSUME NEW i \in AllIndices(view.shape)
        PROVE  \E p \in 1..N : place[p] = Address(view, i) /\ new[p] = value[i]
    <3> DEFINE p == PositionIn(view.shape, i) + 1
    <3>1. p \in 1..N
      BY <1>2, <1>4
    <3>2. order[p] = i
      BY <1>4
    <3>3. QED  BY <3>1, <3>2
  <2>2. QED  BY <2>1
<1> HIDE DEF I, N, order, place, new, Free
<1>8. Right(0)
  BY <1>5 DEF IsMemory, SamePlaces, Free
<1>9. ASSUME NEW p \in 1..N, Right(p - 1)
      PROVE  Right(p)
  <2>1. stored[p] = [stored[p - 1] EXCEPT ![place[p]] = new[p]]
    BY <1>5
  <2>2. SamePlaces(stored[p], data)
    BY <1>9, <2>1 DEF SamePlaces
  <2>3. DOMAIN stored[p - 1] = D
    BY <1>9 DEF SamePlaces
  <2>4. \A address \in D : stored[p][address] = IF address = place[p] THEN new[p] ELSE stored[p - 1][address]
    BY <2>1, <2>3
  <2>5. \A q \in 1..p : stored[p][place[q]] = new[q]
    <3> SUFFICES ASSUME NEW q \in 1..p PROVE stored[p][place[q]] = new[q]
      OBVIOUS
    <3>1. q \in 1..N /\ (q = p \/ q \in 1..(p - 1))
      BY <1>2
    <3>2. CASE place[q] = place[p]
      BY <1>6, <2>4, <3>1, <3>2
    <3>3. CASE place[q] # place[p]
      <4>1. q \in 1..(p - 1)
        BY <3>1, <3>3
      <4>2. stored[p - 1][place[q]] = new[q]
        BY <1>9, <4>1
      <4>3. QED  BY <1>6, <2>4, <3>1, <3>3, <4>2
    <3>4. QED  BY <3>2, <3>3
  <2>6. \A address \in Free : stored[p][address] = data[address]
    BY <1>6, <1>9, <2>4 DEF Free
  <2>7. QED  BY <2>2, <2>5, <2>6
<1> HIDE DEF Right
<1>10. CountsUp(I, N)
  <2>1. 0 \in I
    BY <1>2, <1>8 DEF I
  <2>2. ASSUME NEW p \in 1..N, p - 1 \in I PROVE p \in I
    <3>1. Right(p - 1)
      BY <2>2 DEF I
    <3>2. Right(p) /\ p \in 0..N
      BY <1>2, <1>9, <3>1
    <3>3. QED  BY <3>2 DEF I
  <2>3. QED  BY <2>1, <2>2 DEF CountsUp
<1>11. \A p \in 0..N : p \in I
  BY <1>2, <1>10, LoopInduction
<1>12. Right(N)
  <2>1. N \in 0..N
    BY <1>2
  <2>2. QED  BY <1>11, <2>1 DEF I
<1>13. \A i \in AllIndices(view.shape) : stored[N][Address(view, i)] = value[i]
  <2> SUFFICES ASSUME NEW i \in AllIndices(view.shape) PROVE stored[N][Address(view, i)] = value[i]
    OBVIOUS
  <2>1. PICK p \in 1..N : place[p] = Address(view, i) /\ new[p] = value[i]
    BY <1>7
  <2>2. stored[N][place[p]] = new[p]
    BY <1>12 DEF Right
  <2>3. QED  BY <2>1, <2>2
<1>14. \A address \in D : Untouched(view, address) => stored[N][address] = data[address]
  BY <1>12 DEF Right, Free
<1>15. QED  BY <1>5, <1>13, <1>14

-----------------------------------------------------------------------------
(* The views of buffers and of files are within their data *)

(* A view of a storage that has a place for its last element. *)
Fits(view, data) ==
  /\ IsView(view)
  /\ IsMemory(data)
  /\ LastPlace(view) \in DOMAIN data

BoundsInv ==
  /\ CountsInv
  /\ \A b \in DOMAIN buffers : Fits(ViewOf(b), DataOf(b))
  /\ file # NONE => Fits(file.view, file.data)

LEMMA InitBounds == Init => BoundsInv
BY InitCounts DEF Init, BoundsInv

(* A dense view fits data of its physical size, and so does a contiguous one. *)
LEMMA DenseFits ==
  ASSUME NEW view, IsView(view), IsDense(view), NEW data, IsMemory(data),
         DOMAIN data = 0..(ViewPhysicalSize(view) - 1)
  PROVE  Fits(view, data)
<1>1. LastPlace(view) = ViewPhysicalSize(view) - 1 /\ ViewPhysicalSize(view) \in Nat \ {0}
  BY DenseReach DEF LastPlace
<1>2. LastPlace(view) \in DOMAIN data
  BY <1>1
<1>3. QED  BY <1>2 DEF Fits

LEMMA ComputedFits ==
  ASSUME NEW view, IsView(view), IsDense(view), NEW value
  PROVE  Fits(view, Computed(view, value))
<1>1. ViewPhysicalSize(view) \in Nat /\ IsShape(view.shape)
  BY DenseReach DEF IsView, IsShape
<1>2. QED  BY <1>1, ComputedPlaces, DenseFits

LEMMA ContiguousFits ==
  ASSUME NEW shape, IsShape(shape), NEW value
  PROVE  Fits(ViewCreateContiguous(shape), Computed(ViewCreateContiguous(shape), value))
BY ContiguousDense, ComputedFits

LEMMA ShapeOfView ==
  ASSUME BoundsInv, NEW x \in DOMAIN buffers
  PROVE  /\ IsView(ViewOf(x))
         /\ IsShape(ShapeOf(x))
         /\ ShapeOf(x) = ViewOf(x).shape
         /\ Fits(ViewOf(x), DataOf(x))
BY DEF BoundsInv, Fits, IsView, IsShape, ShapeOf, ViewOf

-----------------------------------------------------------------------------
(* The frames: what a new view, a new storage, a freed one and written data   *)
(* leave as it was                                                             *)

LEMMA ShareBounds ==
  ASSUME BoundsInv, NEW x, NEW view, Share(x, view), Fits(view, DataOf(x))
  PROVE  BoundsInv'
<1>0. PICK s : s = StorageOf(x)
  OBVIOUS
<1>1. CountsInv'
  BY ShareCounts DEF BoundsInv
<1>2. /\ x \in DOMAIN buffers /\ s \in DOMAIN storages
      /\ Numbered /\ Attach(view, s)
      /\ file' = file
  BY <1>0 DEF Share, BoundsInv, CountsInv, CountsMatch
<1>3. buffers' = AddNew(buffers, [view |-> view, storage |-> s])
  BY <1>2 DEF Attach
<1>4. storages' = [storages EXCEPT ![s].reference_count = @ + 1]
  BY <1>0 DEF Share
<1>5. \A t \in DOMAIN storages : storages'[t].data = storages[t].data
  BY <1>2, <1>4
<1>6. /\ DOMAIN buffers' = DOMAIN buffers \cup {New}
      /\ \A b \in DOMAIN buffers : buffers'[b] = buffers[b]
      /\ buffers'[New].storage = s
      /\ buffers'[New].view = view
  BY <1>2, <1>3, AttachFacts, NewIsNew DEF AddNew
<1>7. ASSUME NEW b \in DOMAIN buffers'
      PROVE  Fits(ViewOf(b)', DataOf(b)')
  <2>1. CASE b = New
    <3>1. ViewOf(b)' = view /\ DataOf(b)' = DataOf(x)
      BY <1>0, <1>2, <1>5, <1>6, <2>1 DEF ViewOf, DataOf, StorageOf
    <3>2. QED  BY <3>1
  <2>2. CASE b # New
    <3>1. b \in DOMAIN buffers /\ buffers[b].storage \in DOMAIN storages
      BY <1>6, <2>2 DEF BoundsInv, CountsInv, CountsMatch, StorageOf
    <3>2. ViewOf(b)' = ViewOf(b) /\ DataOf(b)' = DataOf(b)
      BY <1>5, <1>6, <3>1 DEF ViewOf, DataOf
    <3>3. QED  BY <3>1, <3>2 DEF BoundsInv
  <2>3. QED  BY <2>1, <2>2
<1>8. QED  BY <1>1, <1>2, <1>7 DEF BoundsInv

LEMMA AllocateBounds ==
  ASSUME BoundsInv, NEW view, NEW data, Allocate(view, data), Fits(view, data)
  PROVE  BoundsInv'
<1>1. CountsInv'
  BY AllocateCounts DEF BoundsInv
<1>2. Numbered /\ Attach(view, New) /\ file' = file
  BY DEF Allocate, BoundsInv, CountsInv
<1>3. /\ buffers' = AddNew(buffers, [view |-> view, storage |-> New])
      /\ storages' = AddNew(storages, [reference_count |-> 1, data |-> data])
  BY DEF Attach, Allocate
<1>4. New \notin DOMAIN buffers /\ New \notin DOMAIN storages
  BY <1>2, NewIsNew
<1>5. /\ storages'[New].data = data
      /\ \A t \in DOMAIN storages : storages'[t] = storages[t]
      /\ DOMAIN buffers' = DOMAIN buffers \cup {New}
      /\ \A b \in DOMAIN buffers : buffers'[b] = buffers[b]
      /\ buffers'[New].storage = New
      /\ buffers'[New].view = view
  BY <1>3, <1>4 DEF AddNew
<1>6. ASSUME NEW b \in DOMAIN buffers'
      PROVE  Fits(ViewOf(b)', DataOf(b)')
  <2>1. CASE b = New
    <3>1. ViewOf(b)' = view /\ DataOf(b)' = data
      BY <1>5, <2>1 DEF ViewOf, DataOf
    <3>2. QED  BY <3>1
  <2>2. CASE b # New
    <3>1. b \in DOMAIN buffers /\ buffers[b].storage \in DOMAIN storages
      BY <1>5, <2>2 DEF BoundsInv, CountsInv, CountsMatch, StorageOf
    <3>2. ViewOf(b)' = ViewOf(b) /\ DataOf(b)' = DataOf(b)
      BY <1>5, <3>1 DEF ViewOf, DataOf
    <3>3. QED  BY <3>1, <3>2 DEF BoundsInv
  <2>3. QED  BY <2>1, <2>2
<1>7. QED  BY <1>1, <1>2, <1>6 DEF BoundsInv

LEMMA DestroyBounds ==
  ASSUME BoundsInv, NEW x, Destroy(x)
  PROVE  BoundsInv'
<1>0. PICK s : s = StorageOf(x)
  OBVIOUS
<1>1. CountsInv' /\ CountsMatch'
  BY DestroyCounts DEF BoundsInv, CountsInv
<1>2. /\ buffers' = [b \in DOMAIN buffers \ {x} |-> buffers[b]]
      /\ file' = file
  BY DEF Destroy, Restrict
<1>3. storages' = IF LastReference(s)
                  THEN [t \in DOMAIN storages \ {s} |-> storages[t]]
                  ELSE [storages EXCEPT ![s].reference_count = @ - 1]
  BY <1>0 DEF Destroy, Restrict
<1>4. \A t \in DOMAIN storages' : storages'[t].data = storages[t].data
  BY <1>3
<1>5. ASSUME NEW b \in DOMAIN buffers'
      PROVE  Fits(ViewOf(b)', DataOf(b)')
  <2>1. b \in DOMAIN buffers /\ buffers'[b] = buffers[b]
    BY <1>2
  <2>2. buffers'[b].storage \in DOMAIN storages'
    BY <1>1 DEF CountsMatch, StorageOf
  <2>3. ViewOf(b)' = ViewOf(b) /\ DataOf(b)' = DataOf(b)
    BY <1>4, <2>1, <2>2 DEF ViewOf, DataOf
  <2>4. QED  BY <2>1, <2>3 DEF BoundsInv
<1>6. QED  BY <1>1, <1>2, <1>5 DEF BoundsInv

LEMMA AddToBounds ==
  ASSUME BoundsInv, NEW z \in DOMAIN buffers, NEW y, AddTo(z, y)
  PROVE  BoundsInv'
<1>0. PICK s : s = StorageOf(z)
  OBVIOUS
<1>1. CountsInv'
  BY AddToCounts DEF BoundsInv
<1>2. s \in DOMAIN storages
  BY <1>0 DEF BoundsInv, CountsInv, CountsMatch
<1>3. /\ buffers' = buffers /\ file' = file
      /\ \E value : storages' = [storages EXCEPT ![s].data = Kernel(@, ViewOf(z), value)]
  BY <1>0 DEF AddTo
<1>4. PICK value : storages' = [storages EXCEPT ![s].data = Kernel(@, ViewOf(z), value)]
  BY <1>3
<1> DEFINE written == Kernel(storages[s].data, ViewOf(z), value)
<1>5. storages' = [storages EXCEPT ![s].data = written]
  BY <1>4
<1>6. IsMemory(storages[s].data) /\ IsShape(ViewOf(z).shape)
  BY <1>0, ShapeOfView DEF Fits, DataOf, StorageOf
<1>7. SamePlaces(written, storages[s].data)
  BY <1>6, KernelPlaces
<1> HIDE DEF written
<1>8. \A t \in DOMAIN storages : t # s => storages'[t] = storages[t]
  BY <1>2, <1>5
<1>9. storages'[s].data = written
  <2>1. "data" \in DOMAIN storages[s]
    BY <1>2 DEF BoundsInv, CountsInv, Numbered
  <2>2. QED  BY <1>2, <1>5, <2>1
<1>10. ASSUME NEW b \in DOMAIN buffers'
       PROVE  Fits(ViewOf(b)', DataOf(b)')
  <2>1. b \in DOMAIN buffers /\ buffers[b].storage \in DOMAIN storages /\ Fits(ViewOf(b), DataOf(b))
    BY <1>3 DEF BoundsInv, CountsInv, CountsMatch, StorageOf
  <2>2. ViewOf(b)' = ViewOf(b)
    BY <1>3 DEF ViewOf
  <2>3. CASE DataOf(b)' = DataOf(b)
    BY <2>1, <2>2, <2>3
  <2>4. CASE DataOf(b)' = written /\ DataOf(b) = storages[s].data
    <3>1. IsMemory(written) /\ DOMAIN written = DOMAIN DataOf(b)
      BY <1>6, <1>7, <2>4 DEF IsMemory, SamePlaces
    <3>2. Fits(ViewOf(b), written)
      BY <2>1, <3>1 DEF Fits
    <3>3. QED  BY <2>2, <2>4, <3>2
  <2>5. QED  BY <1>3, <1>8, <1>9, <2>1, <2>3, <2>4 DEF DataOf
<1>11. QED  BY <1>1, <1>3, <1>10 DEF BoundsInv

-----------------------------------------------------------------------------
(* The operations that share a storage *)

LEMMA AsBounds ==
  ASSUME BoundsInv, NEW x \in DOMAIN buffers, As(x)
  PROVE  BoundsInv'
BY ShareBounds DEF As, BoundsInv

LEMMA ExpandBounds ==
  ASSUME BoundsInv, NEW x \in DOMAIN buffers, NEW shape \in Targets, Expand(x, shape)
  PROVE  BoundsInv'
<1>1. IsShape(shape)
  BY ShapesAssumption, ShapeIsCreated DEF Expand
<1>2. /\ IsView(ViewExpand(ViewOf(x), shape))
      /\ LastPlace(ViewExpand(ViewOf(x), shape)) = LastPlace(ViewOf(x))
  BY <1>1, ShapeOfView, ExpandLast DEF Expand
<1>3. Fits(ViewExpand(ViewOf(x), shape), DataOf(x))
  BY <1>2, ShapeOfView DEF Fits
<1>4. QED  BY <1>3, ShareBounds DEF Expand

LEMMA RankOfView ==
  ASSUME BoundsInv, NEW x \in DOMAIN buffers
  PROVE  Rank(ViewOf(x)) \in Nat /\ Rank(ViewOf(x)) <= MAX_RANK
BY ShapeOfView DEF IsView, Rank

LEMMA PermuteBounds ==
  ASSUME BoundsInv, NEW x \in DOMAIN buffers, NEW axes \in AxesOf[Rank(ViewOf(x))], Permute(x, axes)
  PROVE  BoundsInv'
<1> DEFINE v == ViewOf(x)
           r == Rank(v)
<1>1. IsView(v) /\ r \in 0..MAX_RANK
  BY ShapeOfView, RankOfView DEF MAX_RANK
<1>2. PICK n \in 0..r : axes \in Injection(1..n, 0..(r - 1))
  BY <1>1 DEF AxesOf
<1>3. Len(axes) = n
  BY <1>2 DEF Injection
<1>4. n = r
  BY <1>3 DEF Permute, ViewPermuteOK
<1>5. IsView(ViewPermute(v, axes)) /\ LastPlace(ViewPermute(v, axes)) = LastPlace(v)
  BY <1>1, <1>2, <1>4, PermuteLast
<1>6. Fits(ViewPermute(v, axes), DataOf(x))
  BY <1>5, ShapeOfView DEF Fits
<1>7. QED  BY <1>6, ShareBounds DEF Permute

LEMMA SliceBounds ==
  ASSUME BoundsInv, NEW x \in DOMAIN buffers, NEW arguments \in SliceArguments(ShapeOf(x)),
         Slice(x, arguments)
  PROVE  BoundsInv'
<1> DEFINE v == ViewOf(x)
           s == ViewSlice(v, arguments)
<1>1. IsView(v) /\ ShapeOf(x) = v.shape /\ Fits(v, DataOf(x))
  BY ShapeOfView
<1>2. PICK cut \in [DOMAIN v.shape -> {<<0, 0>>, <<0, 1>>, <<1, 0>>}] :
        arguments = [n \in DOMAIN v.shape |-> <<cut[n][1], v.shape[n] - cut[n][2]>>]
  BY <1>1 DEF SliceArguments
<1>3. \A n \in DOMAIN v.shape : v.shape[n] \in Int /\ cut[n][1] \in Int /\ cut[n][2] \in Int
  <2>1. \A pair \in {<<0, 0>>, <<0, 1>>, <<1, 0>>} : pair[1] \in Int /\ pair[2] \in Int
    OBVIOUS
  <2>2. \A n \in DOMAIN v.shape : cut[n] \in {<<0, 0>>, <<0, 1>>, <<1, 0>>}
    BY <1>2
  <2>3. \A n \in DOMAIN v.shape : v.shape[n] \in Int
    BY <1>1, DimensionFacts
  <2>4. QED  BY <2>1, <2>2, <2>3
<1>4. /\ DOMAIN arguments = DOMAIN v.shape
      /\ \A n \in DOMAIN arguments : arguments[n][1] \in Int /\ arguments[n][2] \in Int
  BY <1>2, <1>3
<1>5. ViewSliceOK(v, arguments)
  BY DEF Slice
<1> HIDE DEF s, v
<1>6. IsView(s) /\ LastPlace(s) <= LastPlace(v)
  BY <1>1, <1>4, <1>5, SliceLast DEF s
<1>7. LastPlace(s) \in Nat /\ LastPlace(v) \in Nat
  BY <1>1, <1>6, LastIsNat
<1>8. LastPlace(s) \in DOMAIN DataOf(x)
  <2>1. PICK size \in Nat : DOMAIN DataOf(x) = 0..(size - 1)
    BY <1>1 DEF Fits, IsMemory
  <2>2. LastPlace(v) \in 0..(size - 1)
    BY <1>1, <2>1 DEF Fits
  <2>3. LastPlace(s) \in 0..(size - 1)
    BY <1>6, <1>7, <2>1, <2>2
  <2>4. QED  BY <2>1, <2>3
<1>9. Fits(s, DataOf(x))
  BY <1>1, <1>6, <1>8 DEF Fits
<1>10. QED  BY <1>9, ShareBounds DEF Slice, s, v

-----------------------------------------------------------------------------
(* Reshaping *)

LEMMA ActualShapeIs ==
  ASSUME NEW given \in Targets, NEW size \in Int
  PROVE  ActualShape(given, size) \in Seq(Int)
<1>1. given \in Seq(Int)
  BY ShapesAssumption
<1>2. ASSUME NEW n \in DOMAIN given, given[n] = -1
      PROVE  size \div (-ArrayProduct(given)) \in Int
  <2>1. ArrayProduct(given) < 0
    BY <1>2, ShapesAssumption DEF Range
  <2>2. IsFiniteSet(DOMAIN given) /\ \A m \in DOMAIN given : given[m] \in Int
    BY <1>1, FS_Interval
  <2>3. ArrayProduct(given) \in Int
    BY <2>2, ProductType DEF ArrayProduct
  <2>4. -ArrayProduct(given) \in Int /\ -ArrayProduct(given) > 0
    BY <2>1, <2>3
  <2>5. QED  BY <2>4
<1>3. \A n \in DOMAIN given : ActualShape(given, size)[n] \in Int
  BY <1>1, <1>2 DEF ActualShape
<1>4. DOMAIN given = 1..Len(given) /\ Len(given) \in Nat
  BY <1>1
<1>5. ActualShape(given, size) \in [1..Len(given) -> Int]
  BY <1>3, <1>4 DEF ActualShape
<1>6. QED  BY <1>4, <1>5, FunctionIsSequence

LEMMA ReshapeBounds ==
  ASSUME BoundsInv, NEW x \in DOMAIN buffers, NEW given \in Targets, Reshape(x, given)
  PROVE  BoundsInv'
<1> DEFINE old == ShapeOf(x)
           shape == ActualShape(given, ArrayProduct(old))
           v == ViewOf(x)
<1>1. IsShape(old) /\ IsView(v) /\ Fits(v, DataOf(x)) /\ old = v.shape
  BY ShapeOfView
<1>2. ArrayProduct(old) \in Nat \ {0}
  BY <1>1, ContiguousSize
<1>3. ArrayProduct(shape) = ArrayProduct(old) /\ ViewCreateOK(shape)
  BY DEF Reshape
<1>4. IsShape(shape)
  BY <1>2, <1>3, ActualShapeIs, ShapeIsCreated
<1>5. \/ /\ ViewIsContiguous(v)
         /\ Share(x, View(v.offset, shape, StridesFromShape(shape)))
      \/ Allocate(ViewCreateContiguous(shape), Computed(ViewCreateContiguous(old), Elements(x)))
  BY DEF Reshape
<1> HIDE DEF shape, old, v
<1> DEFINE c == ViewCreateContiguous(shape)
<1>6. IsView(c) /\ LastPlace(c) = ArrayProduct(old) - 1
  BY <1>3, <1>4, ContiguousDense, ContiguousSize
<1>7. CASE ViewIsContiguous(v) /\ Share(x, View(v.offset, shape, StridesFromShape(shape)))
  <2>1. v.offset = 0 /\ LastPlace(v) = ArrayProduct(old) - 1
    BY <1>1, <1>7, ContiguousLast
  <2>2. View(v.offset, shape, StridesFromShape(shape)) = c
    BY <2>1 DEF ViewCreateContiguous
  <2> HIDE DEF c
  <2>3. Fits(c, DataOf(x))
    BY <1>1, <1>6, <2>1 DEF Fits
  <2>4. QED  BY <1>7, <2>2, <2>3, ShareBounds
<1>8. CASE Allocate(ViewCreateContiguous(shape), Computed(ViewCreateContiguous(old), Elements(x)))
  <2> DEFINE data == Computed(ViewCreateContiguous(old), Elements(x))
  <2>1. /\ ViewPhysicalSize(ViewCreateContiguous(old)) = ArrayProduct(old)
        /\ ViewCreateContiguous(old).shape = old
    BY <1>1, ContiguousSize DEF ViewCreateContiguous, View
  <2>2. DOMAIN data = 0..(ArrayProduct(old) - 1) /\ IsMemory(data)
    BY <1>1, <1>2, <2>1, ComputedPlaces DEF old
  <2> HIDE DEF data, c
  <2>3. LastPlace(c) \in DOMAIN data
    BY <1>2, <1>6, <2>2 DEF old
  <2>4. Fits(c, data)
    BY <1>6, <2>2, <2>3 DEF Fits
  <2>5. QED  BY <1>8, <2>4, AllocateBounds DEF c, data
<1>9. QED  BY <1>5, <1>7, <1>8

-----------------------------------------------------------------------------
(* The operations that compute into a storage of their own *)

LEMMA CreateBounds ==
  ASSUME BoundsInv, NEW shape \in NewShapes, Create(shape)
  PROVE  BoundsInv'
<1> DEFINE c == ViewCreateContiguous(shape)
           data == Given(ViewPhysicalSize(c))
<1>1. IsShape(shape)
  BY ShapesAssumption, ShapeIsCreated DEF Create
<1>2. IsView(c) /\ IsDense(c) /\ ViewPhysicalSize(c) \in Nat
  BY <1>1, ContiguousDense, ContiguousSize
<1>3. Allocate(c, data)
  BY DEF Create
<1> HIDE DEF c
<1>4. IsMemory(data) /\ DOMAIN data = 0..(ViewPhysicalSize(c) - 1)
  BY <1>2 DEF Given, IsMemory
<1> HIDE DEF data
<1>5. Fits(c, data)
  BY <1>2, <1>4, DenseFits
<1>6. QED  BY <1>3, <1>5, AllocateBounds

(* An operation that computes the elements of a new contiguous tensor. *)
LEMMA ComputeBounds ==
  ASSUME BoundsInv, NEW shape, IsShape(shape), NEW value,
         Allocate(ViewCreateContiguous(shape), Computed(ViewCreateContiguous(shape), value))
  PROVE  BoundsInv'
<1>1. Fits(ViewCreateContiguous(shape), Computed(ViewCreateContiguous(shape), value))
  BY ContiguousFits
<1>2. QED  BY <1>1, AllocateBounds

LEMMA ContiguousBounds ==
  ASSUME BoundsInv, NEW x \in DOMAIN buffers, Contiguous(x)
  PROVE  BoundsInv'
BY ShapeOfView, ComputeBounds DEF Contiguous

LEMMA NegationBounds ==
  ASSUME BoundsInv, NEW x \in DOMAIN buffers, Negation(x)
  PROVE  BoundsInv'
BY ShapeOfView, ComputeBounds DEF Negation

(* A broadcast has no more dimensions than the longer operand. *)
LEMMA BroadcastIsShape ==
  ASSUME NEW a, IsShape(a), NEW b, IsShape(b)
  PROVE  IsShape(ViewBroadcast(a, b))
<1>1. a \in Seq(Sizes) /\ b \in Seq(Sizes)
  BY DEF IsShape, Sizes
<1>2. /\ ViewBroadcast(a, b) \in Seq(Sizes)
      /\ Len(ViewBroadcast(a, b)) = Longer(a, b)
  BY <1>1, BroadcastShape
<1>3. Longer(a, b) <= MAX_RANK
  BY DEF Longer, IsShape
<1>4. QED  BY <1>2, <1>3 DEF IsShape, Sizes

LEMMA AdditionBounds ==
  ASSUME BoundsInv, NEW x \in DOMAIN buffers, NEW y \in DOMAIN buffers, Addition(x, y)
  PROVE  BoundsInv'
<1> DEFINE shape == ViewBroadcast(ShapeOf(x), ShapeOf(y))
<1>1. IsShape(shape)
  BY ShapeOfView, BroadcastIsShape
<1>2. \E value : Allocate(ViewCreateContiguous(shape), Computed(ViewCreateContiguous(shape), value))
  BY DEF Addition
<1> HIDE DEF shape
<1>3. QED  BY <1>1, <1>2, ComputeBounds

LEMMA WhereBounds ==
  ASSUME BoundsInv, NEW w \in DOMAIN buffers, NEW x \in DOMAIN buffers, NEW y \in DOMAIN buffers,
         Where(w, x, y)
  PROVE  BoundsInv'
<1> DEFINE shape == ViewBroadcast(ViewBroadcast(ShapeOf(x), ShapeOf(y)), ShapeOf(w))
<1>1. IsShape(ViewBroadcast(ShapeOf(x), ShapeOf(y)))
  BY ShapeOfView, BroadcastIsShape
<1>2. IsShape(shape)
  BY <1>1, ShapeOfView, BroadcastIsShape
<1>3. \E value : Allocate(ViewCreateContiguous(shape), Computed(ViewCreateContiguous(shape), value))
  BY DEF Where
<1> HIDE DEF shape
<1>4. QED  BY <1>2, <1>3, ComputeBounds

LEMMA MatrixMultiplicationBounds ==
  ASSUME BoundsInv, NEW x \in DOMAIN buffers, NEW y \in DOMAIN buffers, MatrixMultiplication(x, y)
  PROVE  BoundsInv'
<1> DEFINE a == ShapeOf(x)
           b == ShapeOf(y)
           view == ViewMatrixMultiplication(ViewBroadcastMatrixMultiplication(a, b),
                                            ViewBroadcastMatrixMultiplication(b, a))
<1>1. IsShape(a) /\ IsShape(b)
  BY ShapeOfView
<1>2. MatrixMultiplicationOK(a, b)
  BY DEF MatrixMultiplication
<1>3. \A v, shape : ViewExpand(v, shape).shape = shape
  BY DEF ViewExpand, View
<1>4. \E value : Allocate(view, Computed(view, value))
  BY <1>3 DEF MatrixMultiplication
<1> HIDE DEF a, b
<1>5. PICK shape : IsShape(shape) /\ view = ViewCreateContiguous(shape)
  BY <1>1, <1>2, MatrixShape
<1> HIDE DEF view
<1>6. QED  BY <1>4, <1>5, ComputeBounds

LEMMA PaddingBounds ==
  ASSUME BoundsInv, NEW x \in DOMAIN buffers,
         NEW arguments \in PaddingArguments(Rank(ViewOf(x))), Padding(x, arguments)
  PROVE  BoundsInv'
<1> DEFINE v == ViewOf(x)
           r == Rank(v)
           shape == [n \in DOMAIN arguments |-> arguments[n][1] + v.shape[n] + arguments[n][2]]
<1>1. r \in Nat /\ r <= MAX_RANK
  BY RankOfView
<1>2. IsView(v)
  BY ShapeOfView
<1>3. \E value : Allocate(ViewCreateContiguous(shape), Computed(ViewCreateContiguous(shape), value))
  BY DEF Padding, ViewPadding
<1> HIDE DEF v, r
<1>4. PICK d \in 1..r, pair \in {<<0, 1>>, <<1, 0>>} :
        arguments = [n \in 1..r |-> IF n = d THEN pair ELSE <<0, 0>>]
  BY DEF PaddingArguments, r, v
<1>5. \A n \in 1..r : v.shape[n] \in Nat \ {0}
  BY <1>2, DimensionFacts DEF r, Rank
<1>6. \A n \in 1..r : arguments[n] \in {<<0, 0>>, <<0, 1>>, <<1, 0>>}
  BY <1>4
<1>7. \A p \in {<<0, 0>>, <<0, 1>>, <<1, 0>>} : p[1] \in Nat /\ p[2] \in Nat
  OBVIOUS
<1>8. DOMAIN arguments = 1..r
  BY <1>4
<1>9. \A n \in 1..r : arguments[n][1] + v.shape[n] + arguments[n][2] \in Nat \ {0}
  BY <1>5, <1>6, <1>7
<1>10. shape \in [1..r -> Nat \ {0}]
  BY <1>8, <1>9
<1> HIDE DEF shape
<1>11. shape \in Seq(Nat \ {0}) /\ Len(shape) = r
  BY <1>1, <1>10, FunctionIsSequence
<1>12. IsShape(shape)
  BY <1>1, <1>11 DEF IsShape
<1>13. QED  BY <1>3, <1>12, ComputeBounds

(* The buffer after each dimension that a reduction goes through. *)
IsReductionLoop(buffer, x, axes, keep_dimension, result) ==
  /\ buffer[0] = x
  /\ \A n \in 1..Len(axes) :
       buffer[n] = ReductionDimension(buffer[n - 1], DescendingSort(axes)[n], keep_dimension,
                     IF n = Len(axes) THEN result
                     ELSE ViewReduce(buffer[n - 1].view, <<DescendingSort(axes)[n]>>, keep_dimension))
  /\ ReductionInTurn(x, axes, keep_dimension, result) = buffer[Len(axes)]

LEMMA ReductionLoop ==
  ASSUME NEW x, NEW axes, Len(axes) \in Nat \ {0}, NEW keep_dimension, NEW result
  PROVE  \E buffer : IsReductionLoop(buffer, x, axes, keep_dimension, result)
<1> DEFINE N == Len(axes)
           sorted == DescendingSort(axes)
           Step(n, b) == ReductionDimension(b, sorted[n], keep_dimension,
                           IF n = N THEN result
                           ELSE ViewReduce(b.view, <<sorted[n]>>, keep_dimension))
           IsIt(g, k) == g = [n \in 0..k |-> IF n = 0 THEN x ELSE Step(n, g[n - 1])]
           buffer == CHOOSE g : IsIt(g, N)
           I == {k \in 0..N : \E g : IsIt(g, k)}
<1>0. N \in Nat /\ N # 0
  OBVIOUS
<1>1. ReductionInTurn(x, axes, keep_dimension, result) = buffer[N]
  BY DEF ReductionInTurn
<1> HIDE DEF N, Step, sorted
<1>2. 0 \in I
  <2> DEFINE g == [n \in 0..0 |-> x]
  <2>1. \A n \in 0..0 : n = 0
    BY <1>0
  <2>2. g = [n \in 0..0 |-> IF n = 0 THEN x ELSE Step(n, g[n - 1])]
    BY <2>1
  <2>3. 0 \in 0..N
    BY <1>0
  <2>4. QED  BY <2>2, <2>3
<1>3. ASSUME NEW k \in 1..N, k - 1 \in I
      PROVE  k \in I
  <2>1. PICK g : IsIt(g, k - 1)
    BY <1>3
  <2> DEFINE h == [n \in 0..k |-> IF n = 0 THEN x ELSE Step(n, g[n - 1])]
  <2>2. \A n \in 0..k : n # 0 => n - 1 \in 0..(k - 1) /\ n - 1 \in 0..k
    BY <1>0
  <2>3. \A n \in 0..(k - 1) : g[n] = IF n = 0 THEN x ELSE Step(n, g[n - 1])
    BY <2>1
  <2>4. \A n \in 0..(k - 1) : n \in 0..k
    BY <1>0
  <2>5. \A n \in 0..(k - 1) : h[n] = g[n]
    BY <2>3, <2>4
  <2>6. \A n \in 0..k : n # 0 => h[n - 1] = g[n - 1]
    BY <2>2, <2>5
  <2>7. \A n \in 0..k : (IF n = 0 THEN x ELSE Step(n, g[n - 1])) = (IF n = 0 THEN x ELSE Step(n, h[n - 1]))
    BY <2>6
  <2>8. h = [n \in 0..k |-> IF n = 0 THEN x ELSE Step(n, g[n - 1])]
    OBVIOUS
  <2> HIDE DEF h
  <2>9. IsIt(h, k)
    BY <2>7, <2>8
  <2>10. k \in 0..N
    BY <1>0
  <2>11. QED  BY <2>9, <2>10
<1> HIDE DEF I
<1>4. CountsUp(I, N)
  BY <1>2, <1>3 DEF CountsUp
<1>5. N \in 0..N /\ \A k \in 0..N : k \in I
  BY <1>0, <1>4, LoopInduction
<1>6. \E g : IsIt(g, N)
  BY <1>5 DEF I
<1> HIDE DEF IsIt
<1>7. IsIt(buffer, N)
  BY <1>6
<1> HIDE DEF buffer
<1>8. /\ buffer[0] = x
      /\ \A n \in 1..N : buffer[n] = Step(n, buffer[n - 1])
  <2>1. \A n \in 1..N : n \in 0..N /\ n # 0
    BY <1>0
  <2>2. 0 \in 0..N
    BY <1>0
  <2>3. \A n \in 0..N : buffer[n] = IF n = 0 THEN x ELSE Step(n, buffer[n - 1])
    BY <1>7 DEF IsIt
  <2>4. QED  BY <2>1, <2>2, <2>3
<1>9. QED  BY <1>1, <1>8 DEF IsReductionLoop, N, Step, sorted

(* However many dimensions are reduced, the data are those the last loop     *)
(* computed for the view of the result.                                       *)
LEMMA ReductionComputes ==
  ASSUME NEW x, NEW axes, Len(axes) \in Nat \ {0}, NEW keep_dimension, NEW result
  PROVE  \E value : ReductionInTurn(x, axes, keep_dimension, result).data = Computed(result, value)
<1>1. PICK buffer : IsReductionLoop(buffer, x, axes, keep_dimension, result)
  BY ReductionLoop
<1> DEFINE N == Len(axes)
<1>2. N \in 1..N
  OBVIOUS
<1>3. ReductionInTurn(x, axes, keep_dimension, result)
        = ReductionDimension(buffer[N - 1], DescendingSort(axes)[N], keep_dimension, result)
  BY <1>1, <1>2 DEF IsReductionLoop
<1>4. \A b, axis : \E value : ReductionDimension(b, axis, keep_dimension, result).data = Computed(result, value)
  BY DEF ReductionDimension
<1>5. QED  BY <1>3, <1>4

LEMMA RankBound ==
  ASSUME NEW v, IsView(v)
  PROVE  Rank(v) \in 0..MAX_RANK /\ Rank(v) = Len(v.shape)
<1>1. Rank(v) = Len(v.shape)
  BY DEF Rank
<1>2. v.shape \in Seq(Nat \ {0}) /\ Len(v.shape) <= MAX_RANK
  BY DEF IsView
<1>3. Len(v.shape) \in Nat
  BY <1>2
<1>4. MAX_RANK \in Nat
  BY DEF MAX_RANK
<1>5. QED  BY <1>1, <1>2, <1>3, <1>4

(* There is a dimension to reduce, as the shape changes. *)
LEMMA SummationAxes ==
  ASSUME NEW v, IsView(v), NEW given \in AxesOf[Rank(v)], NEW keep_dimension,
         ViewReduce(v, ReduceAxes(given, Rank(v)), keep_dimension).shape # v.shape
  PROVE  Len(ReduceAxes(given, Rank(v))) \in Nat \ {0}
<1> DEFINE r == Rank(v)
           axes == ReduceAxes(given, r)
           result == ViewReduce(v, axes, keep_dimension)
<1>1. r \in 0..MAX_RANK /\ r = Len(v.shape)
  BY RankBound
<1>2. result.shape # v.shape
  OBVIOUS
<1> HIDE DEF r
<1>3. PICK n \in 0..r : given \in Injection(1..n, 0..(r - 1))
  BY <1>1 DEF AxesOf, r
<1>4. given \in [1..n -> 0..(r - 1)] /\ n \in Nat /\ r \in Nat
  BY <1>1, <1>3 DEF Injection, MAX_RANK
<1>5. Len(axes) \in Nat
  <2>1. CASE given = <<>>
    BY <1>4, <2>1 DEF ReduceAxes
  <2>2. CASE given # <<>>
    <3>1. DOMAIN axes = 1..n
      BY <1>4, <2>2 DEF ReduceAxes
    <3>2. axes = [m \in 1..n |-> DimensionToIndex(given[m], r)]
      BY <1>4, <2>2 DEF ReduceAxes
    <3> HIDE DEF axes
    <3>3. QED  BY <1>4, <3>2
  <2>3. QED  BY <2>1, <2>2
<1>6. Len(axes) # 0
  <2> SUFFICES ASSUME Len(axes) = 0 PROVE FALSE
    OBVIOUS
  <2>1. r = 0
    <3>1. CASE given = <<>>
      <4>1. axes = [m \in 1..r |-> m - 1]
        BY <3>1 DEF ReduceAxes
      <4> HIDE DEF axes
      <4>2. Len(axes) = r
        BY <1>4, <4>1
      <4>3. QED  BY <4>2
    <3>2. CASE given # <<>>
      <4>1. axes = [m \in DOMAIN given |-> DimensionToIndex(given[m], r)]
        BY <3>2 DEF ReduceAxes
      <4> HIDE DEF axes
      <4>2. Len(axes) = n
        BY <1>4, <4>1
      <4>3. n # 0
        BY <1>4, <3>2
      <4>4. QED  BY <4>2, <4>3
    <3>3. QED  BY <3>1, <3>2
  <2>2. IsView(result) /\ Len(v.shape) = 0
    BY <1>1, <2>1, ReduceDense
  <2>3. Len(result.shape) = 0
    <3> DEFINE K == IF keep_dimension THEN 1..Rank(v) ELSE (1..Rank(v)) \ Reduced(v, axes)
               kept == Ordered(K, Rank(v))
    <3>1. K \subseteq 1..Rank(v)
      OBVIOUS
    <3>2. Rank(v) = 0
      BY <2>1 DEF r
    <3>3. result.shape = [k \in DOMAIN kept |->
                            IF kept[k] \in Reduced(v, axes) THEN 1 ELSE v.shape[kept[k]]]
      BY DEF ViewReduce, View
    <3> HIDE DEF K, axes, result
    <3>4. kept \in Seq(K) /\ Len(kept) <= 0
      BY <3>1, <3>2, OrderedFacts DEF IsOrdered
    <3> HIDE DEF kept
    <3>5. DOMAIN kept = 1..0
      BY <3>4
    <3>6. DOMAIN result.shape = 1..0
      BY <3>3, <3>5
    <3>7. result.shape \in Seq(Nat \ {0})
      BY <2>2 DEF IsView
    <3> DEFINE shape == result.shape
    <3>8. shape \in Seq(Nat \ {0}) /\ 1 \notin DOMAIN shape
      BY <3>6, <3>7
    <3> HIDE DEF shape
    <3>9. Len(shape) = 0
      BY <3>8
    <3>10. QED  BY <3>9 DEF shape
  <2>4. result.shape = v.shape
    BY <1>1, <2>2, <2>3 DEF IsView
  <2>5. QED  BY <1>2, <2>4
<1>7. Len(axes) \in Nat \ {0}
  BY <1>5, <1>6
<1>8. QED  BY <1>7 DEF axes, r

LEMMA SummationBounds ==
  ASSUME BoundsInv, NEW x \in DOMAIN buffers, NEW given \in AxesOf[Rank(ViewOf(x))],
         NEW keep_dimension, Summation(x, given, keep_dimension)
  PROVE  BoundsInv'
<1> DEFINE v == ViewOf(x)
           axes == ReduceAxes(given, Rank(v))
           result == ViewReduce(v, axes, keep_dimension)
<1>1. IsView(v) /\ v.shape = ShapeOf(x)
  BY ShapeOfView
<1>2. /\ result.shape # v.shape
      /\ Allocate(result, ReductionInTurn([view |-> v, data |-> DataOf(x)], axes, keep_dimension, result).data)
  BY <1>1 DEF Summation
<1>3. Len(axes) \in Nat \ {0}
  BY <1>1, <1>2, SummationAxes
<1>4. IsView(result) /\ IsDense(result)
  BY <1>1, ReduceDense
<1> HIDE DEF axes, result
<1>5. PICK value :
        ReductionInTurn([view |-> v, data |-> DataOf(x)], axes, keep_dimension, result).data
          = Computed(result, value)
  BY <1>3, ReductionComputes
<1>6. Fits(result, Computed(result, value))
  BY <1>4, ComputedFits
<1>7. QED  BY <1>2, <1>5, <1>6, AllocateBounds

-----------------------------------------------------------------------------
(* Files, and every step *)

LEMMA LoadBounds ==
  ASSUME BoundsInv, Load
  PROVE  BoundsInv'
BY AllocateBounds DEF Load, BoundsInv

LEMMA SaveBounds ==
  ASSUME BoundsInv, NEW x \in DOMAIN buffers, Save(x)
  PROVE  BoundsInv'
<1>1. CountsInv'
  BY DEF Save, BoundsInv, CountsInv, Numbered, CountsMatch, Holders, StorageOf
<1>2. \A b \in DOMAIN buffers' : ViewOf(b)' = ViewOf(b) /\ DataOf(b)' = DataOf(b)
  BY DEF Save, ViewOf, DataOf
<1>3. file' # NONE => file' = [view |-> ViewOf(x), data |-> DataOf(x)]
  BY DEF Save
<1>4. file' # NONE => Fits(file'.view, file'.data)
  BY <1>3, ShapeOfView
<1>5. buffers' = buffers
  BY DEF Save
<1>6. QED  BY <1>1, <1>2, <1>4, <1>5 DEF BoundsInv

LEMMA StutterBounds ==
  ASSUME BoundsInv, UNCHANGED vars
  PROVE  BoundsInv'
<1>1. CountsInv'
  BY NextCounts DEF BoundsInv
<1>2. buffers' = buffers /\ storages' = storages /\ file' = file
  BY DEF vars
<1>3. QED  BY <1>1, <1>2 DEF BoundsInv, ViewOf, DataOf

LEMMA NextBounds == BoundsInv /\ [Next]_vars => BoundsInv'
<1> SUFFICES ASSUME BoundsInv, [Next]_vars
             PROVE  BoundsInv'
  OBVIOUS
<1>1. CASE UNCHANGED vars
  BY <1>1, StutterBounds
<1>2. ASSUME NEW x \in DOMAIN buffers,
             \/ Destroy(x)
             \/ \E y \in DOMAIN buffers : AddTo(x, y)
      PROVE  BoundsInv'
  BY <1>2, DestroyBounds, AddToBounds
<1>3. ASSUME \/ Load
             \/ \E shape \in NewShapes : Create(shape)
      PROVE  BoundsInv'
  BY <1>3, LoadBounds, CreateBounds
<1>4. ASSUME NEW x \in DOMAIN buffers,
             Save(x) \/ As(x) \/ Contiguous(x) \/ Negation(x)
      PROVE  BoundsInv'
  BY <1>4, SaveBounds, AsBounds, ContiguousBounds, NegationBounds
<1>5. ASSUME NEW x \in DOMAIN buffers,
             \/ \E shape \in Targets : Expand(x, shape) \/ Reshape(x, shape)
             \/ \E arguments \in SliceArguments(ShapeOf(x)) : Slice(x, arguments)
             \/ \E arguments \in PaddingArguments(Rank(ViewOf(x))) : Padding(x, arguments)
             \/ \E axes \in AxesOf[Rank(ViewOf(x))] :
                   Permute(x, axes) \/ \E keep \in BOOLEAN : Summation(x, axes, keep)
      PROVE  BoundsInv'
  BY <1>5, ExpandBounds, ReshapeBounds, SliceBounds, PaddingBounds, PermuteBounds, SummationBounds
<1>6. ASSUME NEW x \in DOMAIN buffers, NEW y \in DOMAIN buffers,
             \/ Addition(x, y)
             \/ MatrixMultiplication(x, y)
             \/ \E w \in DOMAIN buffers : Where(w, x, y)
      PROVE  BoundsInv'
  BY <1>6, AdditionBounds, MatrixMultiplicationBounds, WhereBounds
<1>7. QED
  BY <1>1, <1>2, <1>3, <1>4, <1>5, <1>6 DEF Next

-----------------------------------------------------------------------------

(* A live buffer has a storage, and its view a stride for every dimension and *)
(* at most MAX_RANK of them, whatever the shapes, axes, slices and paddings a  *)
(* program gives to the operations of buffer.c. (buffer_create, view_create)   *)
THEOREM BuffersTyped == Spec => []TypeOK
<1>1. ASSUME BoundsInv, NEW s \in DOMAIN storages
      PROVE  storages[s].reference_count \in Nat
  <2>1. Cardinality(Holders(s)) \in Nat
    BY <1>1, HoldersFinite DEF BoundsInv, CountsInv
  <2>2. QED  BY <1>1, <2>1 DEF BoundsInv, CountsInv, CountsMatch
<1>2. BoundsInv => TypeOK
  BY <1>1 DEF BoundsInv, CountsInv, CountsMatch, Numbered, Fits, TypeOK
<1>3. QED  BY <1>2, InitBounds, NextBounds, PTL DEF Spec

(* The last element of a live buffer is in its storage, also after a slice of  *)
(* a slice, a reduction of repeated dimensions, or a load. (view_slice,        *)
(* view_reduce, view_physical_size, buffer_load)                               *)
THEOREM ViewsInBounds == Spec => []InBounds
<1>1. BoundsInv => InBounds
  BY DEF BoundsInv, Fits, InBounds, LastPlace, LastIndex, ShapeOf, ViewOf
<1>2. QED  BY <1>1, InitBounds, NextBounds, PTL DEF Spec

(* Whatever a loop of buffer.c reads or writes. *)
EveryElementInBounds ==
  \A b \in DOMAIN buffers :
    \A index : (\A n \in DOMAIN ShapeOf(b) : index[n] \in 0..(ShapeOf(b)[n] - 1))
                 => Address(ViewOf(b), index) \in DOMAIN DataOf(b)

(* So is every other element: a loop over the coordinates of a live buffer     *)
(* reads and writes nothing outside its storage. (the loops of buffer.c)        *)
THEOREM ElementsInBounds == Spec => []EveryElementInBounds
<1>1. ASSUME BoundsInv, NEW b \in DOMAIN buffers, NEW index,
             \A n \in DOMAIN ShapeOf(b) : index[n] \in 0..(ShapeOf(b)[n] - 1)
      PROVE  Address(ViewOf(b), index) \in DOMAIN DataOf(b)
  <2> DEFINE v == ViewOf(b)
  <2>1. IsView(v) /\ v.shape = ShapeOf(b) /\ Fits(v, DataOf(b))
    BY <1>1, ShapeOfView
  <2>2. Address(v, index) \in 0..LastPlace(v)
    <3> HIDE DEF v
    <3>1. \A n \in DOMAIN v.shape : index[n] \in 0..(v.shape[n] - 1)
      BY <1>1, <2>1
    <3>2. QED  BY <2>1, <3>1, EveryAddress
  <2> HIDE DEF v
  <2>3. PICK size \in Nat : DOMAIN DataOf(b) = 0..(size - 1)
    BY <2>1 DEF Fits, IsMemory
  <2>4. LastPlace(v) \in 0..(size - 1)
    BY <2>1, <2>3 DEF Fits
  <2>5. Address(v, index) \in 0..(size - 1)
    BY <2>2, <2>4
  <2>6. QED  BY <2>3, <2>5 DEF v
<1>2. BoundsInv => EveryElementInBounds
  BY <1>1 DEF EveryElementInBounds
<1>3. QED  BY <1>2, InitBounds, NextBounds, PTL DEF Spec
=============================================================================
