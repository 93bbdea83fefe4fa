----------------------------- MODULE FoldFacts ------------------------------
(***************************************************************************)
(* Facts about the sums and folds over finite sets that the definitions of  *)
(* the other modules take from the community modules, and the least         *)
(* counterexample argument that stands for induction.                       *)
(*                                                                         *)
(* A fold takes out one element of its set after the other, in the order of *)
(* a CHOOSE.  That it is a function at all is FoldExists; that it does not  *)
(* depend on the set the recursion began with is FoldUnique; that the order *)
(* does not matter to a sum is SumRemove.                                   *)
(***************************************************************************)
EXTENDS Functions, FiniteSetTheorems, WellFoundedInduction, TLAPS

(* Every non-empty set of natural numbers has a least element: what induction *)
(* amounts to here.                                                           *)
LEMMA LeastElement ==
  ASSUME NEW T, T \subseteq Nat, T # {}
  PROVE  \E n \in T : \A m \in T : n <= m
<1> DEFINE Less == {ij \in Nat \X Nat : ij[1] < ij[2]}
<1>1. IsWellFoundedOn(Less, Nat)
  BY NatLessThanWellFounded DEF OpToRel
<1>2. \E n \in T : \A m \in T : <<m, n>> \notin Less
  <2> HIDE DEF Less
  <2> QED BY <1>1, WFMin
<1>3. \A m, n \in Nat : <<m, n>> \notin Less => n <= m
  OBVIOUS
<1> HIDE DEF Less
<1>4. QED  BY <1>2, <1>3

(* Every non-empty collection of finite sets has one that contains no other   *)
(* with fewer elements.                                                       *)
LEMMA SmallestSet ==
  ASSUME NEW C, C # {}, \A s \in C : IsFiniteSet(s)
  PROVE  \E s \in C : \A x \in s : s \ {x} \notin C
<1> DEFINE Sizes == {Cardinality(s) : s \in C}
<1>1. \A s \in C : Cardinality(s) \in Nat
  BY FS_CardinalityType
<1>2. Sizes \subseteq Nat /\ Sizes # {}
  BY <1>1
<1>3. PICK n \in Sizes : \A m \in Sizes : n <= m
  <2> HIDE DEF Sizes
  <2> QED  BY <1>2, LeastElement
<1>4. PICK s \in C : n = Cardinality(s)
  BY <1>3
<1>5. \A x \in s : Cardinality(s \ {x}) = Cardinality(s) - 1
  BY <1>4, FS_RemoveElement
<1>6. \A x \in s : s \ {x} \in C => Cardinality(s) <= Cardinality(s \ {x})
  BY <1>3, <1>4
<1>7. QED  BY <1>1, <1>4, <1>5, <1>6

(* What holds of a finite set whenever it holds of the sets with one element  *)
(* less holds of every finite set.                                            *)
Progresses(Good, S) ==
  \A s \in SUBSET S : (\A x \in s : s \ {x} \in Good) => s \in Good

LEMMA SetInduction ==
  ASSUME NEW S, IsFiniteSet(S), NEW Good, Progresses(Good, S)
  PROVE  S \in Good
<1> DEFINE Bad == {s \in SUBSET S : s \notin Good}
<1> SUFFICES ASSUME Bad # {}
             PROVE  FALSE
  OBVIOUS
<1>1. PICK s \in Bad : \A x \in s : s \ {x} \notin Bad
  <2>1. \A t \in Bad : IsFiniteSet(t)
    BY FS_Subset
  <2> HIDE DEF Bad
  <2> QED  BY <2>1, SmallestSet
<1>2. QED  BY <1>1 DEF Progresses

-----------------------------------------------------------------------------
(* Folds *)

(* The element a fold takes out of the set s. *)
Taken(s) == CHOOSE x \in s : TRUE

LEMMA TakenIn == ASSUME NEW s, s # {} PROVE Taken(s) \in s
  BY DEF Taken

(* What a fold makes of s when it has made g of the smaller sets, and adds    *)
(* each element x to what it has by the function op.                          *)
FoldStep(op, base, g, s) ==
  IF s = {} THEN base ELSE op[<<Taken(s), g[s \ {Taken(s)}]>>]

(* op adds an element of S to a value in V. *)
Adds(op, S, V) == \A x \in S, v \in V : op[<<x, v>>] \in V

IsFold(g, op, base, S, V) ==
  g \in [SUBSET S -> V] /\ \A s \in SUBSET S : g[s] = FoldStep(op, base, g, s)

(* The subsets of S with at most n elements. *)
Small(S, n) == {s \in SUBSET S : Cardinality(s) <= n}

(* Over a finite set a fold is a function, by the size of the subsets. *)
LEMMA FoldExists ==
  ASSUME NEW S, IsFiniteSet(S), NEW V, NEW base \in V, NEW op, Adds(op, S, V)
  PROVE  \E g : IsFold(g, op, base, S, V)
<1> USE DEF Adds
<1> DEFINE Folds(g, n) == /\ g \in [Small(S, n) -> V]
                          /\ \A s \in Small(S, n) : g[s] = FoldStep(op, base, g, s)
           Missing == {n \in Nat : ~\E g : Folds(g, n)}
<1>1. \A s \in SUBSET S : IsFiniteSet(s) /\ Cardinality(s) \in Nat
  BY FS_Subset, FS_CardinalityType
<1>2. \A s \in SUBSET S : s # {} => /\ s \ {Taken(s)} \in SUBSET S
                                    /\ Cardinality(s \ {Taken(s)}) = Cardinality(s) - 1
                                    /\ Taken(s) \in S
  BY <1>1, TakenIn, FS_RemoveElement
<1>3. \E g : Folds(g, 0)
  <2>1. \A s \in Small(S, 0) : s = {}
    BY <1>1, FS_EmptySet DEF Small
  <2> DEFINE g == [s \in Small(S, 0) |-> base]
  <2>2. Folds(g, 0)
    BY <2>1 DEF FoldStep
  <2>3. QED  BY <2>2
<1>4. ASSUME NEW n \in Nat, NEW h, Folds(h, n)
      PROVE  \E g : Folds(g, n + 1)
  <2> DEFINE D == Small(S, n + 1)
             g == [s \in D |-> FoldStep(op, base, h, s)]
  <2>1. \A s \in D : s # {} => s \ {Taken(s)} \in Small(S, n)
    <3> SUFFICES ASSUME NEW s \in SUBSET S, Cardinality(s) <= n + 1, s # {}
                 PROVE  s \ {Taken(s)} \in Small(S, n)
      BY DEF Small
    <3>1. s \ {Taken(s)} \in SUBSET S /\ Cardinality(s \ {Taken(s)}) = Cardinality(s) - 1
      BY <1>2
    <3>2. Cardinality(s) - 1 <= n
      BY <1>1
    <3>3. QED  BY <3>1, <3>2 DEF Small
  <2>2. \A s \in D : FoldStep(op, base, h, s) \in V
    BY <1>2, <1>4, <2>1 DEF FoldStep, Small
  <2>3. g \in [D -> V]
    BY <2>2
  <2>4. \A s \in Small(S, n) : s \in D /\ g[s] = h[s]
    BY <1>1, <1>4 DEF Small
  <2>5. \A s \in D : g[s] = FoldStep(op, base, g, s)
    <3> SUFFICES ASSUME NEW s \in D
                 PROVE  FoldStep(op, base, h, s) = FoldStep(op, base, g, s)
      OBVIOUS
    <3>1. CASE s = {}
      BY <3>1 DEF FoldStep
    <3>2. CASE s # {}
      <4>1. g[s \ {Taken(s)}] = h[s \ {Taken(s)}]
        BY <2>1, <2>4, <3>2
      <4> HIDE DEF g
      <4>2. QED  BY <4>1 DEF FoldStep
    <3>3. QED  BY <3>1, <3>2
  <2>6. Folds(g, n + 1)
    BY <2>3, <2>5
  <2>7. QED  BY <2>6
<1>5. \A n \in Nat : \E g : Folds(g, n)
  <2> HIDE DEF Folds
  <2> SUFFICES ASSUME Missing # {}
               PROVE  FALSE
    OBVIOUS
  <2>1. PICK n \in Missing : \A m \in Missing : n <= m
    <3> Missing \subseteq Nat OBVIOUS
    <3> HIDE DEF Missing
    <3> QED  BY LeastElement
  <2>2. n # 0
    BY <1>3, <2>1
  <2>3. n - 1 \in Nat /\ n = (n - 1) + 1 /\ ~(n <= n - 1)
    BY <2>1, <2>2
  <2>4. \E h : Folds(h, n - 1)
    BY <2>1, <2>3
  <2>5. QED  BY <1>4, <2>1, <2>3, <2>4
<1>6. PICK g : Folds(g, Cardinality(S))
  BY <1>1, <1>5
<1>7. Small(S, Cardinality(S)) = SUBSET S
  BY FS_Subset, FS_CardinalityType DEF Small
<1>8. QED  BY <1>6, <1>7 DEF IsFold

(* Two folds agree on a set if what they make of each of its subsets is       *)
(* determined by what they made of the smaller one.                           *)
FoldAlike(g, h, R) ==
  /\ g[{}] = h[{}]
  /\ \A s \in SUBSET R : s # {} /\ g[s \ {Taken(s)}] = h[s \ {Taken(s)}] => g[s] = h[s]

LEMMA FoldUnique ==
  ASSUME NEW g, NEW h, NEW R, IsFiniteSet(R), FoldAlike(g, h, R)
  PROVE  g[R] = h[R]
<1> USE DEF FoldAlike
<1> DEFINE Differ == {s \in SUBSET R : g[s] # h[s]}
<1> SUFFICES ASSUME Differ # {}
             PROVE  FALSE
  OBVIOUS
<1>1. PICK s \in Differ : \A x \in s : s \ {x} \notin Differ
  <2>1. \A s \in Differ : IsFiniteSet(s)
    BY FS_Subset
  <2> HIDE DEF Differ
  <2> QED  BY <2>1, SmallestSet
<1>2. CASE s = {}
  BY <1>1, <1>2
<1>3. CASE s # {}
  <2>1. Taken(s) \in s
    BY <1>3, TakenIn
  <2>2. g[s \ {Taken(s)}] = h[s \ {Taken(s)}]
    BY <1>1, <2>1
  <2>3. QED  BY <1>1, <1>3, <2>2
<1>4. QED  BY <1>2, <1>3

-----------------------------------------------------------------------------
(* Sums *)

(* The recursion that defines a sum, as the community modules write it. *)
SumStep(f, g, s) == IF s = {} THEN 0 ELSE f[Taken(s)] + g[s \ {Taken(s)}]

SumIter(f, S) == CHOOSE g : g = [s \in SUBSET S |-> SumStep(f, g, s)]

LEMMA SumIs ==
  ASSUME NEW f, NEW S
  PROVE  SumFunctionOnSet(f, S) = SumIter(f, S)[S]
BY DEF SumFunctionOnSet, FoldFunctionOnSet, MapThenFoldSet, SumIter, SumStep, Taken

LEMMA SumIterates ==
  ASSUME NEW f, NEW S, IsFiniteSet(S), \A x \in S : f[x] \in Int
  PROVE  /\ \A s \in SUBSET S : SumIter(f, S)[s] = SumStep(f, SumIter(f, S), s)
         /\ \A s \in SUBSET S : SumIter(f, S)[s] \in Int
<1> DEFINE op == [xv \in S \X Int |-> f[xv[1]] + xv[2]]
<1>1. op \in [S \X Int -> Int] /\ \A x \in S, v \in Int : op[<<x, v>>] = f[x] + v
  OBVIOUS
<1>2. \A s \in SUBSET S : s # {} => Taken(s) \in S /\ s \ {Taken(s)} \in SUBSET S
  BY TakenIn
<1>3. \A g \in [SUBSET S -> Int], s \in SUBSET S :
        FoldStep(op, 0, g, s) = SumStep(f, g, s) /\ SumStep(f, g, s) \in Int
  <2> HIDE DEF op
  <2> SUFFICES ASSUME NEW g \in [SUBSET S -> Int], NEW s \in SUBSET S
               PROVE  FoldStep(op, 0, g, s) = SumStep(f, g, s) /\ SumStep(f, g, s) \in Int
    OBVIOUS
  <2>1. CASE s = {}
    BY <2>1 DEF FoldStep, SumStep
  <2>2. CASE s # {}
    <3>1. g[s \ {Taken(s)}] \in Int /\ Taken(s) \in S
      BY <1>2, <2>2
    <3>2. op[<<Taken(s), g[s \ {Taken(s)}]>>] = f[Taken(s)] + g[s \ {Taken(s)}]
      BY <1>1, <3>1
    <3>3. QED  BY <2>2, <3>1, <3>2 DEF FoldStep, SumStep
  <2>3. QED  BY <2>1, <2>2
<1> HIDE DEF op
<1>4. PICK g \in [SUBSET S -> Int] : \A s \in SUBSET S : g[s] = FoldStep(op, 0, g, s)
  <2>1. 0 \in Int /\ Adds(op, S, Int)
    BY <1>1 DEF Adds
  <2>2. \E g : IsFold(g, op, 0, S, Int)
    BY <2>1, FoldExists
  <2>3. QED  BY <2>2 DEF IsFold
<1>5. g = [s \in SUBSET S |-> SumStep(f, g, s)]
  BY <1>3, <1>4
<1>6. SumIter(f, S) = [s \in SUBSET S |-> SumStep(f, SumIter(f, S), s)]
  BY <1>5 DEF SumIter
<1>7. SumIter(f, S) = g
  <2>1. \A s \in SUBSET S : SumIter(f, S)[s] = SumStep(f, SumIter(f, S), s)
                            /\ g[s] = SumStep(f, g, s)
    BY <1>5, <1>6
  <2>2. ASSUME NEW R \in SUBSET S
        PROVE  SumIter(f, S)[R] = g[R]
    <3>1. IsFiniteSet(R)
      BY FS_Subset
    <3>2. FoldAlike(SumIter(f, S), g, R)
      BY <2>1 DEF SumStep, FoldAlike
    <3>3. QED  BY <3>1, <3>2, FoldUnique
  <2>3. QED  BY <1>5, <1>6, <2>2
<1>8. QED  BY <1>6, <1>7

LEMMA SumType ==
  ASSUME NEW f, NEW S, IsFiniteSet(S), \A x \in S : f[x] \in Int
  PROVE  SumFunctionOnSet(f, S) \in Int
<1>1. S \in SUBSET S
  OBVIOUS
<1>2. SumIter(f, S)[S] \in Int
  BY <1>1, SumIterates
<1>3. QED  BY <1>2, SumIs

LEMMA SumEmpty == ASSUME NEW f PROVE SumFunctionOnSet(f, {}) = 0
<1>1. \A s \in SUBSET {} : SumIter(f, {})[s] = SumStep(f, SumIter(f, {}), s)
  BY SumIterates, FS_EmptySet
<1>2. QED  BY <1>1, SumIs DEF SumStep

(* Within a larger set the recursion comes to the same sum. *)
LEMMA SumWithin ==
  ASSUME NEW f, NEW S, IsFiniteSet(S), \A x \in S : f[x] \in Int, NEW T \in SUBSET S
  PROVE  SumIter(f, S)[T] = SumFunctionOnSet(f, T)
<1>1. IsFiniteSet(T) /\ \A x \in T : f[x] \in Int
  BY FS_Subset
<1> DEFINE g == SumIter(f, S)
           h == SumIter(f, T)
<1>2. \A s \in SUBSET T : g[s] = SumStep(f, g, s) /\ h[s] = SumStep(f, h, s)
  BY <1>1, SumIterates
<1>3. g[{}] = h[{}]
  BY <1>2 DEF SumStep
<1>4. \A s \in SUBSET T : s # {} /\ g[s \ {Taken(s)}] = h[s \ {Taken(s)}] => g[s] = h[s]
  <2> HIDE DEF g, h
  <2> QED  BY <1>2 DEF SumStep
<1>5. g[T] = h[T]
  <2> HIDE DEF g, h
  <2>1. IsFiniteSet(T)
    BY <1>1
  <2>2. FoldAlike(g, h, T)
    BY <1>3, <1>4 DEF FoldAlike
  <2> QED  BY <2>1, <2>2, FoldUnique
<1>6. QED  BY <1>5, SumIs

LEMMA SumTaken ==
  ASSUME NEW f, NEW S, IsFiniteSet(S), \A x \in S : f[x] \in Int, S # {}
  PROVE  SumFunctionOnSet(f, S) = f[Taken(S)] + SumFunctionOnSet(f, S \ {Taken(S)})
<1>1. SumIter(f, S)[S] = SumStep(f, SumIter(f, S), S)
  <2> S \in SUBSET S OBVIOUS
  <2> QED  BY SumIterates
<1>2. SumIter(f, S)[S] = f[Taken(S)] + SumIter(f, S)[S \ {Taken(S)}]
  BY <1>1 DEF SumStep
<1>3. QED  BY <1>2, SumIs, SumWithin

(* The order of a sum does not matter: any element can be taken out first. *)
LEMMA SumRemove ==
  ASSUME NEW f, NEW S, IsFiniteSet(S), \A x \in S : f[x] \in Int, NEW x \in S
  PROVE  SumFunctionOnSet(f, S) = f[x] + SumFunctionOnSet(f, S \ {x})
<1> DEFINE Sum(s) == SumFunctionOnSet(f, s)
           Splits(s) == \A y \in s : Sum(s) = f[y] + Sum(s \ {y})
           Bad == {s \in SUBSET S : ~Splits(s)}
<1>1. \A s \in SUBSET S : IsFiniteSet(s) /\ \A y \in s : f[y] \in Int
  BY FS_Subset
<1>2. \A s \in SUBSET S : Sum(s) \in Int
  BY <1>1, SumType
<1>3. \A s \in SUBSET S : s # {} => Sum(s) = f[Taken(s)] + Sum(s \ {Taken(s)})
  BY <1>1, SumTaken
<1> SUFFICES ASSUME Bad # {}
             PROVE  FALSE
  OBVIOUS
<1> HIDE DEF Sum
<1>4. PICK s \in Bad : \A y \in s : s \ {y} \notin Bad
  <2>1. \A t \in Bad : IsFiniteSet(t)
    BY <1>1
  <2> HIDE DEF Bad
  <2> QED  BY <2>1, SmallestSet
<1>5. PICK y \in s : Sum(s) # f[y] + Sum(s \ {y})
  BY <1>4
<1> DEFINE t == Taken(s)
<1>6. t \in s /\ s \in SUBSET S
  BY <1>4, <1>5, TakenIn
<1> HIDE DEF t
<1>7. Sum(s) = f[t] + Sum(s \ {t}) /\ t # y
  BY <1>3, <1>5, <1>6 DEF t
<1>8. Sum(s \ {t}) = f[y] + Sum((s \ {t}) \ {y})
  BY <1>4, <1>5, <1>6, <1>7
<1>9. Sum(s \ {y}) = f[t] + Sum((s \ {y}) \ {t})
  BY <1>4, <1>5, <1>6, <1>7
<1>10. (s \ {t}) \ {y} = (s \ {y}) \ {t}
  OBVIOUS
<1>11. Sum((s \ {t}) \ {y}) \in Int /\ f[t] \in Int /\ f[y] \in Int
  BY <1>1, <1>2, <1>5, <1>6
<1>12. Sum((s \ {y}) \ {t}) = Sum((s \ {t}) \ {y})
  BY <1>10
<1> HIDE DEF Bad
<1>13. QED  BY <1>5, <1>7, <1>8, <1>9, <1>11, <1>12

LEMMA SumAdd ==
  ASSUME NEW f, NEW S, IsFiniteSet(S), NEW x, x \notin S,
         \A y \in S \cup {x} : f[y] \in Int
  PROVE  SumFunctionOnSet(f, S \cup {x}) = f[x] + SumFunctionOnSet(f, S)
<1>1. IsFiniteSet(S \cup {x}) /\ (S \cup {x}) \ {x} = S
  BY FS_AddElement
<1>2. QED  BY <1>1, SumRemove

(* Sums of the same terms are equal. *)
LEMMA SumEqual ==
  ASSUME NEW f, NEW g, NEW S, IsFiniteSet(S),
         \A x \in S : f[x] \in Int /\ g[x] = f[x]
  PROVE  SumFunctionOnSet(f, S) = SumFunctionOnSet(g, S)
<1> DEFINE Bad == {s \in SUBSET S : SumFunctionOnSet(f, s) # SumFunctionOnSet(g, s)}
<1> SUFFICES ASSUME Bad # {}
             PROVE  FALSE
  OBVIOUS
<1>1. \A s \in SUBSET S : IsFiniteSet(s) /\ \A x \in s : f[x] \in Int /\ g[x] \in Int
  BY FS_Subset
<1>2. PICK s \in Bad : \A x \in s : s \ {x} \notin Bad
  <2>1. \A t \in Bad : IsFiniteSet(t)
    BY <1>1
  <2> HIDE DEF Bad
  <2> QED  BY <2>1, SmallestSet
<1>3. s # {}
  BY <1>2, SumEmpty
<1>4. Taken(s) \in s
  BY <1>3, TakenIn
<1>5. SumFunctionOnSet(f, s \ {Taken(s)}) = SumFunctionOnSet(g, s \ {Taken(s)})
  BY <1>2, <1>4
<1>6. /\ SumFunctionOnSet(f, s) = f[Taken(s)] + SumFunctionOnSet(f, s \ {Taken(s)})
      /\ SumFunctionOnSet(g, s) = g[Taken(s)] + SumFunctionOnSet(g, s \ {Taken(s)})
  BY <1>1, <1>2, <1>3, SumTaken
<1>7. f[Taken(s)] = g[Taken(s)]
  BY <1>2, <1>4
<1>8. QED  BY <1>2, <1>5, <1>6, <1>7

LEMMA SumNat ==
  ASSUME NEW f, NEW S, IsFiniteSet(S), \A x \in S : f[x] \in Nat
  PROVE  SumFunctionOnSet(f, S) \in Nat
<1> DEFINE Bad == {s \in SUBSET S : SumFunctionOnSet(f, s) \notin Nat}
<1> SUFFICES ASSUME Bad # {}
             PROVE  FALSE
  OBVIOUS
<1>1. \A s \in SUBSET S : IsFiniteSet(s) /\ \A x \in s : f[x] \in Int
  BY FS_Subset
<1>2. PICK s \in Bad : \A x \in s : s \ {x} \notin Bad
  <2>1. \A t \in Bad : IsFiniteSet(t)
    BY <1>1
  <2> HIDE DEF Bad
  <2> QED  BY <2>1, SmallestSet
<1>3. s # {}
  BY <1>2, SumEmpty
<1>4. Taken(s) \in s
  BY <1>3, TakenIn
<1>5. SumFunctionOnSet(f, s \ {Taken(s)}) \in Nat
  BY <1>2, <1>4
<1>6. SumFunctionOnSet(f, s) = f[Taken(s)] + SumFunctionOnSet(f, s \ {Taken(s)})
  BY <1>1, <1>2, <1>3, SumTaken
<1>7. f[Taken(s)] \in Nat
  BY <1>2, <1>4
<1>8. QED  BY <1>2, <1>5, <1>6, <1>7

(* A sum of terms that are at most as large is at most as large. *)
LEMMA SumAtMost ==
  ASSUME NEW f, NEW g, NEW S, IsFiniteSet(S),
         \A x \in S : f[x] \in Int /\ g[x] \in Int /\ f[x] <= g[x]
  PROVE  SumFunctionOnSet(f, S) <= SumFunctionOnSet(g, S)
<1> DEFINE Good == {s \in SUBSET S : SumFunctionOnSet(f, s) <= SumFunctionOnSet(g, s)}
<1>1. ASSUME NEW s \in SUBSET S, \A x \in s : s \ {x} \in Good
      PROVE  s \in Good
  <2>1. IsFiniteSet(s) /\ IsFiniteSet(s \ {Taken(s)})
    BY FS_Subset
  <2>2. CASE s = {}
    BY <2>2, SumEmpty
  <2>3. CASE s # {}
    <3>1. Taken(s) \in s
      BY <2>3, TakenIn
    <3>2. SumFunctionOnSet(f, s \ {Taken(s)}) <= SumFunctionOnSet(g, s \ {Taken(s)})
      BY <1>1, <3>1
    <3>3. /\ SumFunctionOnSet(f, s) = f[Taken(s)] + SumFunctionOnSet(f, s \ {Taken(s)})
          /\ SumFunctionOnSet(g, s) = g[Taken(s)] + SumFunctionOnSet(g, s \ {Taken(s)})
      BY <2>1, <2>3, SumTaken
    <3>4. f[Taken(s)] \in Int /\ g[Taken(s)] \in Int /\ f[Taken(s)] <= g[Taken(s)]
      BY <3>1
    <3>5. /\ SumFunctionOnSet(f, s \ {Taken(s)}) \in Int
          /\ SumFunctionOnSet(g, s \ {Taken(s)}) \in Int
      BY <2>1, SumType
    <3>6. QED  BY <3>2, <3>3, <3>4, <3>5
  <2>4. QED  BY <2>2, <2>3
<1> HIDE DEF Good
<1>2. Progresses(Good, S)
  BY <1>1 DEF Progresses
<1>3. S \in Good
  BY <1>2, SetInduction
<1>4. QED  BY <1>3 DEF Good

(* A sum of sums. *)
LEMMA SumOfTwo ==
  ASSUME NEW f, NEW g, NEW h, NEW S, IsFiniteSet(S),
         \A x \in S : f[x] \in Int /\ g[x] \in Int /\ h[x] = f[x] + g[x]
  PROVE  SumFunctionOnSet(h, S) = SumFunctionOnSet(f, S) + SumFunctionOnSet(g, S)
<1> DEFINE Good == {s \in SUBSET S :
             SumFunctionOnSet(h, s) = SumFunctionOnSet(f, s) + SumFunctionOnSet(g, s)}
<1>1. ASSUME NEW s \in SUBSET S, \A x \in s : s \ {x} \in Good
      PROVE  s \in Good
  <2>1. IsFiniteSet(s) /\ IsFiniteSet(s \ {Taken(s)})
    BY FS_Subset
  <2>2. CASE s = {}
    BY <2>2, SumEmpty
  <2>3. CASE s # {}
    <3> DEFINE x == Taken(s)
               t == s \ {x}
    <3>1. x \in s /\ t \in Good
      BY <1>1, <2>3, TakenIn
    <3>2. \A y \in s : f[y] \in Int /\ g[y] \in Int /\ h[y] \in Int
      OBVIOUS
    <3>3. /\ SumFunctionOnSet(f, s) = f[x] + SumFunctionOnSet(f, t)
          /\ SumFunctionOnSet(g, s) = g[x] + SumFunctionOnSet(g, t)
          /\ SumFunctionOnSet(h, s) = h[x] + SumFunctionOnSet(h, t)
      BY <2>1, <2>3, <3>2, SumTaken
    <3>4. SumFunctionOnSet(f, t) \in Int /\ SumFunctionOnSet(g, t) \in Int
      BY <2>1, <3>2, SumType
    <3>5. f[x] \in Int /\ g[x] \in Int /\ h[x] = f[x] + g[x]
      BY <3>1
    <3>6. SumFunctionOnSet(h, t) = SumFunctionOnSet(f, t) + SumFunctionOnSet(g, t)
      BY <3>1
    <3> HIDE DEF x, t
    <3>7. SumFunctionOnSet(h, s) = SumFunctionOnSet(f, s) + SumFunctionOnSet(g, s)
      BY <3>3, <3>4, <3>5, <3>6
    <3>8. QED  BY <3>7
  <2>4. QED  BY <2>2, <2>3
<1> HIDE DEF Good
<1>2. Progresses(Good, S)
  BY <1>1 DEF Progresses
<1>3. S \in Good
  BY <1>2, SetInduction
<1>4. QED  BY <1>3 DEF Good

(* Terms that are 0 can be left out. *)
LEMMA SumSkip ==
  ASSUME NEW f, NEW S, IsFiniteSet(S), NEW T \in SUBSET S,
         \A x \in S : f[x] \in Int, \A x \in S \ T : f[x] = 0
  PROVE  SumFunctionOnSet(f, S) = SumFunctionOnSet(f, T)
<1> DEFINE Good == {s \in SUBSET S : SumFunctionOnSet(f, s) = SumFunctionOnSet(f, s \cap T)}
<1>1. ASSUME NEW s \in SUBSET S, \A x \in s : s \ {x} \in Good
      PROVE  s \in Good
  <2>1. IsFiniteSet(s) /\ IsFiniteSet(s \cap T)
    BY FS_Subset
  <2>2. CASE s \subseteq T
    <3> s \cap T = s  BY <2>2
    <3> QED  OBVIOUS
  <2>3. CASE \E x \in s : x \notin T
    <3>1. PICK x \in s : x \notin T
      BY <2>3
    <3>2. SumFunctionOnSet(f, s) = f[x] + SumFunctionOnSet(f, s \ {x})
      BY <2>1, SumRemove
    <3>3. f[x] = 0 /\ (s \ {x}) \cap T = s \cap T
      BY <3>1
    <3>4. SumFunctionOnSet(f, s \ {x}) = SumFunctionOnSet(f, s \cap T)
      BY <1>1, <3>3
    <3>5. SumFunctionOnSet(f, s \cap T) \in Int
      BY <2>1, SumType
    <3>6. QED  BY <3>2, <3>3, <3>4, <3>5
  <2>4. QED  BY <2>2, <2>3
<1> HIDE DEF Good
<1>2. Progresses(Good, S)
  BY <1>1 DEF Progresses
<1>3. S \in Good
  BY <1>2, SetInduction
<1>4. S \cap T = T
  OBVIOUS
<1>5. QED  BY <1>3, <1>4 DEF Good

(* The sum over two sets that have nothing in common. *)
LEMMA SumUnion ==
  ASSUME NEW f, NEW S, NEW T, IsFiniteSet(S), IsFiniteSet(T), S \cap T = {},
         \A x \in S \cup T : f[x] \in Int
  PROVE  SumFunctionOnSet(f, S \cup T) = SumFunctionOnSet(f, S) + SumFunctionOnSet(f, T)
<1> DEFINE U == S \cup T
           g == [x \in U |-> IF x \in S THEN f[x] ELSE 0]
           h == [x \in U |-> IF x \in S THEN 0 ELSE f[x]]
<1>1. IsFiniteSet(U)
  BY FS_Union
<1>2. \A x \in U : g[x] \in Int /\ h[x] \in Int /\ f[x] = g[x] + h[x]
  OBVIOUS
<1>3. /\ \A x \in S : x \in U /\ g[x] = f[x]
      /\ \A x \in T : x \in U /\ h[x] = f[x]
      /\ \A x \in U \ S : g[x] = 0
      /\ \A x \in U \ T : h[x] = 0
  OBVIOUS
<1>4. S \in SUBSET U /\ T \in SUBSET U
  OBVIOUS
<1> HIDE DEF U, g, h
<1>5. SumFunctionOnSet(f, U) = SumFunctionOnSet(g, U) + SumFunctionOnSet(h, U)
  BY <1>1, <1>2, SumOfTwo
<1>6. SumFunctionOnSet(g, U) = SumFunctionOnSet(g, S) /\ SumFunctionOnSet(h, U) = SumFunctionOnSet(h, T)
  BY <1>1, <1>2, <1>3, <1>4, SumSkip
<1>7. SumFunctionOnSet(f, S) = SumFunctionOnSet(g, S) /\ SumFunctionOnSet(f, T) = SumFunctionOnSet(h, T)
  BY <1>3, SumEqual
<1>8. QED  BY <1>5, <1>6, <1>7 DEF U

(* The elements of S, each in the part of the one index that h gives it. *)
PartAt(S, h, n) == {x \in S : h[x] = n}

(* A sum in parts. *)
LEMMA SumParts ==
  ASSUME NEW f, NEW S, IsFiniteSet(S), \A x \in S : f[x] \in Int, NEW h,
         NEW N, IsFiniteSet(N), \A x \in S : h[x] \in N,
         NEW g, \A n \in N : g[n] = SumFunctionOnSet(f, PartAt(S, h, n))
  PROVE  SumFunctionOnSet(f, S) = SumFunctionOnSet(g, N)
<1> DEFINE In(s) == {x \in S : h[x] \in s}
           Good == {s \in SUBSET N : SumFunctionOnSet(f, In(s)) = SumFunctionOnSet(g, s)}
<1>1. ASSUME NEW s \in SUBSET N, \A n \in s : s \ {n} \in Good
      PROVE  s \in Good
  <2>1. CASE s = {}
    <3>1. In(s) = {}
      BY <2>1
    <3>2. QED  BY <2>1, <3>1, SumEmpty
  <2>2. CASE s # {}
    <3>1. PICK n \in s : TRUE
      BY <2>2
    <3> DEFINE t == s \ {n}
    <3>2. In(s) = In(t) \cup PartAt(S, h, n) /\ In(t) \cap PartAt(S, h, n) = {}
      BY <3>1 DEF PartAt
    <3>3. IsFiniteSet(s) /\ IsFiniteSet(In(t)) /\ IsFiniteSet(PartAt(S, h, n))
      BY FS_Subset DEF PartAt
    <3>4. \A x \in In(t) \cup PartAt(S, h, n) : f[x] \in Int
      BY DEF PartAt
    <3>5. t \in Good
      BY <1>1, <3>1
    <3>6. \A m \in s : g[m] \in Int
      <4>1. ASSUME NEW m \in s PROVE g[m] \in Int
        <5>1. PartAt(S, h, m) \subseteq S
          BY DEF PartAt
        <5>2. IsFiniteSet(PartAt(S, h, m)) /\ \A x \in PartAt(S, h, m) : f[x] \in Int
          BY <5>1, FS_Subset
        <5>3. SumFunctionOnSet(f, PartAt(S, h, m)) \in Int
          BY <5>2, SumType
        <5>4. QED  BY <5>3
      <4>2. QED  BY <4>1
    <3>7. SumFunctionOnSet(f, In(t)) = SumFunctionOnSet(g, t)
      BY <3>5
    <3> HIDE DEF In, Good
    <3>8. SumFunctionOnSet(f, In(s)) = SumFunctionOnSet(f, In(t)) + SumFunctionOnSet(f, PartAt(S, h, n))
      <4> DEFINE A == In(t)
                 B == PartAt(S, h, n)
      <4>1. /\ In(s) = A \cup B /\ A \cap B = {} /\ IsFiniteSet(A) /\ IsFiniteSet(B)
            /\ \A x \in A \cup B : f[x] \in Int
        BY <3>2, <3>3, <3>4
      <4> HIDE DEF A, B
      <4>2. SumFunctionOnSet(f, A \cup B) = SumFunctionOnSet(f, A) + SumFunctionOnSet(f, B)
        BY <4>1, SumUnion
      <4>3. QED  BY <4>1, <4>2 DEF A, B
    <3>9. SumFunctionOnSet(g, s) = g[n] + SumFunctionOnSet(g, t)
      BY <3>1, <3>3, <3>6, SumRemove
    <3>10. SumFunctionOnSet(g, t) \in Int /\ g[n] \in Int /\ g[n] = SumFunctionOnSet(f, PartAt(S, h, n))
      <4>1. IsFiniteSet(t) /\ \A m \in t : g[m] \in Int
        BY <3>3, <3>6, FS_Subset
      <4> HIDE DEF t
      <4>2. QED  BY <3>1, <3>6, <4>1, SumType
    <3> HIDE DEF t
    <3>11. QED  BY <3>7, <3>8, <3>9, <3>10 DEF Good
  <2>3. QED  BY <2>1, <2>2
<1>2. In(N) = S
  OBVIOUS
<1> HIDE DEF Good, In
<1>3. Progresses(Good, N)
  BY <1>1 DEF Progresses
<1>4. N \in Good
  BY <1>3, SetInduction
<1>5. QED  BY <1>2, <1>4 DEF Good

(* h numbers the terms of a sum anew, each once. *)
Renames(h, S) == \A x, y \in S : h[x] = h[y] => x = y

LEMMA SumImage ==
  ASSUME NEW f, NEW g, NEW h, NEW S, IsFiniteSet(S), Renames(h, S),
         \A x \in S : f[h[x]] \in Int /\ g[x] = f[h[x]]
  PROVE  SumFunctionOnSet(g, S) = SumFunctionOnSet(f, {h[x] : x \in S})
<1> DEFINE Image(s) == {h[x] : x \in s}
           Good == {s \in SUBSET S : /\ IsFiniteSet(Image(s))
                                     /\ SumFunctionOnSet(g, s) = SumFunctionOnSet(f, Image(s))}
<1>1. ASSUME NEW s \in SUBSET S, \A x \in s : s \ {x} \in Good
      PROVE  s \in Good
  <2>1. IsFiniteSet(s)
    BY FS_Subset
  <2>2. CASE s = {}
    BY <2>2, SumEmpty, FS_EmptySet
  <2>3. CASE s # {}
    <3>1. PICK x \in s : TRUE
      BY <2>3
    <3>2. Image(s) \ {h[x]} = Image(s \ {x}) /\ h[x] \in Image(s)
      BY DEF Renames
    <3>3. IsFiniteSet(Image(s))
      <4>1. IsFiniteSet(Image(s \ {x})) /\ Image(s) = Image(s \ {x}) \cup {h[x]}
        BY <1>1
      <4> HIDE DEF Image
      <4>2. IsFiniteSet(Image(s \ {x}) \cup {h[x]})
        BY <4>1, FS_AddElement
      <4>3. QED  BY <4>1, <4>2
    <3>4. SumFunctionOnSet(g, s) = g[x] + SumFunctionOnSet(g, s \ {x})
      BY <2>1, SumRemove
    <3>5. SumFunctionOnSet(f, Image(s)) = f[h[x]] + SumFunctionOnSet(f, Image(s) \ {h[x]})
      <4>1. \A y \in Image(s) : f[y] \in Int
        OBVIOUS
      <4> HIDE DEF Image
      <4>2. QED  BY <3>2, <3>3, <4>1, SumRemove
    <3>6. SumFunctionOnSet(g, s \ {x}) = SumFunctionOnSet(f, Image(s \ {x}))
      BY <1>1
    <3> HIDE DEF Image
    <3>7. QED  BY <3>2, <3>3, <3>4, <3>5, <3>6 DEF Good
  <2>4. QED  BY <2>2, <2>3
<1> HIDE DEF Good
<1>2. Progresses(Good, S)
  BY <1>1 DEF Progresses
<1>3. S \in Good
  BY <1>2, SetInduction
<1>4. QED  BY <1>3 DEF Good

-----------------------------------------------------------------------------
(* Loops *)

(* Counting up from 0. *)
CountsUp(I, N) == 0 \in I /\ \A n \in 1..N : n - 1 \in I => n \in I

LEMMA LoopInduction ==
  ASSUME NEW N \in Nat, NEW I, CountsUp(I, N)
  PROVE  \A n \in 0..N : n \in I
<1> DEFINE Bad == {n \in 0..N : n \notin I}
<1> SUFFICES ASSUME Bad # {}
             PROVE  FALSE
  OBVIOUS
<1>1. PICK n \in Bad : \A m \in Bad : n <= m
  <2> Bad \subseteq Nat OBVIOUS
  <2> HIDE DEF Bad
  <2> QED  BY LeastElement
<1>2. n # 0
  BY <1>1 DEF CountsUp
<1>3. n - 1 \in 0..N /\ n \in 1..N /\ ~(n <= n - 1)
  BY <1>1, <1>2
<1>4. n - 1 \in I
  BY <1>1, <1>3
<1>5. QED  BY <1>1, <1>3, <1>4 DEF CountsUp

(* What a loop makes of base in N turns: the turn n makes op[<<n, v>>] of v.  *)
IsLoop(g, op, base, N) ==
  g = [n \in 0..N |-> IF n = 0 THEN base ELSE op[<<n, g[n - 1]>>]]

LEMMA LoopExists ==
  ASSUME NEW N \in Nat, NEW V, NEW base \in V, NEW op, Adds(op, 1..N, V)
  PROVE  \E g \in [0..N -> V] : IsLoop(g, op, base, N)
<1> DEFINE Turn(g, n) == IF n = 0 THEN base ELSE op[<<n, g[n - 1]>>]
           Reaches(g, n) == g \in [0..n -> V] /\ \A m \in 0..n : g[m] = Turn(g, m)
           I == {n \in 0..N : \E g : Reaches(g, n)}
<1>1. 0 \in I
  <2> DEFINE g == [n \in 0..0 |-> base]
  <2>1. Reaches(g, 0)
    OBVIOUS
  <2> HIDE DEF Reaches
  <2>2. \E h : Reaches(h, 0)
    BY <2>1
  <2>3. QED  BY <2>2
<1>2. ASSUME NEW n \in 1..N, n - 1 \in I
      PROVE  n \in I
  <2>1. PICK h : Reaches(h, n - 1)
    BY <1>2
  <2> DEFINE g == [m \in 0..n |-> IF m = n THEN op[<<n, h[n - 1]>>] ELSE h[m]]
  <2>2. h[n - 1] \in V /\ op[<<n, h[n - 1]>>] \in V
    BY <2>1 DEF Adds
  <2>3. \A m \in 0..n : m = n \/ m \in 0..(n - 1)
    OBVIOUS
  <2>4. g \in [0..n -> V]
    BY <2>1, <2>2, <2>3
  <2>5. \A m \in 0..(n - 1) : g[m] = h[m] /\ m \in 0..n
    OBVIOUS
  <2>6. ASSUME NEW m \in 0..n
        PROVE  g[m] = Turn(g, m)
    <3>1. CASE m = n
      <4>1. g[n - 1] = h[n - 1] /\ g[n] = op[<<n, h[n - 1]>>] /\ n # 0
        BY <2>5
      <4> HIDE DEF g
      <4>2. QED  BY <3>1, <4>1
    <3>2. CASE m # n
      <4>1. m \in 0..(n - 1)
        BY <2>3, <3>2
      <4>2. m # 0 => m - 1 \in 0..(n - 1)
        BY <4>1
      <4>3. h[m] = Turn(h, m)
        BY <2>1, <4>1
      <4>4. g[m] = h[m] /\ (m # 0 => g[m - 1] = h[m - 1])
        BY <2>5, <4>1, <4>2
      <4> HIDE DEF g
      <4>5. QED  BY <4>3, <4>4
    <3>3. QED  BY <3>1, <3>2
  <2> HIDE DEF g
  <2>7. Reaches(g, n)
    BY <2>4, <2>6
  <2>8. QED  BY <2>7
<1>3. CountsUp(I, N)
  BY <1>1, <1>2 DEF CountsUp
<1> HIDE DEF I
<1>4. N \in I
  BY <1>3, LoopInduction
<1>5. PICK g : Reaches(g, N)
  BY <1>4 DEF I
<1>6. g = [n \in 0..N |-> Turn(g, n)]
  BY <1>5
<1>7. QED  BY <1>5, <1>6 DEF IsLoop
=============================================================================
