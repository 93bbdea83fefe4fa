------------------------- MODULE BufferArrays_proofs ------------------------
(***************************************************************************)
(* Every buffer reads as the array it stands for, for any shapes, any number *)
(* of buffers and any sequence of operations, as long as only tensors whose  *)
(* offset is 0 are sliced.                                                    *)
(*                                                                         *)
(* The invariant says of every live buffer that its array has the shape of    *)
(* its view and cells in its storage (Stands), that its elements have the      *)
(* values of these cells (ReadsAs), and of every two buffers of one storage    *)
(* that elements are the same cell if and only if they have the same address   *)
(* (CellsArePlaces).  The last part is what a write in place needs, and what   *)
(* a sum of repeated elements is stored by.                                    *)
(*                                                                         *)
(* An operation either shares its operand's cells (ShareAgrees) or allocates   *)
(* cells of its own (AllocateAgrees); there is a lemma for each, and           *)
(* BuffersAgree puts them together.                                            *)
(***************************************************************************)
EXTENDS BufferArrays, TensorBuffers_proofs

(* The array has the shape of the view, and its cells are those of a storage  *)
(* with these values.                                                          *)
Stands(a, view, s, values) ==
  /\ a.shape = view.shape
  /\ DOMAIN a.cell = AllIndices(view.shape)
  /\ \A i \in AllIndices(view.shape) : /\ a.cell[i] = <<s, a.cell[i][2]>>
                                       /\ a.cell[i][2] \in DOMAIN values
                                       /\ values[a.cell[i][2]] \in Int

CellsArePlaces(a, v, b, w) ==
  \A i \in AllIndices(v.shape), j \in AllIndices(w.shape) :
    a.cell[i] = b.cell[j] <=> Address(v, i) = Address(w, j)

ReadsAs(view, data, a, values) ==
  \A i \in AllIndices(view.shape) : data[Address(view, i)] = values[a.cell[i][2]]

FileMatches ==
  /\ \E s : Stands(saved.array, file.view, s, saved.value)
  /\ CellsArePlaces(saved.array, file.view, saved.array, file.view)
  /\ ReadsAs(file.view, file.data, saved.array, saved.value)

HistoryInv ==
  /\ DOMAIN array = DOMAIN buffers
  /\ DOMAIN value = DOMAIN storages
  /\ \A b \in DOMAIN buffers : Stands(array[b], ViewOf(b), StorageOf(b), value[StorageOf(b)])
  /\ \A b, c \in DOMAIN buffers :
       StorageOf(b) = StorageOf(c) => CellsArePlaces(array[b], ViewOf(b), array[c], ViewOf(c))
  /\ \A b \in DOMAIN buffers : ReadsAs(ViewOf(b), DataOf(b), array[b], value[StorageOf(b)])
  /\ file # NONE => FileMatches

AgreeInv == BoundsInv /\ HistoryInv

-----------------------------------------------------------------------------
(* The frames *)

(* The array of a view of the same storage has cells of the operand, each for  *)
(* an element at its address.                                                   *)
LEMMA ShareAgrees ==
  ASSUME AgreeInv, NEW x, NEW view, Share(x, view), NEW a, NEW g,
         array' = AddNew(array, a), UNCHANGED <<value, saved>>,
         a.shape = view.shape, DOMAIN a.cell = AllIndices(view.shape),
         \A i \in AllIndices(view.shape) :
           /\ g[i] \in AllIndices(ShapeOf(x))
           /\ a.cell[i] = array[x].cell[g[i]]
           /\ Address(view, i) = Address(ViewOf(x), g[i])
  PROVE  HistoryInv'
<1>0. PICK s : s = StorageOf(x)
  OBVIOUS
<1>new. PICK n : n = New
  OBVIOUS
<1>1. /\ x \in DOMAIN buffers /\ s \in DOMAIN storages
      /\ Numbered /\ Attach(view, s)
      /\ file' = file /\ value' = value /\ saved' = saved
  BY <1>0 DEF Share, AgreeInv, BoundsInv, CountsInv, CountsMatch
<1>2. buffers' = AddNew(buffers, [view |-> view, storage |-> s])
  BY <1>1 DEF Attach
<1>3. storages' = [storages EXCEPT ![s].reference_count = @ + 1]
  BY <1>0 DEF Share
<1>4. DOMAIN storages' = DOMAIN storages /\ \A t \in DOMAIN storages : storages'[t].data = storages[t].data
  BY <1>1, <1>3
<1>5. n \notin DOMAIN buffers
  BY <1>1, <1>new, NewIsNew
<1>6. DOMAIN array = DOMAIN buffers /\ DOMAIN value = DOMAIN storages
  BY DEF AgreeInv, HistoryInv
<1>7. /\ DOMAIN buffers' = DOMAIN buffers \cup {n}
      /\ \A b \in DOMAIN buffers : buffers'[b] = buffers[b] /\ array'[b] = array[b]
      /\ DOMAIN array' = DOMAIN buffers \cup {n}
      /\ buffers'[n].view = view /\ buffers'[n].storage = s
      /\ array'[n] = a
  BY <1>2, <1>5, <1>6, <1>new DEF AddNew
<1>8. \A b \in DOMAIN buffers : StorageOf(b) \in DOMAIN storages
  BY DEF AgreeInv, BoundsInv, CountsInv, CountsMatch
<1>9. \A b \in DOMAIN buffers : /\ ViewOf(b)' = ViewOf(b) /\ StorageOf(b)' = StorageOf(b)
                                /\ DataOf(b)' = DataOf(b)
  BY <1>4, <1>7, <1>8 DEF ViewOf, StorageOf, DataOf
<1>10. ViewOf(n)' = view /\ StorageOf(n)' = s /\ DataOf(n)' = DataOf(x)
  BY <1>0, <1>1, <1>4, <1>7 DEF ViewOf, StorageOf, DataOf
<1>11. /\ Stands(array[x], ViewOf(x), s, value[s])
       /\ ReadsAs(ViewOf(x), DataOf(x), array[x], value[s])
       /\ \A c \in DOMAIN buffers :
            StorageOf(c) = s => /\ CellsArePlaces(array[x], ViewOf(x), array[c], ViewOf(c))
                                /\ CellsArePlaces(array[c], ViewOf(c), array[x], ViewOf(x))
       /\ CellsArePlaces(array[x], ViewOf(x), array[x], ViewOf(x))
  BY <1>0, <1>1 DEF AgreeInv, HistoryInv
<1>12. ShapeOf(x) = ViewOf(x).shape
  BY DEF ShapeOf, ViewOf
<1>13. Stands(a, view, s, value[s])
  BY <1>11, <1>12 DEF Stands
<1>14. ReadsAs(view, DataOf(x), a, value[s])
  BY <1>11, <1>12 DEF ReadsAs
<1>15. \A c \in DOMAIN buffers :
         StorageOf(c) = s => /\ CellsArePlaces(a, view, array[c], ViewOf(c))
                             /\ CellsArePlaces(array[c], ViewOf(c), a, view)
  BY <1>11, <1>12 DEF CellsArePlaces
<1>16. CellsArePlaces(a, view, a, view)
  BY <1>11, <1>12 DEF CellsArePlaces
<1>17. \A b \in DOMAIN buffers' : Stands(array'[b], ViewOf(b)', StorageOf(b)', value'[StorageOf(b)'])
  BY <1>1, <1>7, <1>9, <1>10, <1>13 DEF AgreeInv, HistoryInv
<1>18. \A b \in DOMAIN buffers' : ReadsAs(ViewOf(b)', DataOf(b)', array'[b], value'[StorageOf(b)'])
  BY <1>1, <1>7, <1>9, <1>10, <1>14 DEF AgreeInv, HistoryInv
<1>19. ASSUME NEW b \in DOMAIN buffers', NEW c \in DOMAIN buffers', StorageOf(b)' = StorageOf(c)'
       PROVE  CellsArePlaces(array'[b], ViewOf(b)', array'[c], ViewOf(c)')
  <2>1. CASE b \in DOMAIN buffers /\ c \in DOMAIN buffers
    BY <1>7, <1>9, <1>19, <2>1 DEF AgreeInv, HistoryInv
  <2>2. CASE b = n /\ c \in DOMAIN buffers
    BY <1>7, <1>9, <1>10, <1>15, <1>19, <2>2
  <2>3. CASE b \in DOMAIN buffers /\ c = n
    BY <1>7, <1>9, <1>10, <1>15, <1>19, <2>3
  <2>4. CASE b = n /\ c = n
    BY <1>7, <1>10, <1>16, <2>4
  <2>5. QED  BY <1>7, <2>1, <2>2, <2>3, <2>4
<1>20. file' # NONE => FileMatches'
  BY <1>1 DEF AgreeInv, HistoryInv, FileMatches
<1>21. DOMAIN array' = DOMAIN buffers' /\ DOMAIN value' = DOMAIN storages'
  BY <1>1, <1>4, <1>6, <1>7
<1>22. QED  BY <1>17, <1>18, <1>19, <1>20, <1>21 DEF HistoryInv

(* The array of a new storage, whose cells are its own. *)
LEMMA AllocateAgrees ==
  ASSUME AgreeInv, NEW view, NEW data, Allocate(view, data), NEW a, NEW values,
         array' = AddNew(array, a), value' = AddNew(value, values), UNCHANGED saved,
         Stands(a, view, New, values), CellsArePlaces(a, view, a, view), ReadsAs(view, data, a, values)
  PROVE  HistoryInv'
<1>new. PICK n : n = New
  OBVIOUS
<1>1. Numbered /\ Attach(view, n) /\ file' = file /\ saved' = saved
  BY <1>new DEF Allocate, AgreeInv, BoundsInv, CountsInv
<1>2. /\ buffers' = AddNew(buffers, [view |-> view, storage |-> n])
      /\ storages' = AddNew(storages, [reference_count |-> 1, data |-> data])
  BY <1>1 DEF Attach, Allocate
<1>3. n \notin DOMAIN buffers /\ n \notin DOMAIN storages
  BY <1>1, <1>new, NewIsNew
<1>4. DOMAIN array = DOMAIN buffers /\ DOMAIN value = DOMAIN storages
  BY DEF AgreeInv, HistoryInv
<1>5. /\ DOMAIN buffers' = DOMAIN buffers \cup {n}
      /\ DOMAIN array' = DOMAIN buffers \cup {n}
      /\ DOMAIN storages' = DOMAIN storages \cup {n}
      /\ DOMAIN value' = DOMAIN storages \cup {n}
      /\ \A b \in DOMAIN buffers : buffers'[b] = buffers[b] /\ array'[b] = array[b]
      /\ \A t \in DOMAIN storages : storages'[t] = storages[t] /\ value'[t] = value[t]
      /\ buffers'[n].view = view /\ buffers'[n].storage = n
      /\ array'[n] = a
      /\ storages'[n].data = data
      /\ value'[n] = values
  BY <1>2, <1>3, <1>4, <1>new DEF AddNew
<1>6. \A b \in DOMAIN buffers : StorageOf(b) \in DOMAIN storages
  BY DEF AgreeInv, BoundsInv, CountsInv, CountsMatch
<1>7. \A b \in DOMAIN buffers : /\ ViewOf(b)' = ViewOf(b) /\ StorageOf(b)' = StorageOf(b)
                                /\ DataOf(b)' = DataOf(b) /\ value'[StorageOf(b)] = value[StorageOf(b)]
                                /\ StorageOf(b) # n
  BY <1>3, <1>5, <1>6 DEF ViewOf, StorageOf, DataOf
<1>8. ViewOf(n)' = view /\ StorageOf(n)' = n /\ DataOf(n)' = data
  BY <1>5 DEF ViewOf, StorageOf, DataOf
<1>9. \A b \in DOMAIN buffers' : Stands(array'[b], ViewOf(b)', StorageOf(b)', value'[StorageOf(b)'])
  BY <1>5, <1>7, <1>8, <1>new DEF AgreeInv, HistoryInv
<1>10. \A b \in DOMAIN buffers' : ReadsAs(ViewOf(b)', DataOf(b)', array'[b], value'[StorageOf(b)'])
  BY <1>5, <1>7, <1>8, <1>new DEF AgreeInv, HistoryInv
<1>11. ASSUME NEW b \in DOMAIN buffers', NEW c \in DOMAIN buffers', StorageOf(b)' = StorageOf(c)'
       PROVE  CellsArePlaces(array'[b], ViewOf(b)', array'[c], ViewOf(c)')
  <2>1. CASE b \in DOMAIN buffers /\ c \in DOMAIN buffers
    BY <1>5, <1>7, <1>11, <2>1 DEF AgreeInv, HistoryInv
  <2>2. CASE b = n /\ c = n
    BY <1>5, <1>8, <2>2
  <2>3. (b = n) <=> (c = n)
    BY <1>3, <1>5, <1>7, <1>8, <1>11
  <2>4. QED  BY <1>5, <2>1, <2>2, <2>3
<1>12. file' # NONE => FileMatches'
  BY <1>1 DEF AgreeInv, HistoryInv, FileMatches
<1>13. DOMAIN array' = DOMAIN buffers' /\ DOMAIN value' = DOMAIN storages'
  BY <1>5
<1>14. QED  BY <1>9, <1>10, <1>11, <1>12, <1>13 DEF HistoryInv

-----------------------------------------------------------------------------
(* The indices of arrays are those of views *)

LEMMA LargestIs ==
  ASSUME NEW shape \in Seq(Sizes)
  PROVE  /\ A!Largest(shape) \in Nat \ {0}
         /\ \A n \in 1..Len(shape) : shape[n] <= A!Largest(shape)
<1> DEFINE L == Len(shape)
           S == {1} \cup {shape[n] : n \in 1..L}
           I == {k \in 0..L : \E m \in S : 1 <= m /\ \A n \in 1..k : shape[n] <= m}
<1>1. L \in Nat /\ DOMAIN shape = 1..L /\ \A n \in 1..L : shape[n] \in Nat \ {0}
  BY DEF Sizes
<1> HIDE DEF L
<1>2. {1} \cup Range(shape) = S /\ S \subseteq Nat \ {0}
  BY <1>1 DEF Range
<1>3. 0 \in I
  BY <1>1
<1>4. ASSUME NEW k \in 1..L, k - 1 \in I
      PROVE  k \in I
  <2>1. PICK m \in S : 1 <= m /\ \A n \in 1..(k - 1) : shape[n] <= m
    BY <1>4
  <2>2. m \in Nat /\ shape[k] \in Nat \ {0} /\ shape[k] \in S /\ k \in 0..L
    BY <1>1, <1>2
  <2>3. \A n \in 1..k : n = k \/ n \in 1..(k - 1)
    BY <1>1
  <2>4. \A n \in 1..k : shape[n] \in Nat
    BY <1>1
  <2> HIDE DEF S
  <2>5. CASE shape[k] <= m
    <3>1. \A n \in 1..k : shape[n] <= m
      BY <2>1, <2>3, <2>5
    <3>2. QED  BY <2>1, <2>2, <3>1
  <2>6. CASE m <= shape[k]
    <3>1. ASSUME NEW n \in 1..k PROVE shape[n] <= shape[k]
      <4>1. n = k \/ shape[n] <= m
        BY <2>1, <2>3
      <4>2. shape[n] \in Nat
        BY <2>4
      <4>3. QED  BY <2>2, <2>6, <4>1, <4>2
    <3>2. 1 <= shape[k]
      BY <2>2
    <3>3. QED  BY <2>2, <3>1, <3>2
  <2>7. QED  BY <2>2, <2>5, <2>6
<1>5. CountsUp(I, L)
  <2> HIDE DEF I
  <2> QED  BY <1>3, <1>4 DEF CountsUp
<1>6. L \in I
  <2> HIDE DEF I
  <2>1. L \in 0..L
    BY <1>1
  <2>2. QED  BY <1>1, <1>5, <2>1, LoopInduction
<1> DEFINE R == {shape[n] : n \in 1..L}
<1>7. \E m \in S : \A n \in R : n <= m
  <2>1. PICK m \in S : 1 <= m /\ \A n \in 1..L : shape[n] <= m
    BY <1>6
  <2>2. \A n \in R : n <= m
    BY <2>1
  <2>3. QED  BY <2>2
<1>8. A!Range(shape) = R
  BY <1>1 DEF A!Range
<1>9. {1} \cup R = S
  OBVIOUS
<1>10. \A n \in 1..L : shape[n] \in R
  OBVIOUS
<1> HIDE DEF S, R
<1>11. A!Largest(shape) = CHOOSE m \in S : \A n \in R : n <= m
  BY <1>8, <1>9 DEF A!Largest
<1>12. A!Largest(shape) \in S /\ \A n \in R : n <= A!Largest(shape)
  BY <1>7, <1>11
<1>13. QED  BY <1>2, <1>10, <1>12 DEF L

LEMMA IndicesAre ==
  ASSUME NEW shape \in Seq(Sizes)
  PROVE  A!Indices(shape) = AllIndices(shape)
<1>1. DOMAIN shape = 1..Len(shape) /\ \A n \in 1..Len(shape) : shape[n] \in Nat
  BY DEF Sizes
<1>2. A!Largest(shape) \in Nat /\ \A n \in 1..Len(shape) : shape[n] <= A!Largest(shape)
  BY LargestIs
<1>3. ASSUME NEW i \in AllIndices(shape)
      PROVE  i \in [1..Len(shape) -> 0..(A!Largest(shape) - 1)]
  <2>1. i \in [1..Len(shape) -> Nat] /\ \A n \in 1..Len(shape) : i[n] \in Nat /\ i[n] < shape[n]
    BY DEF AllIndices
  <2>2. ASSUME NEW n \in 1..Len(shape) PROVE i[n] \in 0..(A!Largest(shape) - 1)
    <3>1. i[n] \in Nat /\ i[n] < shape[n] /\ shape[n] \in Nat /\ shape[n] <= A!Largest(shape)
      BY <1>1, <1>2, <2>1
    <3>2. QED  BY <1>2, <3>1
  <2>3. QED  BY <2>1, <2>2
<1>4. ASSUME NEW i \in [1..Len(shape) -> 0..(A!Largest(shape) - 1)]
      PROVE  i \in [1..Len(shape) -> Nat]
  BY <1>2
<1>5. QED  BY <1>1, <1>3, <1>4 DEF AllIndices, A!Indices

-----------------------------------------------------------------------------
(* Views of the same storage *)

(* What the invariant says of one buffer. *)
LEMMA BufferFacts ==
  ASSUME AgreeInv, NEW x \in DOMAIN buffers
  PROVE  /\ IsView(ViewOf(x))
         /\ ShapeOf(x) = ViewOf(x).shape
         /\ IsShape(ShapeOf(x))
         /\ ShapeOf(x) \in Seq(Sizes)
         /\ Rank(ViewOf(x)) = Len(ShapeOf(x))
         /\ DOMAIN ShapeOf(x) = 1..Rank(ViewOf(x))
         /\ array[x].shape = ShapeOf(x)
         /\ DOMAIN array[x].cell = AllIndices(ShapeOf(x))
         /\ Fits(ViewOf(x), DataOf(x))
<1>1. /\ IsView(ViewOf(x))
      /\ ShapeOf(x) = ViewOf(x).shape
      /\ IsShape(ShapeOf(x))
      /\ Fits(ViewOf(x), DataOf(x))
  BY ShapeOfView DEF AgreeInv
<1>2. Stands(array[x], ViewOf(x), StorageOf(x), value[StorageOf(x)])
  BY DEF AgreeInv, HistoryInv
<1>3. ShapeOf(x) \in Seq(Sizes) /\ Rank(ViewOf(x)) = Len(ShapeOf(x))
  BY <1>1, ViewShape
<1>4. DOMAIN ShapeOf(x) = 1..Rank(ViewOf(x))
  BY <1>3
<1>5. QED  BY <1>1, <1>2, <1>3, <1>4 DEF Stands

LEMMA AsAgrees ==
  ASSUME AgreeInv, NEW x \in DOMAIN buffers, AAs(x)
  PROVE  HistoryInv'
<1> DEFINE g == [i \in AllIndices(ShapeOf(x)) |-> i]
<1>1. Share(x, ViewOf(x)) /\ array' = AddNew(array, array[x]) /\ UNCHANGED <<value, saved>>
  BY DEF AAs, As, SharedArray
<1>2. \A i \in AllIndices(ShapeOf(x)) : g[i] = i
  OBVIOUS
<1> HIDE DEF g
<1>3. QED  BY <1>1, <1>2, BufferFacts, ShareAgrees

(* An index is a sequence of coordinates. *)
LEMMA IndexLength ==
  ASSUME NEW shape \in Seq(Sizes), NEW i \in AllIndices(shape)
  PROVE  Len(i) = Len(shape)
<1>1. i \in [1..Len(shape) -> Nat] /\ Len(shape) \in Nat
  BY DEF AllIndices
<1>2. QED  BY <1>1, FunctionIsSequence

LEMMA UnexpandedIs ==
  ASSUME NEW v, IsView(v), NEW shape, IsShape(shape), IsExpandable(v.shape, shape),
         NEW i \in AllIndices(shape)
  PROVE  /\ A!Unexpanded(i, v.shape) \in AllIndices(v.shape)
         /\ Address(ViewExpand(v, shape), i) = Address(v, A!Unexpanded(i, v.shape))
<1> DEFINE j == [n \in 1..Rank(v) |-> IF v.shape[n] = 1 THEN 0 ELSE i[n + (Len(shape) - Rank(v))]]
<1>1. Len(i) = Len(shape) /\ Len(shape) \in Nat
  BY IndexLength DEF IsShape, Sizes
<1>2. DOMAIN v.shape = 1..Rank(v) /\ Rank(v) = Len(v.shape) /\ Rank(v) \in Nat
  BY DimensionFacts DEF Rank
<1>3. \A n \in 1..Rank(v) : (n + Len(shape)) - Rank(v) = n + (Len(shape) - Rank(v))
  BY <1>1, <1>2
<1>4. A!Unexpanded(i, v.shape) = j
  BY <1>1, <1>2, <1>3 DEF A!Unexpanded
<1>5. j \in AllIndices(v.shape) /\ Address(ViewExpand(v, shape), i) = Address(v, j)
  BY ExpandAddress
<1>6. QED  BY <1>4, <1>5

LEMMA ExpandAgrees ==
  ASSUME AgreeInv, NEW x \in DOMAIN buffers, NEW shape \in Targets, AExpand(x, shape)
  PROVE  HistoryInv'
<1> DEFINE v == ViewOf(x)
           view == ViewExpand(v, shape)
           a == A!ArrayExpand(array[x], shape)
           g == [i \in AllIndices(shape) |-> A!Unexpanded(i, v.shape)]
<1>1. /\ Share(x, view) /\ array' = AddNew(array, a) /\ UNCHANGED <<value, saved>>
      /\ IsExpandable(ShapeOf(x), shape) /\ ViewCreateOK(shape)
  BY DEF AExpand, Expand, SharedArray
<1>2. IsShape(shape)
  BY <1>1, ShapesAssumption, ShapeIsCreated
<1>3. shape \in Seq(Sizes)
  BY <1>2 DEF IsShape, Sizes
<1>4. IsView(v) /\ ShapeOf(x) = v.shape /\ array[x].shape = v.shape
  BY BufferFacts
<1>5. view.shape = shape
  BY DEF ViewExpand, View
<1>6. /\ a.shape = shape
      /\ a.cell = [i \in AllIndices(shape) |-> array[x].cell[A!Unexpanded(i, v.shape)]]
  BY <1>3, <1>4, IndicesAre DEF A!ArrayExpand, A!Array
<1>7. \A i \in AllIndices(shape) : /\ g[i] \in AllIndices(v.shape)
                                   /\ Address(view, i) = Address(v, g[i])
                                   /\ g[i] = A!Unexpanded(i, v.shape)
  BY <1>1, <1>2, <1>4, UnexpandedIs
<1> HIDE DEF g, a, view
<1>8. \A i \in AllIndices(view.shape) : /\ g[i] \in AllIndices(ShapeOf(x))
                                        /\ a.cell[i] = array[x].cell[g[i]]
                                        /\ Address(view, i) = Address(v, g[i])
  BY <1>4, <1>5, <1>6, <1>7
<1>9. a.shape = view.shape /\ DOMAIN a.cell = AllIndices(view.shape)
  BY <1>5, <1>6
<1>10. QED  BY <1>1, <1>8, <1>9, ShareAgrees

LEMMA PermuteAgrees ==
  ASSUME AgreeInv, NEW x \in DOMAIN buffers, NEW axes \in AxesOf[Rank(ViewOf(x))], APermute(x, axes)
  PROVE  HistoryInv'
<1> DEFINE v == ViewOf(x)
           r == Rank(v)
           view == ViewPermute(v, axes)
           order == [n \in DOMAIN axes |-> axes[n] + 1]
           a == A!ArrayPermute(array[x], order)
           From(i) == [m \in 1..r |-> i[CHOOSE n \in 1..r : order[n] = m]]
           g == [i \in AllIndices(view.shape) |-> From(i)]
<1>1. /\ Share(x, view) /\ array' = AddNew(array, a) /\ UNCHANGED <<value, saved>>
      /\ ViewPermuteOK(v, axes)
  BY DEF APermute, Permute, SharedArray
<1>2. IsView(v) /\ r \in 0..MAX_RANK
  BY ShapeOfView, RankOfView DEF MAX_RANK, AgreeInv
<1>3. axes \in Injection(1..r, 0..(r - 1))
  <2>1. PICK n \in 0..r : axes \in Injection(1..n, 0..(r - 1))
    BY <1>2 DEF AxesOf
  <2>2. Len(axes) = n
    BY <2>1 DEF Injection
  <2>3. n = r
    BY <1>1, <2>2 DEF ViewPermuteOK
  <2>4. QED  BY <2>1, <2>3
<1>4. /\ DOMAIN axes = 1..r
      /\ \A n \in 1..r : axes[n] \in 0..(r - 1)
      /\ \A m, n \in 1..r : axes[m] = axes[n] => m = n
  BY <1>3 DEF Injection, IsInjective
<1>5. /\ DOMAIN order = 1..r
      /\ \A n \in 1..r : order[n] = axes[n] + 1 /\ order[n] \in 1..r
      /\ \A m, n \in 1..r : order[m] = order[n] => m = n
  <2>1. DOMAIN order = 1..r /\ \A n \in 1..r : order[n] = axes[n] + 1
    BY <1>4
  <2> HIDE DEF order
  <2>2. \A n \in 1..r : axes[n] \in Int
    BY <1>2, <1>4
  <2>3. \A n \in 1..r : order[n] \in 1..r
    <3>1. r \in Int /\ \A k \in 0..(r - 1) : k + 1 \in 1..r
      BY <1>2 DEF MAX_RANK
    <3>2. \A n \in 1..r : axes[n] + 1 \in 1..r
      BY <1>4, <3>1
    <3> HIDE DEF r
    <3>3. QED  BY <2>1, <3>2
  <2>4. \A m, n \in 1..r : order[m] = order[n] => m = n
    <3>1. \A m, n \in 1..r : axes[m] + 1 = axes[n] + 1 => axes[m] = axes[n]
      BY <2>2
    <3> HIDE DEF r
    <3>2. QED  BY <1>4, <2>1, <3>1
  <2>5. QED  BY <2>1, <2>3, <2>4
<1>6. ShapeOf(x) = v.shape /\ array[x].shape = v.shape /\ DOMAIN v.shape = 1..r
  BY BufferFacts
<1>7. view.shape = [n \in 1..r |-> v.shape[order[n]]] /\ IsView(view)
  <2>1. \A n \in 1..r : Dimension(axes[n], r) = order[n]
    BY <1>2, <1>4 DEF Dimension, DimensionToIndex
  <2>2. view.shape = [n \in DOMAIN axes |-> v.shape[Dimension(axes[n], r)]]
    BY DEF ViewPermute, View
  <2>3. IsView(view)
    BY <1>2, <1>3, PermuteLast
  <2> HIDE DEF order, view
  <2>4. QED  BY <1>4, <2>1, <2>2, <2>3
<1>8. view.shape \in Seq(Sizes)
  BY <1>7, ViewShape
<1> HIDE DEF view, order
<1>9. /\ a.shape = view.shape
      /\ a.cell = [i \in AllIndices(view.shape) |-> array[x].cell[From(i)]]
  <2>1. DOMAIN order = 1..r /\ DOMAIN array[x].shape = 1..r /\ array[x].shape = v.shape
    BY <1>5, <1>6
  <2>2. [n \in DOMAIN order |-> array[x].shape[order[n]]] = view.shape
    BY <1>7, <2>1
  <2>3. \A i : [m \in DOMAIN array[x].shape |-> i[CHOOSE n \in DOMAIN order : order[n] = m]] = From(i)
    BY <2>1
  <2> HIDE DEF From, r
  <2>4. QED  BY <1>8, <2>2, <2>3, IndicesAre DEF A!ArrayPermute, A!Array
<1>10. ASSUME NEW i \in AllIndices(view.shape)
       PROVE  /\ From(i) \in AllIndices(v.shape)
              /\ Address(view, i) = Address(v, From(i))
  <2> DEFINE j == From(i)
  <2>1. \A n \in 1..r : (CHOOSE m \in 1..r : order[m] = order[n]) = n
    BY <1>5
  <2>2. \A n \in 1..r : j[axes[n] + 1] = i[n]
    BY <1>5, <2>1
  <2>3. j = [m \in 1..r |-> j[m]]
    OBVIOUS
  <2> HIDE DEF j
  <2>4. j \in AllIndices(v.shape) /\ Address(view, i) = Address(v, j)
    <3>1. i \in AllIndices(ViewPermute(v, axes).shape)
      BY DEF view
    <3>2. IsView(v) /\ axes \in Injection(1..Rank(v), 0..(Rank(v) - 1))
      BY <1>2, <1>3
    <3>3. PermutedFrom(axes, Rank(v), i, j)
      BY <2>2, <2>3 DEF PermutedFrom
    <3>4. view = ViewPermute(v, axes)
      BY DEF view
    <3>5. j \in AllIndices(v.shape) /\ Address(ViewPermute(v, axes), i) = Address(v, j)
      BY <3>1, <3>2, <3>3, PermuteAddress
    <3>6. QED  BY <3>4, <3>5
  <2>5. QED  BY <2>4 DEF j
<1>11. \A i \in AllIndices(view.shape) : /\ g[i] \in AllIndices(ShapeOf(x))
                                         /\ a.cell[i] = array[x].cell[g[i]]
                                         /\ Address(view, i) = Address(v, g[i])
  <2> HIDE DEF a, From
  <2>1. QED  BY <1>6, <1>9, <1>10
<1>12. DOMAIN a.cell = AllIndices(view.shape)
  BY <1>9
<1> HIDE DEF g, a, From
<1>13. QED  BY <1>1, <1>9, <1>11, <1>12, ShareAgrees

LEMMA SliceAgrees ==
  ASSUME ~SliceAgain, AgreeInv, NEW x \in DOMAIN buffers, NEW arguments \in SliceArguments(ShapeOf(x)),
         ASlice(x, arguments)
  PROVE  HistoryInv'
<1> DEFINE v == ViewOf(x)
           view == ViewSlice(v, arguments)
           from == [n \in DOMAIN arguments |-> arguments[n][1]]
           to == [n \in DOMAIN arguments |-> arguments[n][2]]
           a == A!ArraySlice(array[x], from, to)
           From(i) == [n \in 1..Rank(v) |-> i[n] + arguments[n][1]]
           g == [i \in AllIndices(view.shape) |-> From(i)]
<1>1. /\ Share(x, view) /\ array' = AddNew(array, a) /\ UNCHANGED <<value, saved>>
      /\ ViewSliceOK(v, arguments) /\ v.offset = 0
  BY DEF ASlice, Slice, SharedArray
<1>2. IsView(v) /\ ShapeOf(x) = v.shape /\ DOMAIN v.shape = 1..Rank(v)
  BY BufferFacts
<1>3. /\ DOMAIN arguments = DOMAIN v.shape
      /\ \A n \in DOMAIN arguments : arguments[n][1] \in Int /\ arguments[n][2] \in Int
  <2>1. PICK cut \in [DOMAIN v.shape -> {<<0, 0>>, <<0, 1>>, <<1, 0>>}] :
          arguments = [n \in DOMAIN v.shape |-> <<cut[n][1], v.shape[n] - cut[n][2]>>]
    BY <1>2 DEF SliceArguments
  <2>2. \A n \in DOMAIN v.shape : v.shape[n] \in Int /\ cut[n][1] \in Int /\ cut[n][2] \in Int
    <3>1. \A pair \in {<<0, 0>>, <<0, 1>>, <<1, 0>>} : pair[1] \in Int /\ pair[2] \in Int
      OBVIOUS
    <3>2. \A n \in DOMAIN v.shape : cut[n] \in {<<0, 0>>, <<0, 1>>, <<1, 0>>}
      BY <2>1
    <3>3. \A n \in DOMAIN v.shape : v.shape[n] \in Int
      BY <1>2, DimensionFacts
    <3>4. QED  BY <3>1, <3>2, <3>3
  <2>3. QED  BY <2>1, <2>2
<1>4. /\ view.shape = [n \in 1..Rank(v) |-> arguments[n][2] - arguments[n][1]]
      /\ view.shape \in Seq(Sizes)
  <2>1. IsView(view)
    BY <1>1, <1>2, <1>3, SliceLast
  <2>2. view.shape \in Seq(Sizes)
    BY <2>1, ViewShape
  <2>3. QED  BY <1>2, <1>3, <2>2 DEF ViewSlice, View
<1> HIDE DEF view
<1>5. /\ a.shape = view.shape
      /\ a.cell = [i \in AllIndices(view.shape) |-> array[x].cell[From(i)]]
  <2>1. DOMAIN from = 1..Rank(v) /\ \A n \in 1..Rank(v) : from[n] = arguments[n][1] /\ to[n] = arguments[n][2]
    BY <1>2, <1>3
  <2> HIDE DEF from, to
  <2>2. [n \in DOMAIN from |-> to[n] - from[n]] = view.shape
    BY <1>4, <2>1
  <2>3. \A i : [n \in DOMAIN from |-> i[n] + from[n]] = From(i)
    BY <2>1
  <2> HIDE DEF From
  <2>4. QED  BY <1>4, <2>2, <2>3, IndicesAre DEF A!ArraySlice, A!Array
<1>6. ASSUME NEW i \in AllIndices(view.shape)
      PROVE  /\ From(i) \in AllIndices(v.shape)
             /\ Address(view, i) = Address(v, From(i))
  <2> DEFINE j == From(i)
  <2>1. j = [n \in 1..Rank(v) |-> i[n] + arguments[n][1]]
    OBVIOUS
  <2> HIDE DEF j
  <2>2. j \in AllIndices(v.shape) /\ v.offset + Address(view, i) = Address(v, j)
    BY <1>1, <1>2, <1>3, <2>1, SliceAddress DEF view
  <2>3. Address(view, i) \in Nat
    <3>1. IsView(view)
      BY <1>1, <1>2, <1>3, SliceLast DEF view
    <3>2. view.offset \in Nat
      BY <3>1 DEF IsView
    <3>3. QED  BY <3>1, <3>2, MovesFacts
  <2>4. QED  BY <1>1, <2>2, <2>3 DEF j
<1>7. \A i \in AllIndices(view.shape) : /\ g[i] \in AllIndices(ShapeOf(x))
                                        /\ a.cell[i] = array[x].cell[g[i]]
                                        /\ Address(view, i) = Address(v, g[i])
  <2> HIDE DEF a, From
  <2>1. QED  BY <1>2, <1>5, <1>6
<1>8. DOMAIN a.cell = AllIndices(view.shape)
  BY <1>5
<1> HIDE DEF g, a, From
<1>9. QED  BY <1>1, <1>5, <1>7, <1>8, ShareAgrees

-----------------------------------------------------------------------------
(* New storages in row-major order *)

(* The loops over a new contiguous view store each value at the position of its index. *)
LEMMA ComputedIs ==
  ASSUME NEW shape, IsShape(shape), NEW new, NEW i \in AllIndices(shape)
  PROVE  Computed(ViewCreateContiguous(shape), new)[PositionIn(shape, i)] = new[i]
<1> DEFINE view == ViewCreateContiguous(shape)
           size == ViewPhysicalSize(view)
           data == Empty(size)
<1>1. IsView(view) /\ ViewIsContiguous(view) /\ view.shape = shape /\ shape \in Seq(Sizes)
  BY CreatedContiguous
<1>2. size = ArrayProduct(shape) /\ size \in Nat
  BY ContiguousSize
<1>3. DOMAIN data = 0..(size - 1) /\ IsMemory(data)
  BY <1>2 DEF Empty, IsMemory
<1> HIDE DEF view, size, data
<1>4. \A j \in AllIndices(shape) : Address(view, j) = PositionIn(shape, j)
  BY <1>1, ContiguousAddress
<1>5. \A j \in AllIndices(shape) : PositionIn(shape, j) \in 0..(ArrayProduct(shape) - 1)
  BY <1>1, LoopVisits
<1>6. HasPlaces(view, data)
  BY <1>1, <1>2, <1>3, <1>4, <1>5 DEF HasPlaces
<1>7. StoredOnce(view, new)
  <2> SUFFICES ASSUME NEW j \in AllIndices(shape), NEW k \in AllIndices(shape),
                      Address(view, j) = Address(view, k)
               PROVE  new[j] = new[k]
    BY <1>1 DEF StoredOnce
  <2>1. PositionIn(shape, j) = PositionIn(shape, k)
    BY <1>4
  <2>2. j = LoopOrder(shape)[PositionIn(shape, j) + 1] /\ k = LoopOrder(shape)[PositionIn(shape, k) + 1]
    BY <1>1, LoopVisits
  <2>3. QED  BY <2>1, <2>2
<1>8. Kernel(data, view, new)[Address(view, i)] = new[i]
  BY <1>1, <1>3, <1>6, <1>7, KernelStores
<1>9. Computed(view, new) = Kernel(data, view, new)
  BY DEF Computed, data, size
<1>10. QED  BY <1>4, <1>8, <1>9 DEF view

(* An array of cells of its own agrees with data that has them in row-major order. *)
LEMMA NewAgrees ==
  ASSUME AgreeInv, NEW shape, IsShape(shape), NEW data, Allocate(ViewCreateContiguous(shape), data),
         NEW elements, NewArray(shape, elements), DOMAIN elements = AllIndices(shape),
         \A i \in AllIndices(shape) : elements[i] \in Int /\ data[PositionIn(shape, i)] = elements[i]
  PROVE  HistoryInv'
<1> DEFINE view == ViewCreateContiguous(shape)
           a == A!Array(shape, LAMBDA index : <<New, index>>)
<1>1. IsView(view) /\ ViewIsContiguous(view) /\ view.shape = shape /\ shape \in Seq(Sizes)
  BY CreatedContiguous
<1>2. array' = AddNew(array, a) /\ value' = AddNew(value, elements) /\ UNCHANGED saved
  BY DEF NewArray
<1>3. a.shape = shape /\ a.cell = [i \in AllIndices(shape) |-> <<New, i>>]
  BY <1>1, IndicesAre DEF A!Array
<1> HIDE DEF view, a
<1>4. \A j \in AllIndices(shape) : Address(view, j) = PositionIn(shape, j)
  BY <1>1, ContiguousAddress
<1>5. \A i \in AllIndices(shape) : a.cell[i] = <<New, i>> /\ a.cell[i][2] = i
  BY <1>3
<1>6. Stands(a, view, New, elements)
  BY <1>1, <1>3, <1>5 DEF Stands
<1>7. ReadsAs(view, data, a, elements)
  BY <1>1, <1>4, <1>5 DEF ReadsAs
<1>8. CellsArePlaces(a, view, a, view)
  <2> SUFFICES ASSUME NEW j \in AllIndices(shape), NEW k \in AllIndices(shape)
               PROVE  a.cell[j] = a.cell[k] <=> Address(view, j) = Address(view, k)
    BY <1>1 DEF CellsArePlaces
  <2>1. a.cell[j] = a.cell[k] <=> j = k
    BY <1>5
  <2>2. j = LoopOrder(shape)[PositionIn(shape, j) + 1] /\ k = LoopOrder(shape)[PositionIn(shape, k) + 1]
    BY <1>1, LoopVisits
  <2>3. QED  BY <1>4, <2>1, <2>2
<1>9. QED  BY <1>2, <1>6, <1>7, <1>8, AllocateAgrees DEF view

LEMMA ComputeAgrees ==
  ASSUME AgreeInv, NEW shape, IsShape(shape), NEW new,
         Allocate(ViewCreateContiguous(shape), Computed(ViewCreateContiguous(shape), new)),
         NEW elements, NewArray(shape, elements), DOMAIN elements = AllIndices(shape),
         \A i \in AllIndices(shape) : elements[i] \in Int /\ new[i] = elements[i]
  PROVE  HistoryInv'
<1> DEFINE data == Computed(ViewCreateContiguous(shape), new)
<1>1. \A i \in AllIndices(shape) : data[PositionIn(shape, i)] = new[i]
  BY ComputedIs
<1>2. Allocate(ViewCreateContiguous(shape), data)
  OBVIOUS
<1> HIDE DEF data
<1>3. QED  BY <1>1, <1>2, NewAgrees

LEMMA CardinalitiesAgree == ASSUME NEW S PROVE A!Cardinality(S) = Cardinality(S)
  BY DEF A!Cardinality, Cardinality

(* The number of indices before one is its position. *)
LEMMA PlaceIs ==
  ASSUME NEW shape \in Seq(Sizes), NEW i \in AllIndices(shape)
  PROVE  A!Place(i, shape) = PositionIn(shape, i)
<1> DEFINE S == {j \in AllIndices(shape) : A!Before(j, i)}
           q == PositionIn(shape, i)
           order == LoopOrder(shape)
           h == [p \in 1..q |-> order[p]]
           P == ArrayProduct(shape)
<1>1. /\ P \in Nat \ {0}
      /\ q \in 0..(P - 1)
      /\ \A p \in 1..P : order[p] \in AllIndices(shape) /\ PositionIn(shape, order[p]) = p - 1
      /\ \A j \in AllIndices(shape) : PositionIn(shape, j) \in 0..(P - 1) /\ order[PositionIn(shape, j) + 1] = j
  BY LoopVisits, SizesAreRadices
<1>2. \A j \in AllIndices(shape) : A!Before(j, i) <=> PositionIn(shape, j) < q
  <2> SUFFICES ASSUME NEW j \in AllIndices(shape)
               PROVE  A!Before(j, i) <=> PositionIn(shape, j) < q
    OBVIOUS
  <2>1. Len(shape) \in Nat /\ Radices(shape, Len(shape))
    BY SizesAreRadices
  <2>2. /\ j = [n \in 1..Len(shape) |-> j[n]] /\ IsIndex(j, shape, Len(shape))
        /\ i = [n \in 1..Len(shape) |-> i[n]] /\ IsIndex(i, shape, Len(shape))
    BY IndexFacts
  <2>3. IsBefore(j, i, Len(shape)) <=> Position(shape, Len(shape), j) < Position(shape, Len(shape), i)
    BY <2>1, <2>2, PositionTells
  <2>4. DOMAIN j = 1..Len(shape)
    BY <2>2
  <2>5. A!Before(j, i) <=> IsBefore(j, i, Len(shape))
    BY <2>4 DEF A!Before, IsBefore
  <2>6. QED  BY <2>3, <2>5 DEF PositionIn
<1>3. A!Place(i, shape) = Cardinality(S)
  BY IndicesAre, CardinalitiesAgree DEF A!Place
<1> HIDE DEF q, order, P
<1>4. h \in Bijection(1..q, S)
  <2>1. ASSUME NEW p \in 1..q
        PROVE  h[p] \in S /\ PositionIn(shape, h[p]) = p - 1
    <3>1. p \in 1..P
      BY <1>1
    <3>2. h[p] \in AllIndices(shape) /\ PositionIn(shape, h[p]) = p - 1
      BY <1>1, <3>1
    <3>3. p - 1 < q
      BY <1>1
    <3>4. QED  BY <1>2, <3>2, <3>3
  <2>2. ASSUME NEW j \in S
        PROVE  \E p \in 1..q : h[p] = j
    <3>1. PositionIn(shape, j) < q /\ PositionIn(shape, j) \in 0..(P - 1)
      BY <1>1, <1>2
    <3>2. PositionIn(shape, j) + 1 \in 1..q
      BY <1>1, <3>1
    <3>3. h[PositionIn(shape, j) + 1] = j
      BY <1>1, <3>2
    <3>4. QED  BY <3>2, <3>3
  <2>3. \A p, o \in 1..q : h[p] = h[o] => p = o
    <3> SUFFICES ASSUME NEW p \in 1..q, NEW o \in 1..q, h[p] = h[o] PROVE p = o
      OBVIOUS
    <3>1. p - 1 = o - 1 /\ p \in Nat /\ o \in Nat
      BY <1>1, <2>1
    <3>2. QED  BY <3>1
  <2>4. h \in [1..q -> S]
    BY <2>1
  <2>5. h \in Injection(1..q, S)
    BY <2>3, <2>4 DEF Injection, IsInjective
  <2>6. h \in Surjection(1..q, S)
    BY <2>2, <2>4 DEF Surjection
  <2>7. QED  BY <2>5, <2>6 DEF Bijection
<1>5. Cardinality(S) = q
  <2>1. q \in Nat
    BY <1>1
  <2> HIDE DEF S, h
  <2>2. ExistsBijection(1..q, S)
    BY <1>4 DEF ExistsBijection
  <2>3. QED  BY <2>1, <2>2, FS_CountingElements
<1>6. QED  BY <1>3, <1>5 DEF q

-----------------------------------------------------------------------------
(* Broadcasting *)

(* The size of the n-th of L dimensions, counted from the end. *)
LEMMA EndSize ==
  ASSUME NEW s \in Seq(Sizes), NEW L \in Nat, Len(s) <= L, NEW n \in 1..L
  PROVE  /\ SizeFromEnd(s, L - n + 1) = IF n + Len(s) > L THEN s[n + Len(s) - L] ELSE 1
         /\ SizeFromEnd(s, L - n + 1) \in Nat \ {0}
<1>1. Len(s) \in Nat /\ (L - n + 1 > Len(s) <=> ~(n + Len(s) > L))
      /\ Len(s) - (L - n + 1) + 1 = n + Len(s) - L
  OBVIOUS
<1>2. n + Len(s) > L => n + Len(s) - L \in 1..Len(s)
  BY <1>1
<1>3. \A m \in 1..Len(s) : s[m] \in Nat \ {0}
  BY DEF Sizes
<1>4. SizeFromEnd(s, L - n + 1) = IF n + Len(s) > L THEN s[n + Len(s) - L] ELSE 1
  BY <1>1 DEF SizeFromEnd
<1>5. QED  BY <1>2, <1>3, <1>4

(* The elements of a concatenation, and of a piece of a shape. *)
LEMMA JoinIs ==
  ASSUME NEW s \in Seq(Sizes), NEW t \in Seq(Sizes), NEW n \in 1..(Len(s) + Len(t))
  PROVE  (s \o t)[n] = IF n <= Len(s) THEN s[n] ELSE t[n - Len(s)]
<1>1. \A i \in 1..(Len(s) + Len(t)) : (s \o t)[i] = IF i <= Len(s) THEN s[i] ELSE t[i - Len(s)]
  BY ConcatProperties
<1>2. QED  BY <1>1

LEMMA PieceIs ==
  ASSUME NEW s \in Seq(Sizes), NEW first \in 1..(Len(s) + 1), NEW last \in 0..Len(s), first - 1 <= last
  PROVE  /\ SubSeq(s, first, last) \in Seq(Sizes)
         /\ Len(SubSeq(s, first, last)) = last - first + 1
         /\ \A n \in 1..(last - first + 1) : SubSeq(s, first, last)[n] = s[n + (first - 1)]
<1>1. \A i \in first..last : s[i] \in Sizes
  OBVIOUS
<1>2. first \in Int /\ last \in Int
  OBVIOUS
<1>3. /\ SubSeq(s, first, last) \in Seq(Sizes)
      /\ Len(SubSeq(s, first, last)) = IF first <= last THEN last - first + 1 ELSE 0
      /\ \A i \in 1..(last - first + 1) : SubSeq(s, first, last)[i] = s[first + i - 1]
  BY <1>1, <1>2, SubSeqProperties
<1>4. (IF first <= last THEN last - first + 1 ELSE 0) = last - first + 1
  BY <1>2
<1>5. \A i \in 1..(last - first + 1) : first + i - 1 = i + (first - 1)
  BY <1>2
<1>6. QED  BY <1>3, <1>4, <1>5

(* The shorter shape, repeated along the dimensions of the longer. *)
Spread(long, short) ==
  SubSeq(long, 1, Len(long) - Len(short))
  \o [n \in DOMAIN short |-> IF short[n] = 1 THEN long[n + (Len(long) - Len(short))] ELSE short[n]]

LEMMA SpreadIs ==
  ASSUME NEW long \in Seq(Sizes), NEW short \in Seq(Sizes), Len(short) <= Len(long), NEW n \in 1..Len(long)
  PROVE  Spread(long, short)[n]
           = IF SizeFromEnd(short, Len(long) - n + 1) = 1 THEN long[n] ELSE SizeFromEnd(short, Len(long) - n + 1)
<1> DEFINE size == SizeFromEnd(short, Len(long) - n + 1)
<1>1. PICK L, K, added : L = Len(long) /\ K = Len(short) /\ added = L - K
  OBVIOUS
<1>2. L \in Nat /\ K \in Nat /\ added \in Nat /\ added <= L /\ DOMAIN short = 1..K /\ added + K = L
  BY <1>1
<1>3. size = IF n + K > L THEN short[n + K - L] ELSE 1
  BY <1>1, <1>2, EndSize
<1> DEFINE head == SubSeq(long, 1, added)
           both == [m \in DOMAIN short |-> IF short[m] = 1 THEN long[m + added] ELSE short[m]]
<1>4. head \in Seq(Sizes) /\ Len(head) = added /\ \A m \in 1..added : head[m] = long[m]
  <2>1. 1 \in 1..(Len(long) + 1) /\ added \in 0..Len(long) /\ 1 - 1 <= added /\ added - 1 + 1 = added
    BY <1>1, <1>2
  <2>2. \A m \in 1..added : m + (1 - 1) = m
    BY <1>2
  <2>3. /\ head \in Seq(Sizes) /\ Len(head) = added - 1 + 1
        /\ \A m \in 1..(added - 1 + 1) : head[m] = long[m + (1 - 1)]
    BY <2>1, PieceIs
  <2> HIDE DEF head
  <2>4. QED  BY <2>1, <2>2, <2>3
<1>5. both \in Seq(Sizes) /\ Len(both) = K
  <2>1. \A m \in 1..K : m + added \in 1..Len(long)
    BY <1>1, <1>2
  <2>2. both \in [1..K -> Sizes]
    BY <1>2, <2>1
  <2> HIDE DEF both
  <2>3. QED  BY <1>2, <2>2, FunctionIsSequence
<1>6. Spread(long, short) = head \o both
  BY <1>1 DEF Spread
<1>7. \A m \in 1..K : both[m] = IF short[m] = 1 THEN long[m + added] ELSE short[m]
  BY <1>2
<1> HIDE DEF head, both, size
<1>8. (head \o both)[n] = IF n <= added THEN head[n] ELSE both[n - added]
  <2>1. n \in 1..(Len(head) + Len(both))
    BY <1>1, <1>2, <1>4, <1>5
  <2>2. (head \o both)[n] = IF n <= Len(head) THEN head[n] ELSE both[n - Len(head)]
    BY <1>4, <1>5, <2>1, JoinIs
  <2>3. QED  BY <1>4, <2>2
<1>9. CASE n <= added
  <2>1. ~(n + K > L) /\ n \in 1..added
    BY <1>2, <1>9
  <2>2. QED  BY <1>3, <1>4, <1>6, <1>8, <1>9, <2>1 DEF size
<1>10. CASE ~(n <= added)
  <2>1. n + K > L /\ n + K - L = n - added /\ n - added \in 1..K /\ (n - added) + added = n
    BY <1>1, <1>2, <1>10
  <2>2. both[n - added] = IF short[n - added] = 1 THEN long[n] ELSE short[n - added]
    BY <1>7, <2>1
  <2>3. size = short[n - added]
    BY <1>3, <2>1
  <2>4. QED  BY <1>6, <1>8, <1>10, <2>2, <2>3 DEF size
<1>11. QED  BY <1>9, <1>10

(* A broadcast has the larger size in every dimension, to which both operands *)
(* can be expanded.                                                            *)
LEMMA BroadcastIs ==
  ASSUME NEW a \in Seq(Sizes), NEW b \in Seq(Sizes), ViewBroadcastOK(a, b)
  PROVE  /\ A!CommonShape(a, b) = ViewBroadcast(a, b)
         /\ IsExpandable(a, ViewBroadcast(a, b))
         /\ IsExpandable(b, ViewBroadcast(a, b))
<1> DEFINE L == Longer(a, b)
           c == ViewBroadcast(a, b)
           Sa(n) == SizeFromEnd(a, L - n + 1)
           Sb(n) == SizeFromEnd(b, L - n + 1)
<1>1. c \in Seq(Sizes) /\ Len(c) = L /\ L \in Nat
  BY BroadcastShape
<1>2. Len(a) \in Nat /\ Len(b) \in Nat /\ Len(a) <= L /\ Len(b) <= L
  BY DEF Longer
<1>3. \A n \in 1..L : /\ Sa(n) = IF n + Len(a) > L THEN a[n + Len(a) - L] ELSE 1
                      /\ Sb(n) = IF n + Len(b) > L THEN b[n + Len(b) - L] ELSE 1
                      /\ Sa(n) \in Nat \ {0}
                      /\ Sb(n) \in Nat \ {0}
  BY <1>1, <1>2, EndSize
<1>4. \A n \in 1..L : Sa(n) = 1 \/ Sb(n) = 1 \/ Sa(n) = Sb(n)
  <2>1. \A n \in 1..L : L - n + 1 \in 1..L
    BY <1>1
  <2>2. QED  BY <2>1 DEF ViewBroadcastOK
<1>5. ASSUME NEW n \in 1..L
      PROVE  /\ Sa(n) = 1 => c[n] = Sb(n)
             /\ Sb(n) = 1 => c[n] = Sa(n)
             /\ c[n] \in {Sa(n), Sb(n)}
  <2>1. CASE Len(a) > Len(b)
    <3>1. c = Spread(a, b)
      BY <2>1 DEF ViewBroadcast, Spread
    <3>2. L = Len(a) /\ Len(b) <= Len(a)
      BY <1>2, <2>1 DEF Longer
    <3>3. c[n] = IF Sb(n) = 1 THEN a[n] ELSE Sb(n)
      BY <3>1, <3>2, SpreadIs
    <3>4. Sa(n) = a[n]
      BY <1>2, <1>3, <3>2
    <3> HIDE DEF Sa, Sb, c, L
    <3>5. QED  BY <1>4, <3>3, <3>4
  <2>2. CASE ~(Len(a) > Len(b))
    <3>1. c = Spread(b, a)
      BY <2>2 DEF ViewBroadcast, Spread
    <3>2. L = Len(b) /\ Len(a) <= Len(b)
      BY <1>2, <2>2 DEF Longer
    <3>3. c[n] = IF Sa(n) = 1 THEN b[n] ELSE Sa(n)
      BY <3>1, <3>2, SpreadIs
    <3>4. Sb(n) = b[n]
      BY <1>2, <1>3, <3>2
    <3> HIDE DEF Sa, Sb, c, L
    <3>5. QED  BY <1>4, <3>3, <3>4
  <2>3. QED  BY <2>1, <2>2
<1> DEFINE Larger(m, n) == IF m > n THEN m ELSE n
<1>6. \A n \in 1..L : c[n] = Larger(Sa(n), Sb(n)) /\ Sa(n) \in {1, c[n]} /\ Sb(n) \in {1, c[n]}
  <2> SUFFICES ASSUME NEW n \in 1..L
               PROVE  c[n] = Larger(Sa(n), Sb(n)) /\ Sa(n) \in {1, c[n]} /\ Sb(n) \in {1, c[n]}
    OBVIOUS
  <2> HIDE DEF Sa, Sb, c, L
  <2>1. QED  BY <1>3, <1>4, <1>5
<1>7. A!CommonShape(a, b) = c
  <2>1. Larger(Len(a), Len(b)) = L
    BY DEF Longer
  <2>2. A!CommonShape(a, b) = [n \in 1..L |-> Larger(IF n + Len(a) > L THEN a[n + Len(a) - L] ELSE 1,
                                                      IF n + Len(b) > L THEN b[n + Len(b) - L] ELSE 1)]
    BY <2>1 DEF A!CommonShape
  <2> HIDE DEF Larger, L, c
  <2>3. A!CommonShape(a, b) = [n \in 1..L |-> c[n]]
    BY <1>3, <1>6, <2>2
  <2>4. c = [n \in 1..L |-> c[n]]
    BY <1>1
  <2>5. QED  BY <2>3, <2>4
<1>8. ASSUME NEW s \in {a, b}, \A n \in 1..L : SizeFromEnd(s, L - n + 1) \in {1, c[n]}
      PROVE  IsExpandable(s, c)
  <2> HIDE DEF c, L
  <2>1. Len(s) \in Nat /\ Len(s) <= L
    BY <1>2
  <2>2. ASSUME NEW k \in 1..Len(s) PROVE SizeFromEnd(s, k) \in {1, SizeFromEnd(c, k)}
    <3>1. L - k + 1 \in 1..L /\ L - (L - k + 1) + 1 = k /\ ~(k > Len(c))
      BY <1>1, <2>1
    <3>2. SizeFromEnd(c, k) = c[L - k + 1]
      BY <1>1, <3>1 DEF SizeFromEnd
    <3>3. SizeFromEnd(s, L - (L - k + 1) + 1) \in {1, c[L - k + 1]}
      BY <1>8, <3>1
    <3>4. QED  BY <3>1, <3>2, <3>3
  <2>3. QED  BY <1>1, <2>1, <2>2 DEF IsExpandable
<1>9. QED
  <2> HIDE DEF c, L
  <2>1. /\ \A n \in 1..L : SizeFromEnd(a, L - n + 1) \in {1, c[n]}
        /\ \A n \in 1..L : SizeFromEnd(b, L - n + 1) \in {1, c[n]}
    BY <1>6
  <2>2. QED  BY <1>7, <1>8, <2>1 DEF c

-----------------------------------------------------------------------------
(* The operations that compute element by element *)

(* What the arrays say of the elements of a buffer. *)
LEMMA ValueIs ==
  ASSUME AgreeInv, NEW x \in DOMAIN buffers, NEW i \in AllIndices(ShapeOf(x))
  PROVE  /\ Value(array[x].cell[i]) = Element(x, i)
         /\ Value(array[x].cell[i]) \in Int
<1> DEFINE s == StorageOf(x)
           cell == array[x].cell[i]
<1>1. i \in AllIndices(ViewOf(x).shape)
  BY BufferFacts
<1>2. /\ Stands(array[x], ViewOf(x), s, value[s])
      /\ ReadsAs(ViewOf(x), DataOf(x), array[x], value[s])
  BY DEF AgreeInv, HistoryInv
<1>3. cell = <<s, cell[2]>> /\ value[s][cell[2]] \in Int
  BY <1>1, <1>2 DEF Stands
<1>4. DataOf(x)[Address(ViewOf(x), i)] = value[s][cell[2]]
  BY <1>1, <1>2 DEF ReadsAs
<1> HIDE DEF s, cell
<1>5. cell[1] = s
  BY <1>3
<1>6. Value(cell) = value[s][cell[2]]
  BY <1>5 DEF Value
<1>7. QED  BY <1>3, <1>4, <1>6 DEF Element, cell

LEMMA ElementsAre ==
  ASSUME AgreeInv, NEW x \in DOMAIN buffers, NEW i \in AllIndices(ShapeOf(x))
  PROVE  Elements(x)[i] = Element(x, i)
<1>1. Coordinates(ShapeOf(x)) = AllIndices(ShapeOf(x))
  BY BufferFacts, IndicesFinite DEF Coordinates
<1>2. QED  BY <1>1 DEF Elements

LEMMA RepeatedIs ==
  ASSUME AgreeInv, NEW x \in DOMAIN buffers, NEW shape, IsShape(shape), IsExpandable(ShapeOf(x), shape),
         NEW i \in AllIndices(shape)
  PROVE  /\ Repeated(array[x], i) = Broadcast(x, shape, i)
         /\ Repeated(array[x], i) \in Int
<1> DEFINE v == ViewOf(x)
           j == A!Unexpanded(i, v.shape)
<1>1. IsView(v) /\ ShapeOf(x) = v.shape /\ array[x].shape = v.shape
  BY BufferFacts
<1>2. j \in AllIndices(v.shape) /\ Address(ViewExpand(v, shape), i) = Address(v, j)
  BY <1>1, UnexpandedIs
<1>3. Repeated(array[x], i) = Value(array[x].cell[j])
  BY <1>1 DEF Repeated
<1> HIDE DEF j
<1>4. Value(array[x].cell[j]) = Element(x, j) /\ Value(array[x].cell[j]) \in Int
  BY <1>1, <1>2, ValueIs
<1>5. Element(x, j) = Broadcast(x, shape, i)
  BY <1>2 DEF Element, Broadcast
<1>6. QED  BY <1>3, <1>4, <1>5

LEMMA CreateAgrees ==
  ASSUME AgreeInv, NEW shape \in NewShapes, ACreate(shape)
  PROVE  HistoryInv'
<1> DEFINE view == ViewCreateContiguous(shape)
           data == Given(ViewPhysicalSize(view))
           elements == [index \in A!Indices(shape) |-> 1 + A!Place(index, shape)]
<1>1. /\ Allocate(view, data) /\ ViewCreateOK(shape)
      /\ NewArray(shape, elements)
  BY DEF ACreate, Create
<1>2. IsShape(shape) /\ shape \in Seq(Sizes)
  BY <1>1, ShapesAssumption, ShapeIsCreated, ShapeFacts
<1>3. ViewPhysicalSize(view) = ArrayProduct(shape)
  BY <1>2, ContiguousSize
<1>4. \A i \in AllIndices(shape) : PositionIn(shape, i) \in 0..(ArrayProduct(shape) - 1)
  BY <1>2, LoopVisits
<1>5. ArrayProduct(shape) \in Nat
  BY <1>2, ContiguousSize
<1>6. elements = [index \in AllIndices(shape) |-> 1 + A!Place(index, shape)]
  BY <1>2, IndicesAre
<1>7. \A i \in AllIndices(shape) : A!Place(i, shape) = PositionIn(shape, i)
  BY <1>2, PlaceIs
<1> HIDE DEF elements, view
<1>8. \A i \in AllIndices(shape) : elements[i] = 1 + PositionIn(shape, i)
  BY <1>6, <1>7
<1>9. ASSUME NEW i \in AllIndices(shape)
      PROVE  elements[i] \in Int /\ data[PositionIn(shape, i)] = elements[i]
  <2> DEFINE q == PositionIn(shape, i)
  <2>1. elements[i] = 1 + q /\ q \in 0..(ArrayProduct(shape) - 1)
    BY <1>4, <1>8
  <2> HIDE DEF q
  <2>2. data[q] = q + 1
    BY <1>3, <2>1 DEF Given
  <2> HIDE DEF data
  <2>3. QED  BY <1>5, <2>1, <2>2 DEF q
<1>10. DOMAIN elements = AllIndices(shape)
  BY <1>6
<1> HIDE DEF data
<1>11. QED  BY <1>1, <1>2, <1>9, <1>10, NewAgrees DEF view

LEMMA ContiguousAgrees ==
  ASSUME AgreeInv, NEW x \in DOMAIN buffers, AContiguous(x)
  PROVE  HistoryInv'
<1> DEFINE shape == ShapeOf(x)
           elements == A!Elements(array[x], Value)
<1>1. IsShape(shape) /\ array[x].shape = shape /\ DOMAIN array[x].cell = AllIndices(shape)
  BY BufferFacts
<1>2. /\ Allocate(ViewCreateContiguous(shape), Computed(ViewCreateContiguous(shape), Elements(x)))
      /\ NewArray(shape, elements)
  BY <1>1 DEF AContiguous, Contiguous
<1>3. elements = [i \in AllIndices(shape) |-> Value(array[x].cell[i])]
  BY <1>1 DEF A!Elements
<1>4. \A i \in AllIndices(shape) : elements[i] \in Int /\ Elements(x)[i] = elements[i]
  BY <1>3, ValueIs, ElementsAre
<1>5. DOMAIN elements = AllIndices(shape)
  BY <1>3
<1> HIDE DEF elements
<1>6. QED  BY <1>1, <1>2, <1>4, <1>5, ComputeAgrees

LEMMA NegationAgrees ==
  ASSUME AgreeInv, NEW x \in DOMAIN buffers, ANegation(x)
  PROVE  HistoryInv'
<1> DEFINE shape == ShapeOf(x)
           elements == A!Elements(array[x], LAMBDA cell : -Value(cell))
           new == [index \in Coordinates(shape) |-> -Element(x, index)]
<1>1. IsShape(shape) /\ array[x].shape = shape /\ DOMAIN array[x].cell = AllIndices(shape)
  BY BufferFacts
<1>2. ViewCreateContiguous(shape).shape = shape
  BY DEF ViewCreateContiguous, View
<1>3. /\ Allocate(ViewCreateContiguous(shape), Computed(ViewCreateContiguous(shape), new))
      /\ NewArray(shape, elements)
  BY <1>1, <1>2 DEF ANegation, Negation
<1>4. elements = [i \in AllIndices(shape) |-> -Value(array[x].cell[i])]
  BY <1>1 DEF A!Elements
<1>5. Coordinates(shape) = AllIndices(shape)
  BY BufferFacts, IndicesFinite DEF Coordinates
<1>6. ASSUME NEW i \in AllIndices(shape)
      PROVE  elements[i] \in Int /\ new[i] = elements[i]
  <2>1. Value(array[x].cell[i]) = Element(x, i) /\ Value(array[x].cell[i]) \in Int
    BY ValueIs
  <2>2. elements[i] = -Value(array[x].cell[i]) /\ new[i] = -Element(x, i)
    BY <1>4, <1>5
  <2>3. \A e \in Int : -e \in Int
    OBVIOUS
  <2> HIDE DEF elements, new
  <2>4. QED  BY <2>1, <2>2, <2>3
<1>7. DOMAIN elements = AllIndices(shape)
  BY <1>4
<1> HIDE DEF elements, new
<1>8. QED  BY <1>1, <1>3, <1>6, <1>7, ComputeAgrees

LEMMA AdditionAgrees ==
  ASSUME AgreeInv, NEW x \in DOMAIN buffers, NEW y \in DOMAIN buffers, AAddition(x, y)
  PROVE  HistoryInv'
<1> DEFINE shape == ViewBroadcast(ShapeOf(x), ShapeOf(y))
           common == A!CommonShape(array[x].shape, array[y].shape)
           elements == [index \in A!Indices(common) |-> Repeated(array[x], index) + Repeated(array[y], index)]
           new == [index \in Coordinates(shape) |-> Broadcast(x, shape, index) + Broadcast(y, shape, index)]
<1>1. /\ ViewBroadcastOK(ShapeOf(x), ShapeOf(y))
      /\ Allocate(ViewCreateContiguous(shape), Computed(ViewCreateContiguous(shape), new))
      /\ NewArray(common, elements)
  BY DEF AAddition, Addition
<1>2. /\ ShapeOf(x) \in Seq(Sizes) /\ array[x].shape = ShapeOf(x)
      /\ ShapeOf(y) \in Seq(Sizes) /\ array[y].shape = ShapeOf(y)
      /\ IsShape(ShapeOf(x)) /\ IsShape(ShapeOf(y))
  BY BufferFacts
<1>3. IsShape(shape) /\ shape \in Seq(Sizes)
  BY <1>2, BroadcastIsShape, ShapeFacts
<1>4. common = shape /\ IsExpandable(ShapeOf(x), shape) /\ IsExpandable(ShapeOf(y), shape)
  BY <1>1, <1>2, BroadcastIs
<1> HIDE DEF shape, common
<1>5. /\ elements = [i \in AllIndices(shape) |-> Repeated(array[x], i) + Repeated(array[y], i)]
      /\ new = [i \in AllIndices(shape) |-> Broadcast(x, shape, i) + Broadcast(y, shape, i)]
  BY <1>3, <1>4, IndicesAre, IndicesFinite DEF Coordinates
<1>6. ASSUME NEW i \in AllIndices(shape)
      PROVE  elements[i] \in Int /\ new[i] = elements[i]
  <2>1. Repeated(array[x], i) = Broadcast(x, shape, i) /\ Repeated(array[x], i) \in Int
    BY <1>3, <1>4, RepeatedIs
  <2>2. Repeated(array[y], i) = Broadcast(y, shape, i) /\ Repeated(array[y], i) \in Int
    BY <1>3, <1>4, RepeatedIs
  <2>3. /\ elements[i] = Repeated(array[x], i) + Repeated(array[y], i)
        /\ new[i] = Broadcast(x, shape, i) + Broadcast(y, shape, i)
    BY <1>5
  <2>4. QED  BY <2>1, <2>2, <2>3
<1>7. DOMAIN elements = AllIndices(shape)
  BY <1>5
<1> HIDE DEF elements, new
<1>8. QED  BY <1>1, <1>3, <1>4, <1>6, <1>7, ComputeAgrees

LEMMA CommonSymmetric ==
  ASSUME NEW a \in Seq(Sizes), NEW b \in Seq(Sizes)
  PROVE  A!CommonShape(a, b) = A!CommonShape(b, a)
<1> DEFINE Larger(m, n) == IF m > n THEN m ELSE n
           rank == Larger(Len(a), Len(b))
           Size(shape, n) == IF n + Len(shape) > rank THEN shape[n + Len(shape) - rank] ELSE 1
<1>1. \A m, n \in Int : Larger(m, n) = Larger(n, m)
  OBVIOUS
<1>2. Len(a) \in Nat /\ Len(b) \in Nat
  OBVIOUS
<1>3. Larger(Len(b), Len(a)) = rank /\ rank \in Nat
  BY <1>2
<1>4. ASSUME NEW s \in {a, b}, NEW n \in 1..rank PROVE Size(s, n) \in Int
  <2>1. Len(s) \in Nat /\ Len(s) <= rank /\ s \in Seq(Sizes)
    BY <1>2
  <2> HIDE DEF rank
  <2>2. n + Len(s) > rank => n + Len(s) - rank \in 1..Len(s)
    BY <1>3, <2>1
  <2>3. \A m \in 1..Len(s) : s[m] \in Int
    BY <2>1 DEF Sizes
  <2>4. QED  BY <2>2, <2>3
<1>5. A!CommonShape(a, b) = [n \in 1..rank |-> Larger(Size(a, n), Size(b, n))]
  BY DEF A!CommonShape
<1>6. A!CommonShape(b, a) = [n \in 1..rank |-> Larger(Size(b, n), Size(a, n))]
  BY <1>3 DEF A!CommonShape
<1> HIDE DEF Larger, rank, Size
<1>7. \A n \in 1..rank : Larger(Size(a, n), Size(b, n)) = Larger(Size(b, n), Size(a, n))
  BY <1>1, <1>4
<1>8. QED  BY <1>5, <1>6, <1>7

LEMMA ExpandableFurther ==
  ASSUME NEW a \in Seq(Sizes), NEW b \in Seq(Sizes), NEW c \in Seq(Sizes),
         IsExpandable(a, b), IsExpandable(b, c)
  PROVE  IsExpandable(a, c)
<1>1. Len(a) \in Nat /\ Len(b) \in Nat /\ Len(c) \in Nat /\ Len(a) <= Len(b) /\ Len(b) <= Len(c)
  BY DEF IsExpandable
<1>2. \A n \in 1..Len(a) : n \in 1..Len(b)
  BY <1>1
<1>3. \A n \in 1..Len(a) : SizeFromEnd(a, n) \in {1, SizeFromEnd(c, n)}
  BY <1>2 DEF IsExpandable
<1>4. QED  BY <1>1, <1>3 DEF IsExpandable

LEMMA WhereAgrees ==
  ASSUME AgreeInv, NEW w \in DOMAIN buffers, NEW x \in DOMAIN buffers, NEW y \in DOMAIN buffers, AWhere(w, x, y)
  PROVE  HistoryInv'
<1> DEFINE both == ViewBroadcast(ShapeOf(x), ShapeOf(y))
           shape == ViewBroadcast(both, ShapeOf(w))
           common == A!CommonShape(array[w].shape, A!CommonShape(array[x].shape, array[y].shape))
           elements == [index \in A!Indices(common) |->
                          Repeated(IF Repeated(array[w], index) # 0 THEN array[x] ELSE array[y], index)]
           new == [index \in Coordinates(shape) |->
                     IF Broadcast(w, shape, index) # 0 THEN Broadcast(x, shape, index) ELSE Broadcast(y, shape, index)]
<1>1. /\ ViewBroadcastOK(ShapeOf(x), ShapeOf(y)) /\ ViewBroadcastOK(both, ShapeOf(w))
      /\ Allocate(ViewCreateContiguous(shape), Computed(ViewCreateContiguous(shape), new))
      /\ NewArray(common, elements)
  BY DEF AWhere, Where
<1>2. \A b \in {w, x, y} : /\ ShapeOf(b) \in Seq(Sizes)
                           /\ array[b].shape = ShapeOf(b)
                           /\ IsShape(ShapeOf(b))
  BY BufferFacts
<1>3. IsShape(both) /\ both \in Seq(Sizes)
  BY <1>2, BroadcastIsShape, ShapeFacts
<1>4. IsShape(shape) /\ shape \in Seq(Sizes)
  BY <1>2, <1>3, BroadcastIsShape, ShapeFacts
<1>5. /\ A!CommonShape(array[x].shape, array[y].shape) = both
      /\ IsExpandable(ShapeOf(x), both) /\ IsExpandable(ShapeOf(y), both)
  BY <1>1, <1>2, BroadcastIs
<1> HIDE DEF both
<1>6. /\ A!CommonShape(both, ShapeOf(w)) = shape
      /\ IsExpandable(both, shape) /\ IsExpandable(ShapeOf(w), shape)
  BY <1>1, <1>2, <1>3, BroadcastIs
<1>7. common = shape
  <2>1. common = A!CommonShape(ShapeOf(w), both)
    BY <1>2, <1>5
  <2>2. A!CommonShape(ShapeOf(w), both) = A!CommonShape(both, ShapeOf(w))
    BY <1>2, <1>3, CommonSymmetric
  <2>3. QED  BY <1>6, <2>1, <2>2
<1> HIDE DEF shape, common
<1>8. IsExpandable(ShapeOf(x), shape) /\ IsExpandable(ShapeOf(y), shape)
  BY <1>2, <1>3, <1>4, <1>5, <1>6, ExpandableFurther
<1>9. A!Indices(common) = AllIndices(shape) /\ Coordinates(shape) = AllIndices(shape)
  BY <1>4, <1>7, IndicesAre, IndicesFinite DEF Coordinates
<1>10. ASSUME NEW i \in AllIndices(shape)
       PROVE  elements[i] \in Int /\ new[i] = elements[i]
  <2>1. Repeated(array[x], i) = Broadcast(x, shape, i) /\ Repeated(array[x], i) \in Int
    BY <1>4, <1>8, RepeatedIs
  <2>2. Repeated(array[y], i) = Broadcast(y, shape, i) /\ Repeated(array[y], i) \in Int
    BY <1>4, <1>8, RepeatedIs
  <2>3. Repeated(array[w], i) = Broadcast(w, shape, i)
    BY <1>4, <1>6, RepeatedIs
  <2>4. elements[i] = Repeated(IF Repeated(array[w], i) # 0 THEN array[x] ELSE array[y], i)
    BY <1>9
  <2>5. new[i] = IF Broadcast(w, shape, i) # 0 THEN Broadcast(x, shape, i) ELSE Broadcast(y, shape, i)
    BY <1>9
  <2> HIDE DEF elements, new
  <2>6. CASE Broadcast(w, shape, i) = 0
    BY <2>2, <2>3, <2>4, <2>5, <2>6
  <2>7. CASE Broadcast(w, shape, i) # 0
    BY <2>1, <2>3, <2>4, <2>5, <2>7
  <2>8. QED  BY <2>6, <2>7
<1>11. DOMAIN elements = AllIndices(shape)
  BY <1>9
<1> HIDE DEF elements, new
<1>12. QED  BY <1>1, <1>4, <1>7, <1>10, <1>11, ComputeAgrees

(* A reshaped array has the element of the same position. *)
IsReshaped(r, a, shape, g) ==
  /\ r.shape = shape
  /\ r.cell = [i \in AllIndices(shape) |-> a.cell[g[i]]]
  /\ \A i \in AllIndices(shape) : /\ g[i] \in AllIndices(a.shape)
                                  /\ PositionIn(a.shape, g[i]) = PositionIn(shape, i)

LEMMA ReshapedIs ==
  ASSUME NEW shape \in Seq(Sizes), NEW old \in Seq(Sizes), ArrayProduct(shape) = ArrayProduct(old),
         NEW a, a.shape = old
  PROVE  \E g : IsReshaped(A!ArrayReshape(a, shape), a, shape, g)
<1> DEFINE place == [i \in A!Indices(a.shape) |-> A!Place(i, a.shape)]
           g == [i \in AllIndices(shape) |-> CHOOSE j \in DOMAIN place : place[j] = A!Place(i, shape)]
           r == A!ArrayReshape(a, shape)
<1>1. r.shape = shape /\ r.cell = [i \in AllIndices(shape) |-> a.cell[g[i]]]
  BY IndicesAre DEF A!ArrayReshape, A!Array
<1>2. ASSUME NEW i \in AllIndices(shape)
      PROVE  g[i] \in AllIndices(old) /\ PositionIn(old, g[i]) = PositionIn(shape, i)
  <2> DEFINE q == PositionIn(shape, i)
             k == LoopOrder(old)[q + 1]
  <2>1. q \in 0..(ArrayProduct(old) - 1) /\ ArrayProduct(old) \in Nat
    BY LoopVisits, SizesAreRadices
  <2>2. q + 1 \in 1..ArrayProduct(old) /\ (q + 1) - 1 = q
    BY <2>1
  <2>3. k \in AllIndices(old) /\ PositionIn(old, k) = q
    BY <2>2, LoopVisits
  <2>4. A!Place(i, shape) = q
    BY PlaceIs
  <2>5. DOMAIN place = AllIndices(old) /\ \A j \in AllIndices(old) : place[j] = PositionIn(old, j)
    BY IndicesAre, PlaceIs
  <2> HIDE DEF place, k, q
  <2>6. g[i] = CHOOSE j \in AllIndices(old) : place[j] = q
    BY <2>4, <2>5
  <2>7. g[i] \in AllIndices(old) /\ place[g[i]] = q
    BY <2>3, <2>5, <2>6
  <2>8. QED  BY <2>5, <2>7 DEF q
<1> HIDE DEF g, r
<1>3. IsReshaped(r, a, shape, g)
  BY <1>1, <1>2 DEF IsReshaped
<1>4. QED  BY <1>3 DEF r

LEMMA ReshapeAgrees ==
  ASSUME AgreeInv, NEW x \in DOMAIN buffers, NEW given \in Targets, AReshape(x, given)
  PROVE  HistoryInv'
<1> DEFINE old == ShapeOf(x)
           shape == ActualShape(given, ArrayProduct(old))
           v == ViewOf(x)
           c == ViewCreateContiguous(shape)
<1>1. /\ IsShape(old) /\ IsView(v) /\ old = v.shape /\ old \in Seq(Sizes)
      /\ array[x].shape = old /\ DOMAIN array[x].cell = AllIndices(old)
  BY BufferFacts
<1>2. ArrayProduct(old) \in Nat \ {0}
  BY <1>1, ContiguousSize
<1>3. ArrayProduct(shape) = ArrayProduct(old) /\ ViewCreateOK(shape)
  BY DEF AReshape, Reshape
<1>4. IsShape(shape) /\ shape \in Seq(Sizes)
  BY <1>2, <1>3, ActualShapeIs, ShapeIsCreated, ShapeFacts
<1>5. \/ /\ ViewIsContiguous(v)
         /\ Share(x, View(v.offset, shape, StridesFromShape(shape)))
      \/ Allocate(c, Computed(ViewCreateContiguous(old), Elements(x)))
  BY DEF AReshape, Reshape
<1>6. IsView(c) /\ ViewIsContiguous(c) /\ c.shape = shape
  BY <1>4, CreatedContiguous
<1>new. PICK n : n = New
  OBVIOUS
<1>7. n \notin DOMAIN buffers /\ n \notin DOMAIN storages /\ StorageOf(x) \in DOMAIN storages
  BY <1>new, NewIsNew DEF AgreeInv, BoundsInv, CountsInv, CountsMatch
<1> DEFINE reshaped == A!ArrayReshape(array[x], shape)
<1>8. buffers'[n].view = c =>
        IF buffers'[n].storage = StorageOf(x)
        THEN SharedArray(reshaped)
        ELSE NewArray(reshaped.shape, A!Elements(reshaped, Value))
  BY <1>6, <1>new DEF AReshape
<1>9. PICK g : /\ reshaped.shape = shape
               /\ reshaped.cell = [i \in AllIndices(shape) |-> array[x].cell[g[i]]]
               /\ \A i \in AllIndices(shape) : /\ g[i] \in AllIndices(old)
                                               /\ PositionIn(old, g[i]) = PositionIn(shape, i)
  <2>1. PICK g : IsReshaped(reshaped, array[x], shape, g)
    BY <1>1, <1>3, <1>4, ReshapedIs
  <2> HIDE DEF shape, old, reshaped
  <2>2. QED  BY <1>1, <2>1 DEF IsReshaped
<1> HIDE DEF shape, old, v, reshaped
<1>10. CASE ViewIsContiguous(v) /\ Share(x, View(v.offset, shape, StridesFromShape(shape)))
  <2>1. v.offset = 0
    BY <1>10 DEF ViewIsContiguous
  <2>2. View(v.offset, shape, StridesFromShape(shape)) = c
    BY <2>1 DEF ViewCreateContiguous
  <2> HIDE DEF c
  <2>3. Share(x, c)
    BY <1>10, <2>2
  <2>4. buffers'[n].view = c /\ buffers'[n].storage = StorageOf(x)
    BY <2>3, <1>new DEF Share, Attach, AddNew
  <2>5. SharedArray(reshaped)
    BY <1>8, <2>4
  <2>6. array' = AddNew(array, reshaped) /\ UNCHANGED <<value, saved>>
    BY <2>5 DEF SharedArray
  <2>7. ASSUME NEW i \in AllIndices(c.shape)
        PROVE  /\ g[i] \in AllIndices(ShapeOf(x))
               /\ reshaped.cell[i] = array[x].cell[g[i]]
               /\ Address(c, i) = Address(ViewOf(x), g[i])
    <3>1. i \in AllIndices(shape)
      BY <1>6
    <3>2. Address(c, i) = PositionIn(shape, i)
      BY <1>6, <3>1, ContiguousAddress
    <3>3. g[i] \in AllIndices(v.shape) /\ g[i] \in AllIndices(old) /\ PositionIn(v.shape, g[i]) = PositionIn(shape, i)
      BY <1>1, <1>9, <3>1
    <3>4. Address(v, g[i]) = PositionIn(v.shape, g[i])
      BY <1>1, <1>10, <3>3, ContiguousAddress
    <3>5. reshaped.cell[i] = array[x].cell[g[i]]
      BY <1>9, <3>1
    <3>6. QED  BY <3>2, <3>3, <3>4, <3>5 DEF v, old
  <2>8. reshaped.shape = c.shape /\ DOMAIN reshaped.cell = AllIndices(c.shape)
    BY <1>6, <1>9
  <2>9. QED  BY <2>3, <2>6, <2>7, <2>8, ShareAgrees
<1>11. CASE Allocate(c, Computed(ViewCreateContiguous(old), Elements(x)))
  <2> DEFINE data == Computed(ViewCreateContiguous(old), Elements(x))
             elements == A!Elements(reshaped, Value)
  <2>1. Allocate(c, data)
    BY <1>11
  <2>2. \A j \in AllIndices(old) : data[PositionIn(old, j)] = Elements(x)[j]
    BY <1>1, ComputedIs
  <2> HIDE DEF data, c
  <2>3. buffers'[n].view = c /\ buffers'[n].storage = n
    BY <2>1, <1>new DEF Allocate, Attach, AddNew
  <2>4. NewArray(shape, elements)
    BY <1>7, <1>8, <1>9, <2>3
  <2>5. elements = [i \in AllIndices(shape) |-> Value(array[x].cell[g[i]])]
    BY <1>9 DEF A!Elements
  <2> HIDE DEF elements
  <2>6. ASSUME NEW i \in AllIndices(shape)
        PROVE  elements[i] \in Int /\ data[PositionIn(shape, i)] = elements[i]
    <3>1. g[i] \in AllIndices(old) /\ PositionIn(old, g[i]) = PositionIn(shape, i)
      BY <1>9
    <3>2. g[i] \in AllIndices(ShapeOf(x))
      BY <3>1 DEF old
    <3>3. /\ Value(array[x].cell[g[i]]) = Element(x, g[i])
          /\ Value(array[x].cell[g[i]]) \in Int
      BY <3>2, ValueIs
    <3>4. Elements(x)[g[i]] = Element(x, g[i])
      BY <3>2, ElementsAre
    <3>5. data[PositionIn(shape, i)] = Elements(x)[g[i]]
      BY <2>2, <3>1
    <3>6. QED  BY <2>5, <3>3, <3>4, <3>5
  <2>7. DOMAIN elements = AllIndices(shape)
    BY <2>5
  <2>8. Allocate(ViewCreateContiguous(shape), data)
    BY <2>1 DEF c
  <2>9. QED  BY <1>4, <2>4, <2>6, <2>7, <2>8, NewAgrees
<1>12. QED  BY <1>5, <1>10, <1>11

-----------------------------------------------------------------------------
(* Padding *)

LEMMA PaddingAgrees ==
  ASSUME AgreeInv, NEW x \in DOMAIN buffers,
         NEW arguments \in PaddingArguments(Rank(ViewOf(x))), APadding(x, arguments)
  PROVE  HistoryInv'
<1> DEFINE old == ShapeOf(x)
           r == Rank(ViewOf(x))
           shape == [n \in DOMAIN arguments |-> arguments[n][1] + old[n] + arguments[n][2]]
           before == [n \in DOMAIN arguments |-> arguments[n][1]]
           Inner(index) == [n \in DOMAIN arguments |-> index[n] - arguments[n][1]]
           Inside(index) == \A n \in DOMAIN arguments : Inner(index)[n] \in 0..(old[n] - 1)
           new == [index \in Coordinates(shape) |-> IF Inside(index) THEN Element(x, Inner(index)) ELSE 0]
           elements == A!PaddedElements(array[x], before, shape, Value)
<1>1. /\ array[x].shape = old /\ DOMAIN array[x].cell = AllIndices(old)
      /\ old \in Seq(Sizes) /\ r = Len(old) /\ ViewOf(x).shape = old
  BY BufferFacts
<1>2. r \in Nat /\ r <= MAX_RANK
  BY RankOfView DEF AgreeInv
<1>3. /\ Allocate(ViewCreateContiguous(shape), Computed(ViewCreateContiguous(shape), new))
      /\ NewArray(shape, elements)
  <2>1. ViewPadding(ViewOf(x), arguments) = ViewCreateContiguous(shape)
    BY <1>1 DEF ViewPadding
  <2>2. ViewCreateContiguous(shape).shape = shape
    BY DEF ViewCreateContiguous, View
  <2> HIDE DEF shape
  <2>3. Allocate(ViewCreateContiguous(shape), Computed(ViewCreateContiguous(shape), new))
    BY <2>1, <2>2 DEF APadding, Padding
  <2>4. NewArray(shape, elements)
    BY <1>1 DEF APadding, shape
  <2>5. QED  BY <2>3, <2>4
<1>4. PICK d \in 1..r, pair \in {<<0, 1>>, <<1, 0>>} :
        arguments = [n \in 1..r |-> IF n = d THEN pair ELSE <<0, 0>>]
  BY DEF PaddingArguments
<1> HIDE DEF r, old
<1>5. DOMAIN arguments = 1..r /\ \A n \in 1..r : arguments[n] \in {<<0, 0>>, <<0, 1>>, <<1, 0>>}
  BY <1>4
<1>6. \A n \in 1..r : arguments[n][1] \in Nat /\ arguments[n][2] \in Nat
  <2>1. \A p \in {<<0, 0>>, <<0, 1>>, <<1, 0>>} : p[1] \in Nat /\ p[2] \in Nat
    OBVIOUS
  <2>2. QED  BY <1>5, <2>1
<1>7. \A n \in 1..r : old[n] \in Nat \ {0}
  BY <1>1 DEF Sizes
<1>8. \A n \in 1..r : arguments[n][1] + old[n] + arguments[n][2] \in Sizes
  BY <1>6, <1>7 DEF Sizes
<1>9. shape \in [1..r -> Sizes]
  BY <1>5, <1>8
<1>10. \A i : Inner(i) = [n \in 1..r |-> i[n] - arguments[n][1]]
  BY <1>5
<1>11. elements = [i \in A!Indices(shape) |->
                     IF Inner(i) \in DOMAIN array[x].cell THEN Value(array[x].cell[Inner(i)]) ELSE 0]
  <2>1. DOMAIN shape = DOMAIN arguments /\ \A n \in DOMAIN arguments : before[n] = arguments[n][1]
    OBVIOUS
  <2> HIDE DEF before, shape
  <2>2. \A i : [n \in DOMAIN shape |-> i[n] - before[n]] = Inner(i)
    BY <2>1
  <2> HIDE DEF Inner
  <2>3. QED  BY <2>2 DEF A!PaddedElements
<1> HIDE DEF shape, elements
<1>12. IsShape(shape) /\ shape \in Seq(Sizes) /\ Len(shape) = r
  <2>1. shape \in Seq(Sizes) /\ Len(shape) = r
    BY <1>2, <1>9, FunctionIsSequence
  <2>2. QED  BY <1>2, <2>1, ShapeFacts
<1>13. A!Indices(shape) = AllIndices(shape) /\ Coordinates(shape) = AllIndices(shape)
  BY <1>12, IndicesAre, IndicesFinite DEF Coordinates
<1>14. ASSUME NEW i \in AllIndices(shape)
       PROVE  Inner(i) \in AllIndices(old) <=> Inside(i)
  <2>1. i \in [1..r -> Nat]
    BY <1>12 DEF AllIndices
  <2>2. \A n \in 1..r : i[n] \in Nat
    BY <2>1
  <2>3. Inner(i) = [n \in 1..r |-> i[n] - arguments[n][1]] /\ \A n \in 1..r : Inner(i)[n] = i[n] - arguments[n][1]
    BY <1>10
  <2> HIDE DEF Inner
  <2>4. ASSUME Inside(i) PROVE Inner(i) \in AllIndices(old)
    <3>1. \A n \in 1..r : Inner(i)[n] \in 0..(old[n] - 1)
      BY <1>5, <2>4
    <3>2. \A n \in 1..r : Inner(i)[n] \in Nat /\ Inner(i)[n] < old[n]
      BY <1>7, <3>1
    <3>3. Inner(i) \in [1..r -> Nat]
      BY <2>3, <3>2
    <3>4. QED  BY <1>1, <3>2, <3>3 DEF AllIndices
  <2>5. ASSUME Inner(i) \in AllIndices(old) PROVE Inside(i)
    <3>1. \A n \in 1..r : Inner(i)[n] \in Nat /\ Inner(i)[n] < old[n]
      BY <1>1, <2>5 DEF AllIndices
    <3>2. \A n \in 1..r : Inner(i)[n] \in 0..(old[n] - 1)
      BY <1>7, <3>1
    <3>3. QED  BY <1>5, <3>2
  <2>6. QED  BY <2>4, <2>5
<1> HIDE DEF Inner, Inside
<1>15. ASSUME NEW i \in AllIndices(shape)
       PROVE  elements[i] \in Int /\ new[i] = elements[i]
  <2>1. elements[i] = IF Inner(i) \in AllIndices(old) THEN Value(array[x].cell[Inner(i)]) ELSE 0
    BY <1>1, <1>11, <1>13
  <2>2. new[i] = IF Inside(i) THEN Element(x, Inner(i)) ELSE 0
    BY <1>13
  <2>3. Inner(i) \in AllIndices(old) <=> Inside(i)
    BY <1>14
  <2>4. Inner(i) \in AllIndices(old) => /\ Value(array[x].cell[Inner(i)]) = Element(x, Inner(i))
                                        /\ Value(array[x].cell[Inner(i)]) \in Int
    BY ValueIs DEF old
  <2> HIDE DEF new
  <2>5. QED  BY <2>1, <2>2, <2>3, <2>4
<1>16. DOMAIN elements = AllIndices(shape)
  BY <1>11, <1>13
<1> HIDE DEF new
<1>17. QED  BY <1>3, <1>12, <1>15, <1>16, ComputeAgrees

-----------------------------------------------------------------------------
(* Matrix multiplication *)

LEMMA SumsAgree == ASSUME NEW f PROVE A!SumFunction(f) = SumFunction(f)
  BY DEF A!SumFunction, SumFunction, A!SumFunctionOnSet, SumFunctionOnSet,
         A!FoldFunctionOnSet, FoldFunctionOnSet, A!MapThenFoldSet, MapThenFoldSet

(* A contiguous copy has the elements of the buffer. *)
LEMMA CopyIs ==
  ASSUME AgreeInv, NEW x \in DOMAIN buffers
  PROVE  /\ IsView(ContiguousCopy(x).view)
         /\ ViewIsContiguous(ContiguousCopy(x).view)
         /\ ContiguousCopy(x).view.shape = ShapeOf(x)
         /\ \A j \in AllIndices(ShapeOf(x)) :
              ContiguousCopy(x).data[Address(ContiguousCopy(x).view, j)] = Element(x, j)
<1> DEFINE copy == ContiguousCopy(x)
           c == ViewCreateContiguous(ShapeOf(x))
<1>1. IsView(ViewOf(x)) /\ IsShape(ShapeOf(x)) /\ ShapeOf(x) = ViewOf(x).shape
  BY BufferFacts
<1>2. IsView(c) /\ ViewIsContiguous(c) /\ c.shape = ShapeOf(x)
  BY <1>1, CreatedContiguous
<1>3. CASE ViewIsContiguous(ViewOf(x))
  <2>1. copy.view = ViewOf(x) /\ copy.data = DataOf(x)
    BY <1>3 DEF ContiguousCopy
  <2> HIDE DEF copy
  <2>2. QED  BY <1>1, <1>3, <2>1 DEF Element, copy
<1>4. CASE ~ViewIsContiguous(ViewOf(x))
  <2>1. copy.view = c /\ copy.data = Computed(c, Elements(x))
    BY <1>4 DEF ContiguousCopy
  <2> HIDE DEF copy
  <2>2. ASSUME NEW j \in AllIndices(ShapeOf(x))
        PROVE  copy.data[Address(copy.view, j)] = Element(x, j)
    <3>1. Computed(c, Elements(x))[PositionIn(ShapeOf(x), j)] = Elements(x)[j]
      BY <1>1, ComputedIs
    <3> HIDE DEF c
    <3>2. Address(c, j) = PositionIn(ShapeOf(x), j)
      BY <1>2, ContiguousAddress
    <3>3. Elements(x)[j] = Element(x, j)
      BY ElementsAre
    <3>4. QED  BY <2>1, <3>1, <3>2, <3>3
  <2>3. QED  BY <1>2, <2>1, <2>2 DEF copy
<1>5. QED  BY <1>3, <1>4

(* The last two strides of a contiguous view are those of the rows and the    *)
(* columns of a matrix.                                                         *)
LEMMA MatrixStrides ==
  ASSUME NEW v, IsView(v), ViewIsContiguous(v), NEW R, R = Rank(v), R >= 2
  PROVE  /\ v.shape[R] # 1 => v.strides[R] = 1
         /\ v.shape[R - 1] # 1 => v.strides[R - 1] = v.shape[R]
<1>1. v.shape \in Seq(Sizes) /\ R = Len(v.shape) /\ R \in Nat /\ DOMAIN v.shape = 1..R
  BY ViewShape, DimensionFacts
<1>2. R \in 1..R /\ R - 1 \in 1..R /\ R \in 0..R /\ (R - 1) \in 0..R
  BY <1>1
<1>3. /\ Radices(v.shape, R)
      /\ \A n \in 1..R : TailProduct(v.shape, n) = Weight(v.shape, R, n)
  BY <1>1, SizesAreRadices
<1>4. /\ Weight(v.shape, R, R) = 1
      /\ Weight(v.shape, R, R - 1) = v.shape[R] * Weight(v.shape, R, R)
  BY <1>1, <1>2, <1>3, WeightFacts
<1>5. v.shape[R] \in Nat
  BY <1>1, <1>2 DEF Sizes
<1>6. Weight(v.shape, R, R - 1) = v.shape[R]
  BY <1>4, <1>5
<1>7. \A n \in 1..R : v.shape[n] # 1 => v.strides[n] = TailProduct(v.shape, n)
  BY <1>1 DEF ViewIsContiguous, StridesFromShape
<1>8. QED  BY <1>2, <1>3, <1>4, <1>6, <1>7

LEMMA SumLastTwo ==
  ASSUME NEW L \in Nat, L >= 2, NEW f, \A n \in 1..L : f[n] \in Int
  PROVE  SumFunctionOnSet(f, 1..L) = f[L] + (f[L - 1] + SumFunctionOnSet(f, 1..(L - 2)))
<1>1. ASSUME NEW K \in Nat \ {0}, \A n \in 1..K : f[n] \in Int
      PROVE  SumFunctionOnSet(f, 1..K) = f[K] + SumFunctionOnSet(f, 1..(K - 1))
  <2>1. IsFiniteSet(1..K)
    BY FS_Interval
  <2>2. (1..K) \ {K} = 1..(K - 1) /\ K \in 1..K
    OBVIOUS
  <2>3. \A n \in 1..K : f[n] \in Int
    BY <1>1
  <2>4. SumFunctionOnSet(f, 1..K) = f[K] + SumFunctionOnSet(f, (1..K) \ {K})
    BY <2>1, <2>2, <2>3, SumRemove
  <2>5. QED  BY <2>2, <2>4
<1>2. L \in Nat \ {0} /\ L - 1 \in Nat \ {0} /\ (L - 1) - 1 = L - 2
      /\ \A n \in 1..(L - 1) : f[n] \in Int
  OBVIOUS
<1>3. SumFunctionOnSet(f, 1..L) = f[L] + SumFunctionOnSet(f, 1..(L - 1))
  BY <1>1, <1>2
<1>4. SumFunctionOnSet(f, 1..(L - 1)) = f[L - 1] + SumFunctionOnSet(f, 1..((L - 1) - 1))
  BY <1>1, <1>2
<1>5. QED  BY <1>2, <1>3, <1>4

(* The index is in the matrix that the other index is in, and the matrices    *)
(* have the size of those of the view.                                        *)
InMatrix(v, shape, index, i) ==
  /\ shape[Len(shape)] = v.shape[Rank(v)]
  /\ shape[Len(shape) - 1] = v.shape[Rank(v) - 1]
  /\ \A n \in 1..(Len(shape) - 2) : i[n] = index[n]

(* The kernel finds the element of an expanded operand. *)
LEMMA MatrixElementIs ==
  ASSUME NEW copy, IsView(copy.view), ViewIsContiguous(copy.view), Rank(copy.view) >= 2,
         NEW shape, IsShape(shape), IsExpandable(copy.view.shape, shape),
         NEW index, NEW i \in AllIndices(shape), InMatrix(copy.view, shape, index, i)
  PROVE  MatrixElement(copy, ViewExpand(copy.view, shape), index, i[Len(shape) - 1], i[Len(shape)])
           = copy.data[Address(copy.view, A!Unexpanded(i, copy.view.shape))]
<1> DEFINE L == Len(shape)
<1>0. /\ shape[L] = copy.view.shape[Rank(copy.view)]
      /\ shape[L - 1] = copy.view.shape[Rank(copy.view) - 1]
      /\ \A n \in 1..(L - 2) : i[n] = index[n]
  BY DEF InMatrix
<1> DEFINE v == copy.view
           R == Rank(v)
           e == ViewExpand(v, shape)
           f == Moves(e, i)
           N == 1..L
<1>1. v.shape \in Seq(Sizes) /\ R = Len(v.shape) /\ R \in Nat /\ R >= 2 /\ DOMAIN v.shape = 1..R
  BY ViewShape, DimensionFacts
<1>2. shape \in Seq(Sizes) /\ L \in Nat /\ R <= L /\ DOMAIN shape = 1..L
  BY <1>1, ShapeFacts DEF IsExpandable
<1> HIDE DEF L
<1>3. IsView(e) /\ e.shape = shape /\ e.offset = v.offset
  BY ExpandLast DEF ViewExpand, View
<1>4. \A n \in 1..L : n > L - R => e.strides[n] = IF v.shape[n - (L - R)] = 1 THEN 0 ELSE v.strides[n - (L - R)]
  BY <1>1, <1>2 DEF ViewExpand, View
<1> HIDE DEF e, v
<1>5. Rank(e) = L
  BY <1>3 DEF Rank, L
<1>6. /\ Address(e, i) = e.offset + SumFunctionOnSet(f, N)
      /\ \A n \in N : i[n] \in Nat /\ f[n] \in Nat
  BY <1>3, <1>5, MovesFacts
<1>7. \A n \in N : f[n] = i[n] * e.strides[n]
  BY <1>5 DEF Moves
<1>8. /\ L \in N /\ L - 1 \in N /\ L > L - R /\ L - 1 > L - R /\ L - (L - R) = R /\ (L - 1) - (L - R) = R - 1
      /\ L # L - 1 /\ (N \ {L}) \ {L - 1} = 1..(L - 2)
  BY <1>1, <1>2
<1>9. f[L] = i[L]
  <2>1. i[L] < shape[L] /\ i[L] \in Nat
    BY <1>0, <1>6, <1>8 DEF AllIndices, L
  <2>2. CASE v.shape[R] = 1
    <3>1. i[L] = 0 /\ e.strides[L] = 0
      BY <1>0, <1>4, <1>8, <2>1, <2>2 DEF v
    <3>2. QED  BY <1>7, <1>8, <3>1
  <2>3. CASE v.shape[R] # 1
    <3>1. e.strides[L] = v.strides[R]
      BY <1>4, <1>8, <2>3
    <3>2. v.strides[R] = 1
      BY <1>1, <2>3, MatrixStrides DEF v
    <3>3. QED  BY <1>7, <1>8, <2>1, <3>1, <3>2
  <2>4. QED  BY <2>2, <2>3
<1>10. f[L - 1] = i[L - 1] * shape[L]
  <2>1. i[L - 1] < shape[L - 1] /\ i[L - 1] \in Nat
    BY <1>0, <1>6, <1>8 DEF AllIndices, L
  <2>2. shape[L] \in Nat
    BY <1>2, <1>8 DEF Sizes
  <2>3. CASE v.shape[R - 1] = 1
    <3>1. i[L - 1] = 0 /\ e.strides[L - 1] = 0
      BY <1>0, <1>4, <1>8, <2>1, <2>3 DEF v
    <3>2. QED  BY <1>7, <1>8, <2>2, <3>1
  <2>4. CASE v.shape[R - 1] # 1
    <3>1. e.strides[L - 1] = v.strides[R - 1]
      BY <1>4, <1>8, <2>4
    <3>2. v.strides[R - 1] = v.shape[R]
      BY <1>1, <2>4, MatrixStrides DEF v
    <3>3. e.strides[L - 1] = shape[L]
      BY <1>0, <3>1, <3>2 DEF v
    <3>4. QED  BY <1>7, <1>8, <3>3
  <2>5. QED  BY <2>3, <2>4
<1>11. SumFunctionOnSet(f, N) = f[L] + (f[L - 1] + SumFunctionOnSet(f, 1..(L - 2)))
  <2>1. \A n \in 1..L : f[n] \in Int
    BY <1>6
  <2>2. L >= 2
    BY <1>1, <1>2
  <2> HIDE DEF f
  <2>3. QED  BY <1>2, <2>1, <2>2, SumLastTwo
<1> DEFINE g == [n \in 1..(Rank(e) - 2) |-> index[n] * e.strides[n]]
<1>12. SumFunctionOnSet(f, 1..(L - 2)) = SumFunction(g) /\ SumFunctionOnSet(f, 1..(L - 2)) \in Nat
  <2>1. DOMAIN g = 1..(L - 2)
    BY <1>5
  <2>2. \A n \in 1..(L - 2) : n \in N
    BY <1>2
  <2>3. \A n \in 1..(L - 2) : f[n] \in Nat /\ g[n] = f[n]
    BY <1>0, <1>5, <1>6, <1>7, <2>2
  <2>4. IsFiniteSet(1..(L - 2))
    BY <1>2, FS_Interval
  <2> HIDE DEF g, f
  <2>5. SumFunctionOnSet(f, 1..(L - 2)) = SumFunctionOnSet(g, 1..(L - 2))
    <3>1. PICK S : S = 1..(L - 2)
      OBVIOUS
    <3>2. \A n \in S : f[n] \in Int /\ g[n] = f[n]
      BY <2>3, <3>1
    <3>3. SumFunctionOnSet(f, S) = SumFunctionOnSet(g, S)
      BY <2>4, <3>1, <3>2, SumEqual
    <3>4. QED  BY <3>1, <3>3
  <2>6. SumFunctionOnSet(f, 1..(L - 2)) \in Nat
    BY <2>3, <2>4, SumNat
  <2>7. QED  BY <2>1, <2>5, <2>6 DEF SumFunction
<1>13. SizeFromEnd(e.shape, 1) = shape[L]
  <2>1. SizeFromEnd(e.shape, 1) = IF 1 > Len(shape) THEN 1 ELSE shape[Len(shape) - 1 + 1]
    BY <1>3 DEF SizeFromEnd
  <2>2. Len(shape) = L
    BY DEF L
  <2>3. ~(1 > L) /\ L - 1 + 1 = L
    BY <1>1, <1>2
  <2>4. QED  BY <2>1, <2>2, <2>3
<1>14. MatrixElement(copy, e, index, i[L - 1], i[L])
         = copy.data[e.offset + SumFunction(g) + i[L - 1] * shape[L] + i[L]]
  BY <1>13 DEF MatrixElement
<1> HIDE DEF g, f
<1>15. e.offset + SumFunction(g) + i[L - 1] * shape[L] + i[L] = Address(e, i)
  <2>1. e.offset \in Nat
    BY <1>3 DEF IsView
  <2>2. f[L] \in Nat /\ f[L - 1] \in Nat /\ SumFunction(g) \in Nat
    BY <1>6, <1>8, <1>12
  <2> HIDE DEF N
  <2>3. QED  BY <1>6, <1>9, <1>10, <1>11, <1>12, <2>1, <2>2
<1>16. Address(e, i) = Address(v, A!Unexpanded(i, v.shape))
  BY UnexpandedIs DEF e, v
<1>17. QED  BY <1>14, <1>15, <1>16 DEF e, v, L

LEMMA SameSequence ==
  ASSUME NEW s \in Seq(Sizes), NEW t \in Seq(Sizes), Len(s) = Len(t), \A n \in 1..Len(s) : s[n] = t[n]
  PROVE  s = t
<1>1. s \in [1..Len(s) -> Sizes] /\ t \in [1..Len(s) -> Sizes]
  OBVIOUS
<1>2. QED  BY <1>1

(* An operand, whose matrices are repeated to fill other dimensions. *)
IsOperand(s, a, c) ==
  /\ IsShape(s)
  /\ Len(s) = Len(c) + 2
  /\ \A n \in 1..Len(c) : s[n] = c[n]
  /\ s[Len(c) + 1] = a[Len(a) - 1]
  /\ s[Len(c) + 2] = a[Len(a)]
  /\ IsExpandable(a, s)
  /\ BatchDimensions(s) = c

LEMMA MatrixOperand ==
  ASSUME NEW a \in Seq(Sizes), Len(a) >= 2, NEW c \in Seq(Sizes), IsExpandable(BatchDimensions(a), c),
         Len(c) + 2 <= MAX_RANK, NEW s, s = c \o MatrixDimensions(a)
  PROVE  IsOperand(s, a, c)
<1> DEFINE d == MatrixDimensions(a)
           e == BatchDimensions(a)
<1>1. PICK R, K : R = Len(a) /\ K = Len(c)
  OBVIOUS
<1>2. R \in Nat /\ K \in Nat /\ R >= 2 /\ 1 \in 1..2 /\ 2 \in 1..2
  BY <1>1
<1>3. d \in Seq(Sizes) /\ Len(d) = 2 /\ d[1] = a[R - 1] /\ d[2] = a[R]
  <2>1. /\ R - 1 \in 1..(Len(a) + 1) /\ R \in 0..Len(a) /\ (R - 1) - 1 <= R
        /\ R - (R - 1) + 1 = 2 /\ 1 + ((R - 1) - 1) = R - 1 /\ 2 + ((R - 1) - 1) = R
    BY <1>1, <1>2
  <2>2. d = SubSeq(a, R - 1, R)
    BY <1>1 DEF MatrixDimensions
  <2> HIDE DEF d
  <2>3. /\ d \in Seq(Sizes) /\ Len(d) = R - (R - 1) + 1
        /\ \A n \in 1..(R - (R - 1) + 1) : d[n] = a[n + ((R - 1) - 1)]
    BY <2>1, <2>2, PieceIs
  <2>4. QED  BY <1>2, <2>1, <2>3
<1>4. /\ e \in Seq(Sizes) /\ Len(e) = R - 2
      /\ \A n \in 1..(R - 2) : e[n] = a[n]
  <2>1. /\ 1 \in 1..(Len(a) + 1) /\ R - 2 \in 0..Len(a) /\ 1 - 1 <= R - 2
        /\ (R - 2) - 1 + 1 = R - 2 /\ \A n \in 1..(R - 2) : n + (1 - 1) = n
    BY <1>1, <1>2
  <2>2. e = SubSeq(a, 1, R - 2)
    BY <1>1 DEF BatchDimensions
  <2> HIDE DEF e
  <2>3. /\ e \in Seq(Sizes) /\ Len(e) = (R - 2) - 1 + 1
        /\ \A n \in 1..((R - 2) - 1 + 1) : e[n] = a[n + (1 - 1)]
    BY <2>1, <2>2, PieceIs
  <2>4. QED  BY <2>1, <2>3
<1>5. s = c \o d
  OBVIOUS
<1>6. IsExpandable(e, c)
  OBVIOUS
<1> HIDE DEF d, e
<1>7. s \in Seq(Sizes) /\ Len(s) = K + 2
  BY <1>1, <1>3, <1>5, ConcatenationShape
<1>8. \A n \in 1..(K + 2) : s[n] = IF n <= K THEN c[n] ELSE d[n - K]
  <2>1. \A n \in 1..(Len(c) + Len(d)) : (c \o d)[n] = IF n <= Len(c) THEN c[n] ELSE d[n - Len(c)]
    BY <1>3, JoinIs
  <2>2. QED  BY <1>1, <1>3, <1>5, <2>1
<1>9. \A n \in 1..K : s[n] = c[n]
  <2>1. \A n \in 1..K : n \in 1..(K + 2) /\ n <= K
    BY <1>2
  <2>2. QED  BY <1>8, <2>1
<1>10. s[K + 1] = a[R - 1] /\ s[K + 2] = a[R]
  <2>1. K + 1 \in 1..(K + 2) /\ K + 2 \in 1..(K + 2) /\ ~(K + 1 <= K) /\ ~(K + 2 <= K)
        /\ (K + 1) - K = 1 /\ (K + 2) - K = 2
    BY <1>2
  <2>2. QED  BY <1>3, <1>8, <2>1
<1>11. IsExpandable(a, s)
  <2>1. K >= R - 2
    BY <1>1, <1>4, <1>6 DEF IsExpandable
  <2>2. ASSUME NEW n \in 1..R PROVE SizeFromEnd(a, n) \in {1, SizeFromEnd(s, n)}
    <3>1. SizeFromEnd(a, n) = a[R - n + 1] /\ SizeFromEnd(s, n) = s[(K + 2) - n + 1]
      BY <1>1, <1>2, <1>7, <2>1 DEF SizeFromEnd
    <3>2. CASE n = 1
      <4>1. R - n + 1 = R /\ (K + 2) - n + 1 = K + 2
        BY <1>2, <3>2
      <4>2. QED  BY <1>10, <3>1, <4>1
    <3>3. CASE n = 2
      <4>1. R - n + 1 = R - 1 /\ (K + 2) - n + 1 = K + 1
        BY <1>2, <3>3
      <4>2. QED  BY <1>10, <3>1, <4>1
    <3>4. CASE n > 2
      <4>1. /\ n - 2 \in 1..(R - 2) /\ R - n + 1 \in 1..(R - 2) /\ (K + 2) - n + 1 \in 1..K
            /\ (R - 2) - (n - 2) + 1 = R - n + 1 /\ K - (n - 2) + 1 = (K + 2) - n + 1
        BY <1>2, <2>1, <3>4
      <4>2. SizeFromEnd(e, n - 2) \in {1, SizeFromEnd(c, n - 2)}
        BY <1>4, <1>6, <4>1 DEF IsExpandable
      <4>3. SizeFromEnd(e, n - 2) = e[R - n + 1] /\ SizeFromEnd(c, n - 2) = c[(K + 2) - n + 1]
        <5>1. ~(n - 2 > R - 2) /\ ~(n - 2 > K)
          BY <1>2, <2>1, <4>1
        <5>2. QED  BY <1>1, <1>4, <4>1, <5>1 DEF SizeFromEnd
      <4>4. e[R - n + 1] = a[R - n + 1] /\ s[(K + 2) - n + 1] = c[(K + 2) - n + 1]
        BY <1>4, <1>9, <4>1
      <4>5. QED  BY <3>1, <4>2, <4>3, <4>4
    <3>5. QED  BY <1>2, <3>2, <3>3, <3>4
  <2>3. Len(s) >= Len(a)
    BY <1>1, <1>2, <1>7, <2>1
  <2>4. QED  BY <1>1, <2>2, <2>3 DEF IsExpandable
<1>12. BatchDimensions(s) = c
  <2>1. /\ 1 \in 1..(Len(s) + 1) /\ K \in 0..Len(s) /\ 1 - 1 <= K /\ K - 1 + 1 = K
        /\ \A n \in 1..K : n + (1 - 1) = n /\ Len(s) - 2 = K
    BY <1>2, <1>7
  <2>2. Len(s) - 2 = K
    BY <1>2, <1>7
  <2>3. /\ SubSeq(s, 1, K) \in Seq(Sizes) /\ Len(SubSeq(s, 1, K)) = K - 1 + 1
        /\ \A n \in 1..(K - 1 + 1) : SubSeq(s, 1, K)[n] = s[n + (1 - 1)]
    BY <1>7, <2>1, PieceIs
  <2>4. BatchDimensions(s) = SubSeq(s, 1, K)
    BY <2>2 DEF BatchDimensions
  <2>5. Len(SubSeq(s, 1, K)) = Len(c) /\ \A n \in 1..Len(c) : SubSeq(s, 1, K)[n] = c[n]
    BY <1>1, <1>9, <2>1, <2>3
  <2>6. QED  BY <2>3, <2>4, <2>5, SameSequence
<1>13. IsShape(s)
  BY <1>1, <1>7, ShapeFacts
<1>14. QED  BY <1>1, <1>7, <1>9, <1>10, <1>11, <1>12, <1>13 DEF IsOperand

(* The shapes of a product and of its expanded operands. *)
IsProduct(a, b, xs, ys, shape, L) ==
  /\ IsShape(xs) /\ IsShape(ys) /\ IsShape(shape)
  /\ IsExpandable(a, xs) /\ IsExpandable(b, ys)
  /\ L \in Nat /\ L >= 2 /\ Len(xs) = L /\ Len(ys) = L /\ Len(shape) = L
  /\ \A n \in 1..(L - 2) : shape[n] = xs[n] /\ shape[n] = ys[n]
  /\ shape[L - 1] = a[Len(a) - 1] /\ shape[L] = b[Len(b)]
  /\ xs[L - 1] = a[Len(a) - 1] /\ xs[L] = a[Len(a)]
  /\ ys[L - 1] = b[Len(b) - 1] /\ ys[L] = b[Len(b)]

LEMMA MatrixShapes ==
  ASSUME NEW a, IsShape(a), NEW b, IsShape(b), MatrixMultiplicationOK(a, b)
  PROVE  \E shape, L :
           /\ IsProduct(a, b, ViewBroadcastMatrixMultiplication(a, b), ViewBroadcastMatrixMultiplication(b, a),
                        shape, L)
           /\ ViewMatrixMultiplication(ViewBroadcastMatrixMultiplication(a, b),
                                       ViewBroadcastMatrixMultiplication(b, a)) = ViewCreateContiguous(shape)
           /\ A!CommonShape(SubSeq(a, 1, Len(a) - 2), SubSeq(b, 1, Len(b) - 2))
                \o <<a[Len(a) - 1], b[Len(b)]>> = shape
<1> DEFINE p == BatchDimensions(a)
           q == BatchDimensions(b)
           c == ViewBroadcast(p, q)
           xs == c \o MatrixDimensions(a)
           ys == c \o MatrixDimensions(b)
           last == <<a[Len(a) - 1], b[Len(b)]>>
           shape == c \o last
<1>1. /\ a \in Seq(Sizes) /\ Len(a) >= 2 /\ Len(a) <= MAX_RANK /\ Len(a) \in Nat
      /\ b \in Seq(Sizes) /\ Len(b) >= 2 /\ Len(b) <= MAX_RANK /\ Len(b) \in Nat
      /\ ViewBroadcastOK(p, q)
  BY ShapeFacts DEF MatrixMultiplicationOK
<1>2. p \in Seq(Sizes) /\ q \in Seq(Sizes) /\ Len(p) = Len(a) - 2 /\ Len(q) = Len(b) - 2
  BY <1>1, BatchShape
<1>3. p = SubSeq(a, 1, Len(a) - 2) /\ q = SubSeq(b, 1, Len(b) - 2)
  BY DEF BatchDimensions
<1>4. /\ ViewBroadcastMatrixMultiplication(a, b) = xs
      /\ ViewBroadcastMatrixMultiplication(b, a) = ViewBroadcast(q, p) \o MatrixDimensions(b)
  BY DEF ViewBroadcastMatrixMultiplication
<1> HIDE DEF p, q
<1>5. ViewBroadcastOK(q, p)
  <2>1. Longer(p, q) = Longer(q, p)
    BY <1>1, <1>2 DEF Longer
  <2>2. QED  BY <1>1, <2>1 DEF ViewBroadcastOK
<1>6. A!CommonShape(p, q) = c /\ IsExpandable(p, c) /\ IsExpandable(q, c) /\ ViewBroadcast(q, p) = c
  <2>1. A!CommonShape(p, q) = c /\ IsExpandable(p, c) /\ IsExpandable(q, c)
    BY <1>1, <1>2, BroadcastIs
  <2>2. A!CommonShape(q, p) = ViewBroadcast(q, p)
    BY <1>2, <1>5, BroadcastIs
  <2>3. A!CommonShape(p, q) = A!CommonShape(q, p)
    BY <1>2, CommonSymmetric
  <2>4. QED  BY <2>1, <2>2, <2>3
<1>7. c \in Seq(Sizes) /\ Len(c) + 2 <= MAX_RANK /\ Len(c) \in Nat
  <2>1. c \in Seq(Sizes) /\ Len(c) = Longer(p, q)
    BY <1>2, BroadcastShape
  <2>2. Longer(p, q) \in {Len(p), Len(q)}
    BY DEF Longer
  <2>3. QED  BY <1>1, <1>2, <2>1, <2>2 DEF MAX_RANK
<1>8. ViewBroadcastMatrixMultiplication(b, a) = ys
  BY <1>4, <1>6
<1> DEFINE K == Len(c)
<1>9. /\ IsShape(xs) /\ Len(xs) = K + 2 /\ \A n \in 1..K : xs[n] = c[n]
      /\ xs[K + 1] = a[Len(a) - 1] /\ xs[K + 2] = a[Len(a)]
      /\ IsExpandable(a, xs) /\ BatchDimensions(xs) = c
  <2> HIDE DEF c
  <2>1. IsExpandable(BatchDimensions(a), c)
    BY <1>6 DEF p
  <2>2. \A t : t = c \o MatrixDimensions(a) => IsOperand(t, a, c)
    BY <1>1, <1>7, <2>1, MatrixOperand
  <2>3. IsOperand(xs, a, c)
    BY <2>2
  <2> HIDE DEF xs
  <2>4. QED  BY <2>3 DEF IsOperand
<1>10. /\ IsShape(ys) /\ Len(ys) = K + 2 /\ \A n \in 1..K : ys[n] = c[n]
       /\ ys[K + 1] = b[Len(b) - 1] /\ ys[K + 2] = b[Len(b)]
       /\ IsExpandable(b, ys) /\ BatchDimensions(ys) = c
  <2> HIDE DEF c
  <2>1. IsExpandable(BatchDimensions(b), c)
    BY <1>6 DEF q
  <2>2. \A t : t = c \o MatrixDimensions(b) => IsOperand(t, b, c)
    BY <1>1, <1>7, <2>1, MatrixOperand
  <2>3. IsOperand(ys, b, c)
    BY <2>2
  <2> HIDE DEF ys
  <2>4. QED  BY <2>3 DEF IsOperand
<1> HIDE DEF c, xs, ys
<1>11. last \in Seq(Sizes) /\ Len(last) = 2 /\ last[1] = a[Len(a) - 1] /\ last[2] = b[Len(b)]
  <2>1. a[Len(a) - 1] \in Sizes /\ b[Len(b)] \in Sizes
    BY <1>1
  <2>2. QED  BY <2>1
<1> HIDE DEF last
<1>12. shape \in Seq(Sizes) /\ Len(shape) = K + 2
  BY <1>7, <1>11, ConcatenationShape
<1>13. \A n \in 1..(K + 2) : shape[n] = IF n <= K THEN c[n] ELSE last[n - K]
  <2>1. \A n \in 1..(Len(c) + Len(last)) : (c \o last)[n] = IF n <= Len(c) THEN c[n] ELSE last[n - Len(c)]
    BY <1>7, <1>11, JoinIs
  <2>2. QED  BY <1>11, <2>1
<1>14. /\ \A n \in 1..K : shape[n] = c[n]
       /\ shape[K + 1] = a[Len(a) - 1] /\ shape[K + 2] = b[Len(b)]
  <2>1. /\ K + 1 \in 1..(K + 2) /\ K + 2 \in 1..(K + 2) /\ ~(K + 1 <= K) /\ ~(K + 2 <= K)
        /\ (K + 1) - K = 1 /\ (K + 2) - K = 2
    BY <1>7
  <2>2. \A n \in 1..K : n \in 1..(K + 2) /\ n <= K
    BY <1>7
  <2> HIDE DEF shape
  <2>3. QED  BY <1>11, <1>13, <2>1, <2>2
<1>15. IsShape(shape)
  BY <1>7, <1>12, ShapeFacts
<1>16. ViewMatrixMultiplication(xs, ys) = ViewCreateContiguous(shape)
  <2>1. SizeFromEnd(xs, 2) = a[Len(a) - 1] /\ SizeFromEnd(ys, 1) = b[Len(b)]
    <3>1. ~(2 > K + 2) /\ ~(1 > K + 2) /\ (K + 2) - 2 + 1 = K + 1 /\ (K + 2) - 1 + 1 = K + 2
      BY <1>7
    <3>2. QED  BY <1>9, <1>10, <3>1 DEF SizeFromEnd
  <2>2. QED  BY <1>9, <2>1 DEF ViewMatrixMultiplication, last
<1> HIDE DEF shape
<1>17. IsProduct(a, b, xs, ys, shape, K + 2)
  <2>1. K + 2 \in Nat /\ K + 2 >= 2 /\ (K + 2) - 2 = K /\ (K + 2) - 1 = K + 1
    BY <1>7
  <2>2. QED  BY <1>9, <1>10, <1>12, <1>14, <1>15, <2>1 DEF IsProduct
<1>18. A!CommonShape(SubSeq(a, 1, Len(a) - 2), SubSeq(b, 1, Len(b) - 2)) \o <<a[Len(a) - 1], b[Len(b)]>> = shape
  BY <1>3, <1>6 DEF shape, last
<1>19. QED  BY <1>4, <1>8, <1>16, <1>17, <1>18

LEMMA FactorIs ==
  ASSUME AgreeInv, NEW x \in DOMAIN buffers, Len(ShapeOf(x)) >= 2,
         NEW s, IsShape(s), IsExpandable(ShapeOf(x), s), NEW L, L = Len(s),
         s[L] = ShapeOf(x)[Len(ShapeOf(x))], s[L - 1] = ShapeOf(x)[Len(ShapeOf(x)) - 1],
         NEW index, NEW i \in AllIndices(s), \A n \in 1..(L - 2) : i[n] = index[n]
  PROVE  /\ MatrixElement(ContiguousCopy(x), ViewExpand(ContiguousCopy(x).view, s), index, i[L - 1], i[L])
              = Value(array[x].cell[A!Unexpanded(i, array[x].shape)])
         /\ Value(array[x].cell[A!Unexpanded(i, array[x].shape)]) \in Int
<1> DEFINE copy == ContiguousCopy(x)
           a == ShapeOf(x)
           j == A!Unexpanded(i, a)
<1>1. /\ IsView(copy.view) /\ ViewIsContiguous(copy.view) /\ copy.view.shape = a
      /\ \A k \in AllIndices(a) : copy.data[Address(copy.view, k)] = Element(x, k)
  BY CopyIs
<1>2. Rank(copy.view) = Len(a) /\ array[x].shape = a
  BY <1>1, BufferFacts DEF Rank
<1> HIDE DEF copy
<1>3. MatrixElement(copy, ViewExpand(copy.view, s), index, i[L - 1], i[L])
        = copy.data[Address(copy.view, A!Unexpanded(i, copy.view.shape))]
  <2>1. Rank(copy.view) >= 2 /\ IsExpandable(copy.view.shape, s)
    BY <1>1, <1>2
  <2>2. s[L] = copy.view.shape[Rank(copy.view)] /\ s[L - 1] = copy.view.shape[Rank(copy.view) - 1]
    BY <1>1, <1>2
  <2>3. InMatrix(copy.view, s, index, i)
    BY <2>2 DEF InMatrix
  <2> HIDE DEF a
  <2>4. QED  BY <1>1, <2>1, <2>3, MatrixElementIs
<1>4. j \in AllIndices(a)
  BY <1>1, UnexpandedIs
<1> HIDE DEF j
<1>5. Value(array[x].cell[j]) = Element(x, j) /\ Value(array[x].cell[j]) \in Int
  BY <1>4, ValueIs
<1>6. QED  BY <1>1, <1>2, <1>3, <1>4, <1>5 DEF j, copy

LEMMA MatrixMultiplicationAgrees ==
  ASSUME AgreeInv, NEW x \in DOMAIN buffers, NEW y \in DOMAIN buffers, AMatrixMultiplication(x, y)
  PROVE  HistoryInv'
<1> DEFINE a == ShapeOf(x)
           b == ShapeOf(y)
           xs == ViewBroadcastMatrixMultiplication(a, b)
           ys == ViewBroadcastMatrixMultiplication(b, a)
           xc == ContiguousCopy(x)
           yc == ContiguousCopy(y)
           xv == ViewExpand(xc.view, xs)
           yv == ViewExpand(yc.view, ys)
<1>1. /\ IsShape(a) /\ a \in Seq(Sizes) /\ array[x].shape = a
      /\ IsShape(b) /\ b \in Seq(Sizes) /\ array[y].shape = b
  BY BufferFacts
<1>2. MatrixMultiplicationOK(a, b)
  BY DEF AMatrixMultiplication, MatrixMultiplication
<1>3. Len(a) >= 2 /\ Len(b) >= 2 /\ SizeFromEnd(a, 1) = SizeFromEnd(b, 2) /\ Len(a) \in Nat /\ Len(b) \in Nat
  BY <1>1, <1>2 DEF MatrixMultiplicationOK
<1>4. PICK shape, L :
        /\ IsProduct(a, b, xs, ys, shape, L)
        /\ ViewMatrixMultiplication(xs, ys) = ViewCreateContiguous(shape)
        /\ A!CommonShape(SubSeq(a, 1, Len(a) - 2), SubSeq(b, 1, Len(b) - 2))
             \o <<a[Len(a) - 1], b[Len(b)]>> = shape
  BY <1>1, <1>2, MatrixShapes
<1> DEFINE new == [index \in Coordinates(shape) |->
                     SumFunction([l \in 0..(SizeFromEnd(a, 1) - 1) |->
                       MatrixElement(xc, xv, index, index[L - 1], l) * MatrixElement(yc, yv, index, l, index[L])])]
           elements == A!ProductElements(array[x], array[y], shape, Value)
           Row(index, l) == A!Unexpanded([index EXCEPT ![L] = l], a)
           Column(index, l) == A!Unexpanded([index EXCEPT ![L - 1] = l], b)
           Terms(index) == [l \in 0..(a[Len(a)] - 1) |->
                              Value(array[x].cell[Row(index, l)]) * Value(array[y].cell[Column(index, l)])]
<1>5. xv.shape = xs /\ yv.shape = ys
  BY DEF ViewExpand, View
<1> HIDE DEF a, b, xs, ys
<1>6. /\ IsShape(shape) /\ shape \in Seq(Sizes) /\ Len(shape) = L
      /\ IsShape(xs) /\ IsShape(ys) /\ Len(xs) = L /\ Len(ys) = L
      /\ L \in Nat /\ L >= 2
      /\ ViewCreateContiguous(shape).shape = shape
      /\ Rank(ViewCreateContiguous(shape)) = L
  BY <1>4, ShapeFacts DEF IsProduct, ViewCreateContiguous, View, Rank
<1>7. /\ Allocate(ViewCreateContiguous(shape), Computed(ViewCreateContiguous(shape), new))
      /\ NewArray(shape, elements)
  <2>1. Allocate(ViewCreateContiguous(shape), Computed(ViewCreateContiguous(shape), new))
    <3> HIDE DEF xc, yc
    <3>1. QED  BY <1>4, <1>5, <1>6 DEF AMatrixMultiplication, MatrixMultiplication, xs, ys, a, b, xc, yc
  <2>2. NewArray(shape, elements)
    BY <1>1, <1>4 DEF AMatrixMultiplication, a, b
  <2>3. QED  BY <2>1, <2>2
<1>8. A!Indices(shape) = AllIndices(shape) /\ Coordinates(shape) = AllIndices(shape)
  BY <1>6, IndicesAre, IndicesFinite DEF Coordinates
<1>9. elements = [index \in AllIndices(shape) |-> SumFunction(Terms(index))]
  <2>1. elements = [index \in AllIndices(shape) |-> A!SumFunction(Terms(index))]
    BY <1>1, <1>6, <1>8 DEF A!ProductElements
  <2> HIDE DEF Terms, elements
  <2>2. QED  BY <2>1, SumsAgree
<1>10. SizeFromEnd(a, 1) = a[Len(a)] /\ SizeFromEnd(b, 2) = b[Len(b) - 1]
  <2>1. ~(1 > Len(a)) /\ ~(2 > Len(b)) /\ Len(a) - 1 + 1 = Len(a) /\ Len(b) - 2 + 1 = Len(b) - 1
    BY <1>3
  <2>2. QED  BY <2>1 DEF SizeFromEnd
<1>11. ASSUME NEW index \in AllIndices(shape), NEW l \in 0..(a[Len(a)] - 1)
       PROVE  /\ MatrixElement(xc, xv, index, index[L - 1], l) = Value(array[x].cell[Row(index, l)])
              /\ MatrixElement(yc, yv, index, l, index[L]) = Value(array[y].cell[Column(index, l)])
              /\ Value(array[x].cell[Row(index, l)]) \in Int
              /\ Value(array[y].cell[Column(index, l)]) \in Int
  <2> DEFINE i == [index EXCEPT ![L] = l]
             k == [index EXCEPT ![L - 1] = l]
  <2>1. /\ index \in [1..L -> Nat] /\ \A n \in 1..L : index[n] \in Nat /\ index[n] < shape[n]
        /\ l \in Nat
    BY <1>6 DEF AllIndices
  <2>2. /\ L \in 1..L /\ L - 1 \in 1..L /\ L # L - 1
        /\ \A n \in 1..L : n = L \/ n = L - 1 \/ n \in 1..(L - 2)
        /\ \A n \in 1..(L - 2) : n \in 1..L /\ n # L /\ n # L - 1
    BY <1>6
  <2>3. /\ \A n \in 1..(L - 2) : shape[n] = xs[n] /\ shape[n] = ys[n]
        /\ shape[L - 1] = a[Len(a) - 1] /\ shape[L] = b[Len(b)]
        /\ xs[L - 1] = a[Len(a) - 1] /\ xs[L] = a[Len(a)]
        /\ ys[L - 1] = b[Len(b) - 1] /\ ys[L] = b[Len(b)]
        /\ IsExpandable(a, xs) /\ IsExpandable(b, ys)
    BY <1>4 DEF IsProduct
  <2>4. a[Len(a)] \in Nat /\ l < a[Len(a)]
    <3>1. a[Len(a)] \in Nat
      BY <1>1, <1>3 DEF Sizes
    <3>2. QED  BY <3>1
  <2>5. /\ \A n \in 1..(L - 2) : i[n] = index[n] /\ k[n] = index[n]
        /\ i[L] = l /\ i[L - 1] = index[L - 1]
        /\ k[L - 1] = l /\ k[L] = index[L]
        /\ i \in [1..L -> Nat] /\ k \in [1..L -> Nat]
    BY <2>1, <2>2
  <2> HIDE DEF i, k
  <2>6. \A n \in 1..L : i[n] < xs[n]
    BY <1>10, <2>1, <2>2, <2>3, <2>4, <2>5
  <2>7. \A n \in 1..L : k[n] < ys[n]
    BY <1>3, <1>10, <2>1, <2>2, <2>3, <2>4, <2>5
  <2>8. i \in AllIndices(xs) /\ k \in AllIndices(ys)
    BY <1>6, <2>5, <2>6, <2>7 DEF AllIndices
  <2>9. /\ MatrixElement(xc, xv, index, i[L - 1], i[L]) = Value(array[x].cell[A!Unexpanded(i, array[x].shape)])
        /\ Value(array[x].cell[A!Unexpanded(i, array[x].shape)]) \in Int
    <3>1. xs[L] = ShapeOf(x)[Len(ShapeOf(x))] /\ xs[L - 1] = ShapeOf(x)[Len(ShapeOf(x)) - 1]
          /\ Len(ShapeOf(x)) >= 2 /\ IsExpandable(ShapeOf(x), xs)
      BY <1>3, <2>3 DEF a
    <3>2. \A n \in 1..(L - 2) : i[n] = index[n]
      BY <2>5
    <3>3. QED  BY <1>6, <2>8, <3>1, <3>2, FactorIs
  <2>10. /\ MatrixElement(yc, yv, index, k[L - 1], k[L]) = Value(array[y].cell[A!Unexpanded(k, array[y].shape)])
         /\ Value(array[y].cell[A!Unexpanded(k, array[y].shape)]) \in Int
    <3>1. ys[L] = ShapeOf(y)[Len(ShapeOf(y))] /\ ys[L - 1] = ShapeOf(y)[Len(ShapeOf(y)) - 1]
          /\ Len(ShapeOf(y)) >= 2 /\ IsExpandable(ShapeOf(y), ys)
      BY <1>3, <2>3 DEF b
    <3>2. \A n \in 1..(L - 2) : k[n] = index[n]
      BY <2>5
    <3>3. QED  BY <1>6, <2>8, <3>1, <3>2, FactorIs
  <2> HIDE DEF xc, xv, yc, yv
  <2>11. QED  BY <1>1, <2>5, <2>9, <2>10 DEF i, k
<1> HIDE DEF xc, xv, yc, yv, Row, Column
<1>12. ASSUME NEW index \in AllIndices(shape)
       PROVE  elements[index] \in Int /\ new[index] = elements[index]
  <2> DEFINE f == Terms(index)
             S == 0..(a[Len(a)] - 1)
  <2>1. elements[index] = SumFunction(f)
    BY <1>9
  <2>2. \A l \in S : f[l] = MatrixElement(xc, xv, index, index[L - 1], l) * MatrixElement(yc, yv, index, l, index[L])
    BY <1>11
  <2>3. f = [l \in S |-> MatrixElement(xc, xv, index, index[L - 1], l) * MatrixElement(yc, yv, index, l, index[L])]
    BY <2>2
  <2>4. new[index] = SumFunction(f)
    BY <1>8, <1>10, <2>3
  <2>5. \A l \in S : f[l] \in Int
    <3> SUFFICES ASSUME NEW l \in S PROVE f[l] \in Int
      OBVIOUS
    <3>1. Value(array[x].cell[Row(index, l)]) \in Int /\ Value(array[y].cell[Column(index, l)]) \in Int
      BY <1>11
    <3>2. QED  BY <3>1
  <2>6. DOMAIN f = S /\ IsFiniteSet(S)
    <3>1. a[Len(a)] \in Nat
      BY <1>1, <1>3 DEF Sizes
    <3>2. 0 \in Int /\ a[Len(a)] - 1 \in Int
      BY <3>1
    <3> HIDE DEF Terms, new, elements
    <3>3. IsFiniteSet(0..(a[Len(a)] - 1))
      BY <3>2, FS_Interval
    <3>4. DOMAIN f = S
      BY DEF Terms
    <3>5. QED  BY <3>3, <3>4
  <2> HIDE DEF f, S, new, elements
  <2>7. SumFunction(f) \in Int
    BY <2>5, <2>6, SumType DEF SumFunction
  <2>8. QED  BY <2>1, <2>4, <2>7
<1>13. DOMAIN elements = AllIndices(shape)
  BY <1>9
<1> HIDE DEF new, elements
<1>14. QED  BY <1>6, <1>7, <1>12, <1>13, ComputeAgrees

-----------------------------------------------------------------------------
(* Files and the end of a buffer *)

LEMMA SaveAgrees ==
  ASSUME AgreeInv, NEW x \in DOMAIN buffers, ASave(x)
  PROVE  HistoryInv'
<1>1. /\ buffers' = buffers /\ storages' = storages /\ array' = array /\ value' = value
      /\ file' = IF Rank(ViewOf(x)) = 0 THEN NONE ELSE [view |-> ViewOf(x), data |-> DataOf(x)]
      /\ saved' = IF array[x].shape = <<>> THEN NONE
                  ELSE [array |-> array[x], value |-> value[StorageOf(x)]]
  BY DEF ASave, Save
<1>2. \A b : ViewOf(b)' = ViewOf(b) /\ StorageOf(b)' = StorageOf(b) /\ DataOf(b)' = DataOf(b)
  BY <1>1 DEF ViewOf, StorageOf, DataOf
<1>3. file' # NONE => FileMatches'
  <2> SUFFICES ASSUME file' # NONE PROVE FileMatches'
    OBVIOUS
  <2>1. file' = [view |-> ViewOf(x), data |-> DataOf(x)] /\ Rank(ViewOf(x)) # 0
    BY <1>1
  <2>2. array[x].shape # <<>>
    <3>1. array[x].shape = ShapeOf(x) /\ Rank(ViewOf(x)) = Len(ShapeOf(x))
      BY BufferFacts
    <3>2. QED  BY <2>1, <3>1
  <2>3. saved' = [array |-> array[x], value |-> value[StorageOf(x)]]
    BY <1>1, <2>2
  <2>4. /\ Stands(array[x], ViewOf(x), StorageOf(x), value[StorageOf(x)])
        /\ CellsArePlaces(array[x], ViewOf(x), array[x], ViewOf(x))
        /\ ReadsAs(ViewOf(x), DataOf(x), array[x], value[StorageOf(x)])
    BY DEF AgreeInv, HistoryInv
  <2>5. /\ file'.view = ViewOf(x) /\ file'.data = DataOf(x)
        /\ saved'.array = array[x] /\ saved'.value = value[StorageOf(x)]
    BY <2>1, <2>3
  <2>6. /\ Stands(saved'.array, file'.view, StorageOf(x), saved'.value)
        /\ CellsArePlaces(saved'.array, file'.view, saved'.array, file'.view)
        /\ ReadsAs(file'.view, file'.data, saved'.array, saved'.value)
    BY <2>4, <2>5
  <2>7. QED  BY <2>6 DEF FileMatches
<1>4. QED  BY <1>1, <1>2, <1>3 DEF AgreeInv, HistoryInv

LEMMA LoadAgrees ==
  ASSUME AgreeInv, ALoad
  PROVE  HistoryInv'
<1> DEFINE shape == saved.array.shape
           a == A!Array(shape, LAMBDA index : <<New, saved.array.cell[index][2]>>)
<1>1. /\ file # NONE /\ Allocate(file.view, file.data)
      /\ array' = AddNew(array, a)
      /\ value' = AddNew(value, saved.value)
      /\ UNCHANGED saved
  BY DEF ALoad, Load
<1>2. FileMatches /\ Fits(file.view, file.data)
  BY <1>1 DEF AgreeInv, HistoryInv, BoundsInv
<1>3. PICK s : Stands(saved.array, file.view, s, saved.value)
  BY <1>2 DEF FileMatches
<1>4. /\ shape = file.view.shape /\ shape \in Seq(Sizes)
  BY <1>2, <1>3, ViewShape DEF Stands, Fits
<1>5. a.shape = shape /\ a.cell = [i \in AllIndices(shape) |-> <<New, saved.array.cell[i][2]>>]
  BY <1>4, IndicesAre DEF A!Array
<1> HIDE DEF a
<1>6. \A i \in AllIndices(shape) : /\ a.cell[i] = <<New, saved.array.cell[i][2]>>
                                   /\ a.cell[i][2] = saved.array.cell[i][2]
  BY <1>5
<1>7. Stands(a, file.view, New, saved.value)
  BY <1>3, <1>4, <1>5, <1>6 DEF Stands
<1>8. ReadsAs(file.view, file.data, a, saved.value)
  BY <1>2, <1>4, <1>6 DEF ReadsAs, FileMatches
<1>9. CellsArePlaces(a, file.view, a, file.view)
  <2> SUFFICES ASSUME NEW i \in AllIndices(file.view.shape), NEW j \in AllIndices(file.view.shape)
               PROVE  a.cell[i] = a.cell[j] <=> Address(file.view, i) = Address(file.view, j)
    BY DEF CellsArePlaces
  <2>1. saved.array.cell[i] = saved.array.cell[j] <=> Address(file.view, i) = Address(file.view, j)
    BY <1>2 DEF FileMatches, CellsArePlaces
  <2>2. saved.array.cell[i] = <<s, saved.array.cell[i][2]>> /\ saved.array.cell[j] = <<s, saved.array.cell[j][2]>>
    BY <1>3 DEF Stands
  <2>3. a.cell[i] = <<New, saved.array.cell[i][2]>> /\ a.cell[j] = <<New, saved.array.cell[j][2]>>
    BY <1>4, <1>6
  <2>4. QED  BY <2>1, <2>2, <2>3
<1>10. QED  BY <1>1, <1>7, <1>8, <1>9, AllocateAgrees

LEMMA DestroyAgrees ==
  ASSUME AgreeInv, NEW x \in DOMAIN buffers, ADestroy(x)
  PROVE  HistoryInv'
<1>1. Destroy(x) /\ CountsInv' /\ CountsMatch'
  BY DestroyCounts DEF ADestroy, AgreeInv, BoundsInv, CountsInv
<1>2. /\ buffers' = [b \in DOMAIN buffers \ {x} |-> buffers[b]]
      /\ file' = file
      /\ array' = [b \in DOMAIN array \ {x} |-> array[b]]
      /\ saved' = saved
  BY DEF Destroy, ADestroy, Restrict
<1>3. DOMAIN array = DOMAIN buffers /\ DOMAIN value = DOMAIN storages
  BY DEF AgreeInv, HistoryInv
<1>4. \A t \in DOMAIN storages' : t \in DOMAIN storages /\ storages'[t].data = storages[t].data
  <2>1. PICK s : s = StorageOf(x)
    OBVIOUS
  <2>2. storages' = IF LastReference(s)
                    THEN [t \in DOMAIN storages \ {s} |-> storages[t]]
                    ELSE [storages EXCEPT ![s].reference_count = @ - 1]
    BY <1>1, <2>1 DEF Destroy, Restrict
  <2>3. QED  BY <2>2
<1>5. value' = [t \in DOMAIN storages' |-> value[t]]
  BY DEF ADestroy, Restrict
<1>6. ASSUME NEW b \in DOMAIN buffers'
      PROVE  /\ b \in DOMAIN buffers
             /\ array'[b] = array[b]
             /\ ViewOf(b)' = ViewOf(b) /\ StorageOf(b)' = StorageOf(b) /\ DataOf(b)' = DataOf(b)
             /\ value'[StorageOf(b)'] = value[StorageOf(b)]
  <2>1. b \in DOMAIN buffers /\ buffers'[b] = buffers[b] /\ array'[b] = array[b]
    BY <1>2, <1>3
  <2>2. buffers'[b].storage \in DOMAIN storages'
    BY <1>1 DEF CountsMatch, StorageOf
  <2>3. ViewOf(b)' = ViewOf(b) /\ StorageOf(b)' = StorageOf(b) /\ DataOf(b)' = DataOf(b)
    BY <1>4, <2>1, <2>2 DEF ViewOf, StorageOf, DataOf
  <2>4. value'[StorageOf(b)'] = value[StorageOf(b)]
    BY <1>5, <2>2, <2>3 DEF StorageOf
  <2>5. QED  BY <2>1, <2>3, <2>4
<1>7. DOMAIN array' = DOMAIN buffers' /\ DOMAIN value' = DOMAIN storages'
  BY <1>2, <1>3, <1>5
<1>8. file' # NONE => FileMatches'
  BY <1>2 DEF AgreeInv, HistoryInv, FileMatches
<1>9. \A b \in DOMAIN buffers' : /\ Stands(array'[b], ViewOf(b)', StorageOf(b)', value'[StorageOf(b)'])
                                 /\ ReadsAs(ViewOf(b)', DataOf(b)', array'[b], value'[StorageOf(b)'])
  BY <1>6 DEF AgreeInv, HistoryInv
<1>10. \A b, c \in DOMAIN buffers' :
         StorageOf(b)' = StorageOf(c)' => CellsArePlaces(array'[b], ViewOf(b)', array'[c], ViewOf(c)')
  BY <1>6 DEF AgreeInv, HistoryInv
<1>11. QED  BY <1>7, <1>8, <1>9, <1>10 DEF HistoryInv

LEMMA StutterAgrees ==
  ASSUME AgreeInv, UNCHANGED <<vars, history>>
  PROVE  HistoryInv'
<1>1. /\ buffers' = buffers /\ storages' = storages /\ file' = file
      /\ array' = array /\ value' = value /\ saved' = saved
  BY DEF vars, history
<1>2. \A b : ViewOf(b)' = ViewOf(b) /\ StorageOf(b)' = StorageOf(b) /\ DataOf(b)' = DataOf(b)
  BY <1>1 DEF ViewOf, StorageOf, DataOf
<1>3. file' # NONE => FileMatches'
  BY <1>1 DEF AgreeInv, HistoryInv, FileMatches
<1>4. QED  BY <1>1, <1>2, <1>3 DEF AgreeInv, HistoryInv

-----------------------------------------------------------------------------
(* A write in place *)

(* Elements at as many places as there are elements are at a place each. *)
LEMMA DistinctPlaces ==
  ASSUME NEW v, IsView(v), ElementsDistinct(v),
         NEW i \in AllIndices(v.shape), NEW j \in AllIndices(v.shape), Address(v, i) = Address(v, j)
  PROVE  i = j
<1> DEFINE shape == v.shape
           order == LoopOrder(shape)
           P == ArrayProduct(shape)
           T == {Address(v, order[p]) : p \in 1..P}
           f == [p \in 1..P |-> Address(v, order[p])]
<1>1. shape \in Seq(Sizes)
  BY ViewShape
<1>2. /\ DOMAIN order = 1..P
      /\ \A k \in AllIndices(shape) : /\ PositionIn(shape, k) \in 0..(P - 1)
                                      /\ order[PositionIn(shape, k) + 1] = k
  BY <1>1, LoopVisits
<1>3. P \in Nat
  BY <1>1, SizesAreRadices
<1>4. Cardinality(T) = P
  BY <1>2 DEF ElementsDistinct
<1> HIDE DEF shape, order, P
<1>5. IsFiniteSet(1..P) /\ Cardinality(1..P) = P
  BY <1>3, FS_Interval
<1>6. f \in Surjection(1..P, T)
  BY DEF Surjection
<1>7. f \in Injection(1..P, T)
  <2> HIDE DEF f, T
  <2>1. QED  BY <1>4, <1>5, <1>6, FS_Surjection
<1> DEFINE p == PositionIn(shape, i) + 1
           q == PositionIn(shape, j) + 1
<1>8. p \in 1..P /\ q \in 1..P /\ order[p] = i /\ order[q] = j
  BY <1>2, <1>3 DEF shape
<1>9. f[p] = f[q]
  BY <1>8
<1>10. p = q
  <2> HIDE DEF f, p, q, T
  <2>1. QED  BY <1>7, <1>8, <1>9 DEF Injection, IsInjective
<1>11. QED  BY <1>8, <1>10

LEMMA FitsPlaces ==
  ASSUME NEW v, NEW data, Fits(v, data)
  PROVE  HasPlaces(v, data)
<1> SUFFICES ASSUME NEW i \in AllIndices(v.shape) PROVE Address(v, i) \in DOMAIN data
  BY DEF HasPlaces
<1>1. IsView(v) /\ LastPlace(v) \in DOMAIN data /\ IsMemory(data)
  BY DEF Fits
<1>2. DOMAIN v.shape = 1..Len(v.shape) /\ \A n \in 1..Len(v.shape) : v.shape[n] \in Nat
  BY <1>1, ViewShape DEF Sizes
<1>3. \A n \in DOMAIN v.shape : i[n] \in 0..(v.shape[n] - 1)
  BY <1>2 DEF AllIndices
<1>4. Address(v, i) \in 0..LastPlace(v)
  BY <1>1, <1>3, EveryAddress
<1>5. PICK size \in Nat : DOMAIN data = 0..(size - 1)
  BY <1>1 DEF IsMemory
<1>6. QED  BY <1>1, <1>4, <1>5

(* The cells of z are written where z has its elements, and the elements of    *)
(* other buffers of its storage that are the same cells are at the same places. *)
LEMMA AddToAgrees ==
  ASSUME AgreeInv, NEW z \in DOMAIN buffers, NEW y \in DOMAIN buffers, AAddTo(z, y)
  PROVE  HistoryInv'
<1> DEFINE v == ViewOf(z)
           s == StorageOf(z)
           cell == array[z].cell
           sums == [index \in Coordinates(ShapeOf(z)) |-> Element(z, index) + Broadcast(y, ShapeOf(z), index)]
           new == [index \in DOMAIN array[z].cell |-> Value(array[z].cell[index]) + Repeated(array[y], index)]
           IndexOf(c) == CHOOSE index \in DOMAIN new : array[z].cell[index] = c
           I == AllIndices(v.shape)
           data == storages[s].data
           written == Kernel(data, v, sums)
<1>1. AddTo(z, y) /\ array' = array /\ saved' = saved
  BY DEF AAddTo
<1>2. /\ ElementsDistinct(v) /\ IsExpandable(ShapeOf(y), ShapeOf(z))
      /\ buffers' = buffers /\ file' = file
      /\ storages' = [storages EXCEPT ![s].data = written]
  BY <1>1 DEF AddTo
<1>3. value' = [t \in DOMAIN value |->
                  [index \in DOMAIN value[t] |->
                     IF <<t, index>> \in Range(cell) THEN new[IndexOf(<<t, index>>)] ELSE value[t][index]]]
  BY DEF AAddTo
<1>4. /\ IsView(v) /\ ShapeOf(z) = v.shape /\ IsShape(v.shape) /\ v.shape \in Seq(Sizes)
      /\ DOMAIN cell = I /\ Fits(v, DataOf(z))
      /\ IsShape(ShapeOf(y))
  BY BufferFacts
<1>5. Coordinates(v.shape) = I
  BY <1>4, IndicesFinite DEF Coordinates
<1>6. \A i \in I : /\ sums[i] = new[i] /\ new[i] \in Int
                   /\ i \in DOMAIN new
  <2> SUFFICES ASSUME NEW i \in I PROVE sums[i] = new[i] /\ new[i] \in Int /\ i \in DOMAIN new
    OBVIOUS
  <2>1. Value(cell[i]) = Element(z, i) /\ Value(cell[i]) \in Int
    BY <1>4, ValueIs
  <2>2. Repeated(array[y], i) = Broadcast(y, v.shape, i) /\ Repeated(array[y], i) \in Int
    BY <1>2, <1>4, RepeatedIs
  <2>3. sums[i] = Element(z, i) + Broadcast(y, v.shape, i) /\ new[i] = Value(cell[i]) + Repeated(array[y], i)
        /\ i \in DOMAIN new
    BY <1>4, <1>5
  <2> HIDE DEF sums, new, cell
  <2>4. QED  BY <2>1, <2>2, <2>3
<1>7. DOMAIN new = I
  BY <1>4
<1> HIDE DEF sums, new
<1>8. \A i, j \in I : Address(v, i) = Address(v, j) => i = j
  BY <1>2, <1>4, DistinctPlaces
<1>9. CellsArePlaces(array[z], v, array[z], v) /\ Stands(array[z], v, s, value[s])
  BY DEF AgreeInv, HistoryInv
<1>10. \A i \in I : IndexOf(cell[i]) = i
  <2> SUFFICES ASSUME NEW i \in I PROVE IndexOf(cell[i]) = i
    OBVIOUS
  <2>1. \E j \in I : cell[j] = cell[i]
    OBVIOUS
  <2>2. IndexOf(cell[i]) \in I /\ cell[IndexOf(cell[i])] = cell[i]
    BY <1>7, <2>1
  <2>3. Address(v, IndexOf(cell[i])) = Address(v, i)
    BY <1>9, <2>2 DEF CellsArePlaces
  <2>4. QED  BY <1>8, <2>2, <2>3
<1> HIDE DEF IndexOf
<1>11. HasPlaces(v, data) /\ IsMemory(data)
  <2>1. Fits(v, data)
    BY <1>4 DEF DataOf, StorageOf
  <2>2. QED  BY <2>1, FitsPlaces DEF Fits
<1>12. StoredOnce(v, sums)
  BY <1>8 DEF StoredOnce
<1>13. /\ \A i \in I : written[Address(v, i)] = new[i]
       /\ \A address \in DOMAIN data : Untouched(v, address) => written[address] = data[address]
  <2>1. /\ \A i \in I : written[Address(v, i)] = sums[i]
        /\ \A address \in DOMAIN data : Untouched(v, address) => written[address] = data[address]
    BY <1>4, <1>11, <1>12, KernelStores
  <2>2. QED  BY <1>6, <2>1
<1>14. /\ s \in DOMAIN storages
       /\ DOMAIN storages' = DOMAIN storages
       /\ storages'[s].data = written
       /\ \A t \in DOMAIN storages : t # s => storages'[t].data = storages[t].data
  <2>1. s \in DOMAIN storages
    BY DEF AgreeInv, BoundsInv, CountsInv, CountsMatch
  <2>2. "data" \in DOMAIN storages[s]
    BY <2>1 DEF AgreeInv, BoundsInv, CountsInv, Numbered
  <2> HIDE DEF written, s
  <2>3. QED  BY <1>2, <2>1, <2>2
<1>15. DOMAIN array = DOMAIN buffers /\ DOMAIN value = DOMAIN storages
  BY DEF AgreeInv, HistoryInv
<1> HIDE DEF written, data
<1>16. \A t \in DOMAIN value : /\ DOMAIN value'[t] = DOMAIN value[t]
                               /\ \A index \in DOMAIN value[t] :
                                    value'[t][index] = IF <<t, index>> \in Range(cell)
                                                       THEN new[IndexOf(<<t, index>>)] ELSE value[t][index]
  BY <1>3
<1>17. \A c : c \in Range(cell) <=> \E i \in I : cell[i] = c
  <2> HIDE DEF cell
  <2>1. QED  BY <1>4 DEF Range
<1>18. \A i \in I : cell[i] = <<s, cell[i][2]>> /\ cell[i][2] \in DOMAIN value[s]
  BY <1>9 DEF Stands
<1>19. \A t \in DOMAIN value : t # s => \A index \in DOMAIN value[t] : value'[t][index] = value[t][index]
  <2> SUFFICES ASSUME NEW t \in DOMAIN value, t # s, NEW index \in DOMAIN value[t]
               PROVE  value'[t][index] = value[t][index]
    OBVIOUS
  <2>1. \A i \in I : cell[i] # <<t, index>>
    <3> SUFFICES ASSUME NEW i \in I PROVE cell[i] # <<t, index>>
      OBVIOUS
    <3>1. cell[i] = <<s, cell[i][2]>>
      BY <1>18
    <3> HIDE DEF cell, s
    <3>2. QED  BY <3>1
  <2>2. <<t, index>> \notin Range(cell)
    BY <1>17, <2>1
  <2>3. QED  BY <1>16, <2>2
<1>20. \A i \in I : value'[s][cell[i][2]] = new[i]
  <2> SUFFICES ASSUME NEW i \in I PROVE value'[s][cell[i][2]] = new[i]
    OBVIOUS
  <2>1. <<s, cell[i][2]>> \in Range(cell) /\ cell[i][2] \in DOMAIN value[s] /\ s \in DOMAIN value
    BY <1>14, <1>15, <1>17, <1>18
  <2>2. value'[s][cell[i][2]] = new[IndexOf(<<s, cell[i][2]>>)]
    BY <1>16, <2>1
  <2>3. QED  BY <1>10, <1>18, <2>2
<1>21. \A index \in DOMAIN value[s] : (\A i \in I : cell[i] # <<s, index>>) => value'[s][index] = value[s][index]
  BY <1>14, <1>15, <1>16, <1>17
<1>22. \A b : ViewOf(b)' = ViewOf(b) /\ StorageOf(b)' = StorageOf(b)
  BY <1>2 DEF ViewOf, StorageOf
<1>23. ASSUME NEW b \in DOMAIN buffers
       PROVE  /\ Stands(array[b], ViewOf(b), StorageOf(b), value'[StorageOf(b)])
              /\ ReadsAs(ViewOf(b), DataOf(b)', array[b], value'[StorageOf(b)])
  <2> DEFINE t == StorageOf(b)
             w == ViewOf(b)
             J == AllIndices(w.shape)
             other == array[b].cell
  <2>1. /\ Stands(array[b], w, t, value[t])
        /\ ReadsAs(w, DataOf(b), array[b], value[t])
        /\ t = s => CellsArePlaces(array[z], v, array[b], w)
    BY DEF AgreeInv, HistoryInv
  <2>2. t \in DOMAIN storages /\ DataOf(b) = storages[t].data /\ DataOf(b)' = storages'[t].data
    BY <1>2, <1>14 DEF AgreeInv, BoundsInv, CountsInv, CountsMatch, DataOf, StorageOf
  <2>3. HasPlaces(w, DataOf(b))
    BY FitsPlaces, BufferFacts
  <2>4. ASSUME NEW j \in J
        PROVE  /\ value'[t][other[j][2]] \in Int
               /\ DataOf(b)'[Address(w, j)] = value'[t][other[j][2]]
    <3>1. /\ other[j] = <<t, other[j][2]>> /\ other[j][2] \in DOMAIN value[t]
          /\ value[t][other[j][2]] \in Int
          /\ storages[t].data[Address(w, j)] = value[t][other[j][2]]
          /\ Address(w, j) \in DOMAIN storages[t].data
      BY <2>1, <2>2, <2>3 DEF Stands, ReadsAs, HasPlaces
    <3> HIDE DEF s, t, v, w, cell, other, I, J
    <3>2. CASE t # s
      BY <1>14, <1>15, <1>19, <2>2, <3>1, <3>2
    <3>3. CASE t = s /\ \E i \in I : cell[i] = other[j]
      <4>1. PICK i \in I : cell[i] = other[j]
        BY <3>3
      <4>2. Address(v, i) = Address(w, j)
        BY <2>1, <3>3, <4>1 DEF CellsArePlaces, I, J, cell, other
      <4>3. value'[t][other[j][2]] = new[i] /\ new[i] \in Int
        BY <1>6, <1>20, <3>3, <4>1
      <4>4. storages'[t].data[Address(w, j)] = new[i]
        BY <1>13, <1>14, <3>3, <4>2
      <4>5. QED  BY <2>2, <4>3, <4>4
    <3>4. CASE t = s /\ \A i \in I : cell[i] # other[j]
      <4>1. Untouched(v, Address(w, j))
        <5>1. \A i \in I : Address(v, i) # Address(w, j)
          BY <2>1, <3>4 DEF CellsArePlaces, I, J, cell, other
        <5>2. QED  BY <5>1 DEF Untouched, I
      <4>2. storages'[t].data[Address(w, j)] = storages[t].data[Address(w, j)]
        BY <1>13, <1>14, <3>1, <3>4, <4>1 DEF data
      <4>3. value'[t][other[j][2]] = value[t][other[j][2]]
        BY <1>21, <3>1, <3>4
      <4>4. QED  BY <2>2, <3>1, <4>2, <4>3
    <3>5. QED  BY <3>2, <3>3, <3>4
  <2>5. DOMAIN value'[t] = DOMAIN value[t]
    BY <1>15, <1>16, <2>2
  <2>6. ReadsAs(w, DataOf(b)', array[b], value'[t])
    BY <2>4 DEF ReadsAs
  <2>7. Stands(array[b], w, t, value'[t])
    BY <2>1, <2>4, <2>5 DEF Stands
  <2>8. QED  BY <2>6, <2>7
<1>24. \A b \in DOMAIN buffers' :
         /\ Stands(array'[b], ViewOf(b)', StorageOf(b)', value'[StorageOf(b)'])
         /\ ReadsAs(ViewOf(b)', DataOf(b)', array'[b], value'[StorageOf(b)'])
  BY <1>1, <1>2, <1>22, <1>23
<1>25. \A b, c \in DOMAIN buffers' :
         StorageOf(b)' = StorageOf(c)' => CellsArePlaces(array'[b], ViewOf(b)', array'[c], ViewOf(c)')
  BY <1>1, <1>2, <1>22 DEF AgreeInv, HistoryInv
<1>26. file' # NONE => FileMatches'
  BY <1>1, <1>2 DEF AgreeInv, HistoryInv, FileMatches
<1>27. DOMAIN array' = DOMAIN buffers' /\ DOMAIN value' = DOMAIN storages'
  BY <1>1, <1>2, <1>3, <1>14, <1>15
<1>28. QED  BY <1>24, <1>25, <1>26, <1>27 DEF HistoryInv

-----------------------------------------------------------------------------
(* Sums along one dimension, and along one more *)

LEMMA InsertIs ==
  ASSUME NEW k \in Seq(Nat), NEW d \in 1..(Len(k) + 1), NEW n \in Nat
  PROVE  /\ DOMAIN InsertAt(k, d, n) = 1..(Len(k) + 1)
         /\ InsertAt(k, d, n) \in Seq(Nat)
         /\ \A m \in 1..(Len(k) + 1) :
              InsertAt(k, d, n)[m] = IF m < d THEN k[m] ELSE IF m = d THEN n ELSE k[m - 1]
<1> DEFINE L == Len(k)
           front == SubSeq(k, 1, d - 1)
           back == SubSeq(k, d, L)
           one == <<n>>
<1>1. L \in Nat /\ d \in 1..(L + 1) /\ d \in Nat /\ d - 1 \in Int /\ 1 \in Int /\ L \in Int
  OBVIOUS
<1>2. /\ front \in Seq(Nat) /\ Len(front) = d - 1
      /\ \A m \in 1..(d - 1) : front[m] = k[m]
  <2>1. \A i \in 1..(d - 1) : k[i] \in Nat
    BY <1>1
  <2>2. /\ front \in Seq(Nat)
        /\ Len(front) = IF 1 <= d - 1 THEN (d - 1) - 1 + 1 ELSE 0
        /\ \A i \in 1..((d - 1) - 1 + 1) : front[i] = k[1 + i - 1]
    BY <1>1, <2>1, SubSeqProperties
  <2> HIDE DEF front
  <2>3. (d - 1) - 1 + 1 = d - 1 /\ \A i \in 1..(d - 1) : 1 + i - 1 = i
    BY <1>1
  <2>4. QED  BY <1>1, <2>2, <2>3
<1>3. /\ back \in Seq(Nat) /\ Len(back) = L - d + 1
      /\ \A m \in 1..(L - d + 1) : back[m] = k[d + m - 1]
  <2>1. \A i \in d..L : k[i] \in Nat
    BY <1>1
  <2>2. /\ back \in Seq(Nat)
        /\ Len(back) = IF d <= L THEN L - d + 1 ELSE 0
        /\ \A i \in 1..(L - d + 1) : back[i] = k[d + i - 1]
    BY <1>1, <2>1, SubSeqProperties
  <2> HIDE DEF back
  <2>3. QED  BY <1>1, <2>2
<1>4. one \in Seq(Nat) /\ Len(one) = 1 /\ one[1] = n
  OBVIOUS
<1>5. InsertAt(k, d, n) = (front \o one) \o back
  BY DEF InsertAt
<1> HIDE DEF L, front, back, one
<1>6. /\ front \o one \in Seq(Nat) /\ Len(front \o one) = d
      /\ \A m \in 1..d : (front \o one)[m] = IF m < d THEN front[m] ELSE n
  <2>1. /\ front \o one \in Seq(Nat)
        /\ Len(front \o one) = Len(front) + Len(one)
        /\ \A i \in 1..(Len(front) + Len(one)) :
             (front \o one)[i] = IF i <= Len(front) THEN front[i] ELSE one[i - Len(front)]
    BY <1>2, <1>4, ConcatProperties
  <2> DEFINE g == front \o one
  <2>2. \A m \in 1..d : (m <= d - 1 <=> m < d) /\ (~(m < d) => m - (d - 1) = 1)
    BY <1>1
  <2>3. (d - 1) + 1 = d
    BY <1>1
  <2>4. /\ g \in Seq(Nat) /\ Len(g) = d
        /\ \A i \in 1..d : g[i] = IF i <= d - 1 THEN front[i] ELSE one[i - (d - 1)]
    BY <1>2, <1>4, <2>1, <2>3
  <2> HIDE DEF front, g
  <2>5. \A m \in 1..d : g[m] = IF m < d THEN front[m] ELSE n
    BY <1>4, <2>2, <2>4
  <2>6. QED  BY <2>4, <2>5 DEF g
<1>7. /\ InsertAt(k, d, n) \in Seq(Nat) /\ Len(InsertAt(k, d, n)) = L + 1
      /\ \A m \in 1..(L + 1) : InsertAt(k, d, n)[m] = IF m <= d THEN (front \o one)[m] ELSE back[m - d]
  <2> DEFINE s == front \o one
  <2>1. s \in Seq(Nat) /\ Len(s) = d
    BY <1>6
  <2> HIDE DEF s
  <2>2. /\ s \o back \in Seq(Nat)
        /\ Len(s \o back) = Len(s) + Len(back)
        /\ \A i \in 1..(Len(s) + Len(back)) : (s \o back)[i] = IF i <= Len(s) THEN s[i] ELSE back[i - Len(s)]
    BY <1>3, <2>1, ConcatProperties
  <2>3. d + (L - d + 1) = L + 1
    BY <1>1
  <2>4. QED  BY <1>3, <1>5, <2>1, <2>2, <2>3 DEF s
<1>8. DOMAIN InsertAt(k, d, n) = 1..(L + 1)
  BY <1>7
<1>9. ASSUME NEW m \in 1..(L + 1)
      PROVE  InsertAt(k, d, n)[m] = IF m < d THEN k[m] ELSE IF m = d THEN n ELSE k[m - 1]
  <2>1. CASE m < d
    <3>1. m \in 1..d /\ m <= d /\ m \in 1..(d - 1)
      BY <1>1, <2>1
    <3>2. QED  BY <1>2, <1>6, <1>7, <2>1, <3>1
  <2>2. CASE m = d
    <3>1. m \in 1..d /\ m <= d /\ ~(m < d)
      BY <1>1, <2>2
    <3>2. QED  BY <1>6, <1>7, <2>2, <3>1
  <2>3. CASE m > d
    <3>1. ~(m <= d) /\ m - d \in 1..(L - d + 1) /\ d + (m - d) - 1 = m - 1 /\ ~(m < d) /\ m # d
      BY <1>1, <2>3
    <3>2. QED  BY <1>3, <1>7, <3>1
  <2>4. QED  BY <1>1, <2>1, <2>2, <2>3
<1>10. QED  BY <1>7, <1>8, <1>9 DEF L

(* The index in a view w at coordinate n of dimension d, elsewhere as index k   *)
(* says, whose dimensions were those that s names.                              *)
IsAlong(a, w, d, s, k, n) ==
  /\ a \in AllIndices(w.shape)
  /\ a[d] = n
  /\ \A p \in 1..Len(s) : s[p] # d => a[s[p]] = k[p]

Along(k, d, keep, n) == IF keep THEN [k EXCEPT ![d] = n] ELSE InsertAt(k, d, n)

LEMMA AlongIs ==
  ASSUME NEW w, IsView(w), NEW d \in 1..Rank(w), NEW keep, NEW r, IsView(r),
         IsReduction(w, {d}, keep, Skips(d, keep, Rank(w)), r),
         NEW k \in AllIndices(r.shape), NEW n \in 0..(w.shape[d] - 1)
  PROVE  IsAlong(Along(k, d, keep, n), w, d, Skips(d, keep, Rank(w)), k, n)
<1> DEFINE L == Rank(w)
           s == Skips(d, keep, L)
           a == Along(k, d, keep, n)
           N == KeptSize(L, keep)
<1>1. /\ L \in Nat /\ L = Len(w.shape) /\ \A m \in 1..L : w.shape[m] \in Nat \ {0}
  BY DimensionFacts DEF Rank
<1>2. /\ N \in Nat /\ Len(s) = N
      /\ (keep => N = L) /\ (~keep => N = L - 1)
      /\ \A m \in 1..L : m # d => \E p \in 1..N : s[p] = m
  <2>1. d \in 1..L /\ L \in Nat
    BY <1>1
  <2> HIDE DEF L
  <2>2. AreSkips(Skips(d, keep, L), KeptSize(L, keep), d, keep, L)
    BY <2>1, SkipsFacts
  <2>3. QED  BY <2>2 DEF AreSkips, KeptSize
<1>3. \A p \in 1..N : s[p] = IF keep \/ p < d THEN p ELSE p + 1
  BY DEF Skips
<1>4. /\ Rank(r) = N
      /\ \A p \in 1..N : r.shape[p] = IF s[p] \in {d} THEN 1 ELSE w.shape[s[p]]
  BY <1>2 DEF IsReduction
<1>5. k \in [1..N -> Nat] /\ \A p \in 1..N : k[p] < r.shape[p]
  BY <1>4 DEF AllIndices, Rank
<1>6. n \in Nat /\ n < w.shape[d]
  BY <1>1
<1> HIDE DEF L, s, N
<1>7. a \in [1..L -> Nat] /\ a[d] = n /\ \A p \in 1..N : s[p] # d => a[s[p]] = k[p]
  <2>1. CASE keep
    <3>1. a = [k EXCEPT ![d] = n]
      BY <2>1 DEF Along
    <3> HIDE DEF a
    <3>2. QED  BY <1>1, <1>2, <1>3, <1>5, <1>6, <2>1, <3>1 DEF L
  <2>2. CASE ~keep
    <3>1. a = InsertAt(k, d, n)
      BY <2>2 DEF Along
    <3>2. k \in Seq(Nat) /\ Len(k) + 1 = L /\ Len(k) = N /\ d \in 1..(Len(k) + 1)
      <4>1. k \in Seq(Nat) /\ Len(k) = N
        BY <1>2, <1>5, FunctionIsSequence
      <4>2. N + 1 = L
        BY <1>1, <1>2, <2>2
      <4>3. QED  BY <4>1, <4>2 DEF L
    <3> HIDE DEF a
    <3>3. /\ DOMAIN a = 1..L
          /\ a \in Seq(Nat)
          /\ \A m \in 1..L : a[m] = IF m < d THEN k[m] ELSE IF m = d THEN n ELSE k[m - 1]
      <4>1. /\ DOMAIN a = 1..(Len(k) + 1)
            /\ a \in Seq(Nat)
            /\ \A m \in 1..(Len(k) + 1) : a[m] = IF m < d THEN k[m] ELSE IF m = d THEN n ELSE k[m - 1]
        <5>1. k \in Seq(Nat) /\ d \in 1..(Len(k) + 1) /\ n \in Nat
          BY <1>6, <3>2
        <5>2. /\ DOMAIN InsertAt(k, d, n) = 1..(Len(k) + 1)
              /\ InsertAt(k, d, n) \in Seq(Nat)
              /\ \A m \in 1..(Len(k) + 1) :
                   InsertAt(k, d, n)[m] = IF m < d THEN k[m] ELSE IF m = d THEN n ELSE k[m - 1]
          BY <5>1, InsertIs
        <5>3. QED  BY <3>1, <5>2
      <4>2. QED  BY <3>2, <4>1
    <3>4. d \in 1..L /\ ~(d < d)
      BY <1>1 DEF L
    <3>5. a[d] = n
      BY <3>3, <3>4
    <3>6. a \in [1..L -> Nat]
      BY <1>1, <3>3
    <3>7. ASSUME NEW p \in 1..N, s[p] # d PROVE a[s[p]] = k[p]
      <4>1. CASE p < d
        <5>1. s[p] = p /\ p \in 1..L
          BY <1>1, <1>2, <1>3, <2>2, <4>1
        <5>2. QED  BY <3>3, <4>1, <5>1
      <4>2. CASE ~(p < d)
        <5>1. s[p] = p + 1 /\ p + 1 \in 1..L /\ ~(p + 1 < d) /\ p + 1 # d /\ (p + 1) - 1 = p
          <6>1. s[p] = p + 1
            BY <1>3, <2>2, <4>2
          <6>2. QED  BY <1>1, <1>2, <2>2, <3>4, <4>2, <6>1
        <5>2. QED  BY <3>3, <5>1
      <4>3. QED  BY <4>1, <4>2
    <3>8. QED  BY <3>5, <3>6, <3>7
  <2>3. QED  BY <2>1, <2>2
<1>8. ASSUME NEW m \in 1..L PROVE a[m] < w.shape[m]
  <2>1. CASE m = d
    BY <1>6, <1>7, <2>1
  <2>2. CASE m # d
    <3>1. PICK p \in 1..N : s[p] = m
      BY <1>2, <2>2
    <3>2. a[m] = k[p] /\ k[p] < w.shape[m]
      BY <1>4, <1>5, <1>7, <2>2, <3>1
    <3>3. QED  BY <3>2
  <2>3. QED  BY <2>1, <2>2
<1> HIDE DEF a
<1>9. a \in AllIndices(w.shape)
  <2>1. \A i \in [1..Len(w.shape) -> Nat] :
          (\A m \in 1..Len(w.shape) : i[m] < w.shape[m]) => i \in AllIndices(w.shape)
    BY DEF AllIndices
  <2>2. QED  BY <1>1, <1>7, <1>8, <2>1
<1>10. QED  BY <1>2, <1>7, <1>9 DEF IsAlong, a, s, L

Without(q, d, keep) == [p \in 1..KeptSize(Len(q), keep) |-> q[Skips(d, keep, Len(q))[p]]]

(* q orders what is left of the dimensions of v when D is reduced; d, not in D, *)
(* comes where it was, as all before it are left.                              *)
IsNext(q, d, rank, D, keep) ==
  /\ IsOrdered(q, Kept(rank, D, keep))
  /\ d \in 1..Len(q)
  /\ q[d] = d
  /\ d \notin D

WithoutFacts(q, d, rank, D, keep) ==
  LET s == Skips(d, keep, Len(q))
      t == Without(q, d, keep)
  IN  /\ Len(q) \in Nat
      /\ Len(s) \in Nat
      /\ Len(t) = Len(s)
      /\ DOMAIN s = 1..Len(s)
      /\ IsOrdered(s, Kept(Len(q), {d}, keep))
      /\ IsOrdered(t, Kept(rank, D \cup {d}, keep))
      /\ \A p \in 1..Len(s) : /\ s[p] \in 1..Len(q)
                              /\ t[p] = q[s[p]]
                              /\ t[p] \in 1..rank
                              /\ t[p] \in D \cup {d} <=> q[s[p]] \in D \/ s[p] = d
      /\ \A p \in 1..Len(q) : q[p] \in 1..rank
      /\ \A m \in 1..Len(q) : m # d => q[m] # d /\ \E p \in 1..Len(s) : s[p] = m

LEMMA WithoutIs ==
  ASSUME NEW rank \in Nat, NEW D, NEW keep, NEW q, NEW d, IsNext(q, d, rank, D, keep)
  PROVE  WithoutFacts(q, d, rank, D, keep)
<1> DEFINE L == Len(q)
           s == Skips(d, keep, L)
           t == Without(q, d, keep)
           n == KeptSize(L, keep)
           K == Kept(rank, D, keep)
<1>1. IsOrdered(q, K) /\ d \in 1..L /\ q[d] = d /\ d \notin D
  BY DEF IsNext
<1>2. /\ L \in Nat
      /\ \A p \in 1..L : q[p] \in K
      /\ \A i, j \in 1..L : i < j => q[i] < q[j]
  BY <1>1 DEF IsOrdered
<1>3. K \subseteq 1..rank
  BY DEF Kept
<1>4. IsOrdered([p \in 1..KeptSize(Len(q), keep) |-> q[Skips(d, keep, Len(q))[p]]], Kept(rank, D \cup {d}, keep))
  BY <1>1, OrderedWithout
<1>5. t = [p \in 1..n |-> q[s[p]]] /\ IsOrdered(t, Kept(rank, D \cup {d}, keep))
  BY <1>4 DEF Without
<1> HIDE DEF L, s, t, n, K
<1>6. AreSkips(s, n, d, keep, L)
  BY <1>1, <1>2, SkipsFacts DEF s, n
<1>7. /\ n \in Nat /\ Len(s) = n /\ DOMAIN s = 1..n
      /\ \A p \in 1..n : s[p] \in 1..L
      /\ \A m \in 1..L : m # d => \E p \in 1..n : s[p] = m
      /\ IsOrdered(s, Kept(L, {d}, keep))
  BY <1>6 DEF AreSkips
<1>8. \A i, j \in 1..L : q[i] = q[j] => i = j
  <2> SUFFICES ASSUME NEW i \in 1..L, NEW j \in 1..L, q[i] = q[j] PROVE i = j
    OBVIOUS
  <2>1. q[i] \in Int
    <3>1. q[i] \in 1..rank
      BY <1>2, <1>3
    <3>2. QED  BY <3>1
  <2>2. ~(q[i] < q[j]) /\ ~(q[j] < q[i])
    BY <2>1
  <2>3. ~(i < j) /\ ~(j < i)
    BY <1>2, <2>2
  <2>4. QED  BY <1>2, <2>3
<1>9. \A p \in 1..L : q[p] \in 1..rank /\ (q[p] = d <=> p = d)
  BY <1>1, <1>2, <1>3, <1>8
<1>10. \A p \in 1..n : t[p] = q[s[p]]
  BY <1>5
<1>11. Len(t) = n
  <2>1. PICK M : M = Kept(rank, D \cup {d}, keep)
    OBVIOUS
  <2>2. t \in Seq(M) /\ DOMAIN t = 1..n
    BY <1>5, <2>1 DEF IsOrdered
  <2>3. t \in [1..n -> M]
    <3>1. \A u \in Seq(M) : u \in [DOMAIN u -> M]
      OBVIOUS
    <3>2. t \in [DOMAIN t -> M]
      BY <2>2, <3>1
    <3>3. QED  BY <2>2, <3>2
  <2>4. QED  BY <1>7, <2>3, FunctionIsSequence
<1>12. \A p \in 1..n : /\ s[p] \in 1..L
                       /\ t[p] = q[s[p]]
                       /\ t[p] \in 1..rank
                       /\ t[p] \in D \cup {d} <=> q[s[p]] \in D \/ s[p] = d
  BY <1>7, <1>9, <1>10
<1>13. \A m \in 1..L : m # d => q[m] # d /\ \E p \in 1..n : s[p] = m
  BY <1>7, <1>9
<1>14. QED
  BY <1>2, <1>5, <1>7, <1>9, <1>11, <1>12, <1>13 DEF WithoutFacts, L, s, t

(* A reduction of D and then of d is one of both. *)
LEMMA ReductionComposes ==
  ASSUME NEW v, IsView(v), NEW D, NEW keep, NEW q, NEW w, IsView(w), IsReduction(v, D, keep, q, w),
         NEW d, IsNext(q, d, Rank(v), D, keep), NEW r
  PROVE  /\ Rank(w) = Len(q)
         /\ IsReduction(w, {d}, keep, Skips(d, keep, Len(q)), r)
              <=> IsReduction(v, D \cup {d}, keep, Without(q, d, keep), r)
<1> DEFINE s == Skips(d, keep, Len(q))
           t == Without(q, d, keep)
<1>1. Rank(v) \in Nat /\ Rank(w) = Len(q)
  BY DimensionFacts DEF IsReduction
<1>2. WithoutFacts(q, d, Rank(v), D, keep)
  BY <1>1, WithoutIs
<1>3. /\ Len(s) \in Nat /\ Len(t) = Len(s)
      /\ IsOrdered(s, Kept(Len(q), {d}, keep))
      /\ IsOrdered(t, Kept(Rank(v), D \cup {d}, keep))
      /\ \A p \in 1..Len(s) : /\ s[p] \in 1..Len(q)
                              /\ t[p] = q[s[p]]
                              /\ t[p] \in 1..Rank(v)
                              /\ t[p] \in D \cup {d} <=> q[s[p]] \in D \/ s[p] = d
  BY <1>2 DEF WithoutFacts
<1>4. \A k \in 1..Len(q) : /\ w.shape[k] = IF q[k] \in D THEN 1 ELSE v.shape[q[k]]
                           /\ w.strides[k] # 0 <=> q[k] \notin D /\ v.strides[q[k]] # 0
  BY DEF IsReduction
<1> HIDE DEF s, t
<1>5. ASSUME NEW p \in 1..Len(s)
      PROVE  /\ (IF s[p] \in {d} THEN 1 ELSE w.shape[s[p]]) = (IF t[p] \in D \cup {d} THEN 1 ELSE v.shape[t[p]])
             /\ s[p] \notin {d} /\ w.strides[s[p]] # 0 <=> t[p] \notin D \cup {d} /\ v.strides[t[p]] # 0
  <2>1. /\ s[p] \in 1..Len(q) /\ t[p] = q[s[p]]
        /\ t[p] \in D \cup {d} <=> q[s[p]] \in D \/ s[p] = d
    BY <1>3
  <2>2. /\ w.shape[s[p]] = IF t[p] \in D THEN 1 ELSE v.shape[t[p]]
        /\ w.strides[s[p]] # 0 <=> t[p] \notin D /\ v.strides[t[p]] # 0
    BY <1>4, <2>1
  <2>3. QED  BY <2>1, <2>2
<1>6. IsReduction(w, {d}, keep, s, r) <=>
        /\ Rank(r) = Len(s)
        /\ \A p \in 1..Len(s) : /\ r.shape[p] = IF s[p] \in {d} THEN 1 ELSE w.shape[s[p]]
                                /\ r.strides[p] # 0 <=> s[p] \notin {d} /\ w.strides[s[p]] # 0
  BY <1>1, <1>3 DEF IsReduction
<1>7. IsReduction(v, D \cup {d}, keep, t, r) <=>
        /\ Rank(r) = Len(s)
        /\ \A p \in 1..Len(s) : /\ r.shape[p] = IF t[p] \in D \cup {d} THEN 1 ELSE v.shape[t[p]]
                                /\ r.strides[p] # 0 <=> t[p] \notin D \cup {d} /\ v.strides[t[p]] # 0
  BY <1>3 DEF IsReduction
<1>8. IsReduction(w, {d}, keep, s, r) <=> IsReduction(v, D \cup {d}, keep, t, r)
  BY <1>5, <1>6, <1>7
<1>9. QED  BY <1>1, <1>8 DEF s, t

(* The indices of a shape that are reduced to index k of what is left. *)
From(shape, D, q, k) ==
  {i \in AllIndices(shape) : \A p \in 1..Len(q) : q[p] \notin D => i[q[p]] = k[p]}

(* Those at coordinate n of d are reduced to one index before d is. *)
LEMMA FromParts ==
  ASSUME NEW shape, NEW rank \in Nat, NEW D, NEW keep, NEW q, NEW d, IsNext(q, d, rank, D, keep),
         NEW h, \A i \in AllIndices(shape) : h[i] = i[d],
         NEW w, NEW a, NEW k, NEW n, IsAlong(a, w, d, Skips(d, keep, Len(q)), k, n)
  PROVE  PartAt(From(shape, D \cup {d}, Without(q, d, keep), k), h, n) = From(shape, D, q, a)
<1> DEFINE s == Skips(d, keep, Len(q))
           t == Without(q, d, keep)
<1>1. WithoutFacts(q, d, rank, D, keep)
  BY WithoutIs
<1>2. /\ Len(t) = Len(s)
      /\ \A p \in 1..Len(s) : /\ s[p] \in 1..Len(q)
                              /\ t[p] = q[s[p]]
                              /\ t[p] \in D \cup {d} <=> q[s[p]] \in D \/ s[p] = d
      /\ \A m \in 1..Len(q) : m # d => q[m] # d /\ \E p \in 1..Len(s) : s[p] = m
  BY <1>1 DEF WithoutFacts
<1>3. a[d] = n /\ \A p \in 1..Len(s) : s[p] # d => a[s[p]] = k[p]
  BY DEF IsAlong
<1>4. d \in 1..Len(q) /\ q[d] = d /\ d \notin D
  BY DEF IsNext
<1> HIDE DEF s, t
<1>5. ASSUME NEW i \in AllIndices(shape)
      PROVE  (\A p \in 1..Len(q) : q[p] \notin D => i[q[p]] = a[p])
                <=> i[d] = n /\ \A p \in 1..Len(s) : t[p] \notin D \cup {d} => i[t[p]] = k[p]
  <2>1. ASSUME \A p \in 1..Len(q) : q[p] \notin D => i[q[p]] = a[p]
        PROVE  i[d] = n /\ \A p \in 1..Len(s) : t[p] \notin D \cup {d} => i[t[p]] = k[p]
    <3>1. i[d] = n
      BY <1>3, <1>4, <2>1
    <3>2. ASSUME NEW p \in 1..Len(s), t[p] \notin D \cup {d} PROVE i[t[p]] = k[p]
      <4>1. s[p] \in 1..Len(q) /\ t[p] = q[s[p]] /\ q[s[p]] \notin D /\ s[p] # d
        BY <1>2, <3>2
      <4>2. i[q[s[p]]] = a[s[p]] /\ a[s[p]] = k[p]
        BY <1>3, <2>1, <4>1
      <4>3. QED  BY <4>1, <4>2
    <3>3. QED  BY <3>1, <3>2
  <2>2. ASSUME i[d] = n, \A p \in 1..Len(s) : t[p] \notin D \cup {d} => i[t[p]] = k[p],
               NEW m \in 1..Len(q), q[m] \notin D
        PROVE  i[q[m]] = a[m]
    <3>1. CASE m = d
      BY <1>3, <1>4, <2>2, <3>1
    <3>2. CASE m # d
      <4>1. PICK p \in 1..Len(s) : s[p] = m
        BY <1>2, <3>2
      <4>2. t[p] = q[m] /\ t[p] \notin D \cup {d}
        BY <1>2, <2>2, <3>2, <4>1
      <4>3. i[t[p]] = k[p] /\ a[m] = k[p]
        BY <1>3, <2>2, <3>2, <4>1, <4>2
      <4>4. QED  BY <4>2, <4>3
    <3>3. QED  BY <3>1, <3>2
  <2>3. QED  BY <2>1, <2>2
<1>6. From(shape, D \cup {d}, t, k)
        = {i \in AllIndices(shape) : \A p \in 1..Len(s) : t[p] \notin D \cup {d} => i[t[p]] = k[p]}
  BY <1>2 DEF From
<1>7. PartAt(From(shape, D \cup {d}, t, k), h, n)
        = {i \in AllIndices(shape) : i[d] = n /\ \A p \in 1..Len(s) : t[p] \notin D \cup {d} => i[t[p]] = k[p]}
  BY <1>6 DEF PartAt
<1>8. From(shape, D, q, a) = {i \in AllIndices(shape) : \A p \in 1..Len(q) : q[p] \notin D => i[q[p]] = a[p]}
  BY DEF From
<1>9. PartAt(From(shape, D \cup {d}, t, k), h, n) = From(shape, D, q, a)
  BY <1>5, <1>7, <1>8
<1>10. QED  BY <1>9 DEF t

(* b holds the sums of the elements e of v over D, at index k of what is left. *)
SumsStored(v, e, D, q, b) ==
  \A k \in AllIndices(b.view.shape) :
    b.data[Address(b.view, k)] = SumFunctionOnSet(e, From(v.shape, D, q, k))

IsReduced(v, e, D, keep, q, b) ==
  /\ IsView(b.view)
  /\ IsReduction(v, D, keep, q, b.view)
  /\ SumsStored(v, e, D, q, b)

AreIntegers(e, S) == \A i \in S : e[i] \in Int

(* The loop over one more dimension sums the sums. *)
LEMMA ReductionStep ==
  ASSUME NEW v, IsView(v), NEW e, AreIntegers(e, AllIndices(v.shape)),
         NEW D, NEW keep, NEW q, NEW x, IsReduced(v, e, D, keep, q, x),
         NEW d, IsNext(q, d, Rank(v), D, keep),
         NEW r, IsView(r), IsDense(r), IsReduction(v, D \cup {d}, keep, Without(q, d, keep), r)
  PROVE  IsReduced(v, e, D \cup {d}, keep, Without(q, d, keep), ReductionDimension(x, d - 1, keep, r))
<1> DEFINE w == x.view
           L == Len(q)
           s == Skips(d, keep, L)
           t == Without(q, d, keep)
           N == 0..(w.shape[d] - 1)
           h == [i \in AllIndices(v.shape) |-> i[d]]
           sums == [index \in Coordinates(r.shape) |->
                      SumFunction([n \in N |-> x.data[Address(w, Along(index, d, keep, n))]])]
           b == ReductionDimension(x, d - 1, keep, r)
           data == Empty(ViewPhysicalSize(r))
<1>1. /\ IsView(w) /\ IsReduction(v, D, keep, q, w) /\ SumsStored(v, e, D, q, x)
  BY DEF IsReduced
<1>2. /\ d \in 1..L /\ q[d] = d /\ d \notin D /\ IsOrdered(q, Kept(Rank(v), D, keep))
      /\ L \in Nat /\ (d - 1) + 1 = d
  <2>1. /\ d \in 1..L /\ q[d] = d /\ d \notin D /\ IsOrdered(q, Kept(Rank(v), D, keep))
    BY DEF IsNext
  <2>2. L \in Nat
    BY <2>1 DEF IsOrdered
  <2>3. QED  BY <2>1, <2>2
<1>3. /\ Rank(w) = L
      /\ IsReduction(w, {d}, keep, s, r) <=> IsReduction(v, D \cup {d}, keep, t, r)
  <2> HIDE DEF w
  <2>1. /\ Rank(w) = Len(q)
        /\ IsReduction(w, {d}, keep, Skips(d, keep, Len(q)), r)
              <=> IsReduction(v, D \cup {d}, keep, Without(q, d, keep), r)
    BY <1>1, ReductionComposes
  <2>2. QED  BY <2>1
<1>4. b.view = r /\ b.data = Kernel(data, r, sums)
  <2>1. ReductionDimension(x, d - 1, keep, r)
          = [view |-> r, data |-> Computed(r, [index \in Coordinates(r.shape) |->
                SumFunction([n \in 0..(x.view.shape[(d - 1) + 1] - 1) |->
                   x.data[Address(x.view, IF keep THEN [index EXCEPT ![(d - 1) + 1] = n]
                                          ELSE InsertAt(index, (d - 1) + 1, n))]])])]
    BY DEF ReductionDimension
  <2>2. b = [view |-> r, data |-> Computed(r, sums)]
    BY <1>2, <2>1 DEF Along
  <2> HIDE DEF b, sums
  <2>3. b.view = r /\ b.data = Computed(r, sums)
    BY <2>2
  <2>4. Computed(r, sums) = Kernel(data, r, sums)
    BY DEF Computed
  <2>5. QED  BY <2>3, <2>4
<1>5. WithoutFacts(q, d, Rank(v), D, keep)
  BY DimensionFacts, WithoutIs
<1>6. /\ IsFiniteSet(N) /\ w.shape[d] = v.shape[d] /\ v.shape[d] \in Nat \ {0}
      /\ \A i \in AllIndices(v.shape) : h[i] \in N
  <2>1. w.shape[d] = v.shape[d] /\ d \in 1..Rank(v)
    BY <1>1, <1>2 DEF IsReduction
  <2>2. v.shape[d] \in Nat \ {0} /\ Rank(v) = Len(v.shape)
    BY <2>1, DimensionFacts DEF Rank
  <2>3. IsFiniteSet(N)
    <3>1. 0 \in Int /\ w.shape[d] - 1 \in Int
      BY <2>1, <2>2
    <3>2. QED  BY <3>1, FS_Interval
  <2>4. ASSUME NEW i \in AllIndices(v.shape) PROVE i[d] \in N
    <3>1. i[d] \in Nat /\ i[d] < v.shape[d]
      BY <2>1, <2>2 DEF AllIndices
    <3>2. QED  BY <2>1, <2>2, <3>1
  <2>5. QED  BY <2>1, <2>2, <2>3, <2>4
<1>7. Coordinates(r.shape) = AllIndices(r.shape) /\ r.shape \in Seq(Sizes) /\ IsShape(r.shape)
  <2>1. r.shape \in Seq(Sizes)
    BY ViewShape
  <2>2. QED  BY <2>1, IndicesFinite DEF Coordinates, IsView, IsShape
<1>8. v.shape \in Seq(Sizes) /\ IsFiniteSet(AllIndices(v.shape))
  BY ViewShape, IndicesFinite
<1>9. ASSUME NEW k \in AllIndices(r.shape), NEW n \in N
      PROVE  IsAlong(Along(k, d, keep, n), w, d, s, k, n)
  <2>1. IsReduction(w, {d}, keep, Skips(d, keep, Rank(w)), r) /\ d \in 1..Rank(w) /\ n \in 0..(w.shape[d] - 1)
    BY <1>2, <1>3
  <2> HIDE DEF w
  <2>2. IsAlong(Along(k, d, keep, n), w, d, Skips(d, keep, Rank(w)), k, n)
    BY <1>1, <2>1, AlongIs
  <2>3. QED  BY <1>3, <2>2
<1>10. ASSUME NEW k \in AllIndices(r.shape)
       PROVE  sums[k] = SumFunctionOnSet(e, From(v.shape, D \cup {d}, t, k))
  <2> DEFINE g == [n \in N |-> x.data[Address(w, Along(k, d, keep, n))]]
             S == From(v.shape, D \cup {d}, t, k)
  <2>1. sums[k] = SumFunctionOnSet(g, N)
    BY <1>7 DEF SumFunction
  <2>2. ASSUME NEW n \in N PROVE g[n] = SumFunctionOnSet(e, PartAt(S, h, n))
    <3> DEFINE a == Along(k, d, keep, n)
    <3>1. IsAlong(a, w, d, s, k, n)
      BY <1>9
    <3>2. x.data[Address(w, a)] = SumFunctionOnSet(e, From(v.shape, D, q, a))
      BY <1>1, <3>1 DEF IsAlong, SumsStored
    <3>3. \A i \in AllIndices(v.shape) : h[i] = i[d]
      OBVIOUS
    <3>4. Rank(v) \in Nat
      BY DimensionFacts
    <3>5. g[n] = x.data[Address(w, a)]
      OBVIOUS
    <3> HIDE DEF a, h, g, w
    <3>6. PartAt(From(v.shape, D \cup {d}, Without(q, d, keep), k), h, n) = From(v.shape, D, q, a)
      BY <3>1, <3>3, <3>4, FromParts
    <3>7. QED  BY <3>2, <3>5, <3>6
  <2>3. S \subseteq AllIndices(v.shape)
    BY DEF From
  <2>4. IsFiniteSet(S) /\ \A i \in S : e[i] \in Int /\ h[i] \in N
    BY <1>6, <1>8, <2>3, FS_Subset DEF AreIntegers
  <2> HIDE DEF S, g, h, N
  <2>5. SumFunctionOnSet(e, S) = SumFunctionOnSet(g, N)
    BY <1>6, <2>2, <2>4, SumParts
  <2>6. QED  BY <2>1, <2>5 DEF S
<1>11. StoredOnce(r, sums)
  <2> SUFFICES ASSUME NEW i \in AllIndices(r.shape), NEW j \in AllIndices(r.shape), Address(r, i) = Address(r, j)
               PROVE  sums[i] = sums[j]
    BY DEF StoredOnce
  <2>1. AgreeOn(StoredIn(r), i, j)
    BY DenseAddress
  <2>2. ASSUME NEW n \in N
        PROVE  x.data[Address(w, Along(i, d, keep, n))] = x.data[Address(w, Along(j, d, keep, n))]
    <3> DEFINE a == Along(i, d, keep, n)
               c == Along(j, d, keep, n)
    <3>1. IsAlong(a, w, d, s, i, n) /\ IsAlong(c, w, d, s, j, n)
      BY <1>9
    <3> HIDE DEF a, c
    <3>2. AgreeOn(StoredIn(w), a, c)
      <4> SUFFICES ASSUME NEW m \in StoredIn(w) PROVE a[m] = c[m]
        BY DEF AgreeOn
      <4>1. m \in 1..L /\ w.strides[m] # 0
        BY <1>1, <1>3, DimensionFacts DEF StoredIn
      <4>2. CASE m = d
        BY <3>1, <4>2 DEF IsAlong
      <4>3. CASE m # d
        <5>1. PICK p \in 1..Len(s) : s[p] = m
          BY <1>5, <4>1, <4>3 DEF WithoutFacts
        <5>2. r.strides[p] # 0 /\ Rank(r) = Len(s)
          BY <1>3, <4>1, <4>3, <5>1 DEF IsReduction
        <5>3. p \in StoredIn(r)
          BY <5>2, DimensionFacts DEF StoredIn
        <5>4. i[p] = j[p]
          BY <2>1, <5>3 DEF AgreeOn
        <5>5. a[m] = i[p] /\ c[m] = j[p]
          BY <3>1, <4>3, <5>1 DEF IsAlong
        <5>6. QED  BY <5>4, <5>5
      <4>4. QED  BY <4>2, <4>3
    <3>3. a \in AllIndices(w.shape) /\ c \in AllIndices(w.shape)
      BY <3>1 DEF IsAlong
    <3> HIDE DEF w
    <3>4. Address(w, a) = Address(w, c)
      BY <1>1, <3>2, <3>3, SameAddress
    <3>5. QED  BY <3>4 DEF a, c
  <2>3. [n \in N |-> x.data[Address(w, Along(i, d, keep, n))]] = [n \in N |-> x.data[Address(w, Along(j, d, keep, n))]]
    BY <2>2
  <2>4. QED  BY <1>7, <2>3
<1>12. IsMemory(data) /\ HasPlaces(r, data)
  <2>1. ViewPhysicalSize(r) \in Nat \ {0}
    BY DenseReach
  <2>2. IsMemory(data) /\ DOMAIN data = 0..(ViewPhysicalSize(r) - 1)
    BY <2>1 DEF Empty, IsMemory
  <2>3. Fits(r, data)
    BY <2>2, DenseFits
  <2>4. QED  BY <2>2, <2>3, FitsPlaces
<1> HIDE DEF sums, data, b
<1>13. \A k \in AllIndices(r.shape) : Kernel(data, r, sums)[Address(r, k)] = sums[k]
  BY <1>7, <1>11, <1>12, KernelStores
<1>14. SumsStored(v, e, D \cup {d}, t, b)
  BY <1>4, <1>10, <1>13 DEF SumsStored
<1>15. QED  BY <1>4, <1>14 DEF IsReduced, b

(* Before the last dimension, the view is reduced as it is. *)
LEMMA ReductionNext ==
  ASSUME NEW v, IsView(v), NEW e, AreIntegers(e, AllIndices(v.shape)),
         NEW D, NEW keep, NEW q, NEW x, IsReduced(v, e, D, keep, q, x),
         NEW d, IsNext(q, d, Rank(v), D, keep)
  PROVE  IsReduced(v, e, D \cup {d}, keep, Without(q, d, keep),
                   ReductionDimension(x, d - 1, keep, ViewReduce(x.view, <<d - 1>>, keep)))
<1> DEFINE w == x.view
           L == Len(q)
           r == ViewReduce(w, <<d - 1>>, keep)
           K == Kept(L, {d}, keep)
           o == Ordered(K, L)
           s == Skips(d, keep, L)
<1>1. /\ IsView(w) /\ IsReduction(v, D, keep, q, w)
  BY DEF IsReduced
<1>2. Rank(w) = L /\ L \in Nat /\ d \in 1..L
  BY <1>1, DimensionFacts DEF IsReduction, IsNext
<1>3. Reduced(w, <<d - 1>>) = {d}
  <2> DEFINE one == <<d - 1>>
  <2>1. DOMAIN one = {1} /\ one[1] = d - 1
    OBVIOUS
  <2>2. Dimension(d - 1, Rank(w)) = d
    BY <1>2 DEF Dimension, DimensionToIndex
  <2> HIDE DEF one
  <2>3. {Dimension(one[n], Rank(w)) : n \in DOMAIN one} = {d}
    BY <2>1, <2>2
  <2>4. QED  BY <2>3 DEF Reduced, one
<1> HIDE DEF w
<1>4. /\ IsReduction(w, {d}, keep, Ordered(Kept(Rank(w), {d}, keep), Rank(w)), ViewReduce(w, <<d - 1>>, keep))
      /\ IsView(ViewReduce(w, <<d - 1>>, keep))
      /\ IsDense(ViewReduce(w, <<d - 1>>, keep))
  BY <1>1, <1>3, ViewReduceIs
<1>5. IsReduction(w, {d}, keep, o, r) /\ IsView(r) /\ IsDense(r)
  BY <1>2, <1>4
<1>6. K \subseteq 1..L
  BY DEF Kept
<1>7. WithoutFacts(q, d, Rank(v), D, keep)
  BY DimensionFacts, WithoutIs
<1>8. IsOrdered(s, K)
  BY <1>7 DEF WithoutFacts
<1>9. IsOrdered(o, K)
  BY <1>2, <1>5 DEF IsReduction
<1> HIDE DEF o, s, K, L, r
<1>10. o = s
  BY <1>2, <1>6, <1>8, <1>9, OrderedUnique
<1>11. IsReduction(v, D \cup {d}, keep, Without(q, d, keep), r)
  <2>1. IsReduction(w, {d}, keep, Skips(d, keep, Len(q)), r)
    BY <1>5, <1>10 DEF s, L
  <2>2. IsReduction(w, {d}, keep, Skips(d, keep, Len(q)), r)
          <=> IsReduction(v, D \cup {d}, keep, Without(q, d, keep), r)
    BY <1>1, ReductionComposes
  <2>3. QED  BY <2>1, <2>2
<1>12. IsReduced(v, e, D \cup {d}, keep, Without(q, d, keep), ReductionDimension(x, d - 1, keep, r))
  BY <1>5, <1>11, ReductionStep
<1>13. QED  BY <1>12 DEF r, w

(* The last dimension is reduced into the view of the result. *)
LEMMA ReductionLast ==
  ASSUME NEW v, IsView(v), NEW e, AreIntegers(e, AllIndices(v.shape)),
         NEW D, NEW keep, NEW q, NEW x, IsReduced(v, e, D, keep, q, x),
         NEW d, IsNext(q, d, Rank(v), D, keep), NEW axes, D \cup {d} = Reduced(v, axes)
  PROVE  IsReduced(v, e, D \cup {d}, keep, Without(q, d, keep),
                   ReductionDimension(x, d - 1, keep, ViewReduce(v, axes, keep)))
<1> DEFINE E == D \cup {d}
           r == ViewReduce(v, axes, keep)
           K == Kept(Rank(v), E, keep)
           o == Ordered(K, Rank(v))
           t == Without(q, d, keep)
<1>1. IsReduction(v, E, keep, o, r) /\ IsView(r) /\ IsDense(r)
  <2>1. PICK F : F = E
    OBVIOUS
  <2>2. F = Reduced(v, axes)
    BY <2>1
  <2>3. /\ IsReduction(v, F, keep, Ordered(Kept(Rank(v), F, keep), Rank(v)), ViewReduce(v, axes, keep))
        /\ IsView(ViewReduce(v, axes, keep))
        /\ IsDense(ViewReduce(v, axes, keep))
    BY <2>2, ViewReduceIs
  <2>4. QED  BY <2>1, <2>3
<1>2. Rank(v) \in Nat
  BY DimensionFacts
<1>3. WithoutFacts(q, d, Rank(v), D, keep)
  BY <1>2, WithoutIs
<1>4. K \subseteq 1..Rank(v)
  BY DEF Kept
<1>5. IsOrdered(o, K) /\ IsOrdered(t, K)
  BY <1>1, <1>3 DEF IsReduction, WithoutFacts
<1> HIDE DEF o, K, r, t
<1>6. o = t
  BY <1>2, <1>4, <1>5, OrderedUnique
<1>7. IsReduction(v, D \cup {d}, keep, Without(q, d, keep), r)
  BY <1>1, <1>6 DEF t
<1>8. IsReduced(v, e, D \cup {d}, keep, Without(q, d, keep), ReductionDimension(x, d - 1, keep, r))
  BY <1>1, <1>7, ReductionStep
<1>9. QED  BY <1>8 DEF r

(* Before the first, nothing is summed. *)
LEMMA ReductionFirst ==
  ASSUME NEW v, IsView(v), NEW e, AreIntegers(e, AllIndices(v.shape)), NEW keep, NEW x, x.view = v,
         \A i \in AllIndices(v.shape) : x.data[Address(v, i)] = e[i]
  PROVE  IsReduced(v, e, {}, keep, [p \in 1..Rank(v) |-> p], x)
<1> DEFINE R == Rank(v)
           q == [p \in 1..R |-> p]
<1>1. R \in Nat /\ R = Len(v.shape)
  BY DimensionFacts DEF Rank
<1> HIDE DEF R
<1>2. q \in [1..R -> 1..R] /\ \A p \in 1..R : q[p] = p
  OBVIOUS
<1> HIDE DEF q
<1>3. q \in Seq(1..R) /\ Len(q) = R
  BY <1>1, <1>2, FunctionIsSequence
<1>4. Kept(R, {}, keep) = 1..R
  BY DEF Kept
<1>5. IsOrdered(q, 1..R)
  BY <1>1, <1>2, <1>3 DEF IsOrdered
<1>6. IsReduction(v, {}, keep, q, v)
  BY <1>2, <1>3, <1>4, <1>5 DEF IsReduction, R
<1>7. ASSUME NEW k \in AllIndices(v.shape)
      PROVE  SumFunctionOnSet(e, From(v.shape, {}, q, k)) = e[k]
  <2>1. \A i \in AllIndices(v.shape) : i \in [1..R -> Nat]
    BY <1>1 DEF AllIndices
  <2>2. \A i \in AllIndices(v.shape) : (\A p \in 1..R : i[p] = k[p]) => i = k
    <3> SUFFICES ASSUME NEW i \in AllIndices(v.shape), \A p \in 1..R : i[p] = k[p] PROVE i = k
      OBVIOUS
    <3>1. i \in [1..R -> Nat] /\ k \in [1..R -> Nat]
      BY <2>1
    <3>2. i = [p \in 1..R |-> i[p]] /\ k = [p \in 1..R |-> k[p]]
      BY <3>1
    <3>3. [p \in 1..R |-> i[p]] = [p \in 1..R |-> k[p]]
      OBVIOUS
    <3>4. QED  BY <3>2, <3>3
  <2>3. From(v.shape, {}, q, k) = {k}
    BY <1>2, <1>3, <2>2 DEF From
  <2>4. /\ IsFiniteSet({}) /\ k \notin {} /\ {} \cup {k} = {k} /\ e[k] \in Int
    BY FS_EmptySet DEF AreIntegers
  <2>5. SumFunctionOnSet(e, {k}) = e[k] + SumFunctionOnSet(e, {k} \ {k})
    <3>1. IsFiniteSet({k}) /\ \A i \in {k} : e[i] \in Int
      BY <2>4, FS_AddElement
    <3>2. QED  BY <3>1, SumRemove
  <2>6. {k} \ {k} = {}
    OBVIOUS
  <2>7. QED  BY <2>3, <2>4, <2>5, <2>6, SumEmpty
<1>8. SumsStored(v, e, {}, q, x)
  BY <1>7 DEF SumsStored
<1>9. QED  BY <1>6, <1>8 DEF IsReduced, q, R

(* Axes from 0 on, each once. *)
IsAxes(axes, rank) ==
  /\ Len(axes) \in Nat \ {0}
  /\ DOMAIN axes = 1..Len(axes)
  /\ \A n \in 1..Len(axes) : axes[n] \in 0..(rank - 1)
  /\ \A m, n \in 1..Len(axes) : axes[m] = axes[n] => m = n

(* The members of D from the largest down. *)
Descends(c, D, N) ==
  /\ N \in Nat \ {0}
  /\ \A m, n \in 1..N : m < n => c[m] > c[n]
  /\ \A d \in D : \E n \in 1..N : c[n] = d
  /\ \A n \in 1..N : c[n] \in D

AxisSet(axes) == {axes[n] + 1 : n \in 1..Len(axes)}

LEMMA SortedAre ==
  ASSUME NEW rank \in Nat, NEW axes, IsAxes(axes, rank)
  PROVE  /\ AxisSet(axes) \subseteq 1..rank
         /\ Descends([n \in 1..Len(axes) |-> DescendingSort(axes)[n] + 1], AxisSet(axes), Len(axes))
         /\ \A n \in 1..Len(axes) : DescendingSort(axes)[n] \in Int
<1> DEFINE N == Len(axes)
           D == AxisSet(axes)
           q == Ordered(D, rank)
           sorted == DescendingSort(axes)
           c == [n \in 1..N |-> sorted[n] + 1]
           S == Range(axes)
           Greater(a) == {b \in S : b > a}
<1>1. /\ N \in Nat \ {0} /\ DOMAIN axes = 1..N
      /\ \A n \in 1..N : axes[n] \in 0..(rank - 1)
      /\ \A m, n \in 1..N : axes[m] = axes[n] => m = n
  BY DEF IsAxes
<1>2. S = {axes[n] : n \in 1..N} /\ D = {axes[n] + 1 : n \in 1..N}
  BY <1>1 DEF Range, AxisSet
<1> HIDE DEF N, D, S
<1>3. /\ D \subseteq 1..rank
      /\ \A b \in S : b \in Int /\ b + 1 \in D
      /\ \A d \in D : d \in Int /\ d - 1 \in S
  <2>1. \A b \in 0..(rank - 1) : b + 1 \in 1..rank /\ (b + 1) - 1 = b /\ b \in Int
    OBVIOUS
  <2>2. QED  BY <1>1, <1>2, <2>1
<1>4. IsOrdered(q, D)
  BY <1>3, OrderedFacts
<1> HIDE DEF q
<1>5. Cardinality(D) = N /\ IsFiniteSet(D)
  <2> DEFINE f == [n \in 1..N |-> axes[n] + 1]
  <2>1. \A m, n \in 1..N : axes[m] + 1 = axes[n] + 1 => m = n
    <3> SUFFICES ASSUME NEW m \in 1..N, NEW n \in 1..N, axes[m] + 1 = axes[n] + 1 PROVE m = n
      OBVIOUS
    <3>1. axes[m] \in Int /\ axes[n] \in Int
      BY <1>1
    <3>2. axes[m] = axes[n]
      BY <3>1
    <3>3. QED  BY <1>1, <3>2
  <2>2. f \in Bijection(1..N, D)
    BY <1>2, <2>1 DEF Bijection, Injection, Surjection, IsInjective
  <2> HIDE DEF f
  <2>3. ExistsBijection(1..N, D)
    BY <2>2 DEF ExistsBijection
  <2>4. IsFiniteSet(1..N) /\ Cardinality(1..N) = N
    BY <1>1, FS_Interval
  <2>5. QED  BY <2>3, <2>4, FS_Bijection
<1>6. /\ Len(q) = N
      /\ \A p \in 1..N : Cardinality({m \in D : m <= q[p]}) = p
      /\ \A p \in 1..N : q[p] \in D
      /\ \A d \in D : \E p \in 1..N : q[p] = d
      /\ \A i, j \in 1..N : i < j => q[i] < q[j]
  <2>1. Len(q) = N
    BY <1>3, <1>4, <1>5, OrderedRank
  <2>2. \A p \in 1..N : Cardinality({m \in D : m <= q[p]}) = p
    BY <1>3, <1>4, <2>1, OrderedRank
  <2>3. QED  BY <1>4, <2>1, <2>2 DEF IsOrdered
<1>7. ASSUME NEW a \in S, NEW p \in 1..N, q[p] = a + 1
      PROVE  Cardinality(Greater(a)) = N - p
  <2> DEFINE Low == {m \in D : m <= q[p]}
             High == {m \in D : m > a + 1}
  <2>1. D = Low \cup High /\ Low \cap High = {} /\ Low \in SUBSET D /\ High \in SUBSET D
    <3>1. \A m \in D : m > a + 1 <=> ~(m <= q[p])
      BY <1>3, <1>7
    <3>2. QED  BY <3>1
  <2>2. IsFiniteSet(Low) /\ IsFiniteSet(High)
    BY <1>5, <2>1, FS_Subset
  <2>3. Cardinality(Low) = p
    BY <1>6
  <2> HIDE DEF Low, High, Greater
  <2>4. N = p + Cardinality(High) /\ Cardinality(High) \in Nat
    <3>1. Cardinality(Low \cup High) = Cardinality(Low) + Cardinality(High) - Cardinality(Low \cap High)
      BY <2>2, FS_Union
    <3>2. Cardinality(High) \in Nat /\ Cardinality(Low \cap High) = 0
      BY <2>1, <2>2, FS_CardinalityType, FS_EmptySet
    <3>3. QED  BY <1>1, <1>5, <2>1, <2>3, <3>1, <3>2
  <2>5. ExistsBijection(High, Greater(a))
    <3> DEFINE g == [m \in High |-> m - 1]
    <3>1. \A m \in High : m \in Int /\ m - 1 \in Greater(a)
      BY <1>3, <1>7 DEF High, Greater
    <3>2. \A b \in Greater(a) : b + 1 \in High /\ (b + 1) - 1 = b
      BY <1>3, <1>7 DEF High, Greater
    <3>3. \A m1, m2 \in High : m1 - 1 = m2 - 1 => m1 = m2
      <4> SUFFICES ASSUME NEW m1 \in High, NEW m2 \in High, m1 - 1 = m2 - 1 PROVE m1 = m2
        OBVIOUS
      <4>1. m1 \in Int /\ m2 \in Int
        BY <3>1
      <4>2. QED  BY <4>1
    <3>4. \A b \in Greater(a) : \E m \in High : g[m] = b
      BY <3>2
    <3>5. g \in Bijection(High, Greater(a))
      BY <3>1, <3>3, <3>4 DEF Bijection, Injection, Surjection, IsInjective
    <3>6. QED  BY <3>5 DEF ExistsBijection
  <2>6. Cardinality(Greater(a)) = Cardinality(High)
    BY <2>2, <2>5, FS_Bijection
  <2>7. QED  BY <1>1, <2>4, <2>6
<1>8. \A n \in 1..N : sorted[n] = CHOOSE a \in S : Cardinality(Greater(a)) = n - 1
  BY <1>1 DEF DescendingSort, S
<1> HIDE DEF Greater, sorted
<1>9. ASSUME NEW n \in 1..N
      PROVE  c[n] = q[(N + 1) - n] /\ sorted[n] \in Int
  <2> DEFINE p == (N + 1) - n
             a == sorted[n]
  <2>1. p \in 1..N /\ N - p = n - 1
    BY <1>1
  <2> HIDE DEF p
  <2>2. q[p] - 1 \in S /\ q[p] = (q[p] - 1) + 1
    <3>1. q[p] \in D
      BY <1>6, <2>1
    <3>2. q[p] \in Int /\ q[p] - 1 \in S
      BY <1>3, <3>1
    <3>3. QED  BY <3>2
  <2>3. Cardinality(Greater(q[p] - 1)) = n - 1
    BY <1>7, <2>1, <2>2
  <2>4. a \in S /\ Cardinality(Greater(a)) = n - 1
    BY <1>8, <2>2, <2>3
  <2> HIDE DEF a
  <2>5. PICK r \in 1..N : q[r] = a + 1
    BY <1>3, <1>6, <2>4
  <2>6. N - r = n - 1
    BY <1>7, <2>4, <2>5
  <2>7. r = p
    BY <1>1, <2>1, <2>6
  <2>8. a \in Int
    BY <1>3, <2>4
  <2>9. QED  BY <2>5, <2>7, <2>8 DEF a, p
<1> HIDE DEF c
<1>10. ASSUME NEW m \in 1..N, NEW n \in 1..N, m < n PROVE c[m] > c[n]
  <2>1. (N + 1) - m \in 1..N /\ (N + 1) - n \in 1..N /\ (N + 1) - n < (N + 1) - m
    BY <1>1, <1>10
  <2>2. q[(N + 1) - n] < q[(N + 1) - m]
    BY <1>6, <2>1
  <2>3. QED  BY <1>3, <1>6, <1>9, <2>1, <2>2
<1>11. ASSUME NEW d \in D PROVE \E n \in 1..N : c[n] = d
  <2>1. PICK p \in 1..N : q[p] = d
    BY <1>6
  <2>2. (N + 1) - p \in 1..N /\ (N + 1) - ((N + 1) - p) = p
    BY <1>1
  <2>3. c[(N + 1) - p] = d
    BY <1>9, <2>1, <2>2
  <2>4. QED  BY <2>2, <2>3
<1>12. ASSUME NEW n \in 1..N PROVE c[n] \in D
  <2>1. (N + 1) - n \in 1..N
    BY <1>1
  <2>2. QED  BY <1>6, <1>9, <2>1
<1>13. Descends(c, D, N)
  BY <1>1, <1>10, <1>11, <1>12 DEF Descends
<1>14. QED  BY <1>3, <1>9, <1>13 DEF c, D, N, sorted

Done(c, n) == {c[m] : m \in 1..n}

ComesNext(c, n, rank) ==
  \A keep, q : IsOrdered(q, Kept(rank, Done(c, n - 1), keep)) => IsNext(q, c[n], rank, Done(c, n - 1), keep)

(* From the largest down, the next dimension comes where it was. *)
LEMMA DescentIs ==
  ASSUME NEW rank \in Nat, NEW D, D \subseteq 1..rank, NEW c, NEW N, Descends(c, D, N), NEW n \in 1..N
  PROVE  /\ Done(c, n) = Done(c, n - 1) \cup {c[n]}
         /\ Done(c, N) = D
         /\ Done(c, 0) = {}
         /\ ComesNext(c, n, rank)
<1>1. /\ N \in Nat \ {0}
      /\ \A i, j \in 1..N : i < j => c[i] > c[j]
      /\ \A d \in D : \E j \in 1..N : c[j] = d
      /\ \A j \in 1..N : c[j] \in D
  BY DEF Descends
<1>2. 1..n = 1..(n - 1) \cup {n} /\ 1..0 = {}
  BY <1>1
<1>3. Done(c, n) = Done(c, n - 1) \cup {c[n]} /\ Done(c, 0) = {}
  BY <1>2 DEF Done
<1>4. Done(c, N) = D
  BY <1>1 DEF Done
<1>5. \A e \in Done(c, n - 1) : e > c[n]
  <2> SUFFICES ASSUME NEW m \in 1..(n - 1) PROVE c[m] > c[n]
    BY DEF Done
  <2>1. m \in 1..N /\ m < n
    BY <1>1
  <2>2. QED  BY <1>1, <2>1
<1>6. c[n] \in 1..rank
  BY <1>1
<1>7. ASSUME NEW keep, NEW q, IsOrdered(q, Kept(rank, Done(c, n - 1), keep))
      PROVE  IsNext(q, c[n], rank, Done(c, n - 1), keep)
  <2> DEFINE d == c[n]
             E == Done(c, n - 1)
             K == Kept(rank, E, keep)
  <2>1. d \in 1..rank /\ \A e \in E : e > d
    BY <1>5, <1>6
  <2> HIDE DEF d, E
  <2>2. \A m \in 1..d : m \in 1..rank /\ ~(m > d)
    BY <2>1
  <2>3. 1..d \subseteq K /\ K \subseteq 1..rank /\ d \in Nat /\ d \in 1..d /\ d \notin E
    BY <2>1, <2>2 DEF Kept
  <2>4. IsOrdered(q, K)
    BY <1>7 DEF E
  <2> HIDE DEF K
  <2>5. d <= Len(q) /\ \A p \in 1..d : q[p] = p
    BY <2>3, <2>4, OrderedLow
  <2>6. d \in 1..Len(q)
    <3>1. Len(q) \in Nat
      BY <2>4 DEF IsOrdered
    <3>2. QED  BY <2>1, <2>5, <3>1
  <2>7. QED  BY <2>3, <2>4, <2>5, <2>6 DEF IsNext, K, d, E
<1>8. QED  BY <1>3, <1>4, <1>7 DEF ComesNext

(* However many dimensions are reduced, the result holds the sums over all. *)
LEMMA ReductionSums ==
  ASSUME NEW v, IsView(v), NEW axes, IsAxes(axes, Rank(v)), NEW e, AreIntegers(e, AllIndices(v.shape)),
         NEW keep, NEW x, x.view = v, \A i \in AllIndices(v.shape) : x.data[Address(v, i)] = e[i],
         Reduced(v, axes) = AxisSet(axes)
  PROVE  \E q : IsReduced(v, e, Reduced(v, axes), keep, q,
                          [view |-> ViewReduce(v, axes, keep),
                           data |-> ReductionInTurn(x, axes, keep, ViewReduce(v, axes, keep)).data])
<1> DEFINE N == Len(axes)
           D == AxisSet(axes)
           rank == Rank(v)
           sorted == DescendingSort(axes)
           c == [n \in 1..N |-> sorted[n] + 1]
           r == ViewReduce(v, axes, keep)
<1>1. rank \in Nat /\ N \in Nat \ {0}
  BY DimensionFacts DEF IsAxes
<1>2. PICK buffer : IsReductionLoop(buffer, x, axes, keep, r)
  BY <1>1, ReductionLoop
<1>3. D \subseteq 1..rank /\ Descends(c, D, N)
  BY <1>1, SortedAre
<1>4. \A n \in 1..N : sorted[n] = c[n] - 1
  <2> SUFFICES ASSUME NEW n \in 1..N PROVE sorted[n] = c[n] - 1
    OBVIOUS
  <2>1. sorted[n] \in Int
    BY <1>1, SortedAre
  <2>2. QED  BY <2>1
<1> HIDE DEF N, D, c, rank, sorted
<1>d. ASSUME NEW n \in 1..N
      PROVE  /\ Done(c, n) = Done(c, n - 1) \cup {c[n]}
             /\ Done(c, N) = D
             /\ Done(c, 0) = {}
             /\ ComesNext(c, n, rank)
  BY <1>1, <1>3, DescentIs
<1>5. /\ buffer[0] = x
      /\ \A n \in 1..N : buffer[n] = ReductionDimension(buffer[n - 1], c[n] - 1, keep,
                                       IF n = N THEN r ELSE ViewReduce(buffer[n - 1].view, <<c[n] - 1>>, keep))
      /\ ReductionInTurn(x, axes, keep, r) = buffer[N]
  BY <1>2, <1>4 DEF IsReductionLoop, N, sorted
<1> DEFINE I == {n \in 0..(N - 1) : \E q : IsReduced(v, e, Done(c, n), keep, q, buffer[n])}
<1>6. 0 \in I
  <2>1. 1 \in 1..N
    BY <1>1
  <2>2. Done(c, 0) = {}
    BY <1>d, <2>1
  <2>3. IsReduced(v, e, {}, keep, [p \in 1..Rank(v) |-> p], x)
    BY ReductionFirst
  <2>4. 0 \in 0..(N - 1)
    BY <1>1
  <2>5. QED  BY <1>5, <2>2, <2>3, <2>4
<1>7. ASSUME NEW n \in 1..N, NEW q, IsReduced(v, e, Done(c, n - 1), keep, q, buffer[n - 1])
      PROVE  IsNext(q, c[n], Rank(v), Done(c, n - 1), keep) /\ Done(c, n) = Done(c, n - 1) \cup {c[n]}
  <2>1. IsOrdered(q, Kept(rank, Done(c, n - 1), keep))
    BY <1>7 DEF IsReduced, IsReduction, rank
  <2>2. IsNext(q, c[n], rank, Done(c, n - 1), keep) /\ Done(c, n) = Done(c, n - 1) \cup {c[n]}
    BY <1>d, <2>1 DEF ComesNext
  <2>3. QED  BY <2>2 DEF rank
<1>8. ASSUME NEW n \in 1..(N - 1), n - 1 \in I
      PROVE  n \in I
  <2>1. PICK q : IsReduced(v, e, Done(c, n - 1), keep, q, buffer[n - 1])
    BY <1>8
  <2>2. n \in 1..N /\ n # N /\ n \in 0..(N - 1)
    BY <1>1
  <2>3. IsNext(q, c[n], Rank(v), Done(c, n - 1), keep) /\ Done(c, n) = Done(c, n - 1) \cup {c[n]}
    BY <1>7, <2>1, <2>2
  <2>4. buffer[n] = ReductionDimension(buffer[n - 1], c[n] - 1, keep,
                                       ViewReduce(buffer[n - 1].view, <<c[n] - 1>>, keep))
    BY <1>5, <2>2
  <2> HIDE DEF I
  <2>5. IsReduced(v, e, Done(c, n - 1) \cup {c[n]}, keep, Without(q, c[n], keep),
                  ReductionDimension(buffer[n - 1], c[n] - 1, keep, ViewReduce(buffer[n - 1].view, <<c[n] - 1>>, keep)))
    BY <2>1, <2>3, ReductionNext
  <2>6. IsReduced(v, e, Done(c, n), keep, Without(q, c[n], keep), buffer[n])
    BY <2>3, <2>4, <2>5
  <2>7. QED  BY <2>2, <2>6 DEF I
<1> HIDE DEF I
<1>9. CountsUp(I, N - 1)
  BY <1>6, <1>8 DEF CountsUp
<1>10. N - 1 \in I
  <2>1. N - 1 \in Nat /\ N - 1 \in 0..(N - 1)
    BY <1>1
  <2>2. \A n \in 0..(N - 1) : n \in I
    BY <1>9, <2>1, LoopInduction
  <2>3. QED  BY <2>1, <2>2
<1>11. PICK q : IsReduced(v, e, Done(c, N - 1), keep, q, buffer[N - 1])
  BY <1>10 DEF I
<1>12. N \in 1..N
  BY <1>1
<1>13. IsNext(q, c[N], Rank(v), Done(c, N - 1), keep) /\ Done(c, N) = Done(c, N - 1) \cup {c[N]}
  BY <1>7, <1>11, <1>12
<1>14. Done(c, N) = Reduced(v, axes)
  BY <1>d, <1>12 DEF D
<1>15. buffer[N] = ReductionDimension(buffer[N - 1], c[N] - 1, keep, r)
  BY <1>5, <1>12
<1>16. IsReduced(v, e, Done(c, N - 1) \cup {c[N]}, keep, Without(q, c[N], keep),
                 ReductionDimension(buffer[N - 1], c[N] - 1, keep, ViewReduce(v, axes, keep)))
  BY <1>11, <1>13, <1>14, ReductionLast
<1>17. IsReduced(v, e, Reduced(v, axes), keep, Without(q, c[N], keep), buffer[N])
  BY <1>13, <1>14, <1>15, <1>16
<1>18. buffer[N] = [view |-> r, data |-> buffer[N].data]
  BY <1>15 DEF ReductionDimension
<1>19. QED  BY <1>5, <1>17, <1>18

-----------------------------------------------------------------------------
(* What a summation means *)

(* No axes stand for all of them. *)
Dimensions(given, shape) == IF given = <<>> THEN DOMAIN shape ELSE {a + 1 : a \in Range(given)}

LEMMA SummationDimensions ==
  ASSUME NEW v, IsView(v), NEW given \in AxesOf[Rank(v)], NEW keep,
         ViewReduce(v, ReduceAxes(given, Rank(v)), keep).shape # v.shape
  PROVE  /\ IsAxes(ReduceAxes(given, Rank(v)), Rank(v))
         /\ AxisSet(ReduceAxes(given, Rank(v))) = Dimensions(given, v.shape)
         /\ Reduced(v, ReduceAxes(given, Rank(v))) = AxisSet(ReduceAxes(given, Rank(v)))
<1> DEFINE R == Rank(v)
           axes == ReduceAxes(given, R)
           N == Len(axes)
<1>1. N \in Nat \ {0}
  BY SummationAxes
<1>2. R \in 0..MAX_RANK /\ R \in Nat /\ DOMAIN v.shape = 1..R
  <2>1. R \in Nat /\ DOMAIN v.shape = 1..R
    BY DimensionFacts
  <2>2. R <= MAX_RANK
    BY DEF IsView, Rank
  <2> HIDE DEF R
  <2>3. QED  BY <2>1, <2>2 DEF MAX_RANK
<1> HIDE DEF R
<1>3. PICK k \in 0..R : given \in Injection(1..k, 0..(R - 1))
  BY <1>2 DEF AxesOf, R
<1>4. given \in [1..k -> 0..(R - 1)] /\ k \in Nat /\ \A m, n \in 1..k : given[m] = given[n] => m = n
  BY <1>2, <1>3 DEF Injection, IsInjective
<1>5. CASE given = <<>>
  <2>1. axes = [n \in 1..R |-> n - 1]
    BY <1>5 DEF ReduceAxes
  <2> HIDE DEF axes
  <2>2. N = R
    BY <1>2, <2>1
  <2> HIDE DEF N
  <2>3. \A n \in 1..N : axes[n] = n - 1 /\ axes[n] \in 0..(R - 1)
    BY <1>2, <2>1, <2>2
  <2>4. \A m, n \in 1..N : axes[m] = axes[n] => m = n
    <3> SUFFICES ASSUME NEW m \in 1..N, NEW n \in 1..N, axes[m] = axes[n] PROVE m = n
      OBVIOUS
    <3>1. m - 1 = n - 1
      BY <2>3
    <3>2. QED  BY <3>1
  <2>5. IsAxes(axes, R)
    BY <1>1, <2>1, <2>2, <2>3, <2>4 DEF IsAxes, N
  <2>6. AxisSet(axes) = 1..R
    <3>1. \A n \in 1..N : axes[n] + 1 = n
      BY <2>3
    <3>2. AxisSet(axes) = {axes[n] + 1 : n \in 1..N}
      BY DEF AxisSet, N
    <3>3. QED  BY <2>2, <3>1, <3>2
  <2>7. Reduced(v, axes) = AxisSet(axes)
    <3>1. \A n \in 1..N : Dimension(axes[n], R) = axes[n] + 1
      <4>1. \A b \in 0..(R - 1) : ~(b < 0)
        BY <1>2
      <4>2. QED  BY <2>3, <4>1 DEF Dimension, DimensionToIndex
    <3>2. DOMAIN axes = 1..N
      BY <2>1, <2>2
    <3>3. QED  BY <3>1, <3>2 DEF Reduced, AxisSet, R, N
  <2>8. QED  BY <1>2, <1>5, <2>5, <2>6, <2>7 DEF Dimensions, R, axes
<1>6. CASE given # <<>>
  <2>1. axes = [n \in 1..k |-> DimensionToIndex(given[n], R)]
    BY <1>4, <1>6 DEF ReduceAxes
  <2> HIDE DEF axes
  <2>2. N = k
    BY <1>4, <2>1
  <2> HIDE DEF N
  <2>3. \A n \in 1..N : axes[n] = given[n] /\ axes[n] \in 0..(R - 1)
    <3>1. \A b \in 0..(R - 1) : ~(b < 0)
      BY <1>2
    <3>2. QED  BY <1>4, <2>1, <2>2, <3>1 DEF DimensionToIndex
  <2>4. DOMAIN axes = 1..N
    BY <2>1, <2>2
  <2>5. IsAxes(axes, R)
    BY <1>1, <1>4, <2>2, <2>3, <2>4 DEF IsAxes, N
  <2>6. AxisSet(axes) = {a + 1 : a \in Range(given)}
    <3>1. Range(given) = {given[n] : n \in 1..N}
      BY <1>4, <2>2 DEF Range
    <3>2. AxisSet(axes) = {axes[n] + 1 : n \in 1..N}
      BY DEF AxisSet, N
    <3>3. QED  BY <2>3, <3>1, <3>2
  <2>7. Reduced(v, axes) = AxisSet(axes)
    <3>1. \A n \in 1..N : Dimension(axes[n], R) = axes[n] + 1
      <4>1. \A b \in 0..(R - 1) : ~(b < 0)
        BY <1>2
      <4>2. QED  BY <2>3, <4>1 DEF Dimension, DimensionToIndex
    <3>2. QED  BY <2>4, <3>1 DEF Reduced, AxisSet, R, N
  <2>8. QED  BY <1>6, <2>5, <2>6, <2>7 DEF Dimensions, R, axes
<1>7. QED  BY <1>5, <1>6

(* The shape of the result. *)
LEMMA ReducedShapeIs ==
  ASSUME NEW v, IsView(v), NEW D, NEW keep, NEW q, NEW r, IsView(r), IsReduction(v, D, keep, q, r)
  PROVE  A!ReducedShape(v.shape, D, keep) = r.shape
<1> DEFINE R == Rank(v)
           S == Kept(R, D, keep)
           L == Len(q)
           Old(k) == CHOOSE n \in S : A!Cardinality({m \in S : m <= n}) = k
<1>1. R \in Nat /\ DOMAIN v.shape = 1..R
  BY DimensionFacts
<1>2. {n \in DOMAIN v.shape : keep \/ n \notin D} = S
  BY <1>1 DEF Kept
<1>3. S \subseteq 1..R /\ IsOrdered(q, S)
  BY DEF IsReduction, Kept
<1> HIDE DEF R, S
<1>4. /\ \A p \in 1..L : Cardinality({m \in S : m <= q[p]}) = p
      /\ Cardinality(S) = L
  BY <1>1, <1>3, OrderedRank
<1>5. /\ \A p \in 1..L : q[p] \in S
      /\ \A m \in S : \E p \in 1..L : q[p] = m
  BY <1>3 DEF IsOrdered
<1>6. ASSUME NEW k \in 1..L
      PROVE  Old(k) = q[k]
  <2>1. \A n \in S : A!Cardinality({m \in S : m <= n}) = Cardinality({m \in S : m <= n})
    BY CardinalitiesAgree
  <2>2. \A n \in S : A!Cardinality({m \in S : m <= n}) = k <=> n = q[k]
    BY <1>4, <1>5, <2>1
  <2>3. QED  BY <1>5, <2>2
<1> HIDE DEF Old
<1>7. /\ DOMAIN r.shape = 1..L /\ r.shape = [k \in DOMAIN r.shape |-> r.shape[k]]
      /\ \A k \in 1..L : r.shape[k] = IF q[k] \in D THEN 1 ELSE v.shape[q[k]]
  <2>1. Rank(r) = L /\ \A k \in 1..L : r.shape[k] = IF q[k] \in D THEN 1 ELSE v.shape[q[k]]
    BY DEF IsReduction
  <2>2. r.shape \in Seq(Sizes)
    BY ViewShape
  <2>3. QED  BY <2>1, <2>2, DimensionFacts
<1>8. A!Cardinality(S) = L
  BY <1>4, CardinalitiesAgree
<1>9. A!ReducedShape(v.shape, D, keep)
        = [k \in 1..A!Cardinality(S) |-> IF Old(k) \in D THEN 1 ELSE v.shape[Old(k)]]
  <2>1. \A T : T = {n \in DOMAIN v.shape : keep \/ n \notin D} =>
                 A!ReducedShape(v.shape, D, keep)
                   = [k \in 1..A!Cardinality(T) |->
                        IF (CHOOSE n \in T : A!Cardinality({m \in T : m <= n}) = k) \in D THEN 1
                        ELSE v.shape[CHOOSE n \in T : A!Cardinality({m \in T : m <= n}) = k]]
    BY DEF A!ReducedShape
  <2>2. QED  BY <1>2, <2>1 DEF Old
<1>10. QED  BY <1>6, <1>7, <1>8, <1>9

(* q has the dimensions that are left when those of D are reduced. *)
AreLeft(q, rank, D, keep) ==
  /\ rank \in Nat
  /\ D \subseteq 1..rank
  /\ keep \in BOOLEAN
  /\ IsOrdered(q, Kept(rank, D, keep))

LEMMA NewDimensionIs ==
  ASSUME NEW rank, NEW D, NEW keep, NEW q, AreLeft(q, rank, D, keep), NEW p \in 1..Len(q)
  PROVE  A!NewDimension(q[p], D, keep) = p
<1> DEFINE S == Kept(rank, D, keep)
           L == Len(q)
<1>1. /\ rank \in Nat /\ D \subseteq 1..rank /\ keep \in BOOLEAN
      /\ S \subseteq 1..rank /\ IsOrdered(q, S) /\ p \in 1..L
      /\ (keep => S = 1..rank) /\ (~keep => S = (1..rank) \ D)
  BY DEF AreLeft, Kept
<1> HIDE DEF S, L
<1>2. /\ Cardinality({m \in S : m <= q[p]}) = p
      /\ Cardinality(S) = L
  BY <1>1, OrderedRank DEF L
<1>3. q[p] \in S /\ q[p] \in 1..rank /\ L \in Nat
  <2>1. q \in Seq(S)
    BY <1>1 DEF IsOrdered
  <2>2. q[p] \in S /\ L \in Nat
    BY <1>1, <2>1 DEF L
  <2>3. QED  BY <1>1, <2>2
<1>4. CASE keep
  <2>1. {m \in S : m <= q[p]} = 1..q[p]
    BY <1>1, <1>3, <1>4
  <2>2. Cardinality(1..q[p]) = q[p]
    BY <1>3, FS_Interval
  <2>3. q[p] = p
    BY <1>2, <2>1, <2>2
  <2>4. A!NewDimension(q[p], D, keep) = q[p]
    BY <1>4 DEF A!NewDimension
  <2>5. QED  BY <2>3, <2>4
<1>5. CASE ~keep
  <2> DEFINE Low == {m \in S : m <= q[p]}
             Out == {d \in D : d < q[p]}
  <2>1. Low \cup Out = 1..q[p] /\ Low \cap Out = {} /\ Low \in SUBSET (1..q[p]) /\ Out \in SUBSET (1..q[p])
    <3>1. S = (1..rank) \ D /\ q[p] \notin D
      BY <1>1, <1>3, <1>5
    <3>2. \A m \in 1..q[p] : m \in 1..rank /\ m <= q[p] /\ (m \in D => m < q[p])
      BY <1>1, <1>3, <3>1
    <3>3. \A m \in S : m <= q[p] => m \in 1..q[p]
      BY <1>1, <1>3
    <3>4. \A m \in D : m < q[p] => m \in 1..q[p]
      BY <1>1, <1>3
    <3>5. QED  BY <3>1, <3>2, <3>3, <3>4
  <2>2. IsFiniteSet(1..q[p]) /\ Cardinality(1..q[p]) = q[p]
    <3>1. 1 \in Int /\ q[p] \in Int /\ q[p] \in Nat \ {0}
      BY <1>3
    <3>2. IsFiniteSet(1..q[p]) /\ Cardinality(1..q[p]) = IF 1 > q[p] THEN 0 ELSE q[p] - 1 + 1
      BY <3>1, FS_Interval
    <3>3. (IF 1 > q[p] THEN 0 ELSE q[p] - 1 + 1) = q[p]
      BY <3>1
    <3>4. QED  BY <3>2, <3>3
  <2>3. A!Cardinality(Out) = Cardinality(Out)
    BY CardinalitiesAgree
  <2>4. A!NewDimension(q[p], D, keep) = q[p] - A!Cardinality(Out)
    BY <1>5 DEF A!NewDimension
  <2>5. Cardinality(Low) = p
    BY <1>2
  <2> HIDE DEF Low, Out
  <2>6. IsFiniteSet(Low) /\ IsFiniteSet(Out)
    BY <2>1, <2>2, FS_Subset
  <2>7. Cardinality(Low \cup Out) = Cardinality(Low) + Cardinality(Out) - Cardinality(Low \cap Out)
    BY <2>6, FS_Union
  <2>8. Cardinality(Out) \in Nat /\ Cardinality(Low \cap Out) = 0
    BY <2>1, <2>6, FS_CardinalityType, FS_EmptySet
  <2>9. q[p] = p + Cardinality(Out)
    <3>1. Cardinality(1..q[p]) = p + Cardinality(Out) - 0
      BY <2>1, <2>5, <2>7, <2>8
    <3>2. p \in Nat
      BY <1>1, <1>3
    <3>3. p + Cardinality(Out) - 0 = p + Cardinality(Out)
      BY <2>8, <3>2
    <3>4. QED  BY <2>2, <3>1, <3>3
  <2>10. QED  BY <1>1, <1>3, <2>3, <2>4, <2>8, <2>9
<1>6. QED  BY <1>4, <1>5

IsReducible(a, rank, D, keep, q) ==
  /\ AreLeft(q, rank, D, keep)
  /\ DOMAIN a.shape = 1..rank
  /\ DOMAIN a.cell = AllIndices(a.shape)

LEMMA ReducedFromIs ==
  ASSUME NEW a, NEW rank, NEW D, NEW keep, NEW q, IsReducible(a, rank, D, keep, q), NEW k
  PROVE  A!ReducedFrom(a, D, keep, k) = From(a.shape, D, q, k)
<1>1. /\ AreLeft(q, rank, D, keep)
      /\ rank \in Nat
      /\ DOMAIN a.shape = 1..rank
      /\ DOMAIN a.cell = AllIndices(a.shape)
      /\ D \subseteq 1..rank
      /\ IsOrdered(q, Kept(rank, D, keep))
  BY DEF IsReducible, AreLeft
<1>2. \A p \in 1..Len(q) : A!NewDimension(q[p], D, keep) = p
  BY <1>1, NewDimensionIs
<1>3. /\ \A m \in (1..rank) \ D : \E p \in 1..Len(q) : q[p] = m
      /\ \A p \in 1..Len(q) : q[p] \in 1..rank
  <2>1. PICK S : S = Kept(rank, D, keep)
    OBVIOUS
  <2>2. S \subseteq 1..rank /\ (1..rank) \ D \subseteq S
    BY <1>1, <2>1 DEF Kept
  <2>3. q \in Seq(S) /\ \A m \in S : \E p \in 1..Len(q) : q[p] = m
    BY <1>1, <2>1 DEF IsOrdered
  <2>4. \A p \in 1..Len(q) : q[p] \in S
    BY <2>3
  <2>5. QED  BY <2>2, <2>3, <2>4
<1>4. ASSUME NEW i
      PROVE  (\A m \in (1..rank) \ D : i[m] = k[A!NewDimension(m, D, keep)])
                <=> \A p \in 1..Len(q) : q[p] \notin D => i[q[p]] = k[p]
  BY <1>2, <1>3
<1>5. A!ReducedFrom(a, D, keep, k)
        = {i \in AllIndices(a.shape) : \A m \in (1..rank) \ D : i[m] = k[A!NewDimension(m, D, keep)]}
  BY <1>1 DEF A!ReducedFrom
<1>6. QED  BY <1>4, <1>5 DEF From

LEMMA OneTerm ==
  ASSUME NEW f, NEW S, IsFiniteSet(S), AreIntegers(f, S), NEW m \in S
  PROVE  SumFunctionOnSet(f, S) = f[m] + SumFunctionOnSet(f, S \ {m})
<1>1. \A x \in S : f[x] \in Int
  BY DEF AreIntegers
<1>2. QED  BY <1>1, SumRemove

(* The elements along a dimension are the same cell if its stride is 0 or there *)
(* is only one.                                                                *)
LEMMA RepeatsIs ==
  ASSUME NEW v, IsView(v), NEW a, DOMAIN a.cell = AllIndices(v.shape), CellsArePlaces(a, v, a, v),
         NEW m \in 1..Rank(v)
  PROVE  A!Repeats(a, m) <=> v.strides[m] = 0 \/ v.shape[m] = 1
<1> DEFINE R == Rank(v)
           Start(i) == [i EXCEPT ![m] = 0]
<1>1. /\ R \in Nat /\ R = Len(v.shape) /\ DOMAIN v.shape = 1..R
      /\ \A n \in 1..R : v.shape[n] \in Nat \ {0} /\ v.strides[n] \in Nat
      /\ m \in 1..R
  BY DimensionFacts DEF Rank
<1>2. AllIndices(v.shape) = {i \in [1..R -> Nat] : \A n \in 1..R : i[n] < v.shape[n]}
  BY <1>1 DEF AllIndices
<1> HIDE DEF R
<1>3. ASSUME NEW i \in AllIndices(v.shape)
      PROVE  /\ Start(i) \in AllIndices(v.shape)
             /\ Start(i)[m] = 0
             /\ \A n \in 1..R : n # m => Start(i)[n] = i[n]
  <2>1. i \in [1..R -> Nat] /\ \A n \in 1..R : i[n] < v.shape[n]
    BY <1>2
  <2>2. Start(i) \in [1..R -> Nat] /\ Start(i)[m] = 0 /\ \A n \in 1..R : n # m => Start(i)[n] = i[n]
    BY <1>1, <2>1
  <2>3. \A n \in 1..R : Start(i)[n] < v.shape[n]
    BY <1>1, <2>1, <2>2
  <2> HIDE DEF Start
  <2>4. QED  BY <1>2, <2>2, <2>3
<1>4. A!Repeats(a, m) <=> \A i \in AllIndices(v.shape) : a.cell[i] = a.cell[Start(i)]
  BY DEF A!Repeats
<1> HIDE DEF Start
<1>5. A!Repeats(a, m) <=> \A i \in AllIndices(v.shape) : Address(v, i) = Address(v, Start(i))
  BY <1>3, <1>4 DEF CellsArePlaces
<1>6. CASE v.strides[m] = 0
  <2>1. ASSUME NEW i \in AllIndices(v.shape) PROVE Address(v, i) = Address(v, Start(i))
    <3>1. AgreeOn(StoredIn(v), i, Start(i))
      BY <1>1, <1>3, <1>6 DEF AgreeOn, StoredIn
    <3>2. QED  BY <1>3, <3>1, SameAddress
  <2>2. QED  BY <1>5, <1>6, <2>1
<1>7. CASE v.shape[m] = 1
  <2>1. ASSUME NEW i \in AllIndices(v.shape) PROVE Address(v, i) = Address(v, Start(i))
    <3>1. i[m] = 0
      <4>1. i[m] \in Nat /\ i[m] < 1
        BY <1>1, <1>2, <1>7
      <4>2. QED  BY <4>1
    <3>2. AgreeOn(StoredIn(v), i, Start(i))
      BY <1>1, <1>3, <3>1 DEF AgreeOn, StoredIn
    <3>3. QED  BY <1>3, <3>2, SameAddress
  <2>2. QED  BY <1>5, <1>7, <2>1
<1>8. CASE v.strides[m] # 0 /\ v.shape[m] # 1
  <2> DEFINE i == [n \in 1..R |-> IF n = m THEN 1 ELSE 0]
             j == Start(i)
             f == Moves(v, i)
             g == Moves(v, j)
             N == 1..R
  <2>1. i \in AllIndices(v.shape) /\ \A n \in 1..R : i[n] = IF n = m THEN 1 ELSE 0
    <3>1. \A n \in 1..R : i[n] < v.shape[n]
      <4>1. \A n \in 1..R : 0 < v.shape[n]
        BY <1>1
      <4>2. 1 < v.shape[m]
        BY <1>1, <1>8
      <4>3. QED  BY <4>1, <4>2
    <3>2. i \in [1..R -> Nat]
      OBVIOUS
    <3> HIDE DEF i
    <3>3. i \in AllIndices(v.shape)
      BY <1>2, <3>1, <3>2
    <3>4. QED  BY <3>3 DEF i
  <2> HIDE DEF i
  <2>2. j \in AllIndices(v.shape) /\ j[m] = 0 /\ \A n \in 1..R : n # m => j[n] = i[n]
    BY <1>3, <2>1
  <2> HIDE DEF j
  <2>3. /\ Address(v, i) = v.offset + SumFunctionOnSet(f, N)
        /\ Address(v, j) = v.offset + SumFunctionOnSet(g, N)
        /\ \A n \in N : f[n] \in Nat /\ g[n] \in Nat
        /\ v.offset \in Nat
    BY <2>1, <2>2, MovesFacts DEF R, IsView
  <2>4. \A n \in N : f[n] = i[n] * v.strides[n] /\ g[n] = j[n] * v.strides[n]
    BY DEF Moves, R
  <2>5. f[m] = v.strides[m] /\ g[m] = 0 /\ \A n \in N : n # m => g[n] = f[n]
    <3>1. \A k \in Nat : 1 * k = k /\ 0 * k = 0
      OBVIOUS
    <3>2. QED  BY <1>1, <2>1, <2>2, <2>4, <3>1
  <2>6. IsFiniteSet(N)
    BY DimensionFacts DEF R
  <2> HIDE DEF f, g, N
  <2>7. m \in N
    BY <1>1 DEF N
  <2>a. AreIntegers(f, N) /\ AreIntegers(g, N)
    BY <2>3 DEF AreIntegers
  <2>b. SumFunctionOnSet(f, N) = f[m] + SumFunctionOnSet(f, N \ {m})
    BY <2>a, <2>6, <2>7, OneTerm
  <2>c. SumFunctionOnSet(g, N) = g[m] + SumFunctionOnSet(g, N \ {m})
    BY <2>a, <2>6, <2>7, OneTerm
  <2> DEFINE M == N \ {m}
  <2>8. IsFiniteSet(M) /\ \A n \in M : n \in N /\ n # m
    BY <2>6, FS_Subset
  <2>9. SumFunctionOnSet(f, N) = f[m] + SumFunctionOnSet(f, M) /\ SumFunctionOnSet(g, N) = g[m] + SumFunctionOnSet(g, M)
    BY <2>b, <2>c
  <2> HIDE DEF M
  <2>10. SumFunctionOnSet(f, M) = SumFunctionOnSet(g, M) /\ SumFunctionOnSet(f, M) \in Nat
    <3>1. \A n \in M : f[n] \in Int /\ f[n] \in Nat /\ g[n] = f[n]
      BY <2>3, <2>5, <2>8
    <3>2. SumFunctionOnSet(f, M) \in Nat
      BY <2>8, <3>1, SumNat
    <3>3. SumFunctionOnSet(f, M) = SumFunctionOnSet(g, M)
      BY <2>8, <3>1, SumEqual
    <3>4. QED  BY <3>2, <3>3
  <2>11. Address(v, i) # Address(v, j)
    <3>1. v.strides[m] \in Nat
      BY <1>1
    <3>2. QED  BY <1>8, <2>3, <2>5, <2>9, <2>10, <3>1
  <2>12. QED  BY <1>5, <1>8, <2>1, <2>11 DEF j
<1>9. QED  BY <1>6, <1>7, <1>8

(* The array of a summation: its cells are where the sums are stored. *)
IsSummation(v, a, D, keep, q, r) ==
  /\ IsView(v)
  /\ IsView(r)
  /\ IsDense(r)
  /\ IsReduction(v, D, keep, q, r)
  /\ D \subseteq 1..Rank(v)
  /\ keep \in BOOLEAN
  /\ a.shape = v.shape
  /\ DOMAIN a.cell = AllIndices(v.shape)
  /\ CellsArePlaces(a, v, a, v)

LEMMA SummedCellIs ==
  ASSUME NEW v, NEW a, NEW D, NEW keep, NEW q, NEW r, IsSummation(v, a, D, keep, q, r),
         NEW k \in AllIndices(r.shape)
  PROVE  /\ A!SummedCell(a, D, keep, k) \in AllIndices(r.shape)
         /\ \A p \in 1..Len(q) :
              A!SummedCell(a, D, keep, k)[p]
                = IF q[p] \notin D /\ v.strides[q[p]] = 0 THEN 0 ELSE k[p]
<1> DEFINE R == Rank(v)
           L == Len(q)
           Once == {n \in DOMAIN a.shape \ D : A!Repeats(a, n)}
           repeated == {A!NewDimension(m, D, keep) : m \in Once}
           c == A!SummedCell(a, D, keep, k)
<1>1. /\ IsView(v) /\ IsView(r) /\ IsReduction(v, D, keep, q, r) /\ D \subseteq 1..R /\ keep \in BOOLEAN
      /\ DOMAIN a.cell = AllIndices(v.shape) /\ CellsArePlaces(a, v, a, v) /\ DOMAIN a.shape = DOMAIN v.shape
  BY DEF IsSummation
<1>2. /\ R \in Nat /\ DOMAIN a.shape = 1..R
      /\ Rank(r) = L /\ Len(r.shape) = L
      /\ IsOrdered(q, Kept(R, D, keep))
      /\ \A p \in 1..L : q[p] \in 1..R /\ r.shape[p] = IF q[p] \in D THEN 1 ELSE v.shape[q[p]]
  BY <1>1, DimensionFacts DEF IsReduction, Rank
<1>3. \A m \in (1..R) \ D : \E p \in 1..L : q[p] = m
  BY <1>2 DEF IsOrdered, Kept
<1>4. \A p \in 1..L : A!NewDimension(q[p], D, keep) = p
  <2>1. AreLeft(q, R, D, keep)
    BY <1>1, <1>2 DEF AreLeft
  <2> HIDE DEF R
  <2>2. QED  BY <2>1, NewDimensionIs
<1>5. \A m \in 1..R : A!Repeats(a, m) <=> v.strides[m] = 0 \/ v.shape[m] = 1
  BY <1>1, RepeatsIs
<1>6. k \in [1..L -> Nat] /\ \A p \in 1..L : k[p] < r.shape[p]
  BY <1>2 DEF AllIndices
<1>7. \A p \in 1..L : p \in repeated <=> q[p] \notin D /\ (v.strides[q[p]] = 0 \/ v.shape[q[p]] = 1)
  <2> SUFFICES ASSUME NEW p \in 1..L
               PROVE  p \in repeated <=> q[p] \notin D /\ A!Repeats(a, q[p])
    BY <1>2, <1>5
  <2>1. ASSUME NEW m \in Once, p = A!NewDimension(m, D, keep) PROVE m = q[p]
    <3>1. m \in (1..R) \ D
      BY <1>2
    <3>2. PICK o \in 1..L : q[o] = m
      BY <1>3, <3>1
    <3>3. p = o
      BY <1>4, <2>1, <3>2
    <3>4. QED  BY <3>2, <3>3
  <2>2. q[p] \in Once <=> q[p] \notin D /\ A!Repeats(a, q[p])
    BY <1>2
  <2> HIDE DEF Once
  <2>3. QED  BY <1>4, <2>1, <2>2
<1>8. c = [p \in 1..L |-> IF p \in repeated THEN 0 ELSE k[p]]
  <2>1. DOMAIN k = 1..L
    BY <1>6
  <2>2. QED  BY <2>1 DEF A!SummedCell
<1> HIDE DEF repeated, c, L, R
<1>9. \A p \in 1..L : c[p] = IF q[p] \notin D /\ v.strides[q[p]] = 0 THEN 0 ELSE k[p]
  <2> SUFFICES ASSUME NEW p \in 1..L PROVE c[p] = IF q[p] \notin D /\ v.strides[q[p]] = 0 THEN 0 ELSE k[p]
    OBVIOUS
  <2>1. c[p] = IF p \in repeated THEN 0 ELSE k[p]
    BY <1>8
  <2>2. CASE q[p] \notin D /\ v.strides[q[p]] # 0 /\ v.shape[q[p]] = 1
    <3>1. k[p] \in Nat /\ k[p] < 1
      BY <1>2, <1>6, <2>2
    <3>2. k[p] = 0
      BY <3>1
    <3>3. QED  BY <2>1, <2>2, <3>2
  <2>3. CASE ~(q[p] \notin D /\ v.strides[q[p]] # 0 /\ v.shape[q[p]] = 1)
    BY <1>7, <2>1, <2>3
  <2>4. QED  BY <2>2, <2>3
<1>10. c \in AllIndices(r.shape)
  <2>1. c \in [1..L -> Nat]
    BY <1>6, <1>8
  <2>2. \A p \in 1..L : c[p] < r.shape[p]
    <3> SUFFICES ASSUME NEW p \in 1..L PROVE c[p] < r.shape[p]
      OBVIOUS
    <3>1. c[p] = 0 \/ c[p] = k[p]
      BY <1>9
    <3>2. k[p] \in Nat /\ k[p] < r.shape[p] /\ r.shape[p] \in Nat \ {0}
      BY <1>1, <1>2, <1>6, DimensionFacts
    <3>3. QED  BY <3>1, <3>2
  <2>3. QED  BY <1>2, <2>1, <2>2 DEF AllIndices
<1>11. QED  BY <1>9, <1>10 DEF L, c

(* Sums are at the same address if and only if they sum the same cells. *)
LEMMA SummedPlaces ==
  ASSUME NEW v, NEW a, NEW D, NEW keep, NEW q, NEW r, IsSummation(v, a, D, keep, q, r),
         NEW k \in AllIndices(r.shape), NEW j \in AllIndices(r.shape)
  PROVE  /\ Address(r, A!SummedCell(a, D, keep, k)) = Address(r, k)
         /\ A!SummedCell(a, D, keep, k) = A!SummedCell(a, D, keep, j) <=> Address(r, k) = Address(r, j)
<1> DEFINE L == Len(q)
           c == A!SummedCell(a, D, keep, k)
           d == A!SummedCell(a, D, keep, j)
           Zero(p) == q[p] \notin D /\ v.strides[q[p]] = 0
<1>1. /\ IsView(r)
      /\ IsDense(r)
      /\ Rank(r) = L
      /\ \A p \in 1..L : /\ r.shape[p] = IF q[p] \in D THEN 1 ELSE v.shape[q[p]]
                         /\ r.strides[p] # 0 <=> q[p] \notin D /\ v.strides[q[p]] # 0
  BY DEF IsSummation, IsReduction
<1>2. /\ c \in AllIndices(r.shape)
      /\ \A p \in 1..L : c[p] = IF Zero(p) THEN 0 ELSE k[p]
  BY SummedCellIs
<1>3. /\ d \in AllIndices(r.shape)
      /\ \A p \in 1..L : d[p] = IF Zero(p) THEN 0 ELSE j[p]
  BY SummedCellIs
<1>4. DOMAIN r.shape = 1..L /\ Len(r.shape) = L
  BY <1>1, DimensionFacts DEF Rank
<1>5. \A i \in AllIndices(r.shape) : i \in [1..L -> Nat] /\ \A p \in 1..L : i[p] \in Nat /\ i[p] < r.shape[p]
  BY <1>4 DEF AllIndices
<1>6. \A p \in 1..L : p \in StoredIn(r) <=> q[p] \notin D /\ ~Zero(p)
  BY <1>1, <1>4 DEF StoredIn
<1>7. \A n \in StoredIn(r) : n \in 1..L
  BY <1>4 DEF StoredIn
<1>8. ASSUME NEW p \in 1..L, p \notin StoredIn(r) PROVE c[p] = 0 /\ d[p] = 0
  <2>1. CASE Zero(p)
    BY <1>2, <1>3, <2>1
  <2>2. CASE ~Zero(p)
    <3>1. q[p] \in D
      BY <1>6, <1>8, <2>2
    <3>2. r.shape[p] = 1
      BY <1>1, <3>1
    <3>3. c[p] \in Nat /\ c[p] < 1 /\ d[p] \in Nat /\ d[p] < 1
      BY <1>2, <1>3, <1>5, <3>2
    <3>4. QED  BY <3>3
  <2>3. QED  BY <2>1, <2>2
<1>9. ASSUME NEW p \in StoredIn(r) PROVE c[p] = k[p] /\ d[p] = j[p]
  <2>1. p \in 1..L /\ ~Zero(p)
    BY <1>6, <1>7
  <2>2. QED  BY <1>2, <1>3, <2>1
<1> HIDE DEF c, d, Zero, L
<1>10. Address(r, c) = Address(r, k)
  <2>1. AgreeOn(StoredIn(r), c, k)
    BY <1>9 DEF AgreeOn
  <2>2. QED  BY <1>1, <1>2, <2>1, SameAddress
<1>11. c = d <=> AgreeOn(StoredIn(r), k, j)
  <2>1. ASSUME AgreeOn(StoredIn(r), k, j) PROVE c = d
    <3>1. \A p \in 1..L : c[p] = d[p]
      BY <1>8, <1>9, <2>1 DEF AgreeOn
    <3>2. c = [p \in 1..L |-> c[p]] /\ d = [p \in 1..L |-> d[p]]
      BY <1>2, <1>3, <1>5
    <3>3. [p \in 1..L |-> c[p]] = [p \in 1..L |-> d[p]]
      BY <3>1
    <3>4. QED  BY <3>2, <3>3
  <2>2. ASSUME c = d PROVE AgreeOn(StoredIn(r), k, j)
    BY <1>9, <2>2 DEF AgreeOn
  <2>3. QED  BY <2>1, <2>2
<1>12. Address(r, k) = Address(r, j) <=> AgreeOn(StoredIn(r), k, j)
  BY <1>1, DenseAddress
<1>13. QED  BY <1>10, <1>11, <1>12 DEF c, d

(* The values of a summation. *)
HasValues(a, e) == \A i \in DOMAIN a.cell : e[i] = Value(a.cell[i]) /\ e[i] \in Int

LEMMA SummedAre ==
  ASSUME NEW v, NEW a, NEW D, NEW keep, NEW q, NEW r, IsSummation(v, a, D, keep, q, r),
         NEW e, HasValues(a, e), NEW k \in AllIndices(r.shape)
  PROVE  /\ A!SummedElements(a, D, keep, r.shape, Value)[k] = SumFunctionOnSet(e, From(v.shape, D, q, k))
         /\ SumFunctionOnSet(e, From(v.shape, D, q, k)) \in Int
<1> DEFINE S == From(v.shape, D, q, k)
           f == [i \in S |-> Value(a.cell[i])]
           shape == r.shape
<1>1. /\ IsView(v) /\ IsView(r) /\ a.shape = v.shape /\ DOMAIN a.cell = AllIndices(v.shape)
      /\ D \subseteq 1..Rank(v) /\ keep \in BOOLEAN /\ IsOrdered(q, Kept(Rank(v), D, keep))
      /\ \A i \in AllIndices(v.shape) : e[i] = Value(a.cell[i]) /\ e[i] \in Int
  BY DEF IsSummation, IsReduction, HasValues
<1>2. Rank(v) \in Nat /\ DOMAIN v.shape = 1..Rank(v) /\ v.shape \in Seq(Sizes) /\ shape \in Seq(Sizes)
  BY <1>1, DimensionFacts, ViewShape
<1> HIDE DEF shape
<1>3. A!ReducedFrom(a, D, keep, k) = S
  <2>1. PICK rank \in Nat : rank = Rank(v)
    BY <1>2
  <2>2. IsReducible(a, rank, D, keep, q)
    BY <1>1, <1>2, <2>1 DEF IsReducible, AreLeft
  <2>3. A!ReducedFrom(a, D, keep, k) = From(a.shape, D, q, k)
    BY <2>2, ReducedFromIs
  <2>4. QED  BY <1>1, <2>3
<1>4. k \in A!Indices(shape)
  BY <1>2, IndicesAre DEF shape
<1>5. A!SummedElements(a, D, keep, shape, Value)[k]
        = A!SumFunction([i \in A!ReducedFrom(a, D, keep, k) |-> Value(a.cell[i])])
  BY <1>4 DEF A!SummedElements
<1>6. A!SummedElements(a, D, keep, shape, Value)[k] = A!SumFunction(f)
  BY <1>3, <1>5
<1>7. S \subseteq AllIndices(v.shape) /\ IsFiniteSet(S)
  <2>1. S \subseteq AllIndices(v.shape)
    BY DEF From
  <2> HIDE DEF S
  <2>2. IsFiniteSet(AllIndices(v.shape))
    BY <1>2, IndicesFinite
  <2>3. QED  BY <2>1, <2>2, FS_Subset
<1> HIDE DEF S
<1>8. DOMAIN f = S /\ \A i \in S : f[i] = e[i] /\ f[i] \in Int /\ e[i] \in Int
  BY <1>1, <1>7
<1> HIDE DEF f
<1>9. A!SumFunction(f) = SumFunctionOnSet(f, S)
  BY <1>8, SumsAgree DEF SumFunction
<1>10. SumFunctionOnSet(f, S) = SumFunctionOnSet(e, S)
  BY <1>7, <1>8, SumEqual
<1>11. SumFunctionOnSet(e, S) \in Int
  BY <1>7, <1>8, SumType
<1>12. QED  BY <1>6, <1>9, <1>10, <1>11 DEF S, shape

LEMMA SummationAgrees ==
  ASSUME AgreeInv, NEW x \in DOMAIN buffers, NEW given \in AxesOf[Rank(ViewOf(x))], NEW keep \in BOOLEAN,
         ASummation(x, given, keep)
  PROVE  HistoryInv'
<1> DEFINE v == ViewOf(x)
           axes == ReduceAxes(given, Rank(v))
           r == ViewReduce(v, axes, keep)
           D == Dimensions(given, array[x].shape)
           operand == [view |-> v, data |-> DataOf(x)]
           data == ReductionInTurn(operand, axes, keep, r).data
           e == [i \in AllIndices(v.shape) |-> Element(x, i)]
           shape == A!ReducedShape(array[x].shape, D, keep)
           a == A!Array(shape, LAMBDA index : <<New, A!SummedCell(array[x], D, keep, index)>>)
           values == A!SummedElements(array[x], D, keep, shape, Value)
<1>1. /\ IsView(v) /\ ShapeOf(x) = v.shape /\ array[x].shape = v.shape
      /\ DOMAIN array[x].cell = AllIndices(v.shape)
      /\ DOMAIN v.shape = 1..Rank(v)
  BY BufferFacts
<1>2. CellsArePlaces(array[x], v, array[x], v)
  BY DEF AgreeInv, HistoryInv
<1>3. /\ r.shape # v.shape
      /\ Allocate(r, data)
  BY <1>1 DEF ASummation, Summation
<1>4. array' = AddNew(array, a) /\ value' = AddNew(value, values) /\ saved' = saved
  BY DEF ASummation, Dimensions
<1>5. AreIntegers(e, AllIndices(v.shape)) /\ \A i \in AllIndices(v.shape) : /\ e[i] = Value(array[x].cell[i])
                                                                             /\ e[i] \in Int
  BY <1>1, ValueIs DEF AreIntegers
<1>6. \A i \in AllIndices(v.shape) : operand.data[Address(v, i)] = e[i]
  BY DEF Element
<1> HIDE DEF e
<1>7. /\ IsAxes(axes, Rank(v))
      /\ AxisSet(axes) = D
      /\ Reduced(v, axes) = AxisSet(axes)
  BY <1>1, <1>3, SummationDimensions
<1>8. operand.view = v
  OBVIOUS
<1> HIDE DEF operand
<1>9. PICK q : IsReduced(v, e, Reduced(v, axes), keep, q, [view |-> r, data |-> data])
  BY <1>1, <1>5, <1>6, <1>7, <1>8, ReductionSums
<1>10. /\ IsView(r)
       /\ IsReduction(v, D, keep, q, r)
       /\ \A k \in AllIndices(r.shape) : data[Address(r, k)] = SumFunctionOnSet(e, From(v.shape, D, q, k))
  BY <1>7, <1>9 DEF IsReduced, SumsStored
<1>11. IsDense(r)
  BY <1>1, ViewReduceIs
<1>12. D \subseteq 1..Rank(v)
  <2>1. \A n \in 1..Len(axes) : axes[n] + 1 \in 1..Rank(v)
    <3> SUFFICES ASSUME NEW n \in 1..Len(axes) PROVE axes[n] + 1 \in 1..Rank(v)
      OBVIOUS
    <3>1. axes[n] \in 0..(Rank(v) - 1) /\ Rank(v) \in Nat
      BY <1>1, <1>7, DimensionFacts DEF IsAxes
    <3>2. QED  BY <3>1
  <2> HIDE DEF axes, v
  <2>2. QED  BY <1>7, <2>1 DEF AxisSet
<1>13. IsSummation(v, array[x], D, keep, q, r)
  BY <1>1, <1>2, <1>10, <1>11, <1>12 DEF IsSummation
<1>14. r.shape \in Seq(Sizes) /\ IsOrdered(q, Kept(Rank(v), D, keep))
  BY <1>10, ViewShape DEF IsReduction
<1>15. shape = r.shape
  BY <1>1, <1>10, ReducedShapeIs
<1> HIDE DEF v, r, D, data, axes
<1>16. A!Indices(shape) = AllIndices(r.shape)
  BY <1>14, <1>15, IndicesAre
<1>17. /\ a.shape = r.shape
       /\ a.cell = [k \in AllIndices(r.shape) |-> <<New, A!SummedCell(array[x], D, keep, k)>>]
  BY <1>15, <1>16 DEF A!Array
<1>18. DOMAIN values = AllIndices(r.shape)
  BY <1>16 DEF A!SummedElements
<1>19. ASSUME NEW k \in AllIndices(r.shape)
       PROVE  /\ values[k] = SumFunctionOnSet(e, From(v.shape, D, q, k))
              /\ values[k] \in Int
  <2>1. HasValues(array[x], e)
    BY <1>1, <1>5 DEF HasValues
  <2>2. A!SummedElements(array[x], D, keep, r.shape, Value) = values
    BY <1>15
  <2> HIDE DEF values
  <2>3. QED  BY <1>13, <2>1, <2>2, SummedAre
<1> HIDE DEF a, values, shape
<1>20. ASSUME NEW k \in AllIndices(r.shape)
       PROVE  /\ a.cell[k] = <<New, a.cell[k][2]>>
              /\ a.cell[k][2] = A!SummedCell(array[x], D, keep, k)
              /\ a.cell[k][2] \in AllIndices(r.shape)
              /\ Address(r, a.cell[k][2]) = Address(r, k)
  <2>1. a.cell[k] = <<New, A!SummedCell(array[x], D, keep, k)>>
    BY <1>17
  <2>2. /\ A!SummedCell(array[x], D, keep, k) \in AllIndices(r.shape)
        /\ Address(r, A!SummedCell(array[x], D, keep, k)) = Address(r, k)
    BY <1>13, SummedCellIs, SummedPlaces
  <2>3. QED  BY <2>1, <2>2
<1>21. Stands(a, r, New, values)
  BY <1>17, <1>18, <1>19, <1>20 DEF Stands
<1>22. ReadsAs(r, data, a, values)
  <2> SUFFICES ASSUME NEW k \in AllIndices(r.shape) PROVE data[Address(r, k)] = values[a.cell[k][2]]
    BY DEF ReadsAs
  <2>1. PICK j \in AllIndices(r.shape) : j = a.cell[k][2] /\ Address(r, j) = Address(r, k)
    BY <1>20
  <2>2. data[Address(r, j)] = values[j]
    BY <1>10, <1>19
  <2>3. QED  BY <2>1, <2>2
<1>23. CellsArePlaces(a, r, a, r)
  <2> SUFFICES ASSUME NEW k \in AllIndices(r.shape), NEW j \in AllIndices(r.shape)
               PROVE  a.cell[k] = a.cell[j] <=> Address(r, k) = Address(r, j)
    BY DEF CellsArePlaces
  <2>1. A!SummedCell(array[x], D, keep, k) = A!SummedCell(array[x], D, keep, j) <=> Address(r, k) = Address(r, j)
    BY <1>13, SummedPlaces
  <2>2. a.cell[k] = a.cell[j] <=> a.cell[k][2] = a.cell[j][2]
    BY <1>20
  <2>3. QED  BY <1>20, <2>1, <2>2
<1>24. QED  BY <1>3, <1>4, <1>21, <1>22, <1>23, AllocateAgrees

-----------------------------------------------------------------------------
(* The operations together *)

(* The arrays are a history: the buffers do what they do without it. *)
LEMMA NextANext == NextA => Next
BY DEF NextA, Next, ADestroy, AAddTo, ALoad, ACreate, ASave, AAs, AContiguous, ANegation, AExpand, AReshape,
       ASlice, APadding, APermute, ASummation, AAddition, AMatrixMultiplication, AWhere

LEMMA InitAgrees == InitA => AgreeInv
<1> SUFFICES ASSUME InitA PROVE AgreeInv
  OBVIOUS
<1>1. BoundsInv
  BY InitBounds DEF InitA
<1>2. /\ buffers = <<>> /\ storages = <<>> /\ file = NONE
      /\ array = <<>> /\ value = <<>>
  BY DEF InitA, Init
<1>3. DOMAIN <<>> = {}
  OBVIOUS
<1>4. DOMAIN buffers = {} /\ DOMAIN array = DOMAIN buffers /\ DOMAIN value = DOMAIN storages
  BY <1>2, <1>3
<1>5. HistoryInv
  BY <1>2, <1>4 DEF HistoryInv
<1>6. QED  BY <1>1, <1>5 DEF AgreeInv

LEMMA NextAgrees == ~SliceAgain /\ AgreeInv /\ [NextA]_<<vars, history>> => AgreeInv'
<1> SUFFICES ASSUME ~SliceAgain, AgreeInv, [NextA]_<<vars, history>>
             PROVE  AgreeInv'
  OBVIOUS
<1>1. BoundsInv'
  <2>1. [Next]_vars
    BY NextANext
  <2>2. QED  BY <2>1, NextBounds DEF AgreeInv
<1>2. ASSUME UNCHANGED <<vars, history>> PROVE HistoryInv'
  BY <1>2, StutterAgrees
<1>3. ASSUME NEW x \in DOMAIN buffers,
             \/ ADestroy(x)
             \/ \E y \in DOMAIN buffers : AAddTo(x, y)
      PROVE  HistoryInv'
  BY <1>3, DestroyAgrees, AddToAgrees
<1>4. ASSUME \/ ALoad
             \/ \E shape \in NewShapes : ACreate(shape)
      PROVE  HistoryInv'
  BY <1>4, LoadAgrees, CreateAgrees
<1>5. ASSUME NEW x \in DOMAIN buffers, ASave(x) \/ AAs(x) \/ AContiguous(x) \/ ANegation(x)
      PROVE  HistoryInv'
  BY <1>5, SaveAgrees, AsAgrees, ContiguousAgrees, NegationAgrees
<1>6. ASSUME NEW x \in DOMAIN buffers, NEW shape \in Targets, AExpand(x, shape) \/ AReshape(x, shape)
      PROVE  HistoryInv'
  BY <1>6, ExpandAgrees, ReshapeAgrees
<1>7. ASSUME NEW x \in DOMAIN buffers, NEW arguments \in SliceArguments(ShapeOf(x)), ASlice(x, arguments)
      PROVE  HistoryInv'
  BY <1>7, SliceAgrees
<1>8. ASSUME NEW x \in DOMAIN buffers, NEW arguments \in PaddingArguments(Rank(ViewOf(x))), APadding(x, arguments)
      PROVE  HistoryInv'
  BY <1>8, PaddingAgrees
<1>9. ASSUME NEW x \in DOMAIN buffers, NEW axes \in AxesOf[Rank(ViewOf(x))],
             APermute(x, axes) \/ \E keep \in BOOLEAN : ASummation(x, axes, keep)
      PROVE  HistoryInv'
  BY <1>9, PermuteAgrees, SummationAgrees
<1>10. ASSUME NEW x \in DOMAIN buffers, NEW y \in DOMAIN buffers,
              \/ AAddition(x, y)
              \/ AMatrixMultiplication(x, y)
              \/ \E w \in DOMAIN buffers : AWhere(w, x, y)
       PROVE  HistoryInv'
  BY <1>10, AdditionAgrees, MatrixMultiplicationAgrees, WhereAgrees
<1>11. ASSUME NextA PROVE HistoryInv'
  BY <1>3, <1>4, <1>5, <1>6, <1>7, <1>8, <1>9, <1>10, <1>11 DEF NextA
<1>12. HistoryInv'
  BY <1>2, <1>11
<1>13. QED  BY <1>1, <1>12 DEF AgreeInv

(* The program that keeps the history is the program. *)
LEMMA SpecASpec == SpecA => Spec
<1>1. InitA => Init
  BY DEF InitA
<1>2. [NextA]_<<vars, history>> => [Next]_vars
  BY NextANext
<1>3. QED  BY <1>1, <1>2, PTL DEF SpecA, Spec

(* Every buffer reads as the array it stands for, whatever operations made it  *)
(* and whatever was written through the buffers it shares its storage with;    *)
(* slices of slices excepted, whose offset view_slice gets wrong.  (view.c,    *)
(* buffer.c)                                                                    *)
THEOREM BuffersAgree == ~SliceAgain => (SpecA => []ElementsAgree)
<1> SUFFICES ASSUME ~SliceAgain PROVE SpecA => []ElementsAgree
  OBVIOUS
<1>1. AgreeInv => ElementsAgree
  <2> SUFFICES ASSUME AgreeInv, NEW b \in DOMAIN buffers
               PROVE  /\ ShapeOf(b) = array[b].shape
                      /\ \A i \in DOMAIN array[b].cell : Element(b, i) = Value(array[b].cell[i])
    BY DEF ElementsAgree
  <2>1. ShapeOf(b) = array[b].shape /\ DOMAIN array[b].cell = AllIndices(ShapeOf(b))
    BY BufferFacts
  <2>2. QED  BY <2>1, ValueIs
<1>2. InitA => AgreeInv
  BY InitAgrees
<1>3. AgreeInv /\ [NextA]_<<vars, history>> => AgreeInv'
  BY NextAgrees
<1>4. QED  BY <1>1, <1>2, <1>3, PTL DEF SpecA
=============================================================================
