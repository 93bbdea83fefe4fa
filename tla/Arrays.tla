------------------------------- MODULE Arrays ------------------------------
(***************************************************************************)
(* What the operations on tensors mean, without views, strides or storages. *)
(* An array is a shape and, for every index, the cell that holds its        *)
(* element; arrays that share cells change together.  Coordinates are from  *)
(* 0 on, and the value of a cell is given by an operator.                    *)
(***************************************************************************)
EXTENDS Integers, Sequences, FiniteSets, Functions

Largest(shape) == CHOOSE m \in {1} \cup Range(shape) : \A n \in Range(shape) : n <= m

Indices(shape) ==
  {index \in [DOMAIN shape -> 0..(Largest(shape) - 1)] : \A n \in DOMAIN shape : index[n] < shape[n]}

Array(shape, Cell(_)) == [shape |-> shape, cell |-> [index \in Indices(shape) |-> Cell(index)]]

-----------------------------------------------------------------------------
(* Arrays that share the cells of another *)

(* The coordinates of an index in an array that is repeated to fill a larger *)
(* shape, aligned at the last dimensions.                                    *)
Unexpanded(index, shape) ==
  [n \in DOMAIN shape |-> IF shape[n] = 1 THEN 0 ELSE index[n + Len(index) - Len(shape)]]

ArrayExpand(a, shape) == Array(shape, LAMBDA index : a.cell[Unexpanded(index, a.shape)])

(* Dimension n of the result is dimension order[n] of a. *)
ArrayPermute(a, order) ==
  Array([n \in DOMAIN order |-> a.shape[order[n]]],
        LAMBDA index : a.cell[[m \in DOMAIN a.shape |-> index[CHOOSE n \in DOMAIN order : order[n] = m]]])

(* Lexicographic order, and the number of indices before one. *)
Before(i, j) == \E n \in DOMAIN i : i[n] < j[n] /\ \A m \in 1..(n - 1) : i[m] = j[m]

Place(index, shape) == Cardinality({other \in Indices(shape) : Before(other, index)})

ArrayReshape(a, shape) ==
  LET place == [i \in Indices(a.shape) |-> Place(i, a.shape)]
      AtPlace(p) == CHOOSE i \in DOMAIN place : place[i] = p
  IN  Array(shape, LAMBDA index : a.cell[AtPlace(Place(index, shape))])

(* From from[n], and before to[n], in dimension n. *)
ArraySlice(a, from, to) ==
  Array([n \in DOMAIN from |-> to[n] - from[n]],
        LAMBDA index : a.cell[[n \in DOMAIN from |-> index[n] + from[n]]])

-----------------------------------------------------------------------------
(* The elements of new arrays, by index *)

(* The shape that two arrays are repeated to fill, which is the larger in    *)
(* every dimension.                                                          *)
CommonShape(shape1, shape2) ==
  LET Larger(m, n) == IF m > n THEN m ELSE n
      rank == Larger(Len(shape1), Len(shape2))
      Size(shape, n) == IF n + Len(shape) > rank THEN shape[n + Len(shape) - rank] ELSE 1
  IN  [n \in 1..rank |-> Larger(Size(shape1, n), Size(shape2, n))]

Elements(a, Value(_)) == [index \in DOMAIN a.cell |-> Value(a.cell[index])]

PaddedElements(a, before, shape, Value(_)) ==
  [index \in Indices(shape) |->
     LET inner == [n \in DOMAIN shape |-> index[n] - before[n]]
     IN  IF inner \in DOMAIN a.cell THEN Value(a.cell[inner]) ELSE 0]

(* Where a dimension of an array is after a reduction, in which the            *)
(* dimensions are kept with size one, or removed.                             *)
NewDimension(m, dimensions, keep) == IF keep THEN m ELSE m - Cardinality({d \in dimensions : d < m})

(* The indices of a that are reduced to an index of the result.               *)
ReducedFrom(a, dimensions, keep, index) ==
  {i \in DOMAIN a.cell :
     \A m \in DOMAIN a.shape \ dimensions : i[m] = index[NewDimension(m, dimensions, keep)]}

SummedElements(a, dimensions, keep, shape, Value(_)) ==
  [index \in Indices(shape) |->
     SumFunction([i \in ReducedFrom(a, dimensions, keep, index) |-> Value(a.cell[i])])]

(* Whether the elements along a dimension are the same cell.                   *)
Repeats(a, m) == \A i \in DOMAIN a.cell : a.cell[i] = a.cell[[i EXCEPT ![m] = 0]]

(* The first of the indices whose elements sum the same cells.                *)
SummedCell(a, dimensions, keep, index) ==
  LET repeated == {NewDimension(m, dimensions, keep) : m \in {n \in DOMAIN a.shape \ dimensions : Repeats(a, n)}}
  IN  [k \in DOMAIN index |-> IF k \in repeated THEN 0 ELSE index[k]]

ReducedShape(shape, dimensions, keep) ==
  LET kept == {n \in DOMAIN shape : keep \/ n \notin dimensions}
      Old(k) == CHOOSE n \in kept : Cardinality({m \in kept : m <= n}) = k
  IN  [k \in 1..Cardinality(kept) |-> IF Old(k) \in dimensions THEN 1 ELSE shape[Old(k)]]

(* The product of the matrices in the last two dimensions, the others being  *)
(* repeated where an operand lacks them.                                     *)
ProductElements(a, b, shape, Value(_)) ==
  LET rank == Len(shape)
      Row(index, l) == Unexpanded([index EXCEPT ![rank] = l], a.shape)
      Column(index, l) == Unexpanded([index EXCEPT ![rank - 1] = l], b.shape)
  IN  [index \in Indices(shape) |->
         SumFunction([l \in 0..(a.shape[Len(a.shape)] - 1) |->
                        Value(a.cell[Row(index, l)]) * Value(b.cell[Column(index, l)])])]
=============================================================================
