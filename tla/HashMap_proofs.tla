--------------------------- MODULE HashMap_proofs ---------------------------
(***************************************************************************)
(* Theorems about HashMap: its searches end, and it implements PartialMap,  *)
(* for every set of keys, every hash function, every initial capacity and   *)
(* with allocations that fail.                                              *)
(***************************************************************************)
EXTENDS HashMap, WellFoundedInduction, FiniteSetTheorems, TLAPS

USE NullAssumption, HashAssumption, CapacityAssumption, MallocAssumption,
    MaxCapacityAssumption

Table(c) == [Indices(c) -> Entry]

(* Every entry is where a search for its key stops. *)
WellPlaced(es, c) ==
  \A j \in Indices(c) :
    es[j].key # NULL =>
      \E n \in Indices(c) : StopsFirst(es, c, es[j].key, n) /\ Slot(es[j].key, n, c) = j

UniqueKeys(es) ==
  \A j, l \in Occupied(es) : es[j].key = es[l].key => j = l

SearchEnds(es, c, k) == \E n \in Indices(c) : Stops(es, c, k, n)

(* The entries that map_expand has looked at and moved. *)
Seen == {j \in 0..(i - 1) : entries[j].key # NULL}

(* During map_expand the new array holds the old entries before i, and no   *)
(* others.                                                                  *)
HalfMoved ==
  pc = "expand" =>
    /\ WellPlaced(new_entries, 2 * capacity)
    /\ \A j \in Seen : \E m \in Indices(2 * capacity) : new_entries[m] = entries[j]
    /\ \A m \in Occupied(new_entries) : \E j \in Seen : new_entries[m] = entries[j]
    /\ new_length = Cardinality(Occupied(new_entries))
    /\ new_length = Cardinality(Seen)

(* The inductive invariant. *)
IInv ==
  /\ TypeOK
  /\ WellPlaced(entries, capacity)
  /\ LengthCounts
  /\ HalfMoved
  /\ pc = "insert" => length < capacity \div 2
  /\ pc # "expand" => new_length = 0 /\ i = 0

-----------------------------------------------------------------------------
(* The slots of a search stay in the array and, in c steps, are all of it.  *)
LEMMA SlotFacts ==
  ASSUME NEW c \in Nat \ {0}, NEW k \in Keys
  PROVE  /\ Home(k, c) \in Indices(c)
         /\ \A n \in Indices(c) : Slot(k, n, c) \in Indices(c)
         /\ \A j \in Indices(c) : \E n \in Indices(c) : Slot(k, n, c) = j
<1>1. Home(k, c) \in Indices(c)
  <2>1. Hash[k] \in Nat
    OBVIOUS
  <2> QED BY <2>1 DEF Home, Indices
<1>2. \A n \in Indices(c) : Slot(k, n, c) \in Indices(c)
  BY <1>1 DEF Slot, Indices
<1>3. ASSUME NEW j \in Indices(c)
      PROVE  \E n \in Indices(c) : Slot(k, n, c) = j
  <2>1. CASE j >= Home(k, c)
    <3>1. j - Home(k, c) \in Indices(c) /\ Slot(k, j - Home(k, c), c) = j
      BY <2>1, <1>1 DEF Slot, Indices
    <3> QED BY <3>1
  <2>2. CASE j < Home(k, c)
    <3>1. j + c - Home(k, c) \in Indices(c) /\ Slot(k, j + c - Home(k, c), c) = j
      BY <2>2, <1>1 DEF Slot, Indices
    <3> QED BY <3>1
  <2> QED BY <2>1, <2>2, <1>1 DEF Indices
<1> QED BY <1>1, <1>2, <1>3

(* A search that ends stops for the first time at one place, which Probe    *)
(* returns.                                                                 *)
LEMMA ProbeFacts ==
  ASSUME NEW c \in Nat \ {0}, NEW k \in Keys, NEW es \in Table(c), SearchEnds(es, c, k)
  PROVE  /\ Probe(es, c, k) \in Indices(c)
         /\ es[Probe(es, c, k)].key \in {NULL, k}
         /\ \E n \in Indices(c) : StopsFirst(es, c, k, n) /\ Probe(es, c, k) = Slot(k, n, c)
<1> DEFINE S == {n \in Indices(c) : Stops(es, c, k, n)}
<1>1. S \in SUBSET Nat /\ S # {}
  BY DEF SearchEnds, Indices
<1>2. PICK n \in S : \A m \in S : n <= m
  <2> DEFINE R == OpToRel(<, Nat)
  <2>1. PICK n \in S : \A m \in S : ~(<<m, n>> \in R)
    <3> HIDE DEF S, R
    <3>1. IsWellFoundedOn(R, Nat)
      BY NatLessThanWellFounded DEF R
    <3> QED BY <1>1, <3>1, WFMin
  <2>2. \A m, p \in Nat : m < p => <<m, p>> \in R
    BY DEF OpToRel
  <2> HIDE DEF R, S
  <2>3. ASSUME NEW m \in S
        PROVE  n <= m
    <3>1. m \in Nat /\ n \in Nat
      BY <1>1
    <3>2. ~(m < n)
      BY <3>1, <2>1, <2>2, Zenon
    <3> QED BY <3>1, <3>2
  <2> QED BY <2>3
<1>3. n \in Indices(c) /\ StopsFirst(es, c, k, n)
  BY <1>2 DEF StopsFirst, Indices
<1>4. PICK l \in Indices(c) : /\ StopsFirst(es, c, k, l)
                              /\ Probe(es, c, k) = Slot(k, l, c)
  <2> DEFINE l == CHOOSE m \in Indices(c) : StopsFirst(es, c, k, m)
  <2>1. l \in Indices(c) /\ StopsFirst(es, c, k, l)
    BY <1>3
  <2> QED BY <2>1 DEF Probe
<1> QED BY <1>4, SlotFacts DEF StopsFirst, Stops

(* Two searches for one key stop for the first time at the same place. *)
LEMMA FirstStopUnique ==
  ASSUME NEW c \in Nat \ {0}, NEW k \in Keys, NEW es \in Table(c),
         NEW m \in Indices(c), NEW n \in Indices(c),
         StopsFirst(es, c, k, m), StopsFirst(es, c, k, n)
  PROVE  m = n
BY DEF StopsFirst, Indices

(* A table that is not full ends every search. *)
LEMMA FreeSlotEnds ==
  ASSUME NEW c \in Nat \ {0}, NEW k \in Keys, NEW es \in Table(c),
         Cardinality(Occupied(es)) < c
  PROVE  SearchEnds(es, c, k)
<1>1. DOMAIN es = Indices(c)
  BY DEF Table
<1>2. Occupied(es) # Indices(c)
  <2>1. Cardinality(Indices(c)) = c
    BY FS_Interval DEF Indices
  <2> QED BY <2>1
<1>3. PICK j \in Indices(c) : es[j].key = NULL
  BY <1>1, <1>2 DEF Occupied
<1> QED BY <1>3, SlotFacts DEF SearchEnds, Stops

(* The occupied slots are finitely many. *)
LEMMA OccupiedFinite ==
  ASSUME NEW c \in Nat, NEW es \in Table(c)
  PROVE  IsFiniteSet(Occupied(es)) /\ Cardinality(Occupied(es)) \in Nat
<1>1. IsFiniteSet(Indices(c))
  BY FS_Interval DEF Indices
<1>2. Occupied(es) \subseteq Indices(c)
  BY DEF Occupied, Table
<1> QED BY <1>1, <1>2, FS_Subset, FS_CardinalityType

(* In a well-placed table no key occurs twice, and a search finds it.       *)
LEMMA WellPlacedFacts ==
  ASSUME NEW c \in Nat \ {0}, NEW es \in Table(c), WellPlaced(es, c)
  PROVE  /\ UniqueKeys(es)
         /\ \A j \in Occupied(es) : /\ SearchEnds(es, c, es[j].key)
                                    /\ Probe(es, c, es[j].key) = j
<1>1. \A j \in Occupied(es) : j \in Indices(c) /\ es[j].key \in Keys
  BY DEF Occupied, Table, Entry
<1>2. ASSUME NEW j \in Occupied(es)
      PROVE  SearchEnds(es, c, es[j].key) /\ Probe(es, c, es[j].key) = j
  <2>1. PICK n \in Indices(c) : /\ StopsFirst(es, c, es[j].key, n)
                                /\ Slot(es[j].key, n, c) = j
    BY <1>1 DEF WellPlaced, Occupied
  <2>2. SearchEnds(es, c, es[j].key)
    BY <2>1 DEF SearchEnds, StopsFirst
  <2>3. PICK m \in Indices(c) : /\ StopsFirst(es, c, es[j].key, m)
                                /\ Probe(es, c, es[j].key) = Slot(es[j].key, m, c)
    BY <2>2, <1>1, ProbeFacts
  <2>4. m = n
    BY <2>1, <2>3, <1>1, FirstStopUnique
  <2> QED BY <2>1, <2>2, <2>3, <2>4
<1> QED BY <1>2 DEF UniqueKeys

(* Holds tells whether the key is in the table. *)
LEMMA HoldsFacts ==
  ASSUME NEW c \in Nat \ {0}, NEW k \in Keys, NEW es \in Table(c),
         WellPlaced(es, c), SearchEnds(es, c, k)
  PROVE  /\ Holds(es, c, k) => Probe(es, c, k) \in Occupied(es)
         /\ ~Holds(es, c, k) => /\ Probe(es, c, k) \notin Occupied(es)
                               /\ \A j \in Occupied(es) : es[j].key # k
<1>1. Probe(es, c, k) \in DOMAIN es /\ es[Probe(es, c, k)].key \in {NULL, k}
  BY ProbeFacts DEF Table
<1>2. \A j \in Occupied(es) : es[j].key = k => Holds(es, c, k)
  BY WellPlacedFacts DEF Holds
<1> QED BY <1>1, <1>2 DEF Occupied, Holds

(* map_set_entry keeps a table well placed, and changes one slot: the one   *)
(* that holds the key, or else a free one.                                  *)
LEMMA WithEntryFacts ==
  ASSUME NEW c \in Nat \ {0}, NEW k \in Keys, NEW d \in Data \cup {NULL},
         NEW es \in Table(c), WellPlaced(es, c), SearchEnds(es, c, k)
  PROVE  /\ WithEntry(es, c, k, d) \in Table(c)
         /\ WellPlaced(WithEntry(es, c, k, d), c)
         /\ Occupied(WithEntry(es, c, k, d)) = Occupied(es) \cup {Probe(es, c, k)}
         /\ WithEntry(es, c, k, d)[Probe(es, c, k)] = [key |-> k, data |-> d]
         /\ \A j \in Indices(c) \ {Probe(es, c, k)} : WithEntry(es, c, k, d)[j] = es[j]
<1> DEFINE p == Probe(es, c, k)
           new == WithEntry(es, c, k, d)
<1>1. p \in Indices(c) /\ es[p].key \in {NULL, k}
  BY ProbeFacts
<1>2. [key |-> k, data |-> d] \in Entry
  BY DEF Entry
<1>3. new \in Table(c)
  BY <1>1, <1>2 DEF WithEntry, Table
<1>4. new[p] = [key |-> k, data |-> d]
  BY <1>1 DEF WithEntry, Table
<1>5. \A j \in Indices(c) \ {p} : new[j] = es[j]
  BY <1>1 DEF WithEntry, Table
<1>6. Occupied(new) = Occupied(es) \cup {p}
  <2>1. DOMAIN new = Indices(c) /\ DOMAIN es = Indices(c)
    BY <1>3 DEF Table
  <2>2. new[p].key # NULL
    BY <1>4
  <2> QED BY <2>1, <2>2, <1>1, <1>5 DEF Occupied
<1>7. ASSUME NEW l \in Keys, NEW n \in Indices(c), StopsFirst(es, c, l, n),
             Slot(l, n, c) # p \/ l = k
      PROVE  StopsFirst(new, c, l, n)
  <2>1. \A m \in 0..n : Slot(l, m, c) \in Indices(c)
    BY SlotFacts DEF Indices
  <2>2. ASSUME NEW m \in 0..(n - 1)
        PROVE  ~Stops(new, c, l, m)
    <3>1. m \in 0..n
      BY DEF Indices
    <3>2. es[Slot(l, m, c)].key \notin {NULL, l}
      BY <1>7 DEF StopsFirst, Stops
    <3>3. CASE Slot(l, m, c) = p
      BY <3>2, <3>3, <1>1, <1>4 DEF Stops
    <3>4. CASE Slot(l, m, c) # p
      BY <3>1, <3>2, <3>4, <2>1, <1>5 DEF Stops
    <3> QED BY <3>3, <3>4
  <2>3. Stops(new, c, l, n)
    <3>1. n \in 0..n
      BY DEF Indices
    <3>2. CASE Slot(l, n, c) = p
      BY <1>7, <3>2, <1>4 DEF Stops
    <3>3. CASE Slot(l, n, c) # p
      BY <1>7, <3>1, <3>3, <2>1, <1>5 DEF StopsFirst, Stops
    <3> QED BY <3>2, <3>3
  <2> QED BY <1>7, <2>2, <2>3 DEF StopsFirst
<1>8. WellPlaced(new, c)
  <2> SUFFICES ASSUME NEW j \in Indices(c), new[j].key # NULL
               PROVE  \E n \in Indices(c) : /\ StopsFirst(new, c, new[j].key, n)
                                            /\ Slot(new[j].key, n, c) = j
    BY DEF WellPlaced
  <2>1. CASE j = p
    <3>1. PICK n \in Indices(c) : StopsFirst(es, c, k, n) /\ p = Slot(k, n, c)
      BY ProbeFacts
    <3>2. StopsFirst(new, c, k, n)
      BY <3>1, <1>7
    <3> QED BY <2>1, <3>1, <3>2, <1>4
  <2>2. CASE j # p
    <3>1. new[j] = es[j] /\ es[j].key \in Keys
      BY <2>2, <1>5 DEF Table, Entry
    <3>2. PICK n \in Indices(c) : /\ StopsFirst(es, c, es[j].key, n)
                                  /\ Slot(es[j].key, n, c) = j
      BY <3>1 DEF WellPlaced
    <3>3. StopsFirst(new, c, es[j].key, n)
      BY <3>1, <3>2, <2>2, <1>7
    <3> QED BY <3>1, <3>2, <3>3
  <2> QED BY <2>1, <2>2
<1> QED BY <1>3, <1>4, <1>5, <1>6, <1>8

(* The length that map_set_entry keeps is the number of entries. *)
LEMMA WithEntryLength ==
  ASSUME NEW c \in Nat \ {0}, NEW k \in Keys, NEW d \in Data \cup {NULL},
         NEW es \in Table(c), WellPlaced(es, c), SearchEnds(es, c, k),
         NEW n \in Nat, n = Cardinality(Occupied(es))
  PROVE  LengthWith(es, c, k, n) = Cardinality(Occupied(WithEntry(es, c, k, d)))
<1> DEFINE p == Probe(es, c, k)
           new == WithEntry(es, c, k, d)
<1>1. Occupied(new) = Occupied(es) \cup {p}
  BY WithEntryFacts
<1>2. IsFiniteSet(Occupied(es))
  BY OccupiedFinite
<1>3. CASE Holds(es, c, k)
  <2>1. Occupied(es) \cup {p} = Occupied(es)
    BY <1>3, HoldsFacts
  <2> QED BY <2>1, <1>3, <1>1 DEF LengthWith
<1>4. CASE ~Holds(es, c, k)
  <2>1. p \notin Occupied(es)
    BY <1>4, HoldsFacts
  <2>2. Cardinality(Occupied(es) \cup {p}) = Cardinality(Occupied(es)) + 1
    BY <2>1, <1>2, FS_AddElement
  <2> QED BY <2>2, <1>4, <1>1 DEF LengthWith
<1> QED BY <1>3, <1>4

-----------------------------------------------------------------------------
(* What a table without duplicate keys represents. *)
LEMMA ContentsFacts ==
  ASSUME NEW es, UniqueKeys(es)
  PROVE  /\ DOMAIN ContentsOf(es) = {es[n].key : n \in Occupied(es)}
         /\ \A j \in Occupied(es) : ContentsOf(es)[es[j].key] = es[j].data
<1>1. ASSUME NEW j \in Occupied(es)
      PROVE  ContentsOf(es)[es[j].key] = es[j].data
  <2> DEFINE l == CHOOSE n \in Occupied(es) : es[n].key = es[j].key
  <2>1. l \in Occupied(es) /\ es[l].key = es[j].key
    OBVIOUS
  <2>2. l = j
    BY <2>1 DEF UniqueKeys
  <2>3. ContentsOf(es)[es[j].key] = es[l].data
    BY DEF ContentsOf
  <2> QED BY <2>2, <2>3
<1> QED BY <1>1 DEF ContentsOf

(* map_set_entry does to the partial function what PartialMap says. *)
LEMMA WithEntryContents ==
  ASSUME NEW c \in Nat \ {0}, NEW k \in Keys, NEW d \in Data \cup {NULL},
         NEW es \in Table(c), WellPlaced(es, c), SearchEnds(es, c, k)
  PROVE  ContentsOf(WithEntry(es, c, k, d))
           = [j \in DOMAIN ContentsOf(es) \cup {k} |->
                IF j = k THEN d ELSE ContentsOf(es)[j]]
<1> DEFINE p == Probe(es, c, k)
           new == WithEntry(es, c, k, d)
           f == ContentsOf(es)
           g == [j \in DOMAIN f \cup {k} |-> IF j = k THEN d ELSE f[j]]
<1>1. UniqueKeys(es) /\ UniqueKeys(new)
  BY WithEntryFacts, WellPlacedFacts
<1>2. /\ DOMAIN f = {es[n].key : n \in Occupied(es)}
      /\ \A j \in Occupied(es) : f[es[j].key] = es[j].data
      /\ DOMAIN ContentsOf(new) = {new[n].key : n \in Occupied(new)}
      /\ \A j \in Occupied(new) : ContentsOf(new)[new[j].key] = new[j].data
  BY <1>1, ContentsFacts
<1>3. /\ Occupied(new) = Occupied(es) \cup {p}
      /\ new[p] = [key |-> k, data |-> d]
      /\ \A j \in Occupied(es) \ {p} : new[j] = es[j]
  <2>1. Occupied(es) \subseteq Indices(c)
    BY DEF Occupied, Table
  <2> QED BY <2>1, WithEntryFacts
<1>4. p \in Occupied(es) => es[p].key = k
  BY ProbeFacts DEF Occupied
<1>5. \A j \in Occupied(es) \ {p} : es[j].key # k
  <2>1. new[p].key = k /\ p \in Occupied(new)
    BY <1>3
  <2> QED BY <2>1, <1>1, <1>3 DEF UniqueKeys
<1>6. DOMAIN ContentsOf(new) = DOMAIN g
  <2>1. {new[n].key : n \in Occupied(new)} = {es[n].key : n \in Occupied(es)} \cup {k}
    BY <1>3, <1>4
  <2> QED BY <2>1, <1>2
<1>7. ASSUME NEW j \in DOMAIN g
      PROVE  ContentsOf(new)[j] = g[j]
  <2>1. CASE j = k
    BY <2>1, <1>2, <1>3
  <2>2. CASE j # k
    <3>1. PICK n \in Occupied(es) : j = es[n].key
      BY <2>2, <1>2
    <3>2. n # p
      BY <3>1, <2>2, <1>4
    <3>3. new[n] = es[n] /\ n \in Occupied(new)
      BY <3>2, <1>3
    <3> QED BY <3>1, <3>3, <2>2, <1>2
  <2> QED BY <2>1, <2>2
<1>8. ContentsOf(new) = [j \in DOMAIN ContentsOf(new) |-> ContentsOf(new)[j]]
  BY DEF ContentsOf
<1> QED BY <1>6, <1>7, <1>8

(* Two tables with the same entries represent the same function. *)
LEMMA SameContents ==
  ASSUME NEW es, NEW fs, UniqueKeys(es), UniqueKeys(fs),
         \A j \in Occupied(es) : \E m \in Occupied(fs) : fs[m] = es[j],
         \A m \in Occupied(fs) : \E j \in Occupied(es) : fs[m] = es[j]
  PROVE  ContentsOf(fs) = ContentsOf(es)
<1>1. /\ DOMAIN ContentsOf(es) = {es[n].key : n \in Occupied(es)}
      /\ \A j \in Occupied(es) : ContentsOf(es)[es[j].key] = es[j].data
  BY ContentsFacts
<1>2. /\ DOMAIN ContentsOf(fs) = {fs[n].key : n \in Occupied(fs)}
      /\ \A j \in Occupied(fs) : ContentsOf(fs)[fs[j].key] = fs[j].data
  BY ContentsFacts
<1>3. DOMAIN ContentsOf(fs) = DOMAIN ContentsOf(es)
  <2>1. {fs[n].key : n \in Occupied(fs)} = {es[n].key : n \in Occupied(es)}
    OBVIOUS
  <2> QED BY <2>1, <1>1, <1>2
<1>4. ASSUME NEW k \in DOMAIN ContentsOf(es)
      PROVE  ContentsOf(fs)[k] = ContentsOf(es)[k]
  <2>1. PICK j \in Occupied(es) : k = es[j].key
    BY <1>1
  <2>2. PICK m \in Occupied(fs) : fs[m] = es[j]
    BY <2>1
  <2>3. ContentsOf(es)[k] = es[j].data
    BY <2>1, <1>1
  <2>4. ContentsOf(fs)[k] = fs[m].data
    <3>1. k = fs[m].key
      BY <2>1, <2>2
    <3> QED BY <3>1, <1>2
  <2> QED BY <2>2, <2>3, <2>4
<1>5. /\ ContentsOf(es) = [k \in DOMAIN ContentsOf(es) |-> ContentsOf(es)[k]]
      /\ ContentsOf(fs) = [k \in DOMAIN ContentsOf(fs) |-> ContentsOf(fs)[k]]
  BY DEF ContentsOf
<1> QED BY <1>3, <1>4, <1>5

-----------------------------------------------------------------------------
(* What the invariant says of the two arrays. *)
LEMMA TableFacts ==
  ASSUME IInv
  PROVE  /\ capacity \in Nat \ {0}
         /\ entries \in Table(capacity)
         /\ UniqueKeys(entries)
         /\ Cardinality(Occupied(entries)) = length
         /\ \A k \in Keys : SearchEnds(entries, capacity, k)
<1>1. capacity \in Nat \ {0} /\ entries \in Table(capacity)
  BY DEF IInv, TypeOK, Table
<1>2. UniqueKeys(entries)
  BY <1>1, WellPlacedFacts DEF IInv
<1>3. Cardinality(Occupied(entries)) < capacity
  BY <1>1 DEF IInv, TypeOK, LengthCounts
<1> QED BY <1>1, <1>2, <1>3, FreeSlotEnds DEF IInv, LengthCounts

(* What it says of the array that map_expand fills: it has room, and the    *)
(* key of the entry to move next is not in it.                              *)
LEMMA ExpandFacts ==
  ASSUME IInv, pc = "expand"
  PROVE  /\ 2 * capacity \in Nat \ {0}
         /\ new_entries \in Table(2 * capacity)
         /\ WellPlaced(new_entries, 2 * capacity)
         /\ \A k \in Keys : SearchEnds(new_entries, 2 * capacity, k)
         /\ MovesOnce
<1>1. /\ 2 * capacity \in Nat \ {0}
      /\ new_entries \in Table(2 * capacity)
      /\ WellPlaced(new_entries, 2 * capacity)
  BY DEF IInv, TypeOK, HalfMoved, Table
<1>2. Cardinality(Occupied(new_entries)) < 2 * capacity
  <2>1. Seen \subseteq Occupied(entries)
    BY DEF IInv, TypeOK, Seen, Occupied, Indices
  <2>2. IsFiniteSet(Occupied(entries))
    BY TableFacts, OccupiedFinite
  <2>3. Cardinality(Seen) <= Cardinality(Occupied(entries))
    BY <2>1, <2>2, FS_Subset
  <2>4. Cardinality(Occupied(entries)) = length /\ length <= capacity \div 2
    BY DEF IInv, LengthCounts
  <2>5. new_length = Cardinality(Occupied(new_entries)) /\ new_length = Cardinality(Seen)
    BY DEF IInv, HalfMoved
  <2>6. new_length <= capacity \div 2
    <3>1. new_length \in Nat /\ length \in Nat /\ capacity \in Nat
      BY DEF IInv, TypeOK
    <3> QED BY <3>1, <2>3, <2>4, <2>5
  <2>7. new_length < 2 * capacity
    BY <2>6 DEF IInv, TypeOK
  <2> QED BY <2>5, <2>7
<1>3. \A k \in Keys : SearchEnds(new_entries, 2 * capacity, k)
  BY <1>1, <1>2, FreeSlotEnds
<1>4. MovesOnce
  <2> SUFFICES ASSUME i < capacity, entries[i].key # NULL,
                      NEW n \in DOMAIN new_entries, new_entries[n].key = entries[i].key
               PROVE  FALSE
    BY DEF MovesOnce
  <2>1. n \in Occupied(new_entries)
    BY DEF Occupied
  <2>2. PICK j \in Seen : new_entries[n] = entries[j]
    BY <2>1 DEF IInv, HalfMoved
  <2>3. i \in Nat /\ j \in 0..(i - 1) /\ j \in Occupied(entries) /\ i \in Occupied(entries)
    BY <2>2 DEF IInv, TypeOK, Seen, Occupied, Indices
  <2>4. j = i
    BY <2>2, <2>3, TableFacts DEF UniqueKeys
  <2> QED BY <2>3, <2>4
<1> QED BY <1>1, <1>3, <1>4

-----------------------------------------------------------------------------
(* The invariant holds at first: an array of free slots. *)
LEMMA InitIInv == Init => IInv
<1> SUFFICES ASSUME Init PROVE IInv
  OBVIOUS
<1>1. TypeOK
  <2>1. FreeEntry \in Entry
    BY DEF FreeEntry, Entry
  <2>2. entries \in [Indices(capacity) -> Entry]
    BY <2>1 DEF Init
  <2>3. new_entries \in [{} -> Entry]
    BY DEF Init, NoEntries
  <2>4. i \in 0..capacity
    BY DEF Init
  <2> QED BY <2>2, <2>3, <2>4 DEF Init, TypeOK
<1>2. Occupied(entries) = {}
  BY DEF Init, Occupied, Indices, FreeEntry
<1>3. WellPlaced(entries, capacity)
  BY DEF Init, WellPlaced, Indices, FreeEntry
<1>4. LengthCounts
  <2>1. length = Cardinality(Occupied(entries))
    BY <1>2, FS_EmptySet DEF Init
  <2>2. length <= capacity \div 2
    BY DEF Init
  <2> QED BY <2>1, <2>2 DEF LengthCounts
<1> QED BY <1>1, <1>3, <1>4 DEF Init, IInv, HalfMoved

(* The steps that leave the two arrays alone. *)
LEMMA UnchangedArrays ==
  ASSUME IInv, TypeOK', UNCHANGED <<table, expanding>>,
         pc' = "expand" <=> pc = "expand",
         pc' = "insert" => length < capacity \div 2
  PROVE  IInv'
<1>1. /\ WellPlaced(entries, capacity)'
      /\ LengthCounts'
  BY DEF IInv, table, WellPlaced, LengthCounts, Indices, Occupied, StopsFirst, Stops, Slot, Home
<1>2. HalfMoved'
  <2>1. Seen' = Seen
    BY DEF Seen, table, expanding
  <2>2. UNCHANGED <<capacity, entries, new_entries, new_length>>
    BY DEF table, expanding
  <2>3. /\ WellPlaced(new_entries, 2 * capacity)' = WellPlaced(new_entries, 2 * capacity)
        /\ Occupied(new_entries)' = Occupied(new_entries)
        /\ Indices(2 * capacity)' = Indices(2 * capacity)
    BY <2>2 DEF WellPlaced, Indices, Occupied, StopsFirst, Stops, Slot, Home
  <2>4. (pc = "expand")' <=> pc = "expand"
    OBVIOUS
  <2>5. HalfMoved
    BY DEF IInv
  <2> QED BY <2>1, <2>2, <2>3, <2>4, <2>5 DEF HalfMoved
<1> QED BY <1>1, <1>2 DEF IInv, table, expanding

(* map_get, map_contains and the first part of map_set. *)
LEMMA CallStep ==
  ASSUME IInv, NEW k \in Keys,
         \/ MapGet(k)
         \/ MapContains(k)
         \/ \E d \in Data : MapSet(k, d)
  PROVE  IInv'
<1>1. CASE MapGet(k)
  <2>1. entries[Probe(entries, capacity, k)] \in Entry
    BY TableFacts, ProbeFacts DEF Table
  <2>2. data' \in Data \cup {NULL}
    BY <1>1, <2>1 DEF IInv, TypeOK, MapGet, Entry
  <2>3. TypeOK'
    BY <1>1, <2>2 DEF IInv, TypeOK, MapGet, table, setting, expanding, Indices
  <2> QED BY <1>1, <2>3, UnchangedArrays DEF MapGet, setting
<1>2. CASE MapContains(k)
  <2>1. TypeOK'
    BY <1>2 DEF IInv, TypeOK, MapContains, Holds, table, setting, expanding, Indices
  <2> QED BY <1>2, <2>1, UnchangedArrays DEF MapContains, setting
<1>3. ASSUME NEW d \in Data, MapSet(k, d)
      PROVE  IInv'
  <2>1. TypeOK'
    BY <1>3 DEF IInv, TypeOK, MapSet, table, answers, expanding, Indices
  <2>2. pc' = "insert" => length < capacity \div 2
    BY <1>3 DEF MapSet, MustExpand, IInv, TypeOK
  <2>3. pc = "ready" /\ pc' \in {"allocate", "insert"}
    BY <1>3 DEF MapSet
  <2>4. UNCHANGED <<table, expanding>>
    BY <1>3 DEF MapSet
  <2> QED BY <2>1, <2>2, <2>3, <2>4, UnchangedArrays
<1> QED BY <1>1, <1>2, <1>3

(* A map_set that fails. *)
LEMMA FailStep ==
  ASSUME IInv, ExpandFails \/ SetFails
  PROVE  IInv'
<1>1. /\ UNCHANGED <<table, expanding>>
      /\ pc \in {"allocate", "insert"}
      /\ Return("failed")
  BY DEF ExpandFails, SetFails
<1>2. TypeOK'
  BY <1>1 DEF IInv, TypeOK, Return, table, expanding, Indices
<1> QED BY <1>1, <1>2, UnchangedArrays DEF Return

(* map_expand allocates the new array. *)
LEMMA AllocateStep ==
  ASSUME IInv, ExpandAllocate
  PROVE  IInv'
<1>1. TypeOK'
  BY DEF IInv, TypeOK, ExpandAllocate, table, answers, Indices, FreeEntry, Entry
<1>2. WellPlaced(entries, capacity)' /\ LengthCounts'
  BY DEF IInv, ExpandAllocate, table, WellPlaced, LengthCounts, Indices, Occupied,
         StopsFirst, Stops, Slot, Home
<1>3. Occupied(new_entries)' = {}
  BY DEF ExpandAllocate, Occupied, FreeEntry
<1>4. WellPlaced(new_entries, 2 * capacity)'
  BY DEF ExpandAllocate, table, WellPlaced, Indices, FreeEntry
<1>5. Seen' = {} /\ new_length' = 0
  BY DEF IInv, TypeOK, ExpandAllocate, Seen
<1>6. HalfMoved'
  BY <1>3, <1>4, <1>5, FS_EmptySet DEF HalfMoved
<1> QED BY <1>1, <1>2, <1>6 DEF IInv, ExpandAllocate

(* map_expand looks at one old entry. *)
LEMMA EntryStep ==
  ASSUME IInv, ExpandEntry
  PROVE  IInv'
<1>1. /\ pc = "expand" /\ pc' = "expand" /\ i < capacity /\ i' = i + 1
      /\ UNCHANGED <<capacity, entries, length, key, value, data, contained>>
  BY DEF ExpandEntry, table, setting, answers
<1>2. i \in Indices(capacity) /\ i \in Nat /\ entries[i] \in Entry
  BY <1>1 DEF IInv, TypeOK, Indices
<1>3. /\ WellPlaced(entries, capacity)'
      /\ LengthCounts'
  BY <1>1 DEF IInv, WellPlaced, LengthCounts, Indices, Occupied, StopsFirst, Stops, Slot, Home
<1>4. IsFiniteSet(Seen) /\ i \notin Seen
  <2>1. IsFiniteSet(0..(i - 1))
    BY <1>2, FS_Interval
  <2>2. Seen \subseteq 0..(i - 1)
    BY DEF Seen
  <2>3. IsFiniteSet(Seen)
    BY <2>1, <2>2, FS_Subset
  <2>4. i \notin Seen
    BY <2>2, <1>2
  <2> QED BY <2>3, <2>4
<1>5. Seen' = IF entries[i].key = NULL THEN Seen ELSE Seen \cup {i}
  BY <1>1, <1>2 DEF Seen
<1>6. i' \in 0..capacity
  BY <1>1, <1>2 DEF IInv, TypeOK
<1>7. CASE entries[i].key = NULL
  <2>1. UNCHANGED <<new_entries, new_length>> /\ Seen' = Seen
    BY <1>5, <1>7 DEF ExpandEntry
  <2>2. TypeOK'
    BY <1>1, <1>6, <2>1 DEF IInv, TypeOK, Indices
  <2>3. /\ WellPlaced(new_entries, 2 * capacity)' = WellPlaced(new_entries, 2 * capacity)
        /\ Occupied(new_entries)' = Occupied(new_entries)
        /\ Indices(2 * capacity)' = Indices(2 * capacity)
    BY <1>1, <2>1 DEF WellPlaced, Indices, Occupied, StopsFirst, Stops, Slot, Home
  <2>4. HalfMoved'
    BY <1>1, <2>1, <2>3 DEF IInv, HalfMoved
  <2> QED BY <1>1, <1>3, <2>2, <2>4 DEF IInv
<1>8. CASE entries[i].key # NULL
  <2> DEFINE c == 2 * capacity
             k == entries[i].key
             d == entries[i].data
             p == Probe(new_entries, c, k)
             new == WithEntry(new_entries, c, k, d)
  <2>1. k \in Keys /\ d \in Data \cup {NULL} /\ entries[i] = [key |-> k, data |-> d]
    BY <1>2, <1>8 DEF Entry
  <2>2. c \in Nat \ {0} /\ new_entries \in Table(c) /\ WellPlaced(new_entries, c)
    BY <1>1, ExpandFacts
  <2>3. SearchEnds(new_entries, c, k)
    BY <1>1, <2>1, ExpandFacts
  <2>4. new_entries' = new /\ new_length' = LengthWith(new_entries, c, k, new_length)
    BY <1>8 DEF ExpandEntry
  <2>5. ~Holds(new_entries, c, k)
    <3>1. p \in DOMAIN new_entries
      BY <2>1, <2>2, <2>3, ProbeFacts DEF Table
    <3> QED BY <3>1, <1>1, <1>8, ExpandFacts DEF MovesOnce, Holds
  <2>6. p \notin Occupied(new_entries)
    BY <2>1, <2>2, <2>3, <2>5, HoldsFacts
  <2>7. /\ new \in Table(c)
        /\ WellPlaced(new, c)
        /\ Occupied(new) = Occupied(new_entries) \cup {p}
        /\ new[p] = entries[i]
        /\ \A j \in Indices(c) \ {p} : new[j] = new_entries[j]
        /\ p \in Indices(c)
    BY <2>1, <2>2, <2>3, WithEntryFacts, ProbeFacts
  <2>8. new_length \in Nat /\ new_length = Cardinality(Occupied(new_entries))
        /\ new_length = Cardinality(Seen)
    BY <1>1 DEF IInv, TypeOK, HalfMoved
  <2>9. new_length' = Cardinality(Occupied(new))
    <3> HIDE DEF c, k, d
    <3>1. new_length \in Nat /\ new_length = Cardinality(Occupied(new_entries))
      BY <2>8
    <3>2. LengthWith(new_entries, c, k, new_length) = Cardinality(Occupied(new))
      BY <2>1, <2>2, <2>3, <3>1, WithEntryLength
    <3> QED BY <3>2, <2>4
  <2>10. new_length' = Cardinality(Seen')
    <3>1. Cardinality(Seen \cup {i}) = Cardinality(Seen) + 1
      BY <1>4, FS_AddElement
    <3> QED BY <3>1, <2>4, <2>5, <2>8, <1>5, <1>8 DEF LengthWith
  <2>11. new_length' \in Nat
    BY <2>4, <2>8 DEF LengthWith
  <2>12. TypeOK'
    BY <1>1, <1>6, <2>4, <2>7, <2>11 DEF IInv, TypeOK, Indices, Table
  <2>13. \A j \in Seen' : \E m \in Indices(c) : new[m] = entries[j]
    <3> SUFFICES ASSUME NEW j \in Seen, j # i
                 PROVE  \E m \in Indices(c) : new[m] = entries[j]
      BY <1>5, <1>8, <2>7
    <3>1. PICK m \in Indices(c) : new_entries[m] = entries[j]
      BY <1>1 DEF IInv, HalfMoved
    <3>2. m \in Occupied(new_entries)
      BY <3>1, <2>2 DEF Occupied, Table, Seen
    <3> QED BY <3>1, <3>2, <2>6, <2>7
  <2>14. \A m \in Occupied(new) : \E j \in Seen' : new[m] = entries[j]
    <3> SUFFICES ASSUME NEW m \in Occupied(new), m # p
                 PROVE  \E j \in Seen' : new[m] = entries[j]
      BY <1>5, <1>8, <2>7
    <3>1. m \in Occupied(new_entries) /\ new[m] = new_entries[m]
      BY <2>2, <2>7 DEF Occupied, Table
    <3>2. \E j \in Seen : new_entries[m] = entries[j]
      BY <1>1, <3>1 DEF IInv, HalfMoved
    <3> QED BY <3>1, <3>2, <1>5
  <2>15. HalfMoved'
    <3>0. WellPlaced(new_entries', c) /\ capacity' = capacity
      BY <1>1, <2>4, <2>7
    <3>1. WellPlaced(new_entries, 2 * capacity)'
      BY <3>0 DEF WellPlaced, Indices, StopsFirst, Stops, Slot, Home
    <3>2. Occupied(new_entries)' = Occupied(new) /\ Indices(2 * capacity)' = Indices(c)
      BY <1>1, <2>4 DEF Occupied, Indices
    <3> HIDE DEF new, c
    <3> QED BY <3>1, <3>2, <1>1, <2>4, <2>9, <2>10, <2>13, <2>14 DEF HalfMoved
  <2> QED BY <1>1, <1>3, <2>12, <2>15 DEF IInv
<1> QED BY <1>7, <1>8

(* When all entries are moved, the new array represents what the old one    *)
(* does, and is less than half full.                                        *)
LEMMA MovedFacts ==
  ASSUME IInv, pc = "expand", i = capacity
  PROVE  /\ ContentsOf(new_entries) = ContentsOf(entries)
         /\ new_length < (2 * capacity) \div 2
         /\ new_length = Cardinality(Occupied(new_entries))
<1>1. Seen = Occupied(entries)
  BY DEF IInv, TypeOK, Seen, Occupied, Indices
<1>2. UniqueKeys(entries) /\ UniqueKeys(new_entries)
  BY TableFacts, ExpandFacts, WellPlacedFacts
<1>3. \A j \in Occupied(entries) : \E m \in Occupied(new_entries) : new_entries[m] = entries[j]
  <2> SUFFICES ASSUME NEW j \in Occupied(entries)
               PROVE  \E m \in Occupied(new_entries) : new_entries[m] = entries[j]
    OBVIOUS
  <2>1. PICK m \in Indices(2 * capacity) : new_entries[m] = entries[j]
    BY <1>1 DEF IInv, HalfMoved
  <2> QED BY <2>1, ExpandFacts DEF Occupied, Table
<1>4. \A m \in Occupied(new_entries) : \E j \in Occupied(entries) : new_entries[m] = entries[j]
  BY <1>1 DEF IInv, HalfMoved
<1>5. ContentsOf(new_entries) = ContentsOf(entries)
  BY <1>2, <1>3, <1>4, SameContents
<1>6. /\ new_length = length /\ length <= capacity \div 2
      /\ new_length = Cardinality(Occupied(new_entries))
  BY <1>1 DEF IInv, HalfMoved, LengthCounts
<1>7. new_length < (2 * capacity) \div 2
  BY <1>6 DEF IInv, TypeOK
<1> QED BY <1>5, <1>6, <1>7

(* The new array becomes the map's. *)
LEMMA DoneStep ==
  ASSUME IInv, ExpandDone
  PROVE  IInv'
<1>1. /\ pc = "expand" /\ i = capacity /\ pc' = "insert"
      /\ entries' = new_entries /\ capacity' = 2 * capacity /\ length' = new_length
      /\ new_entries' = NoEntries /\ new_length' = 0 /\ i' = 0
      /\ UNCHANGED <<key, value, data, contained>>
  BY DEF ExpandDone, answers
<1>2. /\ 2 * capacity \in Nat \ {0}
      /\ new_entries \in Table(2 * capacity)
      /\ WellPlaced(new_entries, 2 * capacity)
  BY <1>1, ExpandFacts
<1>3. TypeOK'
  <2>1. new_entries' \in [{} -> Entry]
    BY <1>1 DEF NoEntries
  <2>2. entries' \in [Indices(capacity)' -> Entry]
    BY <1>1, <1>2 DEF Table, Indices
  <2>3. i' \in 0..capacity'
    BY <1>1, <1>2
  <2> QED BY <1>1, <1>2, <2>1, <2>2, <2>3 DEF IInv, TypeOK
<1>4. WellPlaced(entries, capacity)'
  BY <1>1, <1>2 DEF WellPlaced, Indices, StopsFirst, Stops, Slot, Home
<1>5. Occupied(entries)' = Occupied(new_entries)
  BY <1>1 DEF Occupied
<1>6. /\ new_length < (2 * capacity) \div 2
      /\ new_length = Cardinality(Occupied(new_entries))
  BY <1>1, MovedFacts
<1>7. LengthCounts' /\ (length < capacity \div 2)'
  BY <1>1, <1>2, <1>3, <1>5, <1>6 DEF LengthCounts, TypeOK
<1> QED BY <1>1, <1>3, <1>4, <1>7 DEF IInv, HalfMoved

(* map_set enters the entry. *)
LEMMA SetStep ==
  ASSUME IInv, SetEntry
  PROVE  IInv'
<1>1. /\ pc = "insert" /\ pc' = "ready"
      /\ entries' = WithEntry(entries, capacity, key, value)
      /\ length' = LengthWith(entries, capacity, key, length)
      /\ key' = NULL /\ value' = NULL
      /\ UNCHANGED <<capacity, new_entries, new_length, i, data, contained>>
  BY DEF SetEntry, Return, expanding
<1>2. key \in Keys /\ value \in Data \cup {NULL} /\ length \in Nat
  BY <1>1 DEF IInv, TypeOK
<1>3. /\ capacity \in Nat \ {0} /\ entries \in Table(capacity)
      /\ WellPlaced(entries, capacity) /\ SearchEnds(entries, capacity, key)
  BY <1>2, TableFacts DEF IInv
<1>4. /\ entries' \in Table(capacity)
      /\ WellPlaced(entries', capacity)
      /\ length' = Cardinality(Occupied(entries'))
  <2> DEFINE new == WithEntry(entries, capacity, key, value)
  <2>1. new \in Table(capacity) /\ WellPlaced(new, capacity)
    BY <1>2, <1>3, WithEntryFacts
  <2>2. LengthWith(entries, capacity, key, length) = Cardinality(Occupied(new))
    BY <1>2, <1>3, TableFacts, WithEntryLength
  <2>3. entries' = new
    BY <1>1
  <2> HIDE DEF new
  <2> QED BY <2>1, <2>2, <2>3, <1>1, <1>2
<1>5. length' \in Nat /\ length' <= length + 1
  BY <1>1, <1>2 DEF LengthWith
<1>6. length' <= capacity \div 2
  BY <1>1, <1>2, <1>3, <1>5 DEF IInv
<1>7. TypeOK'
  BY <1>1, <1>4, <1>5 DEF IInv, TypeOK, Table, Indices
<1>8. WellPlaced(entries, capacity)'
  <2>1. WellPlaced(entries', capacity) /\ capacity' = capacity
    BY <1>1, <1>4
  <2> QED BY <2>1 DEF WellPlaced, Indices, StopsFirst, Stops, Slot, Home
<1>9. LengthCounts'
  BY <1>1, <1>4, <1>6 DEF LengthCounts, Occupied
<1> QED BY <1>1, <1>7, <1>8, <1>9 DEF IInv, HalfMoved

(* Every step preserves the invariant. *)
LEMMA NextIInv == IInv /\ [Next]_vars => IInv'
<1> SUFFICES ASSUME IInv, [Next]_vars PROVE IInv'
  OBVIOUS
<1>1. CASE Next
  BY <1>1, CallStep, AllocateStep, FailStep, EntryStep, DoneStep, SetStep DEF Next
<1>2. CASE UNCHANGED vars
  <2>1. TypeOK'
    BY <1>2 DEF IInv, TypeOK, vars, table, setting, expanding, answers, Indices
  <2> QED BY <1>2, <2>1, UnchangedArrays DEF IInv, vars, setting
<1> QED BY <1>1, <1>2

-----------------------------------------------------------------------------
(* In every reachable state the arrays are as map_get and map_set expect. *)
THEOREM HashMapInvariant == Spec => []IInv
<1> QED BY InitIInv, NextIInv, PTL DEF Spec

(* Type correctness of the hash map. *)
THEOREM HashMapTypeOK == Spec => []TypeOK
<1>1. IInv => TypeOK
  BY DEF IInv
<1> QED BY <1>1, HashMapInvariant, PTL

(* No search runs round a full array for ever. *)
THEOREM SearchesEnd == Spec => []ProbesEnd
<1>1. IInv => ProbesEnd
  BY TableFacts, ExpandFacts DEF ProbesEnd, SearchEnds
<1> QED BY <1>1, HashMapInvariant, PTL

(* The length map_set decides by is the number of entries, and the array is *)
(* never more than half full.                                               *)
THEOREM LengthIsCount == Spec => []LengthCounts
<1>1. IInv => LengthCounts
  BY DEF IInv
<1> QED BY <1>1, HashMapInvariant, PTL

(* map_expand never comes upon a key it has moved. *)
THEOREM KeyMovedOnce == Spec => []MovesOnce
<1>1. IInv => MovesOnce
  BY ExpandFacts DEF MovesOnce
<1> QED BY <1>1, HashMapInvariant, PTL

-----------------------------------------------------------------------------
(* The empty array represents the empty function. *)
LEMMA InitAbstract == Init => Abstract!Init
<1> SUFFICES ASSUME Init PROVE Abstract!Init
  OBVIOUS
<1>1. Occupied(entries) = {}
  BY DEF Init, Occupied, Indices, FreeEntry
<1>2. Contents = [k \in {} |-> NULL]
  BY <1>1 DEF Contents, ContentsOf
<1> QED BY <1>2 DEF Init, Abstract!Init

(* A lookup answers from the partial function. *)
LEMMA LookupAbstract ==
  ASSUME IInv, NEW k \in Keys
  PROVE  /\ Holds(entries, capacity, k) <=> k \in DOMAIN Contents
         /\ k \in DOMAIN Contents =>
              entries[Probe(entries, capacity, k)].data = Contents[k]
<1>1. /\ capacity \in Nat \ {0} /\ entries \in Table(capacity)
      /\ WellPlaced(entries, capacity) /\ SearchEnds(entries, capacity, k)
      /\ UniqueKeys(entries)
  BY TableFacts DEF IInv
<1>2. /\ DOMAIN Contents = {entries[n].key : n \in Occupied(entries)}
      /\ \A j \in Occupied(entries) : Contents[entries[j].key] = entries[j].data
  BY <1>1, ContentsFacts DEF Contents
<1>3. CASE Holds(entries, capacity, k)
  <2>1. Probe(entries, capacity, k) \in Occupied(entries)
    BY <1>1, <1>3, HoldsFacts
  <2>2. entries[Probe(entries, capacity, k)].key = k
    BY <1>3 DEF Holds
  <2> QED BY <1>2, <1>3, <2>1, <2>2
<1>4. CASE ~Holds(entries, capacity, k)
  <2>1. \A j \in Occupied(entries) : entries[j].key # k
    BY <1>1, <1>4, HoldsFacts
  <2> QED BY <1>2, <1>4, <2>1
<1> QED BY <1>3, <1>4

(* Every step of the hash map is a step of the partial function, or none.   *)
LEMMA NextAbstract == IInv /\ [Next]_vars => [Abstract!Next]_(Abstract!vars)
<1> SUFFICES ASSUME IInv, [Next]_vars
             PROVE  Abstract!Next \/ UNCHANGED <<Contents, data, contained, last>>
  BY DEF Abstract!vars
<1>1. entries' = entries => Contents' = Contents
  BY DEF Contents
<1>2. ASSUME NEW k \in Keys, MapGet(k)
      PROVE  Abstract!Get(k)
  BY <1>1, <1>2, LookupAbstract DEF MapGet, Abstract!Get, table
<1>3. ASSUME NEW k \in Keys, MapContains(k)
      PROVE  Abstract!Contains(k)
  <2>1. Holds(entries, capacity, k) = (k \in DOMAIN Contents)
    BY LookupAbstract DEF Holds
  <2> QED BY <1>1, <1>3, <2>1 DEF MapContains, Abstract!Contains, table
<1>4. ASSUME NEW k \in Keys, NEW d \in Data, MapSet(k, d)
      PROVE  UNCHANGED <<Contents, data, contained, last>>
  BY <1>1, <1>4 DEF MapSet, table, answers
<1>5. ASSUME ExpandFails \/ SetFails
      PROVE  Abstract!SetFails(key, value) /\ key \in Keys /\ value \in Data
  BY <1>1, <1>5 DEF ExpandFails, SetFails, Return, table, Abstract!SetFails, IInv, TypeOK
<1>6. ASSUME ExpandAllocate \/ ExpandEntry
      PROVE  UNCHANGED <<Contents, data, contained, last>>
  BY <1>1, <1>6 DEF ExpandAllocate, ExpandEntry, table, answers
<1>7. ASSUME ExpandDone
      PROVE  UNCHANGED <<Contents, data, contained, last>>
  BY <1>7, MovedFacts DEF ExpandDone, answers, Contents
<1>8. ASSUME SetEntry
      PROVE  Abstract!Set(key, value) /\ key \in Keys /\ value \in Data
  <2>1. key \in Keys /\ value \in Data
    BY <1>8 DEF SetEntry, IInv, TypeOK
  <2>2. Contents' = [j \in DOMAIN Contents \cup {key} |->
                       IF j = key THEN value ELSE Contents[j]]
    <3>1. entries' = WithEntry(entries, capacity, key, value)
      BY <1>8 DEF SetEntry
    <3>2. /\ capacity \in Nat \ {0} /\ entries \in Table(capacity)
          /\ WellPlaced(entries, capacity) /\ SearchEnds(entries, capacity, key)
      BY <2>1, TableFacts DEF IInv
    <3>3. ContentsOf(WithEntry(entries, capacity, key, value))
            = [j \in DOMAIN ContentsOf(entries) \cup {key} |->
                 IF j = key THEN value ELSE ContentsOf(entries)[j]]
      BY <2>1, <3>2, WithEntryContents
    <3> QED BY <3>1, <3>3 DEF Contents
  <2> QED BY <1>8, <2>1, <2>2 DEF SetEntry, Return, Abstract!Set
<1>9. CASE UNCHANGED vars
  BY <1>1, <1>9 DEF vars, table, answers
<1>10. CASE Next
  BY <1>10, <1>2, <1>3, <1>4, <1>5, <1>6, <1>7, <1>8 DEF Next, Abstract!Next
<1> QED BY <1>9, <1>10

(* The hash map implements the partial function of PartialMap. *)
THEOREM Refinement == Spec => Implements
<1> QED BY InitAbstract, HashMapInvariant, NextAbstract, PTL
        DEF Spec, Implements, Abstract!Spec
=============================================================================
