------------------------------ MODULE HashMap ------------------------------
(***************************************************************************)
(* The hash map of util/map.c: open addressing with linear probing in an    *)
(* array that doubles when it is half full.                                 *)
(*                                                                         *)
(* map_expand moves one old entry per step, so that the table being filled  *)
(* can be looked at while it is not yet the map's.  A search along the      *)
(* array is one step; that it ends is the invariant ProbesEnd.              *)
(***************************************************************************)
EXTENDS Naturals, FiniteSets

CONSTANTS
  Keys,             (* the strings used as keys                            *)
  Data,             (* the pointers stored                                 *)
  NULL,             (* the null pointer: the key of a free slot            *)
  Hash,             (* map_hash_key                                        *)
  InitialCapacity,  (* INITIAL_CAPACITY                                    *)
  MallocMayFail,    (* whether an allocation may fail                      *)
  MaxCapacity       (* bound: a larger array cannot be had                 *)

ASSUME NullAssumption == NULL \notin Keys
ASSUME HashAssumption == Hash \in [Keys -> Nat]
ASSUME CapacityAssumption == InitialCapacity \in Nat \ {0}
ASSUME MallocAssumption == MallocMayFail \in BOOLEAN
ASSUME MaxCapacityAssumption == MaxCapacity \in Nat

VARIABLES
  capacity,         (* map->capacity                                       *)
  entries,          (* map->entries                                        *)
  length,           (* map->length                                         *)
  pc,               (* what map_set does next, if it runs                  *)
  key, value,       (* its arguments key and data                          *)
  new_entries,      (* map_expand: the array it fills,                     *)
  new_length,       (*   the entries in it                                 *)
  i,                (*   and the old entry it moves next                   *)
  data,             (* the caller's variable that map_get assigns          *)
  contained,        (* the last answer of map_contains                     *)
  last              (* history: the last call that returned                *)

table == <<capacity, entries, length>>
setting == <<pc, key, value>>
expanding == <<new_entries, new_length, i>>
answers == <<data, contained, last>>
vars == <<table, setting, expanding, answers>>

Indices(c) == 0..(c - 1)

FreeEntry == [key |-> NULL, data |-> NULL]

NoEntries == [n \in {} |-> FreeEntry]

Init ==
  /\ capacity = InitialCapacity
  /\ entries = [n \in Indices(InitialCapacity) |-> FreeEntry]
  /\ length = 0
  /\ pc = "ready"
  /\ key = NULL
  /\ value = NULL
  /\ new_entries = NoEntries
  /\ new_length = 0
  /\ i = 0
  /\ data = NULL
  /\ contained = FALSE
  /\ last = <<>>

-----------------------------------------------------------------------------
(* The search for a key *)

(* hash & (capacity - 1), the capacity being a power of two. *)
Home(k, c) == Hash[k] % c

(* The slot n places further, going on from the start after the last. *)
Slot(k, n, c) == IF Home(k, c) + n < c THEN Home(k, c) + n ELSE Home(k, c) + n - c

(* A mutant of the search that takes the first free slot, without a look at *)
(* the keys in between.                                                     *)
StopsAtFree(es, c, k, n) == es[Slot(k, n, c)].key = NULL

(* The loop stops at a free slot or at the key. *)
Stops(es, c, k, n) == es[Slot(k, n, c)].key \in {NULL, k}

(* It stops after n steps, and not before. *)
StopsFirst(es, c, k, n) ==
  /\ n \in Indices(c)
  /\ Stops(es, c, k, n)
  /\ \A m \in 0..(n - 1) : ~Stops(es, c, k, m)

(* The index at which the loop stops. *)
Probe(es, c, k) == Slot(k, CHOOSE n \in Indices(c) : StopsFirst(es, c, k, n), c)

Holds(es, c, k) == es[Probe(es, c, k)].key = k

(* map_set_entry: the array, and the length, it leaves. *)
WithEntry(es, c, k, d) == [es EXCEPT ![Probe(es, c, k)] = [key |-> k, data |-> d]]

(* A mutant of map_set_entry that counts an overwritten entry again. *)
LengthAlways(es, c, k, n) == n + 1

LengthWith(es, c, k, n) == IF Holds(es, c, k) THEN n ELSE n + 1

-----------------------------------------------------------------------------
(* The operations *)

MapGet(k) ==
  /\ pc = "ready"
  /\ data' = IF Holds(entries, capacity, k) THEN entries[Probe(entries, capacity, k)].data ELSE data
  /\ last' = <<"get", k>>
  /\ UNCHANGED <<table, setting, expanding, contained>>

MapContains(k) ==
  /\ pc = "ready"
  /\ contained' = Holds(entries, capacity, k)
  /\ last' = <<"contains", k>>
  /\ UNCHANGED <<table, setting, expanding, data>>

(* A mutant of map_set that only expands a full map. *)
MustExpandLate == length >= capacity

MustExpand == length >= capacity \div 2

(* map_set(map, k, d), up to its test of the load. *)
MapSet(k, d) ==
  /\ pc = "ready"
  /\ key' = k
  /\ value' = d
  /\ pc' = IF MustExpand THEN "allocate" ELSE "insert"
  /\ UNCHANGED <<table, expanding, answers>>

(* map_set returns. *)
Return(outcome) ==
  /\ pc' = "ready"
  /\ key' = NULL
  /\ value' = NULL
  /\ last' = <<outcome, key, value>>
  /\ UNCHANGED <<data, contained>>

(* map_expand allocates the new array and marks all its slots free. *)
ExpandAllocate ==
  /\ pc = "allocate"
  /\ 2 * capacity <= MaxCapacity
  /\ pc' = "expand"
  /\ new_entries' = [n \in Indices(2 * capacity) |-> FreeEntry]
  /\ UNCHANGED <<table, key, value, new_length, i, answers>>

(* The capacity cannot be doubled, or there is no memory for it. *)
ExpandFails ==
  /\ pc = "allocate"
  /\ MallocMayFail \/ 2 * capacity > MaxCapacity
  /\ Return("failed")
  /\ UNCHANGED <<table, expanding>>

(* map_expand looks at one old entry and enters it in the new array. *)
ExpandEntry ==
  /\ pc = "expand"
  /\ i < capacity
  /\ i' = i + 1
  /\ LET e == entries[i]
     IN  IF e.key = NULL
         THEN UNCHANGED <<new_entries, new_length>>
         ELSE /\ new_entries' = WithEntry(new_entries, 2 * capacity, e.key, e.data)
              /\ new_length' = LengthWith(new_entries, 2 * capacity, e.key, new_length)
  /\ UNCHANGED <<table, setting, answers>>

(* A mutant of map_expand that keeps the old capacity. *)
ExpandDoneCapacity ==
  /\ pc = "expand"
  /\ i = capacity
  /\ entries' = new_entries
  /\ length' = new_length
  /\ pc' = "insert"
  /\ new_entries' = NoEntries
  /\ new_length' = 0
  /\ i' = 0
  /\ UNCHANGED <<capacity, key, value, answers>>

(* The new array becomes the map's. *)
ExpandDone ==
  /\ pc = "expand"
  /\ i = capacity
  /\ entries' = new_entries
  /\ capacity' = 2 * capacity
  /\ length' = new_length
  /\ pc' = "insert"
  /\ new_entries' = NoEntries
  /\ new_length' = 0
  /\ i' = 0
  /\ UNCHANGED <<key, value, answers>>

(* map_set enters a copy of the key. *)
SetEntry ==
  /\ pc = "insert"
  /\ entries' = WithEntry(entries, capacity, key, value)
  /\ length' = LengthWith(entries, capacity, key, length)
  /\ Return("set")
  /\ UNCHANGED <<capacity, expanding>>

(* There is no memory for the copy of the key. *)
SetFails ==
  /\ pc = "insert"
  /\ MallocMayFail
  /\ Return("failed")
  /\ UNCHANGED <<table, expanding>>

Next ==
  \/ \E k \in Keys : MapGet(k) \/ MapContains(k) \/ \E d \in Data : MapSet(k, d)
  \/ ExpandAllocate \/ ExpandFails \/ ExpandEntry \/ ExpandDone
  \/ SetEntry \/ SetFails

Spec == Init /\ [][Next]_vars

-----------------------------------------------------------------------------
(* Properties *)

Entry == [key : Keys \cup {NULL}, data : Data \cup {NULL}]

TypeOK ==
  /\ capacity \in Nat \ {0}
  /\ entries \in [Indices(capacity) -> Entry]
  /\ length \in Nat
  /\ pc \in {"ready", "allocate", "expand", "insert"}
  /\ key \in Keys \cup {NULL}
  /\ value \in Data \cup {NULL}
  /\ pc # "ready" => key \in Keys /\ value \in Data
  /\ new_entries \in [IF pc = "expand" THEN Indices(2 * capacity) ELSE {} -> Entry]
  /\ new_length \in Nat
  /\ i \in 0..capacity
  /\ data \in Data \cup {NULL}
  /\ contained \in BOOLEAN

(* Every search comes to an end, in the map's array and in the one that is  *)
(* being filled: no key could send map_get, map_contains or map_set_entry   *)
(* round a full array for ever.                                             *)
ProbesEnd ==
  \A k \in Keys :
    /\ \E n \in Indices(capacity) : Stops(entries, capacity, k, n)
    /\ pc = "expand" => \E n \in Indices(2 * capacity) : Stops(new_entries, 2 * capacity, k, n)

Occupied(es) == {n \in DOMAIN es : es[n].key # NULL}

(* The length the map keeps, by which it decides to grow, is the number of  *)
(* its entries, through every overwrite and expansion, failed ones included; *)
(* and it never exceeds half the capacity between calls.                    *)
LengthCounts ==
  /\ length = Cardinality(Occupied(entries))
  /\ length <= capacity \div 2

(* map_expand never finds the key it moves in the new array: the branch of  *)
(* map_set_entry that frees its key would free a key still in use.          *)
MovesOnce ==
  pc = "expand" /\ i < capacity /\ entries[i].key # NULL =>
    \A n \in DOMAIN new_entries : new_entries[n].key # entries[i].key

(* The partial function an array represents. *)
ContentsOf(es) ==
  [k \in {es[n].key : n \in Occupied(es)} |->
     es[CHOOSE n \in Occupied(es) : es[n].key = k].data]

Contents == ContentsOf(entries)

Abstract == INSTANCE PartialMap WITH contents <- Contents

(* The hash map implements the partial function: a lookup answers from the  *)
(* last value set for its key, across collisions, wrap-around and           *)
(* expansions, and neither an expansion nor a failed call changes a thing.  *)
Implements == Abstract!Spec
=============================================================================
