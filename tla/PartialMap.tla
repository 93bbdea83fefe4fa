----------------------------- MODULE PartialMap -----------------------------
(***************************************************************************)
(* What the hash map of util/map.h promises its callers (topological_sort,  *)
(* the optimizers and the graph printer): a partial function from keys to   *)
(* pointers.  A key is never removed; a lookup that misses leaves the       *)
(* caller's variable as it was.                                             *)
(***************************************************************************)
CONSTANTS
  Keys,           (* the strings used as keys                              *)
  Data,           (* the pointers stored                                   *)
  NULL            (* what the caller's variable holds at first             *)

VARIABLES
  contents,       (* the partial function                                  *)
  data,           (* the caller's variable that map_get assigns            *)
  contained,      (* the last answer of map_contains                       *)
  last            (* the last call that returned, with its arguments       *)

vars == <<contents, data, contained, last>>

Init ==
  /\ contents = [k \in {} |-> NULL]
  /\ data = NULL
  /\ contained = FALSE
  /\ last = <<>>

Set(k, d) ==
  /\ contents' = [j \in DOMAIN contents \cup {k} |-> IF j = k THEN d ELSE contents[j]]
  /\ last' = <<"set", k, d>>
  /\ UNCHANGED <<data, contained>>

(* A call of map_set that returns an error. *)
SetFails(k, d) ==
  /\ last' = <<"failed", k, d>>
  /\ UNCHANGED <<contents, data, contained>>

Get(k) ==
  /\ data' = IF k \in DOMAIN contents THEN contents[k] ELSE data
  /\ last' = <<"get", k>>
  /\ UNCHANGED <<contents, contained>>

Contains(k) ==
  /\ contained' = (k \in DOMAIN contents)
  /\ last' = <<"contains", k>>
  /\ UNCHANGED <<contents, data>>

Next == \E k \in Keys : Get(k) \/ Contains(k) \/ \E d \in Data : Set(k, d) \/ SetFails(k, d)

Spec == Init /\ [][Next]_vars
=============================================================================
