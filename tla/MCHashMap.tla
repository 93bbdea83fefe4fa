----------------------------- MODULE MCHashMap -----------------------------
(* A hash function for HashMap in which keys collide, and a chain of        *)
(* occupied slots runs over the end of the array at every capacity.         *)
EXTENDS HashMap, TLC

CONSTANTS k1, k2, k3, k4

CollidingHash == (k1 :> 7) @@ (k2 :> 7) @@ (k3 :> 3) @@ (k4 :> 8)
=============================================================================
