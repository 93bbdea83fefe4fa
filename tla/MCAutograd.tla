----------------------------- MODULE MCAutograd -----------------------------
(* Values for the constants of Autograd that a configuration cannot write.  *)
EXTENDS Autograd

(* Parameters, and data that no gradient is taken of. *)
ParametersAndData == {<<TRUE, TRUE>>, <<FALSE, FALSE>>}

(* These, and data the program keeps over a backward pass or wants the   *)
(* gradient of for that pass only.                                          *)
AllLeaves == BOOLEAN \X BOOLEAN
=============================================================================
