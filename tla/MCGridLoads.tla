----------------------------- MODULE MCGridLoads -----------------------------
(* GridLoads as it is: its constants are numbers, given in the .cfg. *)
EXTENDS GridLoads
=============================================================================
