--------------------------- MODULE MCOccupancyQueue ---------------------------
(* Instances of OccupancyQueue for TLC: two extensions contend for a domain. *)
EXTENDS OccupancyQueue

CONSTANTS a, b

MCSubject == {a, b}
=============================================================================
