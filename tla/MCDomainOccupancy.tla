-------------------------- MODULE MCDomainOccupancy --------------------------
(* DomainOccupancy on two extensions. *)
EXTENDS DomainOccupancy, TLC

CONSTANTS a, b

MCSubject == {a, b}
MCRemovable == {a}
Interchangeable == Permutations(MCSubject)
=============================================================================
