-------------------------- MODULE MCConcurrentDomain --------------------------
(* ConcurrentDomain on two extensions, one of them removable. *)
EXTENDS ConcurrentDomain, TLC

CONSTANTS a, b

MCSubject == {a, b}
MCRemovable == {a}
MCSingle == {a}
=============================================================================
