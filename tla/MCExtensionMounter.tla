-------------------------- MODULE MCExtensionMounter --------------------------
(* ExtensionMounter on two extensions, one of which may be removed. *)
EXTENDS ExtensionMounter, TLC

CONSTANTS a, b

MCSubject == {a, b}
MCRemovable == {a}
=============================================================================
