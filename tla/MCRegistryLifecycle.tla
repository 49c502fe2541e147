------------------------- MODULE MCRegistryLifecycle -------------------------
(* RegistryLifecycle on a domain and two extensions, or on two domains and one. *)
EXTENDS RegistryLifecycle, TLC

CONSTANTS d, e, x, y

MCDomain    == {d}
MCDomains   == {d, e}
MCExtension == {x, y}
MCSingle    == {x}
=============================================================================
