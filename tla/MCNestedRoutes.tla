---------------------------- MODULE MCNestedRoutes ----------------------------
(* NestedRoutes on a shell, a nested registry and one nested in it, which      *)
(* registers one domain.                                                       *)
EXTENDS NestedRoutes, TLC

CONSTANTS shell, mid, leaf, deep

MCParent     == mid :> shell @@ leaf :> mid
MCHolder     == deep :> {leaf}
MCMaxBridges == mid :> 1 @@ leaf :> 1
===============================================================================
