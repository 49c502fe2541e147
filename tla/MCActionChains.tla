---------------------------- MODULE MCActionChains ----------------------------
(* ActionChains over a shell, a nested registry and one nested in it.  The     *)
(* chain starts from the shell or the leaf; root is for a target of the leaf,  *)
(* its next and its fallback are for one of the shell.                         *)
EXTENDS ActionChains, TLC

CONSTANTS shell, mid, leaf, deep, top, root, onward, instead

MCParent       == mid :> shell @@ leaf :> mid
MCHolder       == deep :> {leaf} @@ top :> {}
MCMaxBridges   == mid :> 2 @@ leaf :> 2
MCTargetOf     == root :> deep @@ onward :> top @@ instead :> top
MCNextOf       == root :> onward @@ onward :> NoNode @@ instead :> NoNode
MCFallbackOf   == root :> instead @@ onward :> NoNode @@ instead :> NoNode
MCDispatchedBy == root :> {shell, leaf} @@ onward :> {} @@ instead :> {}

\* The chain is one as it is read from a declared instance.
ASSUME DispatchedIsATree == ChainsAreTrees
===============================================================================
