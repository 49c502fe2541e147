-------------------------- MODULE MCSharedFetchCache --------------------------
(* SharedFetchCache on a key with an alias, and callers that take data as it *)
(* comes or keep it for a tick; beside it a request of the protocol whose    *)
(* GETs go through such a cache, with a global and an own plugin.  The two   *)
(* share no state, and one of them runs at a time.                           *)
EXTENDS SharedFetchCache, RestRequests, TLC

CONSTANTS k, l, m, global, instance

MCKey       == {k, l}
MCAlias     == {m}
MCStaleTime == {0, 1}
MCPlugin    == {global, instance}
MCOwn       == {instance}

ApiInit == Init /\ RestInit

ApiNext ==
  \/ /\ Next
     /\ attempts = <<>> /\ outcome = "none" /\ changes = 0
     /\ UNCHANGED rvars
  \/ /\ RestNext
     /\ called = 0
     /\ UNCHANGED vars

\* A request that has settled is over.
Over == attempts = <<>> /\ outcome # "none" /\ UNCHANGED <<vars, rvars>>

ApiSpec == ApiInit /\ [][ApiNext \/ Over]_<<vars, rvars>>

\* The request alone.
RestOnly ==
  /\ ApiInit
  /\ [][(RestNext /\ UNCHANGED vars) \/ Over]_<<vars, rvars>>
  /\ WF_<<vars, rvars>>(Proceeds /\ UNCHANGED vars)
=============================================================================
