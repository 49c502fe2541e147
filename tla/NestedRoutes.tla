----------------------------- MODULE NestedRoutes -----------------------------
(***************************************************************************)
(* Registries nested in each other (the propagation, retraction and        *)
(* relinking parts of DefaultMfeRegistry, DefaultMountManager, the two     *)
(* bridge implementations and inbound-bridge-link).                        *)
(*                                                                         *)
(* Every registry but the shell is built by the runtime of a host          *)
(* extension, registered in the parent registry, inside that extension's   *)
(* first mount window, and once only: this is the contract of nested       *)
(* runtimes that FEATURE.md states and the package does not enforce.  A    *)
(* registry and its host extension go by one name here.                    *)
(*                                                                         *)
(* A bridge pair is created at the host's first mount after each           *)
(* registration; <<r, g>> is the one created for the g-th registration of  *)
(* the host of r, and the link minted for it is live as long as it is kept.*)
(* A call through a link runs up all ancestors before it returns, so it is *)
(* one step, and what it changes is described by the ancestors it reaches. *)
(***************************************************************************)
EXTENDS Integers, FiniteSets

CONSTANTS Registry, Shell, \* registries; the outermost one
          Parent,          \* Parent[r]: where the host extension of r is registered
          Target,          \* ids of domains, in whatever registry they are registered
          Holder,          \* Holder[t]: the registries whose program registers t
          Standing,        \* domains the shell registers at its start and keeps
          Disposable,      \* registries whose program disposes them
          MaxBridges       \* bound: MaxBridges[r] registrations of the host of r

Nested  == Registry \ {Shell}
NoRoute == <<"no bridge", 0>>

\* From every registry the way up its parents ends at the shell.
ASSUME TreeAssumption ==
  /\ Shell \in Registry /\ Parent \in [Nested -> Registry]
  /\ \A S \in SUBSET Nested : S # {} => \E r \in S : Parent[r] \notin S

ASSUME BoundsAssumption == MaxBridges \in [Nested -> Nat] /\ Standing \subseteq Target

VARIABLES
  built,      \* the registries that exist
  disposal,   \* disposal[r]: "none", "begun" or "done"
  host,       \* host[r]: "absent", "idle" or "mounted", the host extension of r
  minted,     \* minted[r]: number of bridges created for the host of r
  bridge,     \* bridge[r]: the generation of the bridge pair kept, 0 if there is none
  link,       \* link[r]: the generation of the link r holds, 0 if it holds none
  local,      \* local[r]: the targets whose state the extension manager of r holds
  keyed,      \* keyed[r]: the targets with handlers in the mediator of r
  advertisable, \* advertisable[r]: what r advertises when it is linked
  leaving,    \* leaving[r]: targets removed from local[r] by a call that goes on
  forwarding, \* forwarding[r][t]: the bridge t is forwarded down, or NoRoute
  propagated  \* propagated[r]: what r recorded as accepted by its parent

mounts == <<host, minted, bridge>>
own    == <<local, keyed, leaving>>
routes == <<link, advertisable, forwarding, propagated>>
nesting == <<built, disposal, mounts, own, routes>>

-----------------------------------------------------------------------------
\* The ancestors of r.
Up[r \in Registry] == IF r = Shell THEN {} ELSE {Parent[r]} \cup Up[Parent[r]]

\* From r upwards to the registry below its ancestor a.
PathTo(r, a) == {x \in {r} \cup Up[r] : a \in Up[x]}

Children(r) == {c \in Nested : Parent[c] = r}

\* The link r holds is not revoked: the bridge it was minted for is kept.
Linked(r)  == r # Shell /\ link[r] # 0 /\ link[r] = bridge[r]
LinkOf(r)  == <<r, link[r]>>

\* propagateAdvertisementUpward at x hands t over its link, and the parent
\* (admitAdvertisement) records it, or finds it recorded for this very bridge.
IsRecorded(x, t, prop) ==
  /\ Linked(x) /\ t \notin prop[x]
  /\ t \notin local[Parent[x]] /\ forwarding[Parent[x]][t] = NoRoute
IsRepeated(x, t, prop) ==
  Linked(x) /\ t \notin prop[x] /\ forwarding[Parent[x]][t] = LinkOf(x)

\* The ancestors that record t when r advertises it.
Recording(r, t, prop) ==
  {a \in Up[r] : \A x \in PathTo(r, a) : IsRecorded(x, t, prop)}

\* r advertises the targets T, with prop for what was propagated before.
Advertises(r, T, prop) ==
  /\ forwarding' = [a \in Registry |-> [t \in Target |->
       IF t \in T /\ a \in Recording(r, t, prop)
         THEN LinkOf(CHOOSE x \in PathTo(r, a) : Parent[x] = a)
         ELSE forwarding[a][t]]]
  /\ propagated' = [x \in Registry |-> prop[x] \cup
       {t \in T : /\ x = r \/ x \in Recording(r, t, prop)
                  /\ IsRecorded(x, t, prop) \/ IsRepeated(x, t, prop)}]

\* Fault: the parent drops its entry and tells nobody further up.
DroppingAtParent(r, t) ==
  {a \in Up[r] : Parent[r] = a /\ Linked(r) /\ forwarding[a][t] = LinkOf(r)}

\* The ancestors that drop t when r retracts it (retractForwardingEntry).
Dropping(r, t) ==
  {a \in Up[r] : \A x \in PathTo(r, a) :
                    Linked(x) /\ forwarding[Parent[x]][t] = LinkOf(x)}

\* For each t in T, the registries at[t] forget their forwarding entry.
Forgotten(T, at) ==
  [a \in Registry |-> [t \in Target |->
     IF t \in T /\ a \in at[t] THEN NoRoute ELSE forwarding[a][t]]]

-----------------------------------------------------------------------------
Init ==
  /\ built = {Shell}
  /\ disposal = [r \in Registry |-> "none"]
  /\ host = [r \in Nested |-> "absent"]
  /\ minted = [r \in Nested |-> 0]
  /\ bridge = [r \in Nested |-> 0]
  /\ link = [r \in Registry |-> 0]
  /\ local = [r \in Registry |-> IF r = Shell THEN Standing ELSE {}]
  /\ keyed = [r \in Registry |-> IF r = Shell THEN Standing ELSE {}]
  /\ advertisable = [r \in Registry |-> IF r = Shell THEN Standing ELSE {}]
  /\ leaving = [r \in Registry |-> {}]
  /\ forwarding = [r \in Registry |-> [t \in Target |-> NoRoute]]
  /\ propagated = [r \in Registry |-> {}]

\* The host extension of r is registered in the parent.
HostRegistered(r) ==
  /\ host[r] = "absent" /\ Parent[r] \in built
  /\ disposal[Parent[r]] # "done" /\ minted[r] < MaxBridges[r]
  /\ host' = [host EXCEPT ![r] = "idle"]
  /\ UNCHANGED <<built, disposal, minted, bridge, own, routes>>

\* The first mount after a registration creates the bridge and mints its link;
\* a registry built earlier is offered it, one built in the window adopts it.
\* Either way relinkInboundBridge starts from an empty record of what it sent.
FirstMount(r) ==
  /\ bridge[r] = 0
  /\ minted' = [minted EXCEPT ![r] = @ + 1]
  /\ bridge' = [bridge EXCEPT ![r] = minted'[r]]
  /\ link' = [link EXCEPT ![r] = minted'[r]]
  /\ built' = built \cup {r}

\* Relinked, r advertises all it holds: its own targets and those it forwards.
Held(r) == advertisable[r] \cup {t \in Target : forwarding[r][t] # NoRoute}

Relinks(r) ==
  LET p == Parent[r]
      \* the ancestors beyond the parent are reached through older links
      Up1(t) == IF t \in local[p] \/ forwarding[p][t] # NoRoute THEN {}
                ELSE {p} \cup Recording(p, t, propagated)
      below(t, a) == CHOOSE x \in PathTo(r, a) : Parent[x] = a
  IN /\ forwarding' = [a \in Registry |-> [t \in Target |->
          IF t \in Held(r) /\ a \in Up1(t)
            THEN <<below(t, a), IF a = p THEN minted'[r] ELSE link[below(t, a)]>>
            ELSE forwarding[a][t]]]
     /\ propagated' = [x \in Registry |->
          IF x = r THEN {t \in Held(r) : p \in Up1(t)}
          ELSE propagated[x] \cup
               {t \in Held(r) : /\ x \in Up1(t)
                                /\ \/ IsRecorded(x, t, propagated)
                                   \/ IsRepeated(x, t, propagated)}]

\* dispose() of the parent waits for the runs already started, whose mounts go on
\* to acquire their bridges.
HostMounts(r) ==
  /\ host[r] = "idle" /\ disposal[Parent[r]] # "done"
  /\ host' = [host EXCEPT ![r] = "mounted"]
  /\ \/ FirstMount(r) /\ Relinks(r)
     \/ bridge[r] # 0 /\ UNCHANGED <<built, minted, bridge, link, forwarding, propagated>>
  /\ UNCHANGED <<disposal, own, advertisable>>

\* The mount fails, or the extension is unmounted: the bridge is deactivated
\* and everything else stays.
HostUnmounts(r) ==
  /\ host[r] = "mounted"
  /\ host' = [host EXCEPT ![r] = "idle"]
  /\ UNCHANGED <<built, disposal, minted, bridge, own, routes>>

\* releaseExtension: the parent revokes the link, drops what came through the
\* bridge, here and further up, unlinks the registry and destroys the bridge.
HostUnregistered(r) ==
  LET p       == Parent[r]
      through == {t \in Target : bridge[r] # 0 /\ forwarding[p][t] = <<r, bridge[r]>>}
      at      == [t \in Target |-> {p} \cup Dropping(p, t)]
  IN /\ host[r] # "absent"
     /\ host' = [host EXCEPT ![r] = "absent"]
     /\ bridge' = [bridge EXCEPT ![r] = 0]
     /\ forwarding' = Forgotten(through, at)
     /\ link' = [link EXCEPT ![r] = 0]
     /\ propagated' = [propagated EXCEPT ![r] = {}]
     /\ UNCHANGED <<built, disposal, minted, own, advertisable>>

-----------------------------------------------------------------------------
\* registerDomain: admitted, its handlers registered or not, and advertised.
Admit(r, t, handled) ==
  /\ r \in built /\ r \in Holder[t] /\ disposal[r] = "none" /\ t \notin local[r]
  /\ local' = [local EXCEPT ![r] = @ \cup {t}]
  /\ keyed' = [keyed EXCEPT ![r] = IF handled THEN @ \cup {t} ELSE @]
  /\ advertisable' = [advertisable EXCEPT ![r] = @ \cup {t}]
  /\ Advertises(r, {t}, propagated)
  /\ UNCHANGED <<built, disposal, mounts, leaving, link>>

\* unregisterDomain: the manager removes the domain ...
Withdraw(r, t) ==
  /\ r \in Holder[t] /\ t \in local[r] /\ t \notin leaving[r]
  /\ local' = [local EXCEPT ![r] = @ \ {t}]
  /\ leaving' = [leaving EXCEPT ![r] = @ \cup {t}]
  /\ UNCHANGED <<built, disposal, mounts, keyed, routes>>

\* ... and after the await the registry removes its handlers and retracts it.
Retract(r, t) ==
  LET at   == [x \in Target |-> Dropping(r, x)]
      sent == {t} \cap propagated[r]
  IN /\ t \in leaving[r]
     /\ leaving' = [leaving EXCEPT ![r] = @ \ {t}]
     /\ keyed' = [keyed EXCEPT ![r] = @ \ {t}]
     /\ propagated' = [propagated EXCEPT ![r] = @ \ {t}]
     /\ forwarding' = Forgotten(sent, at)
     /\ advertisable' = [advertisable EXCEPT ![r] = @ \ {t}]
     /\ UNCHANGED <<built, disposal, mounts, local, link>>

\* dispose: refuses hand-overs and new domains at once, tears down when the
\* work in progress has settled.
DisposeBegins(r) ==
  /\ r \in Disposable \cap built /\ disposal[r] = "none"
  /\ disposal' = [disposal EXCEPT ![r] = "begun"]
  /\ UNCHANGED <<built, mounts, own, routes>>

DisposeEnds(r) ==
  LET at == [t \in Target |->
               {r} \cup IF t \in propagated[r] THEN Dropping(r, t) ELSE {}]
  IN /\ disposal[r] = "begun"
     /\ disposal' = [disposal EXCEPT ![r] = "done"]
     /\ forwarding' = Forgotten(Target, at)
     /\ advertisable' = [advertisable EXCEPT ![r] = {}]
     /\ local' = [local EXCEPT ![r] = {}]
     /\ host' = [x \in Nested |-> IF x \in Children(r) THEN "absent" ELSE host[x]]
     /\ bridge' = [x \in Nested |-> IF x \in Children(r) THEN 0 ELSE bridge[x]]
     /\ link' = [x \in Registry |-> IF x \in {r} \cup Children(r) THEN 0 ELSE link[x]]
     /\ propagated' = [x \in Registry |->
                         IF x \in {r} \cup Children(r) THEN {} ELSE propagated[x]]
     /\ UNCHANGED <<built, minted, keyed, leaving>>

NestingStep ==
  \/ \E r \in Nested : \/ HostRegistered(r) \/ HostMounts(r)
                       \/ HostUnmounts(r) \/ HostUnregistered(r)
  \/ \E r \in Registry : DisposeBegins(r) \/ DisposeEnds(r)
  \/ \E r \in Registry, t \in Target : \/ \E handled \in BOOLEAN : Admit(r, t, handled)
                                       \/ Withdraw(r, t) \/ Retract(r, t)

NestingSpec == Init /\ [][NestingStep]_nesting

-----------------------------------------------------------------------------
\* A forwarding entry leads, over the bridge its child registry holds a live
\* link to, to the target or to a further entry: none survives a retraction, a
\* release or a disposal below it.
RoutesLeadToTheTarget ==
  \A a \in Registry, t \in Target : forwarding[a][t] # NoRoute =>
    LET r == forwarding[a][t][1]
    IN /\ Parent[r] = a /\ forwarding[a][t] = <<r, bridge[r]>> /\ Linked(r)
       /\ \/ t \in local[r] \cup leaving[r]
          \/ forwarding[r][t] # NoRoute

\* Bridges and links are numbered, and an entry names a bridge.
RoutesTyped ==
  /\ minted \in [Nested -> Nat] /\ bridge \in [Nested -> Nat] /\ link \in [Registry -> Nat]
  /\ local \in [Registry -> SUBSET Target] /\ leaving \in [Registry -> SUBSET Target]
  /\ advertisable \in [Registry -> SUBSET Target] /\ propagated \in [Registry -> SUBSET Target]
  /\ forwarding \in [Registry -> [Target -> {NoRoute} \cup (Nested \X Nat)]]

\* A registry has what it advertises, until it retracts it.
AdvertisedInv == \A r \in Registry : advertisable[r] \subseteq local[r] \cup leaving[r]

\* It remembers whatever its parent forwards to it, so that it can retract it.
SentInv ==
  \A r \in Nested, t \in Target :
    forwarding[Parent[r]][t] # NoRoute /\ forwarding[Parent[r]][t][1] = r => t \in propagated[r]

\* The inductive invariant behind RoutesLeadToTheTarget.
RoutesInv == RoutesTyped /\ AdvertisedInv /\ SentInv /\ RoutesLeadToTheTarget

\* Once a domain is admitted by the only registry that registers it, and all
\* links up to the shell are live, every ancestor holds a forwarding entry for
\* it: registration-propagation in FEATURE.md, for registerDomain.
AdmissionReachesTheShell ==
  [][\A r \in Registry, t \in Target, handled \in BOOLEAN :
       Admit(r, t, handled) /\ Holder[t] = {r} /\ (\A x \in PathTo(r, Shell) : Linked(x))
         => \A a \in Up[r] : forwarding'[a][t] # NoRoute]_nesting
===============================================================================
