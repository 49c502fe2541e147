---------------------------- MODULE ExtensionMounter ----------------------------
(***************************************************************************)
(* What happens to one domain's extensions physically, whichever strategy  *)
(* asks for it: mounting into a fresh container (DefaultExtensionMounter,  *)
(* DefaultMountManager), releasing, which is unmounting and then running   *)
(* the container's registered destroy (ExtensionReleaser), the slot being  *)
(* attached and detached under both, and extensions being unregistered and *)
(* registered again (DefaultExtensionManager).                             *)
(*                                                                         *)
(* Every `await` is a point at which anything else may run; what the code  *)
(* does between two of them is one action.  Placing a container and        *)
(* registering its destroy callback are one action, although two           *)
(* microtasks lie between them: only a release that had left the mount set *)
(* before the placement can come to its destroy step within these, and it  *)
(* may find the callback or not (MissesDestroy).                           *)
(***************************************************************************)
EXTENDS Sequences, Integers, SequencesExt

CONSTANTS Subject,     \* the extensions of the domain
          Removable    \* those that are ever unregistered

ASSUME RemovableAssumption == Removable \subseteq Subject

VARIABLES
  root,        \* whether the slot's root element is attached
  registered,  \* the extensions admitted to the domain
  mountState,  \* mountState[x], of the registered extension x
  alive,       \* the extensions whose lifecycle is mounted
  mountSet,    \* the domain's mountedExtensions, in order
  containers,  \* containers[x]: containers created for x and not destroyed
  destroys,    \* the extensions whose container has its destroy registered
  attempt,     \* attempt[x]: how far the mount in flight of x has come
  stale,       \* those whose mount in flight outlived their registration
  releases,    \* releases[x]: how far the release in flight of x has come
  detaching,   \* the occupants the slot detach has yet to release, in order
  detachWaits, \* whether it waits for the first of them
  leaving,     \* leaving[x]: where unregisterExtension(x) stands
  crossed      \* auxiliary: those a release of which ever began while a mount
               \* of theirs was still to be placed

mvars == <<root, registered, mountState, alive, mountSet, containers, destroys,
           attempt, stale, releases, detaching, detachWaits, leaving, crossed>>

-----------------------------------------------------------------------------
Occupants == ToSet(mountSet)

Init ==
  /\ root = "detached" /\ registered = Subject
  /\ mountState = [x \in Subject |-> "unmounted"]
  /\ alive = {} /\ mountSet = <<>>
  /\ containers = [x \in Subject |-> 0] /\ destroys = {}
  /\ attempt = [x \in Subject |-> "none"] /\ stale = {}
  /\ releases = [x \in Subject |-> "none"]
  /\ detaching = <<>> /\ detachWaits = "no"
  /\ leaving = [x \in Subject |-> "no"] /\ crossed = {}

(* Releasing an occupant: ExtensionReleaser.release, mounter.unmount *)

\* Fault: the lifecycle is unmounted only of a recorded occupant.
UnmountsOccupant(x) == x \in registered /\ x \in Occupants

\* Whether unmountExtension(x) runs the lifecycle's unmount at all.
Unmounts(x) == x \in registered /\ mountState[x] = "mounted"

StartsRelease(x) ==   \* joins the release in flight of x, or starts one
  /\ releases' = IF releases[x] # "none" THEN releases
                 ELSE [releases EXCEPT ![x] = IF Unmounts(x) THEN "unmounting" ELSE "unmounted"]
  /\ crossed' = IF attempt[x] \in {"mounting", "placing"} THEN crossed \cup {x} ELSE crossed

Release(x) ==
  /\ StartsRelease(x)
  /\ UNCHANGED <<root, registered, mountState, alive, mountSet, containers, destroys,
                 attempt, stale, detaching, detachWaits, leaving>>

\* The lifecycle's unmount settles; a failure still takes the teardown on.
LifecycleUnmounted(x) ==
  /\ releases[x] = "unmounting"
  /\ alive' = alive \ {x}
  /\ \/ /\ releases'   = [releases EXCEPT ![x] = "unmounted"]
        /\ mountState' = [mountState EXCEPT ![x] = "unmounted"]
     \/ /\ releases'   = [releases EXCEPT ![x] = "broken"]
        /\ mountState' = [mountState EXCEPT ![x] = "error"]
  /\ UNCHANGED <<root, registered, mountSet, containers, destroys, attempt, stale,
                 detaching, detachWaits, leaving, crossed>>

\* Fault: an occupant whose unmount failed stays in the mount set.
RestOnSuccess(x) == IF releases[x] = "unmounted" THEN RemoveFirst(mountSet, x) ELSE mountSet

\* removeMountedExtension
Rest(x) == RemoveFirst(mountSet, x)

\* The mounter drops x from the mount set, whether or not its unmount failed.
LeavesMountSet(x) ==
  /\ releases[x] \in {"unmounted", "broken"}
  /\ mountSet' = Rest(x)
  /\ releases' = [releases EXCEPT ![x] = IF @ = "unmounted" THEN "left" ELSE "leftBroken"]
  /\ UNCHANGED <<root, registered, mountState, alive, containers, destroys, attempt,
                 stale, detaching, detachWaits, leaving, crossed>>

\* Fault: the registered destroy is never run.
TakesNoDestroy(x) == UNCHANGED <<destroys, containers>>

\* takeDestroy: the registered destroy is removed and run, once.
TakesDestroy(x) ==
  /\ destroys'   = destroys \ {x}
  /\ containers' = IF x \in destroys THEN [containers EXCEPT ![x] = @ - 1] ELSE containers

\* A release that left the mount set before the placement may come too early for
\* the destroy registered after it.
MissesDestroy(x, outcome) ==
  /\ x \in Occupants
  /\ outcome = IF releases[x] = "left" THEN "succeeded" ELSE "failed"
  /\ UNCHANGED <<destroys, containers>>

\* A release fails when its unmount did, or when the destroy it ran throws.
ReleaseOutcomes(x) ==
  IF releases[x] = "leftBroken" THEN {"failed"}
  ELSE IF x \in destroys THEN {"succeeded", "failed"} ELSE {"succeeded"}

WaitsFor(x) == detachWaits = "yes" /\ Head(detaching) = x

\* The release settles, and the detach and the unregistration that wait for it
\* learn its outcome: the detach goes on in either case, the unregistration
\* gives up when it failed.  One that unmounted what a mount is about to place
\* settles after the placement.
ReleaseSettles(x, outcome) ==
  /\ releases[x] \in {"left", "leftBroken"}
  /\ attempt[x] = "placing" => x \in alive
  /\ releases' = [releases EXCEPT ![x] = "none"]
  /\ \/ outcome \in ReleaseOutcomes(x) /\ TakesDestroy(x)
     \/ MissesDestroy(x, outcome)
  /\ leaving' = [leaving EXCEPT ![x] = IF @ # "waiting" THEN @
                                       ELSE IF outcome = "succeeded" THEN "resumed" ELSE "no"]
  /\ IF WaitsFor(x) THEN detaching' = Tail(detaching) /\ detachWaits' = "no"
                    ELSE UNCHANGED <<detaching, detachWaits>>
  /\ UNCHANGED <<root, registered, mountState, alive, mountSet, attempt, stale, crossed>>

(* Mounting: a strategy creates a container and calls mounter.mount *)

\* A mount begins only with a root and a registered extension; otherwise the
\* container is destroyed again within the call.
\* An extension whose state says mounted already is only placed.
MountBegins(x) ==
  /\ attempt[x] = "none" /\ root = "attached" /\ x \in registered
  /\ containers' = [containers EXCEPT ![x] = @ + 1]
  /\ IF mountState[x] = "mounted"
       THEN attempt' = [attempt EXCEPT ![x] = "placing"] /\ UNCHANGED mountState
       ELSE /\ attempt' = [attempt EXCEPT ![x] = "mounting"]
            /\ mountState' = [mountState EXCEPT ![x] = "mounting"]
  /\ UNCHANGED <<root, registered, alive, mountSet, destroys, stale, releases, detaching,
                 detachWaits, leaving, crossed>>

\* The state object the mount works on is another one once x was unregistered.
SetsState(x, to) ==
  mountState' = IF x \in stale THEN mountState ELSE [mountState EXCEPT ![x] = to]

AttemptEnds(x) ==
  /\ attempt' = [attempt EXCEPT ![x] = "none"]
  /\ stale' = stale \ {x}

DestroysContainer(x) == containers' = [containers EXCEPT ![x] = @ - 1]

\* Loading and the lifecycle's own mount settle.
LifecycleMounted(x) ==
  /\ attempt[x] = "mounting"
  /\ attempt' = [attempt EXCEPT ![x] = "placing"]
  /\ SetsState(x, "mounted")
  /\ alive' = alive \cup {x}
  /\ UNCHANGED <<root, registered, mountSet, containers, destroys, stale, releases,
                 detaching, detachWaits, leaving, crossed>>

LifecycleMountFails(x) ==
  /\ attempt[x] = "mounting"
  /\ AttemptEnds(x)
  /\ SetsState(x, "error")
  /\ DestroysContainer(x)
  /\ UNCHANGED <<root, registered, alive, mountSet, destroys, releases, detaching,
                 detachWaits, leaving, crossed>>

\* The root as the mounter reads it once the mount has settled.
RootHolds == root = "attached"

\* A release of x begun while it was still mounting had nothing to unmount: it is
\* over within fewer microtasks than the mount needs from settling to placing.
\* One begun after may stand anywhere.
Places(x) ==
  /\ attempt[x] = "placing" /\ RootHolds
  /\ mountState[x] = "mounted" => releases[x] \in {"none", "unmounting"}
  /\ AttemptEnds(x)
  /\ mountSet' = IF x \in Occupants THEN mountSet ELSE Append(mountSet, x)
  /\ destroys' = destroys \cup {x}
  /\ UNCHANGED <<root, registered, mountState, alive, containers, releases, detaching,
                 detachWaits, leaving, crossed>>

\* The root went away during the mount, or placing failed: the extension's
\* lifecycle is unmounted again before the mount fails.
UndoesMount(x) ==
  /\ attempt[x] = "placing" /\ Unmounts(x)
  /\ attempt' = [attempt EXCEPT ![x] = "undoing"]
  /\ mountSet' = IF root = "attached" THEN Rest(x) ELSE mountSet
  /\ UNCHANGED <<root, registered, mountState, alive, containers, destroys, stale, releases,
                 detaching, detachWaits, leaving, crossed>>

MountUndone(x) ==
  /\ attempt[x] = "undoing"
  /\ AttemptEnds(x)
  /\ alive' = alive \ {x}
  /\ \E to \in {"unmounted", "error"} : SetsState(x, to)
  /\ DestroysContainer(x)
  /\ UNCHANGED <<root, registered, mountSet, destroys, releases, detaching, detachWaits,
                 leaving, crossed>>

\* unmountExtension finds nothing it would unmount.
NothingToUndo(x) ==
  /\ attempt[x] = "placing" /\ ~Unmounts(x)
  /\ AttemptEnds(x)
  /\ mountSet' = IF root = "attached" THEN Rest(x) ELSE mountSet
  /\ DestroysContainer(x)
  /\ UNCHANGED <<root, registered, mountState, alive, destroys, releases, detaching,
                 detachWaits, leaving, crossed>>

MountGoesOn(x) == LifecycleMounted(x) \/ UndoesMount(x)
MountFails(x)  == LifecycleMountFails(x) \/ MountUndone(x) \/ NothingToUndo(x)

(* The slot *)

Attach ==
  /\ root' = "attached"
  /\ UNCHANGED <<registered, mountState, alive, mountSet, containers, destroys, attempt,
                 stale, releases, detaching, detachWaits, leaving, crossed>>

\* The root is cleared first, then the mount set is read; the release of its
\* first extension starts in the same call.
Detach ==
  /\ detaching = <<>>                  \* bound: one detach in flight
  /\ root' = "detached"
  /\ detaching' = mountSet
  /\ IF mountSet = <<>> THEN UNCHANGED <<releases, detachWaits, crossed>>
     ELSE StartsRelease(mountSet[1]) /\ detachWaits' = "yes"
  /\ UNCHANGED <<registered, mountState, alive, mountSet, containers, destroys, attempt,
                 stale, leaving>>

DetachGoesOn ==
  /\ detaching # <<>> /\ detachWaits = "no"
  /\ StartsRelease(Head(detaching))
  /\ detachWaits' = "yes"
  /\ UNCHANGED <<root, registered, mountState, alive, mountSet, containers, destroys,
                 attempt, stale, detaching, leaving>>

(* Extensions *)

\* The extension is forgotten; a mount of it in flight goes on regardless.
Forget(x) ==
  /\ registered' = registered \ {x}
  /\ mountState' = [mountState EXCEPT ![x] = "unmounted"]
  /\ leaving'    = [leaving EXCEPT ![x] = "no"]
  /\ stale' = IF attempt[x] = "none" THEN stale ELSE stale \cup {x}

Unregister(x) ==
  /\ x \in registered \cap Removable /\ leaving[x] = "no"
  /\ IF mountState[x] = "mounted"
       THEN /\ StartsRelease(x) /\ leaving' = [leaving EXCEPT ![x] = "waiting"]
            /\ UNCHANGED <<registered, mountState, stale>>
       ELSE Forget(x) /\ UNCHANGED <<releases, crossed>>
  /\ UNCHANGED <<root, alive, mountSet, containers, destroys, attempt, detaching, detachWaits>>

UnregisterEnds(x) ==
  /\ leaving[x] = "resumed"
  /\ Forget(x)
  /\ UNCHANGED <<root, alive, mountSet, containers, destroys, attempt, releases, detaching,
                 detachWaits, crossed>>

Register(x) ==
  /\ x \notin registered
  /\ registered' = registered \cup {x}
  /\ UNCHANGED <<root, mountState, alive, mountSet, containers, destroys, attempt, stale,
                 releases, detaching, detachWaits, leaving, crossed>>

-----------------------------------------------------------------------------
\* What the domain's handlers see to: a mount begins only of an extension that
\* is neither mounted nor on its way out, and nobody releases one on its way in.
AsksToMount(x)   == x \notin Occupants /\ releases[x] = "none" /\ MountBegins(x)
AsksToRelease(x) == attempt[x] = "none" /\ Release(x)

Progress(x) ==
  \/ LifecycleUnmounted(x) \/ LeavesMountSet(x)
  \/ \E outcome \in {"succeeded", "failed"} : ReleaseSettles(x, outcome)
  \/ MountGoesOn(x) \/ MountFails(x) \/ Places(x)
  \/ UnregisterEnds(x)

Next ==
  \/ \E x \in Subject : \/ AsksToMount(x) \/ AsksToRelease(x) \/ Progress(x)
                        \/ Unregister(x) \/ Register(x)
  \/ Attach \/ Detach \/ DetachGoesOn

Spec == Init /\ [][Next]_mvars

\* Promise continuations always run and lifecycles settle.
FairSpec == Spec /\ WF_mvars(DetachGoesOn) /\ \A x \in Subject : WF_mvars(Progress(x))

-----------------------------------------------------------------------------
(* Properties *)

\* Every variable holds values of its type.
TypeOK ==
  /\ root \in {"attached", "detached"}
  /\ registered \in SUBSET Subject /\ alive \in SUBSET Subject
  /\ destroys \in SUBSET Subject /\ stale \in SUBSET Subject
  /\ mountState \in [Subject -> {"unmounted", "mounting", "mounted", "error"}]
  /\ mountSet \in Seq(Subject) /\ detaching \in Seq(Subject)
  /\ detachWaits \in {"yes", "no"} /\ (detachWaits = "yes" => detaching # <<>>)
  /\ containers \in [Subject -> Nat]
  /\ attempt \in [Subject -> {"none", "mounting", "placing", "undoing"}]
  /\ releases \in [Subject -> {"none", "unmounting", "unmounted", "broken", "left", "leftBroken"}]
  /\ leaving \in [Subject -> {"no", "waiting", "resumed"}] /\ crossed \in SUBSET Subject

\* Those a record of whom may be left over: a release that crossed their mount
\* unmounted them before they were placed, or found them forgotten.
Overtaken == {x \in crossed : mountState[x] # "mounted"}

\* Whoever is recorded as an occupant and is not on its way out really is
\* mounted, in a container whose destruction is arranged, unless a release
\* overtook its placement.
OccupantsAreReal ==
  \A x \in Occupants \ Overtaken : releases[x] = "none" =>
    x \in alive /\ x \in destroys /\ containers[x] = 1

\* Once the root is gone, every remaining occupant is being released: none is
\* left mounted in a slot that no longer exists.
NoOrphanAfterDetach ==
  root = "detached" =>
    \A x \in Occupants \ Overtaken : releases[x] # "none" \/ x \in ToSet(detaching)

\* Every container is destroyed exactly once, and at most one exists of an
\* extension: an occupant's, or the one its mount in flight is to fill.
ContainersAccountedFor ==
  \A x \in Subject :
    /\ containers[x] = (IF attempt[x] # "none" THEN 1 ELSE 0) + (IF x \in destroys THEN 1 ELSE 0)
    /\ containers[x] <= 1

\* A lifecycle that was mounted is unmounted again unless it ends up in the
\* mount set: no failure path, eviction or detach forgets one, of an extension
\* that stays registered (FailedMountIsUndone has the others).
NothingLeftMounted ==
  \A x \in alive \ Removable : x \in Occupants \/ attempt[x] \in {"placing", "undoing"}

\* Containers are counted by the mount in flight and the registered destroy; a
\* destroy stays registered until the occupant's release takes it.
SlotInv ==
  /\ IsInjective(mountSet)
  /\ \A x \in Subject :
       /\ containers[x] = (IF attempt[x] # "none" THEN 1 ELSE 0) + (IF x \in destroys THEN 1 ELSE 0)
       /\ x \in destroys => attempt[x] = "none" /\ (x \in Occupants \/ releases[x] # "none")

\* An occupant is no longer on its way in, and alive until its release unmounts it,
\* unless a release overtook its placement.
OccupantsInv ==
  \A x \in Occupants :
    /\ attempt[x] = "none"
    /\ x \notin Overtaken =>
         /\ x \in destroys /\ releases[x] \notin {"left", "leftBroken"}
         /\ releases[x] \in {"none", "unmounting"} => x \in alive

\* How far a mount has come and what the state says of the lifecycle agree; a mount
\* to be placed goes on beside a release only where the two crossed.
AttemptsInv ==
  \A x \in Subject :
    /\ attempt[x] = "mounting" => mountState[x] # "mounted"
    /\ mountState[x] = "mounted" => x \in alive /\ x \notin stale
    /\ x \in stale => attempt[x] # "none"
    /\ x \notin crossed =>
         /\ attempt[x] = "placing" => x \in alive
         /\ attempt[x] \in {"mounting", "placing"} => releases[x] = "none"

\* Of an extension that stays registered, the state says when its lifecycle is
\* mounted, and what a release leaves behind mounted a mount undoes.
StayingInv ==
  \A x \in Subject \ Removable :
    /\ x \in registered /\ x \notin stale /\ leaving[x] = "no"
    /\ x \in alive => mountState[x] = "mounted"
    /\ x \in alive => x \in Occupants \/ attempt[x] \in {"placing", "undoing"}
    /\ releases[x] \in {"unmounted", "broken", "left", "leftBroken"} =>
         x \notin alive \/ attempt[x] \in {"placing", "undoing"}

\* A lifecycle whose state says mounted is that of a registered extension, which is an
\* occupant that no release has unmounted yet, or on its way in.
MountedInv ==
  \A x \in Subject :
    /\ attempt[x] # "none" /\ x \notin stale => x \in registered
    /\ mountState[x] = "mounted" =>
         /\ x \in registered
         /\ \/ attempt[x] \in {"placing", "undoing"}
            \/ x \in Occupants /\ releases[x] \in {"none", "unmounting"}

\* The inductive invariant behind the properties above.
IInv == TypeOK /\ SlotInv /\ OccupantsInv /\ AttemptsInv /\ StayingInv /\ NoOrphanAfterDetach

\* A mount that fails leaves the extension's lifecycle unmounted, the one it
\* undoes because the root was detached included.
FailedMountIsUndone ==
  [][\A x \in Subject : MountFails(x) => x \notin alive']_mvars

\* A detach empties the slot: it ends with the root attached again or with
\* nobody mounted, although releases fail and mounts complete meanwhile; what may
\* be left is a record of somebody unmounted before its placement.
DetachEmptiesTheSlot ==
  root = "detached" ~> (root = "attached" \/ Occupants \subseteq Overtaken)
=============================================================================
