------------------------ MODULE ExtensionMounterProofs ------------------------
(***************************************************************************)
(* Theorems about mounting, releasing, attaching, detaching, unregistering *)
(* and registering again, for every set of extensions.                     *)
(***************************************************************************)
EXTENDS ExtensionMounter, OrderedSets, TLAPS

USE RemovableAssumption

(* Nobody is mounted in a domain without a root. *)
LEMMA InitIInv == Init => IInv
  <1> SUFFICES ASSUME Init PROVE IInv
    OBVIOUS
  <1>1. Occupants = {} /\ IsInjective(mountSet)
    BY DEF Init, Occupants, ToSet, IsInjective
  <1>2. TypeOK
    BY DEF Init, TypeOK
  <1>3. SlotInv /\ OccupantsInv /\ AttemptsInv /\ StayingInv /\ NoOrphanAfterDetach
    BY <1>1 DEF Init, SlotInv, OccupantsInv, Overtaken, AttemptsInv, StayingInv, NoOrphanAfterDetach
  <1> QED
    BY <1>2, <1>3 DEF IInv

LEMMA Unpacked ==
  ASSUME IInv
  PROVE  /\ TypeOK /\ SlotInv /\ OccupantsInv /\ AttemptsInv /\ StayingInv
         /\ NoOrphanAfterDetach /\ Occupants \subseteq Subject
  <1>1. Occupants \subseteq Subject
    BY ElementsTyped DEF IInv, TypeOK, Occupants
  <1> QED
    BY <1>1 DEF IInv

(* While the mount set is left alone so are the occupants. *)
LEMMA SameOccupants ==
  ASSUME UNCHANGED mountSet
  PROVE  Occupants' = Occupants /\ (IsInjective(mountSet)' <=> IsInjective(mountSet))
  BY DEF Occupants

(* The mount set without x. *)
LEMMA RestFacts ==
  ASSUME IInv, NEW x, mountSet' = Rest(x)
  PROVE  /\ mountSet' \in Seq(Subject) /\ IsInjective(mountSet)'
         /\ Occupants' = Occupants \ {x}
  BY Unpacked, RemoveFirstFacts DEF TypeOK, SlotInv, Occupants, Rest

(* A release of x joins the one in flight, or begins with what there is to     *)
(* unmount.                                                                    *)
Started(x) ==
  /\ releases' \in [Subject -> {"none", "unmounting", "unmounted", "broken", "left", "leftBroken"}]
  /\ \A y \in Subject : y # x \/ releases[y] # "none" => releases'[y] = releases[y]
  /\ releases[x] = "none" => releases'[x] = IF Unmounts(x) THEN "unmounting" ELSE "unmounted"
  /\ crossed' = IF attempt[x] \in {"mounting", "placing"} THEN crossed \cup {x} ELSE crossed

LEMMA StartFacts ==
  ASSUME TypeOK, NEW x \in Subject, StartsRelease(x)
  PROVE  Started(x)
  BY DEF TypeOK, StartsRelease, Started

(* Whoever begins a release of x keeps the invariant: where x is on its way in,  *)
(* the two have crossed.                                                        *)
LEMMA StartKeeps ==
  ASSUME IInv, NEW x \in Subject, Started(x),
         UNCHANGED <<registered, mountState, alive, mountSet, containers, destroys,
                     attempt, stale>>
  PROVE  SlotInv' /\ OccupantsInv' /\ AttemptsInv'
  <1>0. TypeOK /\ SlotInv /\ OccupantsInv /\ AttemptsInv /\ StayingInv
    BY Unpacked
  <1>1. Occupants' = Occupants /\ (IsInjective(mountSet)' <=> IsInjective(mountSet))
    BY SameOccupants
  <1>2. SlotInv'
    BY <1>0, <1>1 DEF SlotInv, Started
  <1>3. OccupantsInv'
    BY <1>0, <1>1, Unpacked DEF OccupantsInv, Overtaken, Started
  <1>4. AttemptsInv'
    BY <1>0 DEF AttemptsInv, Started, Unmounts, TypeOK
  <1> QED
    BY <1>2, <1>3, <1>4

LEMMA StartKeepsStaying ==
  ASSUME IInv, NEW x \in Subject, Started(x),
         UNCHANGED <<registered, mountState, alive, mountSet, attempt, stale>>,
         \A y \in Subject \ Removable : leaving'[y] = leaving[y]
  PROVE  StayingInv'
  <1>0. StayingInv
    BY Unpacked
  <1>1. Occupants' = Occupants
    BY SameOccupants
  <1> QED
    BY <1>0, <1>1 DEF StayingInv, Started, Unmounts

(* A handler releases an extension that is not on its way in. *)
LEMMA ReleaseIInv ==
  ASSUME IInv, NEW x \in Subject, AsksToRelease(x)
  PROVE  IInv'
  <1>0. TypeOK /\ NoOrphanAfterDetach
    BY Unpacked
  <1>1. Started(x)
    BY <1>0, StartFacts DEF AsksToRelease, Release
  <1>2. SlotInv' /\ OccupantsInv' /\ AttemptsInv'
    BY <1>1, StartKeeps DEF AsksToRelease, Release
  <1>3. StayingInv'
    BY <1>1, StartKeepsStaying DEF AsksToRelease, Release
  <1>4. TypeOK'
    BY <1>0, <1>1 DEF AsksToRelease, Release, TypeOK, Started
  <1>5. NoOrphanAfterDetach'
    <2>1. Occupants' = Occupants
      BY SameOccupants DEF AsksToRelease, Release
    <2> QED
      BY <1>0, <1>1, <2>1, Unpacked DEF AsksToRelease, Release, NoOrphanAfterDetach, Overtaken, Started
  <1> QED
    BY <1>2, <1>3, <1>4, <1>5 DEF IInv

(* The lifecycle's unmount leaves an occupant that is no longer alive. *)
LEMMA LifecycleUnmountedIInv ==
  ASSUME IInv, NEW x \in Subject, LifecycleUnmounted(x)
  PROVE  IInv'
  <1>0. TypeOK /\ SlotInv /\ OccupantsInv /\ AttemptsInv /\ StayingInv /\ NoOrphanAfterDetach
        /\ Occupants \subseteq Subject
    BY Unpacked
  <1>1. Occupants' = Occupants /\ (IsInjective(mountSet)' <=> IsInjective(mountSet))
    BY SameOccupants DEF LifecycleUnmounted
  <1>2. /\ releases[x] = "unmounting" /\ alive' = alive \ {x}
        /\ \E to \in {"unmounted", "broken"} : releases' = [releases EXCEPT ![x] = to]
        /\ \E to \in {"unmounted", "error"} : mountState' = [mountState EXCEPT ![x] = to]
        /\ UNCHANGED <<root, registered, mountSet, containers, destroys, attempt, stale,
                       detaching, detachWaits, leaving, crossed>>
    BY DEF LifecycleUnmounted
  <1>3. TypeOK'
    BY <1>0, <1>2 DEF TypeOK
  <1>4. SlotInv'
    BY <1>0, <1>1, <1>2 DEF TypeOK, SlotInv
  <1>5. OccupantsInv'
    BY <1>0, <1>1, <1>2 DEF TypeOK, OccupantsInv, Overtaken
  <1>6. AttemptsInv'
    BY <1>0, <1>2 DEF TypeOK, AttemptsInv
  <1>7. StayingInv'
    BY <1>0, <1>1, <1>2 DEF TypeOK, StayingInv
  <1>8. NoOrphanAfterDetach'
    BY <1>0, <1>1, <1>2 DEF TypeOK, NoOrphanAfterDetach, Overtaken
  <1> QED
    BY <1>3, <1>4, <1>5, <1>6, <1>7, <1>8 DEF IInv

(* Whoever leaves the mount set is being released. *)
LEMMA LeavesMountSetIInv ==
  ASSUME IInv, NEW x \in Subject, LeavesMountSet(x)
  PROVE  IInv'
  <1>0. TypeOK /\ SlotInv /\ OccupantsInv /\ AttemptsInv /\ StayingInv /\ NoOrphanAfterDetach
        /\ Occupants \subseteq Subject
    BY Unpacked
  <1>1. mountSet' \in Seq(Subject) /\ IsInjective(mountSet)' /\ Occupants' = Occupants \ {x}
    BY RestFacts DEF LeavesMountSet
  <1>2. /\ releases[x] \in {"unmounted", "broken"}
        /\ \E to \in {"left", "leftBroken"} : releases' = [releases EXCEPT ![x] = to]
        /\ UNCHANGED <<root, registered, mountState, alive, containers, destroys, attempt,
                       stale, detaching, detachWaits, leaving, crossed>>
    BY DEF LeavesMountSet
  <1>3. TypeOK'
    BY <1>0, <1>1, <1>2 DEF TypeOK
  <1>4. SlotInv'
    BY <1>0, <1>1, <1>2 DEF TypeOK, SlotInv
  <1>5. OccupantsInv'
    BY <1>0, <1>1, <1>2 DEF TypeOK, OccupantsInv, Overtaken
  <1>6. AttemptsInv'
    BY <1>0, <1>2 DEF TypeOK, AttemptsInv
  <1>7. StayingInv'
    BY <1>0, <1>1, <1>2 DEF TypeOK, StayingInv
  <1>8. NoOrphanAfterDetach'
    BY <1>0, <1>1, <1>2 DEF TypeOK, NoOrphanAfterDetach, Overtaken
  <1> QED
    BY <1>3, <1>4, <1>5, <1>6, <1>7, <1>8 DEF IInv

(* A release that settles destroys the container of somebody who has left. *)
LEMMA ReleaseSettlesIInv ==
  ASSUME IInv, NEW x \in Subject, NEW outcome, ReleaseSettles(x, outcome)
  PROVE  IInv'
  <1>0. TypeOK /\ SlotInv /\ OccupantsInv /\ AttemptsInv /\ StayingInv /\ NoOrphanAfterDetach
        /\ Occupants \subseteq Subject
    BY Unpacked
  <1>1. Occupants' = Occupants /\ (IsInjective(mountSet)' <=> IsInjective(mountSet))
    BY SameOccupants DEF ReleaseSettles
  <1>2. /\ releases[x] \in {"left", "leftBroken"}
        /\ releases' = [releases EXCEPT ![x] = "none"]
        /\ \/ /\ destroys' = destroys \ {x}
              /\ containers' = IF x \in destroys THEN [containers EXCEPT ![x] = @ - 1] ELSE containers
           \/ x \in Occupants /\ UNCHANGED <<destroys, containers>>
        /\ leaving' = [leaving EXCEPT ![x] = IF @ # "waiting" THEN @
                          ELSE IF outcome = "succeeded" THEN "resumed" ELSE "no"]
        /\ UNCHANGED <<root, registered, mountState, alive, mountSet, attempt, stale, crossed>>
    BY DEF ReleaseSettles, TakesDestroy, MissesDestroy
  <1>3. TypeOK'
    <2>1. /\ detaching' \in Seq(Subject) /\ detachWaits' \in {"yes", "no"}
          /\ detachWaits' = "yes" => detaching' # <<>>
      BY <1>0, TailFacts DEF ReleaseSettles, WaitsFor, TypeOK
    <2>2. containers' \in [Subject -> Nat]
      <3>1. x \in destroys => containers[x] - 1 \in Nat
        BY <1>0 DEF SlotInv
      <3> QED
        BY <1>0, <1>2, <3>1 DEF TypeOK
    <2> QED
      BY <1>0, <1>2, <2>1, <2>2 DEF TypeOK
  <1>4. SlotInv'
    BY <1>0, <1>1, <1>2 DEF TypeOK, SlotInv
  <1>5. OccupantsInv'
    BY <1>0, <1>1, <1>2 DEF TypeOK, OccupantsInv, Overtaken
  <1>6. AttemptsInv'
    BY <1>0, <1>2 DEF TypeOK, AttemptsInv
  <1>7. StayingInv'
    BY <1>0, <1>1, <1>2 DEF TypeOK, StayingInv
  <1>8. NoOrphanAfterDetach'
    <2>1. \A y \in Subject : y # x /\ y \in ToSet(detaching) => y \in ToSet(detaching')
      <3>1. CASE WaitsFor(x)
        <4>1. detaching \in Seq(Subject) /\ detaching # <<>> /\ Head(detaching) = x
          BY <1>0, <3>1 DEF WaitsFor, TypeOK
        <4>2. detaching' = Tail(detaching)
          BY <3>1 DEF ReleaseSettles
        <4>3. ToSet(detaching) = ToSet(Tail(detaching)) \cup {x}
          BY <4>1, TailFacts
        <4> QED
          BY <4>2, <4>3
      <3>2. CASE ~WaitsFor(x)
        BY <3>2 DEF ReleaseSettles
      <3> QED
        BY <3>1, <3>2
    <2>2. x \notin Occupants \ Overtaken
      BY <1>0, <1>2 DEF OccupantsInv, Overtaken
    <2> QED
      BY <1>0, <1>1, <1>2, <2>1, <2>2 DEF TypeOK, NoOrphanAfterDetach, Overtaken
  <1> QED
    BY <1>3, <1>4, <1>5, <1>6, <1>7, <1>8 DEF IInv

-----------------------------------------------------------------------------
(* Mounting *)

(* A mount in flight has the container it is to fill. *)
LEMMA ContainerToFill ==
  ASSUME SlotInv, NEW x \in Subject, attempt[x] # "none"
  PROVE  containers[x] - 1 \in Nat
  <1>1. containers[x] = 1 + (IF x \in destroys THEN 1 ELSE 0)
    BY DEF SlotInv
  <1> QED
    BY <1>1

(* A mount begins of somebody who is neither mounted, mounting nor leaving. *)
LEMMA MountBeginsIInv ==
  ASSUME IInv, NEW x \in Subject, AsksToMount(x)
  PROVE  IInv'
  <1>0. TypeOK /\ SlotInv /\ OccupantsInv /\ AttemptsInv /\ StayingInv /\ NoOrphanAfterDetach
        /\ Occupants \subseteq Subject
    BY Unpacked
  <1>1. Occupants' = Occupants /\ (IsInjective(mountSet)' <=> IsInjective(mountSet))
    BY SameOccupants DEF AsksToMount, MountBegins
  <1>2. /\ x \notin Occupants /\ releases[x] = "none" /\ attempt[x] = "none"
        /\ containers' = [containers EXCEPT ![x] = @ + 1]
        /\ IF mountState[x] = "mounted"
             THEN attempt' = [attempt EXCEPT ![x] = "placing"] /\ UNCHANGED mountState
             ELSE /\ attempt' = [attempt EXCEPT ![x] = "mounting"]
                  /\ mountState' = [mountState EXCEPT ![x] = "mounting"]
        /\ UNCHANGED <<root, registered, alive, mountSet, destroys, stale, releases, detaching,
                       detachWaits, leaving, crossed>>
    BY DEF AsksToMount, MountBegins
  <1>3. TypeOK'
    <2>1. containers[x] + 1 \in Nat
      BY <1>0 DEF TypeOK
    <2>2. /\ containers' \in [Subject -> Nat]
          /\ attempt' \in [Subject -> {"none", "mounting", "placing", "undoing"}]
          /\ mountState' \in [Subject -> {"unmounted", "mounting", "mounted", "error"}]
      BY <1>0, <1>2, <2>1 DEF TypeOK
    <2> QED
      BY <1>0, <1>2, <2>2 DEF TypeOK
  <1>4. SlotInv'
    BY <1>0, <1>1, <1>2 DEF TypeOK, SlotInv
  <1>5. OccupantsInv'
    BY <1>0, <1>1, <1>2 DEF TypeOK, OccupantsInv, Overtaken
  <1>6. AttemptsInv'
    BY <1>0, <1>2 DEF TypeOK, AttemptsInv
  <1>7. StayingInv'
    BY <1>0, <1>1, <1>2 DEF TypeOK, StayingInv
  <1>8. NoOrphanAfterDetach'
    BY <1>0, <1>1, <1>2 DEF TypeOK, NoOrphanAfterDetach, Overtaken
  <1> QED
    BY <1>3, <1>4, <1>5, <1>6, <1>7, <1>8 DEF IInv

(* The lifecycle's mount succeeds, for the present registration or a former one. *)
LEMMA LifecycleMountedIInv ==
  ASSUME IInv, NEW x \in Subject, LifecycleMounted(x)
  PROVE  IInv'
  <1>0. TypeOK /\ SlotInv /\ OccupantsInv /\ AttemptsInv /\ StayingInv /\ NoOrphanAfterDetach
        /\ Occupants \subseteq Subject
    BY Unpacked
  <1>1. Occupants' = Occupants /\ (IsInjective(mountSet)' <=> IsInjective(mountSet))
    BY SameOccupants DEF LifecycleMounted
  <1>2. /\ attempt[x] = "mounting" /\ attempt' = [attempt EXCEPT ![x] = "placing"]
        /\ mountState' = IF x \in stale THEN mountState ELSE [mountState EXCEPT ![x] = "mounted"]
        /\ alive' = alive \cup {x}
        /\ UNCHANGED <<root, registered, mountSet, containers, destroys, stale, releases,
                       detaching, detachWaits, leaving, crossed>>
    BY DEF LifecycleMounted, SetsState
  <1>3. TypeOK'
    BY <1>0, <1>2 DEF TypeOK
  <1>4. SlotInv'
    BY <1>0, <1>1, <1>2 DEF TypeOK, SlotInv
  <1>5. OccupantsInv'
    BY <1>0, <1>1, <1>2 DEF TypeOK, OccupantsInv, Overtaken
  <1>6. AttemptsInv'
    BY <1>0, <1>2 DEF TypeOK, AttemptsInv
  <1>7. StayingInv'
    BY <1>0, <1>1, <1>2 DEF TypeOK, StayingInv
  <1>8. NoOrphanAfterDetach'
    BY <1>0, <1>1, <1>2 DEF TypeOK, NoOrphanAfterDetach, OccupantsInv, Overtaken
  <1> QED
    BY <1>3, <1>4, <1>5, <1>6, <1>7, <1>8 DEF IInv

(* The lifecycle refuses to mount; its container goes. *)
LEMMA LifecycleMountFailsIInv ==
  ASSUME IInv, NEW x \in Subject, LifecycleMountFails(x)
  PROVE  IInv'
  <1>0. TypeOK /\ SlotInv /\ OccupantsInv /\ AttemptsInv /\ StayingInv /\ NoOrphanAfterDetach
        /\ Occupants \subseteq Subject
    BY Unpacked
  <1>1. Occupants' = Occupants /\ (IsInjective(mountSet)' <=> IsInjective(mountSet))
    BY SameOccupants DEF LifecycleMountFails
  <1>2. /\ attempt[x] = "mounting" /\ attempt' = [attempt EXCEPT ![x] = "none"]
        /\ stale' = stale \ {x}
        /\ mountState' = IF x \in stale THEN mountState ELSE [mountState EXCEPT ![x] = "error"]
        /\ containers' = [containers EXCEPT ![x] = @ - 1]
        /\ UNCHANGED <<root, registered, alive, mountSet, destroys, releases, detaching,
                       detachWaits, leaving, crossed>>
    BY DEF LifecycleMountFails, AttemptEnds, SetsState, DestroysContainer
  <1>3. TypeOK'
    <2>0. containers[x] - 1 \in Nat
      BY <1>0, <1>2, ContainerToFill
    <2>1. containers' \in [Subject -> Nat]
      BY <1>0, <1>2, <2>0 DEF TypeOK
    <2> QED
      BY <1>0, <1>2, <2>1 DEF TypeOK
  <1>4. SlotInv'
    BY <1>0, <1>1, <1>2 DEF TypeOK, SlotInv
  <1>5. OccupantsInv'
    BY <1>0, <1>1, <1>2 DEF TypeOK, OccupantsInv, Overtaken
  <1>6. AttemptsInv'
    BY <1>0, <1>2 DEF TypeOK, AttemptsInv
  <1>7. StayingInv'
    BY <1>0, <1>1, <1>2 DEF TypeOK, StayingInv, OccupantsInv, Overtaken
  <1>8. NoOrphanAfterDetach'
    BY <1>0, <1>1, <1>2 DEF TypeOK, NoOrphanAfterDetach, Overtaken
  <1> QED
    BY <1>3, <1>4, <1>5, <1>6, <1>7, <1>8 DEF IInv

(* Placing makes an occupant, with its destroy registered. *)
LEMMA PlacesIInv ==
  ASSUME IInv, NEW x \in Subject, Places(x)
  PROVE  IInv'
  <1>0. TypeOK /\ SlotInv /\ OccupantsInv /\ AttemptsInv /\ StayingInv /\ NoOrphanAfterDetach
        /\ Occupants \subseteq Subject
    BY Unpacked
  <1>1. mountSet' \in Seq(Subject) /\ IsInjective(mountSet)' /\ Occupants' = Occupants \cup {x}
    BY <1>0, AppendFacts DEF Places, TypeOK, SlotInv, Occupants
  <1>2. /\ attempt[x] = "placing" /\ attempt' = [attempt EXCEPT ![x] = "none"]
        /\ stale' = stale \ {x}
        /\ root = "attached"
        /\ mountState[x] = "mounted" => releases[x] \in {"none", "unmounting"}
        /\ destroys' = destroys \cup {x}
        /\ UNCHANGED <<root, registered, mountState, alive, containers, releases, detaching,
                       detachWaits, leaving, crossed>>
    BY DEF Places, AttemptEnds, RootHolds
  <1>3. TypeOK'
    BY <1>0, <1>1, <1>2 DEF TypeOK
  <1>4. SlotInv'
    BY <1>0, <1>1, <1>2 DEF TypeOK, SlotInv
  <1>5. OccupantsInv'
    <2>1. x \notin Overtaken => x \in alive /\ releases[x] \in {"none", "unmounting"}
      BY <1>0, <1>2 DEF AttemptsInv, Overtaken
    <2> QED
      BY <1>0, <1>1, <1>2, <2>1 DEF TypeOK, OccupantsInv, Overtaken
  <1>6. AttemptsInv'
    BY <1>0, <1>2 DEF TypeOK, AttemptsInv
  <1>7. StayingInv'
    BY <1>0, <1>1, <1>2 DEF TypeOK, StayingInv
  <1>8. NoOrphanAfterDetach'
    BY <1>0, <1>1, <1>2 DEF TypeOK, NoOrphanAfterDetach, Overtaken
  <1> QED
    BY <1>3, <1>4, <1>5, <1>6, <1>7, <1>8 DEF IInv

(* The root went away during the mount, or placing threw. *)
LEMMA UndoesMountIInv ==
  ASSUME IInv, NEW x \in Subject, UndoesMount(x)
  PROVE  IInv'
  <1>0. TypeOK /\ SlotInv /\ OccupantsInv /\ AttemptsInv /\ StayingInv /\ NoOrphanAfterDetach
        /\ Occupants \subseteq Subject
    BY Unpacked
  <1>1. mountSet' \in Seq(Subject) /\ IsInjective(mountSet)' /\ Occupants' = Occupants
    <2>1. x \notin Occupants
      BY <1>0 DEF UndoesMount, OccupantsInv, Overtaken
    <2>2. CASE mountSet' = Rest(x)
      BY <2>1, <2>2, RestFacts
    <2>3. CASE mountSet' = mountSet
      BY <1>0, <2>3, SameOccupants DEF TypeOK, SlotInv
    <2> QED
      BY <2>2, <2>3 DEF UndoesMount
  <1>2. /\ attempt[x] = "placing" /\ attempt' = [attempt EXCEPT ![x] = "undoing"]
        /\ UNCHANGED <<root, registered, mountState, alive, containers, destroys, stale,
                       releases, detaching, detachWaits, leaving, crossed>>
    BY DEF UndoesMount
  <1>3. TypeOK'
    BY <1>0, <1>1, <1>2 DEF TypeOK
  <1>4. SlotInv'
    BY <1>0, <1>1, <1>2 DEF TypeOK, SlotInv
  <1>5. OccupantsInv'
    BY <1>0, <1>1, <1>2 DEF TypeOK, OccupantsInv, Overtaken
  <1>6. AttemptsInv'
    BY <1>0, <1>2 DEF TypeOK, AttemptsInv
  <1>7. StayingInv'
    BY <1>0, <1>1, <1>2 DEF TypeOK, StayingInv
  <1>8. NoOrphanAfterDetach'
    BY <1>0, <1>1, <1>2 DEF TypeOK, NoOrphanAfterDetach, Overtaken
  <1> QED
    BY <1>3, <1>4, <1>5, <1>6, <1>7, <1>8 DEF IInv

(* A mount that was undone leaves its lifecycle unmounted. *)
LEMMA MountUndoneIInv ==
  ASSUME IInv, NEW x \in Subject, MountUndone(x)
  PROVE  IInv'
  <1>0. TypeOK /\ SlotInv /\ OccupantsInv /\ AttemptsInv /\ StayingInv /\ NoOrphanAfterDetach
        /\ Occupants \subseteq Subject
    BY Unpacked
  <1>1. Occupants' = Occupants /\ (IsInjective(mountSet)' <=> IsInjective(mountSet))
    BY SameOccupants DEF MountUndone
  <1>2. /\ attempt[x] = "undoing" /\ attempt' = [attempt EXCEPT ![x] = "none"]
        /\ stale' = stale \ {x} /\ alive' = alive \ {x}
        /\ \E to \in {"unmounted", "error"} :
             mountState' = IF x \in stale THEN mountState ELSE [mountState EXCEPT ![x] = to]
        /\ containers' = [containers EXCEPT ![x] = @ - 1]
        /\ UNCHANGED <<root, registered, mountSet, destroys, releases, detaching,
                       detachWaits, leaving, crossed>>
    BY DEF MountUndone, AttemptEnds, SetsState, DestroysContainer
  <1>3. TypeOK'
    <2>0. containers[x] - 1 \in Nat
      BY <1>0, <1>2, ContainerToFill
    <2>1. containers' \in [Subject -> Nat]
      BY <1>0, <1>2, <2>0 DEF TypeOK
    <2> QED
      BY <1>0, <1>2, <2>1 DEF TypeOK
  <1>4. SlotInv'
    BY <1>0, <1>1, <1>2 DEF TypeOK, SlotInv
  <1>5. OccupantsInv'
    BY <1>0, <1>1, <1>2 DEF TypeOK, OccupantsInv, Overtaken
  <1>6. AttemptsInv'
    BY <1>0, <1>2 DEF TypeOK, AttemptsInv
  <1>7. StayingInv'
    BY <1>0, <1>1, <1>2 DEF TypeOK, StayingInv
  <1>8. NoOrphanAfterDetach'
    BY <1>0, <1>1, <1>2 DEF TypeOK, NoOrphanAfterDetach, Overtaken
  <1> QED
    BY <1>3, <1>4, <1>5, <1>6, <1>7, <1>8 DEF IInv

(* The extension was unregistered meanwhile: nothing is unmounted. *)
LEMMA NothingToUndoIInv ==
  ASSUME IInv, NEW x \in Subject, NothingToUndo(x)
  PROVE  IInv'
  <1>0. TypeOK /\ SlotInv /\ OccupantsInv /\ AttemptsInv /\ StayingInv /\ NoOrphanAfterDetach
        /\ Occupants \subseteq Subject
    BY Unpacked
  <1>1. mountSet' \in Seq(Subject) /\ IsInjective(mountSet)' /\ Occupants' = Occupants
    <2>1. x \notin Occupants
      BY <1>0 DEF NothingToUndo, OccupantsInv, Overtaken
    <2>2. CASE mountSet' = Rest(x)
      BY <2>1, <2>2, RestFacts
    <2>3. CASE mountSet' = mountSet
      BY <1>0, <2>3, SameOccupants DEF TypeOK, SlotInv
    <2> QED
      BY <2>2, <2>3 DEF NothingToUndo
  <1>2. /\ attempt[x] = "placing" /\ attempt' = [attempt EXCEPT ![x] = "none"]
        /\ x \notin registered \/ mountState[x] # "mounted"
        /\ stale' = stale \ {x}
        /\ containers' = [containers EXCEPT ![x] = @ - 1]
        /\ UNCHANGED <<root, registered, mountState, alive, destroys, releases, detaching,
                       detachWaits, leaving, crossed>>
    BY DEF NothingToUndo, AttemptEnds, DestroysContainer, Unmounts
  <1>3. TypeOK'
    <2>0. containers[x] - 1 \in Nat
      BY <1>0, <1>2, ContainerToFill
    <2>1. containers' \in [Subject -> Nat]
      BY <1>0, <1>2, <2>0 DEF TypeOK
    <2> QED
      BY <1>0, <1>1, <1>2, <2>1 DEF TypeOK
  <1>4. SlotInv'
    BY <1>0, <1>1, <1>2 DEF TypeOK, SlotInv
  <1>5. OccupantsInv'
    BY <1>0, <1>1, <1>2 DEF TypeOK, OccupantsInv, Overtaken
  <1>6. AttemptsInv'
    BY <1>0, <1>2 DEF TypeOK, AttemptsInv
  <1>7. StayingInv'
    BY <1>0, <1>1, <1>2 DEF TypeOK, StayingInv
  <1>8. NoOrphanAfterDetach'
    BY <1>0, <1>1, <1>2 DEF TypeOK, NoOrphanAfterDetach, Overtaken
  <1> QED
    BY <1>3, <1>4, <1>5, <1>6, <1>7, <1>8 DEF IInv

-----------------------------------------------------------------------------
(* The slot *)

LEMMA AttachIInv ==
  ASSUME IInv, Attach
  PROVE  IInv'
  <1>0. TypeOK /\ SlotInv /\ OccupantsInv /\ AttemptsInv /\ StayingInv
    BY Unpacked
  <1>1. Occupants' = Occupants /\ (IsInjective(mountSet)' <=> IsInjective(mountSet))
    BY SameOccupants DEF Attach
  <1>2. /\ root' = "attached"
        /\ UNCHANGED <<registered, mountState, alive, mountSet, containers, destroys, attempt,
                       stale, releases, detaching, detachWaits, leaving, crossed>>
    BY DEF Attach
  <1>3. TypeOK' /\ NoOrphanAfterDetach'
    BY <1>0, <1>2 DEF TypeOK, NoOrphanAfterDetach, Overtaken
  <1>4. SlotInv' /\ OccupantsInv'
    BY <1>0, <1>1, <1>2 DEF SlotInv, OccupantsInv, Overtaken
  <1>5. AttemptsInv' /\ StayingInv'
    BY <1>0, <1>1, <1>2 DEF AttemptsInv, StayingInv
  <1> QED
    BY <1>3, <1>4, <1>5 DEF IInv

(* A detach that finds somebody begins the release of the first occupant.       *)
LEMMA DetachIInv ==
  ASSUME IInv, Detach
  PROVE  IInv'
  <1>0. TypeOK /\ SlotInv /\ OccupantsInv /\ AttemptsInv /\ StayingInv
        /\ Occupants \subseteq Subject
    BY Unpacked
  <1>1. /\ root' = "detached" /\ detaching' = mountSet
        /\ UNCHANGED <<registered, mountState, alive, mountSet, containers, destroys,
                       attempt, stale, leaving>>
    BY DEF Detach
  <1>2. Occupants' = Occupants /\ (IsInjective(mountSet)' <=> IsInjective(mountSet))
    BY <1>1, SameOccupants
  <1>3. NoOrphanAfterDetach'
    BY <1>1, <1>2 DEF NoOrphanAfterDetach, Overtaken, Occupants
  <1>4. CASE mountSet = <<>>
    <2>1. UNCHANGED <<releases, detachWaits, crossed>>
      BY <1>4 DEF Detach
    <2>2. detachWaits = "no"
      BY <1>0 DEF Detach, TypeOK
    <2>3. TypeOK'
      BY <1>0, <1>1, <2>1, <2>2 DEF TypeOK
    <2>4. SlotInv' /\ OccupantsInv'
      BY <1>0, <1>1, <1>2, <2>1 DEF SlotInv, OccupantsInv, Overtaken
    <2>5. AttemptsInv' /\ StayingInv'
      BY <1>0, <1>1, <1>2, <2>1 DEF AttemptsInv, StayingInv
    <2> QED
      BY <1>3, <2>3, <2>4, <2>5 DEF IInv
  <1>5. CASE mountSet # <<>>
    <2>1. PICK x : x = mountSet[1]
      OBVIOUS
    <2>2. x \in Occupants /\ x \in Subject
      <3>1. mountSet[1] = Head(mountSet) /\ Head(mountSet) \in ToSet(mountSet)
        BY <1>0, <1>5, TailFacts DEF TypeOK
      <3> QED
        BY <1>0, <2>1, <3>1 DEF Occupants
    <2>3. StartsRelease(x) /\ detachWaits' = "yes"
      BY <1>5, <2>1 DEF Detach
    <2>4. Started(x)
      BY <1>0, <2>2, <2>3, StartFacts
    <2>5. SlotInv' /\ OccupantsInv' /\ AttemptsInv'
      BY <1>1, <2>2, <2>4, StartKeeps
    <2>6. StayingInv'
      BY <1>1, <2>2, <2>4, StartKeepsStaying
    <2>7. TypeOK'
      BY <1>0, <1>1, <1>5, <2>2, <2>3, <2>4 DEF TypeOK, Started
    <2> QED
      BY <1>3, <2>5, <2>6, <2>7 DEF IInv
  <1> QED
    BY <1>4, <1>5

(* The detach turns to the next of the occupants it found. *)
LEMMA DetachGoesOnIInv ==
  ASSUME IInv, DetachGoesOn
  PROVE  IInv'
  <1>0. TypeOK /\ NoOrphanAfterDetach /\ Occupants \subseteq Subject
    BY Unpacked
  <1>1. PICK x : x = Head(detaching)
    OBVIOUS
  <1>2. /\ detaching # <<>> /\ StartsRelease(x) /\ detachWaits' = "yes"
        /\ UNCHANGED <<root, registered, mountState, alive, mountSet, containers, destroys,
                       attempt, stale, detaching, leaving>>
    BY <1>1 DEF DetachGoesOn
  <1>3. x \in Subject
    BY <1>0, <1>1, <1>2, TailFacts DEF TypeOK
  <1>4. Started(x)
    BY <1>0, <1>2, <1>3, StartFacts
  <1>5. SlotInv' /\ OccupantsInv' /\ AttemptsInv'
    BY <1>2, <1>3, <1>4, StartKeeps
  <1>6. StayingInv'
    BY <1>2, <1>3, <1>4, StartKeepsStaying
  <1>7. TypeOK'
    BY <1>0, <1>2, <1>3, <1>4 DEF TypeOK, Started
  <1>8. NoOrphanAfterDetach'
    <2>1. Occupants' = Occupants
      BY <1>2, SameOccupants
    <2> QED
      BY <1>0, <1>2, <1>4, <2>1 DEF NoOrphanAfterDetach, Overtaken, Started
  <1> QED
    BY <1>5, <1>6, <1>7, <1>8 DEF IInv

-----------------------------------------------------------------------------
(* Extensions *)

(* Forgetting an extension: its state is reset, and a mount of it in flight no  *)
(* longer works on that state.                                                  *)
LEMMA ForgetIInv ==
  ASSUME IInv, NEW x \in Removable, Forget(x),
         UNCHANGED <<root, alive, mountSet, containers, destroys, attempt, releases, detaching,
                     detachWaits, crossed>>
  PROVE  IInv'
  <1>0. TypeOK /\ SlotInv /\ OccupantsInv /\ AttemptsInv /\ StayingInv /\ NoOrphanAfterDetach
        /\ x \in Subject
    BY Unpacked
  <1>1. Occupants' = Occupants /\ (IsInjective(mountSet)' <=> IsInjective(mountSet))
    BY SameOccupants
  <1>2. /\ registered' = registered \ {x}
        /\ mountState' = [mountState EXCEPT ![x] = "unmounted"]
        /\ leaving' = [leaving EXCEPT ![x] = "no"]
        /\ stale' = IF attempt[x] = "none" THEN stale ELSE stale \cup {x}
    BY DEF Forget
  <1>3. TypeOK'
    BY <1>0, <1>2 DEF TypeOK
  <1>4. SlotInv' /\ OccupantsInv' /\ NoOrphanAfterDetach'
    BY <1>0, <1>1, <1>2 DEF TypeOK, SlotInv, OccupantsInv, Overtaken, NoOrphanAfterDetach
  <1>5. AttemptsInv'
    BY <1>0, <1>2 DEF TypeOK, AttemptsInv
  <1>6. StayingInv'
    BY <1>0, <1>1, <1>2 DEF TypeOK, StayingInv
  <1> QED
    BY <1>3, <1>4, <1>5, <1>6 DEF IInv

(* An unregistration releases a mounted extension first. *)
LEMMA UnregisterIInv ==
  ASSUME IInv, NEW x \in Subject, Unregister(x)
  PROVE  IInv'
  <1>0. TypeOK /\ StayingInv /\ NoOrphanAfterDetach /\ Occupants \subseteq Subject
    BY Unpacked
  <1>1. /\ x \in Removable
        /\ UNCHANGED <<root, alive, mountSet, containers, destroys, attempt, detaching, detachWaits>>
    BY DEF Unregister
  <1>2. CASE mountState[x] = "mounted"
    <2>1. /\ StartsRelease(x) /\ leaving' = [leaving EXCEPT ![x] = "waiting"]
          /\ UNCHANGED <<registered, mountState, stale>>
      BY <1>2 DEF Unregister
    <2>2. Started(x)
      BY <1>0, <2>1, StartFacts
    <2>3. SlotInv' /\ OccupantsInv' /\ AttemptsInv'
      BY <1>1, <2>1, <2>2, StartKeeps
    <2>4. StayingInv'
      <3>1. \A y \in Subject \ Removable : leaving'[y] = leaving[y]
        BY <1>0, <1>1, <2>1 DEF TypeOK
      <3> QED
        BY <1>1, <2>1, <2>2, <3>1, StartKeepsStaying
    <2>5. TypeOK'
      BY <1>0, <1>1, <2>1, <2>2 DEF TypeOK, Started
    <2>6. NoOrphanAfterDetach'
      <3>1. Occupants' = Occupants
        BY <1>1, SameOccupants
      <3> QED
        BY <1>0, <1>1, <2>1, <2>2, <3>1 DEF NoOrphanAfterDetach, Overtaken, Started
    <2> QED
      BY <2>3, <2>4, <2>5, <2>6 DEF IInv
  <1>3. CASE mountState[x] # "mounted"
    <2>1. Forget(x) /\ UNCHANGED <<releases, crossed>>
      BY <1>3 DEF Unregister
    <2> QED
      BY <1>1, <2>1, ForgetIInv
  <1> QED
    BY <1>2, <1>3

(* Whoever waits for its release to unregister is one that may leave. *)
LEMMA UnregisterEndsIInv ==
  ASSUME IInv, NEW x \in Subject, UnregisterEnds(x)
  PROVE  IInv'
  <1>1. x \in Removable
    BY Unpacked DEF UnregisterEnds, StayingInv
  <1> QED
    BY <1>1, ForgetIInv DEF UnregisterEnds

LEMMA RegisterIInv ==
  ASSUME IInv, NEW x \in Subject, Register(x)
  PROVE  IInv'
  <1>0. TypeOK /\ SlotInv /\ OccupantsInv /\ AttemptsInv /\ StayingInv /\ NoOrphanAfterDetach
    BY Unpacked
  <1>1. Occupants' = Occupants /\ (IsInjective(mountSet)' <=> IsInjective(mountSet))
    BY SameOccupants DEF Register
  <1>2. /\ registered' = registered \cup {x}
        /\ UNCHANGED <<root, mountState, alive, mountSet, containers, destroys, attempt, stale,
                       releases, detaching, detachWaits, leaving, crossed>>
    BY DEF Register
  <1>3. TypeOK'
    BY <1>0, <1>2 DEF TypeOK
  <1>4. SlotInv' /\ OccupantsInv' /\ NoOrphanAfterDetach'
    BY <1>0, <1>1, <1>2 DEF SlotInv, OccupantsInv, Overtaken, NoOrphanAfterDetach
  <1>5. AttemptsInv' /\ StayingInv'
    BY <1>0, <1>1, <1>2 DEF AttemptsInv, StayingInv
  <1> QED
    BY <1>3, <1>4, <1>5 DEF IInv

-----------------------------------------------------------------------------
LEMMA StutterIInv == ASSUME IInv, UNCHANGED mvars PROVE IInv'
  <1>0. TypeOK /\ SlotInv /\ OccupantsInv /\ AttemptsInv /\ StayingInv /\ NoOrphanAfterDetach
    BY Unpacked
  <1>1. Occupants' = Occupants /\ (IsInjective(mountSet)' <=> IsInjective(mountSet))
    BY SameOccupants DEF mvars
  <1>2. TypeOK'
    BY <1>0 DEF TypeOK, mvars
  <1>3. SlotInv' /\ OccupantsInv' /\ NoOrphanAfterDetach'
    BY <1>0, <1>1 DEF SlotInv, OccupantsInv, Overtaken, NoOrphanAfterDetach, mvars
  <1>4. AttemptsInv' /\ StayingInv'
    BY <1>0, <1>1 DEF AttemptsInv, StayingInv, mvars
  <1> QED
    BY <1>2, <1>3, <1>4 DEF IInv

LEMMA ProgressIInv ==
  ASSUME IInv, NEW x \in Subject, Progress(x)
  PROVE  IInv'
  <1>1. CASE LifecycleUnmounted(x) \/ LeavesMountSet(x) \/ Places(x) \/ UnregisterEnds(x)
    BY <1>1, LifecycleUnmountedIInv, LeavesMountSetIInv, PlacesIInv, UnregisterEndsIInv
  <1>2. CASE \E outcome \in {"succeeded", "failed"} : ReleaseSettles(x, outcome)
    BY <1>2, ReleaseSettlesIInv
  <1>3. CASE MountGoesOn(x)
    BY <1>3, LifecycleMountedIInv, UndoesMountIInv DEF MountGoesOn
  <1>4. CASE MountFails(x)
    BY <1>4, LifecycleMountFailsIInv, MountUndoneIInv, NothingToUndoIInv DEF MountFails
  <1> QED
    BY <1>1, <1>2, <1>3, <1>4 DEF Progress

LEMMA NextIInv == ASSUME IInv, [Next]_mvars PROVE IInv'
  <1>1. ASSUME NEW x \in Subject,
               AsksToMount(x) \/ AsksToRelease(x) \/ Progress(x) \/ Unregister(x) \/ Register(x)
        PROVE  IInv'
    BY <1>1, MountBeginsIInv, ReleaseIInv, ProgressIInv, UnregisterIInv, RegisterIInv
  <1>2. CASE Attach \/ Detach \/ DetachGoesOn
    BY <1>2, AttachIInv, DetachIInv, DetachGoesOnIInv
  <1>3. CASE UNCHANGED mvars
    BY <1>3, StutterIInv
  <1> QED
    BY <1>1, <1>2, <1>3 DEF Next

(* The invariant holds however mounts, releases, detaches, unregistrations and  *)
(* registrations of any number of extensions interleave.                        *)
THEOREM Invariance == Spec => []IInv
  <1>1. Init => IInv
    BY InitIInv
  <1>2. IInv /\ [Next]_mvars => IInv'
    BY NextIInv
  <1> QED
    BY <1>1, <1>2, PTL DEF Spec

(* Every variable keeps to its type; no container is destroyed twice, so that   *)
(* the count of an extension's containers never goes below zero.                *)
THEOREM TypeCorrect == Spec => []TypeOK
  <1>1. IInv => TypeOK
    BY Unpacked
  <1> QED
    BY <1>1, Invariance, PTL

(* Every container created by a strategy is destroyed exactly once, by the      *)
(* mount that failed or by the release of the occupant it became, and an        *)
(* extension never has two.                                                     *)
THEOREM ContainersDestroyedOnce == Spec => []ContainersAccountedFor
  <1>1. IInv => ContainersAccountedFor
    <2>1. ASSUME SlotInv, NEW x \in Subject
          PROVE  /\ containers[x] = (IF attempt[x] # "none" THEN 1 ELSE 0)
                                    + (IF x \in destroys THEN 1 ELSE 0)
                 /\ x \in destroys => attempt[x] = "none"
      BY <2>1 DEF SlotInv
    <2> QED
      BY <2>1, Unpacked DEF ContainersAccountedFor
  <1> QED
    BY <1>1, Invariance, PTL

(* Whoever the mount set records and nobody releases is alive, in the one       *)
(* container whose destruction is arranged, but for a record left over by a     *)
(* release that overtook the placement.                                         *)
THEOREM RecordedMeansMounted == Spec => []OccupantsAreReal
  <1>1. IInv => OccupantsAreReal
    <2>1. ASSUME SlotInv, OccupantsInv, NEW x \in Subject, x \in Occupants \ Overtaken
          PROVE  x \in destroys /\ containers[x] = 1 /\ (releases[x] = "none" => x \in alive)
      <3>1. x \in destroys /\ attempt[x] = "none" /\ (releases[x] = "none" => x \in alive)
        BY <2>1 DEF OccupantsInv, Overtaken
      <3>2. containers[x] = 0 + 1
        BY <2>1, <3>1 DEF SlotInv
      <3> QED
        BY <3>1, <3>2
    <2> QED
      BY <2>1, Unpacked DEF OccupantsAreReal
  <1> QED
    BY <1>1, Invariance, PTL

(* No failure path, eviction or detach forgets a mounted lifecycle of an        *)
(* extension that stays registered.                                             *)
THEOREM MountedMeansRecorded == Spec => []NothingLeftMounted
  <1>1. IInv => NothingLeftMounted
    BY Unpacked DEF NothingLeftMounted, StayingInv, TypeOK
  <1> QED
    BY <1>1, Invariance, PTL

(* Once the root is gone, every occupant is being released or will be: one that *)
(* a mount in flight would add finds no root.                                   *)
THEOREM DetachMissesNobody == Spec => []NoOrphanAfterDetach
  <1>1. IInv => NoOrphanAfterDetach
    BY Unpacked
  <1> QED
    BY <1>1, Invariance, PTL

-----------------------------------------------------------------------------
(* A lifecycle whose state says mounted is an occupant's or is being placed: a   *)
(* release sets the state of whom it unmounts before it drops the occupant, and *)
(* a mount that ends without placing sets it too.                               *)
LEMMA MountedBesideMount ==
  ASSUME IInv, MountedInv, NEW x \in Subject,
         \/ AsksToRelease(x) \/ LifecycleUnmounted(x) \/ LeavesMountSet(x)
         \/ \E outcome \in {"succeeded", "failed"} : ReleaseSettles(x, outcome)
         \/ Unregister(x) \/ UnregisterEnds(x) \/ Register(x)
  PROVE  MountedInv'
  <1>0. TypeOK /\ OccupantsInv
    BY Unpacked
  <1>1. CASE StartsRelease(x) /\ UNCHANGED <<registered, mountState, mountSet, attempt, stale>>
    BY <1>0, <1>1, StartFacts, SameOccupants DEF MountedInv, Started, Unmounts, TypeOK
  <1>2. CASE LifecycleUnmounted(x)
    BY <1>0, <1>2, SameOccupants DEF LifecycleUnmounted, MountedInv, TypeOK
  <1>3. CASE LeavesMountSet(x)
    <2>1. Occupants' = Occupants \ {x}
      BY <1>3, RestFacts DEF LeavesMountSet
    <2> QED
      BY <1>0, <1>3, <2>1 DEF LeavesMountSet, MountedInv, TypeOK
  <1>4. ASSUME NEW outcome, ReleaseSettles(x, outcome)  PROVE MountedInv'
    <2>1. Occupants' = Occupants
      BY <1>4, SameOccupants DEF ReleaseSettles
    <2>2. /\ releases[x] \in {"left", "leftBroken"}
          /\ releases' = [releases EXCEPT ![x] = "none"]
          /\ UNCHANGED <<registered, mountState, attempt, stale>>
      BY <1>4 DEF ReleaseSettles
    <2> QED
      BY <1>0, <2>1, <2>2 DEF MountedInv, TypeOK
  <1>5. CASE Forget(x) /\ UNCHANGED <<mountSet, attempt, releases>>
    BY <1>0, <1>5, SameOccupants DEF Forget, MountedInv, TypeOK
  <1>6. CASE Register(x)
    BY <1>0, <1>6, SameOccupants DEF Register, MountedInv, TypeOK
  <1> QED
    BY <1>1, <1>2, <1>3, <1>4, <1>5, <1>6 DEF AsksToRelease, Release, Unregister, UnregisterEnds

LEMMA MountedThroughMount ==
  ASSUME IInv, MountedInv, NEW x \in Subject,
         AsksToMount(x) \/ MountGoesOn(x) \/ MountFails(x) \/ Places(x)
  PROVE  MountedInv'
  <1>0. TypeOK /\ OccupantsInv /\ AttemptsInv
    BY Unpacked
  <1>1. CASE AsksToMount(x)
    BY <1>0, <1>1, SameOccupants DEF AsksToMount, MountBegins, MountedInv, TypeOK
  <1>2. CASE LifecycleMounted(x)
    BY <1>0, <1>2, SameOccupants DEF LifecycleMounted, SetsState, MountedInv, TypeOK
  <1>3. CASE LifecycleMountFails(x)
    BY <1>0, <1>3, SameOccupants
       DEF LifecycleMountFails, AttemptEnds, SetsState, MountedInv, AttemptsInv, TypeOK
  <1>4. CASE MountUndone(x)
    BY <1>0, <1>4, SameOccupants
       DEF MountUndone, AttemptEnds, SetsState, MountedInv, AttemptsInv, TypeOK
  <1>5. CASE UndoesMount(x)
    <2>1. x \notin Occupants
      BY <1>0, <1>5 DEF UndoesMount, OccupantsInv, Overtaken
    <2>2. Occupants' = Occupants
      BY <1>5, <2>1, RestFacts, SameOccupants DEF UndoesMount
    <2> QED
      BY <1>0, <1>5, <2>2 DEF UndoesMount, MountedInv, TypeOK
  <1>6. CASE NothingToUndo(x)
    <2>1. x \notin Occupants
      BY <1>0, <1>6 DEF NothingToUndo, OccupantsInv, Overtaken
    <2>2. Occupants' = Occupants
      BY <1>6, <2>1, RestFacts, SameOccupants DEF NothingToUndo
    <2> QED
      BY <1>0, <1>6, <2>2 DEF NothingToUndo, AttemptEnds, Unmounts, MountedInv, TypeOK
  <1>7. CASE Places(x)
    <2>1. Occupants' = Occupants \cup {x}
      BY <1>0, <1>7, AppendFacts DEF Places, Occupants, TypeOK
    <2> QED
      BY <1>0, <1>7, <2>1 DEF Places, AttemptEnds, MountedInv, TypeOK
  <1> QED
    BY <1>1, <1>2, <1>3, <1>4, <1>5, <1>6, <1>7 DEF MountGoesOn, MountFails

LEMMA NextMountedInv == ASSUME IInv, MountedInv, [Next]_mvars PROVE MountedInv'
  <1>0. TypeOK
    BY Unpacked
  <1>1. ASSUME NEW x \in Subject,
               AsksToMount(x) \/ AsksToRelease(x) \/ Progress(x) \/ Unregister(x) \/ Register(x)
        PROVE  MountedInv'
    BY <1>1, MountedBesideMount, MountedThroughMount DEF Progress
  <1>2. ASSUME NEW x \in Subject, StartsRelease(x),
               UNCHANGED <<registered, mountState, mountSet, attempt, stale>>
        PROVE  MountedInv'
    BY <1>0, <1>2, StartFacts, SameOccupants DEF MountedInv, Started, Unmounts, TypeOK
  <1>3. CASE UNCHANGED <<registered, mountState, mountSet, attempt, stale, releases>>
    BY <1>3, SameOccupants DEF MountedInv
  <1>4. CASE Detach
    <2>1. CASE mountSet = <<>>
      BY <1>3, <1>4, <2>1 DEF Detach
    <2>2. CASE mountSet # <<>>
      <3>1. mountSet[1] \in Subject
        BY <1>0, <2>2 DEF TypeOK
      <3> QED
        BY <1>2, <1>4, <2>2, <3>1 DEF Detach
    <2> QED
      BY <2>1, <2>2
  <1>5. CASE DetachGoesOn
    <2>1. Head(detaching) \in Subject
      BY <1>0, <1>5 DEF DetachGoesOn, TypeOK
    <2> QED
      BY <1>2, <1>5, <2>1 DEF DetachGoesOn
  <1> QED
    BY <1>1, <1>3, <1>4, <1>5 DEF Next, Attach, mvars

(* What the state says of a lifecycle can be relied on: only an occupant, or     *)
(* what a mount is about to place or to undo, is said to be mounted.            *)
THEOREM MountedStateIsTrue == Spec => []MountedInv
  <1>1. Init => IInv /\ MountedInv
    BY InitIInv DEF Init, MountedInv
  <1>2. IInv /\ MountedInv /\ [Next]_mvars => (IInv /\ MountedInv)'
    BY NextIInv, NextMountedInv
  <1> QED
    BY <1>1, <1>2, PTL DEF Spec

=============================================================================
