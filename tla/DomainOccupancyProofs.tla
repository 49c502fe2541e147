------------------------- MODULE DomainOccupancyProofs -------------------------
(***************************************************************************)
(* Theorems about one Optional or Exclusive domain, its queue, its turns   *)
(* and its mounter together, for every set of extensions and any number of *)
(* requests.                                                               *)
(*                                                                         *)
(* The queue keeps its own invariant, as OccupancyQueueProofs shows, and   *)
(* the mounter its own, as ExtensionMounterProofs shows, once every step   *)
(* of the domain is shown to be one of the mounter's.                      *)
(***************************************************************************)
EXTENDS DomainOccupancy, OrderedSets, TLAPS

QP == INSTANCE OccupancyQueueProofs
MP == INSTANCE ExtensionMounterProofs

-----------------------------------------------------------------------------
(* The queue and the mounter of the domain are the ones the other two modules  *)
(* prove about.                                                                *)
LEMMA SameQueueInv == Q!IInv <=> QP!IInv
  BY DEF Q!IInv, QP!IInv, Q!TypeOK, QP!TypeOK, Q!SlotsInv, QP!SlotsInv, Q!MembersInv,
         QP!MembersInv, Q!Belongs, QP!Belongs, Q!WaitingInv, QP!WaitingInv, Q!Placed, QP!Placed,
         Q!Caller, QP!Caller, Q!NoEntry, QP!NoEntry, Q!IsClosed, QP!IsClosed, Q!Request,
         QP!Request, Q!Operation, QP!Operation, Q!NoRequest, QP!NoRequest

LEMMA SameSubmit == ASSUME NEW c, NEW r PROVE Q!Submit(c, r) <=> QP!Submit(c, r)
  BY DEF Q!Submit, QP!Submit, Q!SubmitRefused, QP!SubmitRefused, Q!SubmitToEmpty,
         QP!SubmitToEmpty, Q!SubmitJoinsPending, QP!SubmitJoinsPending, Q!SubmitJoinsRunning,
         QP!SubmitJoinsRunning, Q!SubmitTakesPending, QP!SubmitTakesPending, Q!Call, QP!Call,
         Q!Admit, QP!Admit, Q!StartRunning, QP!StartRunning, Q!FirstLiveCaller,
         QP!FirstLiveCaller, Q!SettleAll, QP!SettleAll, Q!ClearSettledTimers,
         QP!ClearSettledTimers, Q!Matches, QP!Matches, Q!MembersOf, QP!MembersOf, Q!Caller,
         QP!Caller, Q!NoEntry, QP!NoEntry, Q!IsClosed, QP!IsClosed

LEMMA SameFinish ==
  ASSUME NEW e, NEW outcome PROVE Q!FinishRunning(e, outcome) <=> QP!FinishRunning(e, outcome)
  BY DEF Q!FinishRunning, QP!FinishRunning, Q!StartRunning, QP!StartRunning, Q!FirstLiveCaller,
         QP!FirstLiveCaller, Q!SettleAll, QP!SettleAll, Q!ClearSettledTimers,
         QP!ClearSettledTimers, Q!Caller, QP!Caller, Q!NoEntry, QP!NoEntry

LEMMA SameOtherSteps ==
  /\ \A c \in Q!Caller : Q!TimerFires(c) <=> QP!TimerFires(c)
  /\ (Q!Close <=> QP!Close) /\ (Q!Reopen <=> QP!Reopen)
  BY DEF Q!TimerFires, QP!TimerFires, Q!QueuedStill, QP!QueuedStill, Q!LastCallerLeft,
         QP!LastCallerLeft, Q!ClearSettledTimers, QP!ClearSettledTimers, Q!NoEntry, QP!NoEntry,
         Q!Close, QP!Close, Q!Reopen, QP!Reopen, Q!SettleAll, QP!SettleAll, Q!MembersOf,
         QP!MembersOf, Q!Caller, QP!Caller

LEMMA SameRest == ASSUME NEW x PROVE M!Rest(x) = MP!Rest(x) /\ M!Rest(x) = RemoveFirst(mountSet, x)
  BY DEF M!Rest, MP!Rest, M!RemoveFirst, MP!RemoveFirst, RemoveFirst, M!RemoveAt, MP!RemoveAt,
         RemoveAt, M!SelectInSeq, MP!SelectInSeq, SelectInSeq, M!Min, MP!Min, Min

LEMMA SameOccupants == M!Occupants = MP!Occupants /\ M!Occupants = ToSet(mountSet)
  BY DEF M!Occupants, MP!Occupants, M!ToSet, MP!ToSet, ToSet

LEMMA SameMounterInv ==
  /\ M!Init <=> MP!Init
  /\ M!IInv <=> MP!IInv
  /\ M!MountedInv <=> MP!MountedInv
  BY SameOccupants
     DEF M!Init, MP!Init, M!MountedInv, MP!MountedInv, M!IInv, MP!IInv, M!TypeOK, MP!TypeOK,
         M!SlotInv, MP!SlotInv, M!OccupantsInv, MP!OccupantsInv, M!AttemptsInv, MP!AttemptsInv,
         M!StayingInv, MP!StayingInv, M!NoOrphanAfterDetach, MP!NoOrphanAfterDetach,
         M!IsInjective, MP!IsInjective, M!ToSet, MP!ToSet, M!Overtaken, MP!Overtaken

LEMMA SameMounterNext == [M!Next]_physical <=> [MP!Next]_(MP!mvars)
  <1>1. M!Next <=> MP!Next
    BY SameRest, SameOccupants
       DEF M!Next, MP!Next, M!AsksToMount, MP!AsksToMount, M!AsksToRelease, MP!AsksToRelease,
           M!Progress, MP!Progress, M!Release, MP!Release, M!StartsRelease, MP!StartsRelease,
           M!Unmounts, MP!Unmounts, M!LifecycleUnmounted, MP!LifecycleUnmounted,
           M!LeavesMountSet, MP!LeavesMountSet, M!TakesDestroy, MP!TakesDestroy,
           M!ReleaseOutcomes, MP!ReleaseOutcomes, M!WaitsFor, MP!WaitsFor, M!ReleaseSettles,
           MP!ReleaseSettles, M!MissesDestroy, MP!MissesDestroy, M!MountBegins, MP!MountBegins, M!SetsState, MP!SetsState,
           M!AttemptEnds, MP!AttemptEnds, M!DestroysContainer, MP!DestroysContainer,
           M!LifecycleMounted, MP!LifecycleMounted, M!LifecycleMountFails,
           MP!LifecycleMountFails, M!RootHolds, MP!RootHolds, M!Places, MP!Places,
           M!UndoesMount, MP!UndoesMount, M!MountUndone, MP!MountUndone, M!NothingToUndo,
           MP!NothingToUndo, M!MountGoesOn, MP!MountGoesOn, M!MountFails, MP!MountFails,
           M!Attach, MP!Attach, M!Detach, MP!Detach, M!DetachGoesOn, MP!DetachGoesOn,
           M!Forget, MP!Forget, M!Unregister, MP!Unregister, M!UnregisterEnds,
           MP!UnregisterEnds, M!Register, MP!Register
  <1> QED
    BY <1>1 DEF physical, MP!mvars

(* Whatever step the mounter takes keeps its invariants. *)
LEMMA MounterKeeps ==
  ASSUME M!IInv, M!MountedInv, [M!Next]_physical
  PROVE  M!IInv' /\ M!MountedInv'
  <1>1. MP!IInv /\ MP!MountedInv /\ [MP!Next]_(MP!mvars)
    BY SameMounterInv, SameMounterNext
  <1>2. MP!IInv' /\ MP!MountedInv'
    BY <1>1, MP!NextIInv, MP!NextMountedInv, DomainAssumption DEF MP!RemovableAssumption
  <1>3. (M!IInv' <=> MP!IInv') /\ (M!MountedInv' <=> MP!MountedInv')
    BY SameMounterInv, PTL
  <1> QED
    BY <1>2, <1>3

(* What is known of the occupants. *)
LEMMA MountSetFacts ==
  ASSUME M!IInv
  PROVE  /\ M!TypeOK /\ M!OccupantsInv /\ M!AttemptsInv
         /\ mountSet \in Seq(Subject) /\ M!Occupants = ToSet(mountSet)
         /\ M!Occupants \subseteq Subject /\ (mountSet = <<>> <=> M!Occupants = {})
         /\ Len(mountSet) <= 1 <=> \A x, y \in M!Occupants : x = y
  <1>1. M!TypeOK /\ M!OccupantsInv /\ M!AttemptsInv /\ mountSet \in Seq(Subject)
    BY DEF M!IInv, M!TypeOK
  <1>2. IsInjective(mountSet)
    BY DEF M!IInv, M!SlotInv, M!IsInjective, IsInjective
  <1>3. Len(mountSet) <= 1 <=> \A x, y \in ToSet(mountSet) : x = y
    BY <1>1, <1>2, SingleFacts
  <1> QED
    BY <1>1, <1>3, SameOccupants, ElementsTyped

-----------------------------------------------------------------------------
(* The entry at its turn, and what else the invariant says of it. *)
LEMMA EntryFacts == ASSUME IInv PROVE Q!IInv /\ EntriesInv /\ UrlShowsTheOccupant
  BY DEF IInv

LEMMA Facts ==
  ASSUME IInv, NoneCrossed
  PROVE  /\ Q!IInv /\ M!IInv /\ M!MountedInv
         /\ EntriesInv /\ EvictionInv /\ TurnInv /\ DetachInv
         /\ Len(mountSet) <= 1 /\ UrlShowsTheOccupant
         /\ M!TypeOK /\ M!OccupantsInv /\ M!AttemptsInv
         /\ mountSet \in Seq(Subject) /\ M!Occupants = ToSet(mountSet)
         /\ M!Occupants \subseteq Subject /\ (mountSet = <<>> <=> M!Occupants = {})
         /\ \A x, y \in M!Occupants : x = y
         /\ crossed = {} /\ M!Overtaken = {}
  BY MountSetFacts DEF IInv, OccupancyInv, AtMostOneOccupant, NoneCrossed, M!Overtaken

LEMMA QueueFacts ==
  ASSUME Q!IInv
  PROVE  /\ submitted \in 0 .. MaxCallers /\ running \in 0 .. MaxCallers
         /\ pending \in 0 .. MaxCallers /\ running <= submitted /\ pending <= submitted
         /\ request \in [Q!Caller -> Q!Request \cup {Q!NoRequest}]
         /\ status \in [Q!Caller -> {"idle", "waiting", "succeeded", "failed"}]
         /\ \A c \in Q!Caller : status[c] = "idle" <=> c > submitted
         /\ pending # 0 => running # 0
         /\ running # 0 => \E c \in members[running] : c \in Q!Caller /\ status[c] = "waiting"
  <1>1. Q!TypeOK /\ Q!SlotsInv /\ Q!MembersInv
    BY DEF Q!IInv
  <1>2. running <= submitted
    BY <1>1 DEF Q!TypeOK, Q!SlotsInv, Q!NoEntry
  <1>3. ASSUME running # 0
        PROVE  \E c \in members[running] : c \in Q!Caller /\ status[c] = "waiting"
    <2>1. running \in Q!Caller
      BY <1>1, <1>3, DomainAssumption DEF Q!TypeOK, Q!Caller
    <2>2. PICK c \in members[running] : TRUE
      BY <1>1, <1>3 DEF Q!SlotsInv, Q!NoEntry
    <2>3. c \in Q!Caller /\ Q!Belongs(c, running)
      BY <1>1, <2>1, <2>2 DEF Q!TypeOK, Q!MembersInv
    <2> QED
      BY <2>2, <2>3 DEF Q!Belongs
  <1>4. pending # 0 => running # 0
    BY <1>1 DEF Q!SlotsInv, Q!NoEntry
  <1> QED
    BY <1>1, <1>2, <1>3, <1>4 DEF Q!TypeOK, Q!SlotsInv

LEMMA TurnFacts ==
  ASSUME IInv, turn # "idle"
  PROVE  /\ running # 0 /\ running \in Q!Caller /\ Now \in Subject
         /\ request[running].op \in {"mount", "unmount"}
         /\ Mounting <=> request[running].op = "mount"
  <1>1. running # 0 /\ running \in Q!Caller /\ running <= submitted
    BY EntryFacts, QueueFacts, DomainAssumption DEF EntriesInv, Q!NoEntry, Q!Caller
  <1>2. request[running] \in Q!Request
    BY <1>1, EntryFacts DEF EntriesInv
  <1> QED
    BY <1>1, <1>2 DEF Now, Mounting, Q!NoEntry, Q!Request, Q!Operation

(* While an eviction goes on there is one occupant to release, and no more once *)
(* it has left.                                                                  *)
LEMMA EvictionFacts ==
  ASSUME IInv, NoneCrossed, turn = "evicted"
  PROVE  ToEvict = <<>> /\ mountSet = <<>> /\ Mounting /\ releases[Now] = "none"
         /\ Now \notin M!Occupants
  <1>1. PICK x \in Subject : evicting = <<x>> /\ mountSet = <<>>
    BY Facts DEF EvictionInv
  <1>2. Tail(evicting) = <<>>
    BY <1>1
  <1> QED
    BY <1>1, <1>2, Facts DEF EvictionInv, ToEvict

(* A fresh turn finds at most one sibling, which it evicts. *)
LEMMA FreshFacts ==
  ASSUME IInv, NoneCrossed, FreshTurn
  PROVE  /\ ToEvict = mountSet /\ Mounting /\ releases[Now] = "none" /\ Now \notin M!Occupants
         /\ mountSet # <<>> =>
              \E x \in Subject : mountSet = <<x>> /\ M!Occupants = {x} /\ x # Now
  <1>1. /\ Mounting /\ releases[Now] = "none" /\ Now \notin M!Occupants
        /\ turn \in {"starting", "resumed"}
    BY DEF FreshTurn, Settled, AtTurn
  <1>2. /\ mountSet \in Seq(Subject) /\ Len(mountSet) <= 1 /\ Len(mountSet) \in Nat
        /\ M!Occupants = ToSet(mountSet)
    BY Facts DEF AtMostOneOccupant
  <1>3. ToEvict = mountSet
    <2>1. mountSet = <<>> \/ Len(mountSet) = 1
      BY <1>2, OneOrNone
    <2> QED
      BY <1>1, <2>1 DEF ToEvict, Siblings
  <1>4. ASSUME mountSet # <<>>
        PROVE  \E x \in Subject : mountSet = <<x>> /\ M!Occupants = {x} /\ x # Now
    BY <1>1, <1>2, <1>4, OneOrNone
  <1> QED
    BY <1>1, <1>3, <1>4

-----------------------------------------------------------------------------
(* Every step of the domain is a step of the mounter that its rules allow: the  *)
(* turn asks to mount only what is neither mounted nor on its way out, and to   *)
(* release only what is not on its way in.                                      *)
LEMMA TurnUsesMounter == ASSUME IInv, NoneCrossed, Turn PROVE [M!Next]_physical
  <1>1. CASE TurnAwaitsUnmount \/ TurnIneligible \/ TurnFindsItDone
    BY <1>1 DEF TurnAwaitsUnmount, TurnIneligible, TurnFindsItDone
  <1>2. CASE TurnReleases
    <2>1. Now \in Subject /\ attempt[Now] = "none"
      BY <1>2, TurnFacts, Facts DEF TurnReleases, AtTurn, TurnInv, M!TypeOK
    <2> QED
      BY <1>2, <2>1 DEF TurnReleases, M!Next, M!AsksToRelease
  <1>3. CASE TurnEvicts
    <2>1. FreshTurn
      BY <1>3, EvictionFacts DEF TurnEvicts
    <2>2. PICK x \in Subject : ToEvict = <<x>>
      BY <1>3, <2>1, FreshFacts DEF TurnEvicts
    <2>3. attempt[x] = "none"
      BY <2>1, Facts DEF FreshTurn, AtTurn, TurnInv, M!TypeOK
    <2> QED
      BY <1>3, <2>2, <2>3 DEF TurnEvicts, M!Next, M!AsksToRelease
  <1>4. CASE TurnMounts
    <2>1. releases[Now] = "none" /\ Now \notin M!Occupants
      BY <1>4, EvictionFacts, FreshFacts DEF TurnMounts
    <2>2. Now \in Subject
      BY <1>4, TurnFacts DEF TurnMounts, FreshTurn, AtTurn
    <2> QED
      BY <1>4, <2>1, <2>2 DEF TurnMounts, M!Next, M!AsksToMount
  <1>5. CASE MountProceeds
    <2>1. Now \in Subject
      BY <1>5, TurnFacts DEF MountProceeds
    <2> QED
      BY <1>5, <2>1 DEF MountProceeds, M!Next, M!Progress
  <1> QED
    BY <1>1, <1>2, <1>3, <1>4, <1>5 DEF Turn

LEMMA NextUsesMounter == ASSUME IInv, NoneCrossed, [Next]_vars PROVE [M!Next]_physical
  <1>1. ASSUME NEW r, RequestArrives(submitted + 1, r)  PROVE UNCHANGED physical
    BY <1>1 DEF RequestArrives
  <1>2. CASE TaskEnds \/ QueueStep \/ (\E c \in Q!Caller : SettleCommand(c)) \/ UNCHANGED vars
    BY <1>2 DEF TaskEnds, QueueStep, SettleCommand, vars
  <1>3. CASE Turn
    BY <1>3, TurnUsesMounter
  <1>4. CASE Beside(Surroundings \/ DetachProceeds)
    BY <1>4 DEF Beside, Surroundings, DetachProceeds, M!Next
  <1>5. ASSUME NEW x \in Subject, Beside(ReleaseProceeds(x) \/ ReleaseEnds(x) \/ UnregisterEnds(x))
        PROVE  M!Next
    BY <1>5 DEF Beside, ReleaseProceeds, ReleaseEnds, UnregisterEnds, M!Next, M!Progress
  <1> QED
    BY <1>1, <1>2, <1>3, <1>4, <1>5 DEF Next

-----------------------------------------------------------------------------
(* What a step does to the running entry: it goes on undisturbed, or the slot   *)
(* is taken anew, or empty, and nothing was being mounted.                      *)
RunsOn ==
  /\ running' = running /\ turn' = turn /\ evicting' = evicting
  /\ running # 0 => request'[running] = request[running]

StartsAnew ==
  turn # "mounting" /\ turn' \in {"starting", "idle"} /\ (turn' = "idle" <=> running' = 0)

(* A request that arrives is answered at once or given to the queue. *)
LEMMA ArrivalKeepsEntries ==
  ASSUME IInv, NEW r \in Requests, RequestArrives(submitted + 1, r)
  PROVE  /\ Q!IInv' /\ EntriesInv' /\ (RunsOn \/ StartsAnew)
         /\ turn' = "idle" => turn = "idle" /\ uncommanded' # {}
  <1> DEFINE n == submitted + 1
  <1>1. /\ IneligibleMount(n, r) \/ AlreadyMounted(n, r) \/ Queued(n, r)
        /\ CallsNewEntry /\ SettlesCallers /\ turn # "starting"
        /\ UNCHANGED <<physical, strategy, evicting>> /\ r \in Q!Request
    BY DEF RequestArrives, Requests, Calm
  <1>2. /\ n \in Q!Caller /\ submitted' = n /\ request' = [request EXCEPT ![n] = r]
        /\ Q!Call(n, r)
    BY <1>1 DEF IneligibleMount, AlreadyMounted, Queued, Answered, Q!Submit, Q!SubmitRefused,
                Q!SubmitToEmpty, Q!SubmitJoinsPending, Q!SubmitJoinsRunning, Q!SubmitTakesPending,
                Q!Call
  <1>3. Q!IInv'
    <2>1. QP!IInv /\ QP!Call(n, r) /\ r \in QP!Request
      BY <1>1, <1>2, EntryFacts, SameQueueInv
         DEF Q!Call, QP!Call, Q!Caller, QP!Caller, Q!Request, QP!Request, Q!Operation, QP!Operation
    <2>2. CASE \E outcome \in {"succeeded", "failed"} : Answered(n, r, outcome)
      <3>1. PICK outcome \in {"succeeded", "failed"} : Answered(n, r, outcome)
        BY <2>2
      <3>2. QP!IInv'
        BY <2>1, <3>1, QP!AnsweredIInv, DomainAssumption
           DEF Answered, QP!MaxCallersAssumption
      <3> QED
        BY <3>2, SameQueueInv, PTL
    <2>3. CASE Q!Submit(n, r)
      <3>1. QP!Next
        BY <2>1, <2>3, SameSubmit DEF QP!Next
      <3>2. QP!IInv'
        BY <2>1, <3>1, QP!NextIInv, DomainAssumption DEF QP!MaxCallersAssumption
      <3> QED
        BY <3>2, SameQueueInv, PTL
    <2> QED
      BY <1>1, <2>2, <2>3 DEF IneligibleMount, AlreadyMounted, Queued
  <1>4. running' = running \/ (running = 0 /\ running' = n /\ Q!SubmitToEmpty(n, r))
    BY <1>1 DEF IneligibleMount, AlreadyMounted, Queued, Answered, Q!Submit, Q!SubmitRefused,
                Q!SubmitToEmpty, Q!SubmitJoinsPending, Q!SubmitJoinsRunning, Q!SubmitTakesPending,
                Q!StartRunning, Q!NoEntry
  <1>5. n # 0 /\ running # n /\ status[n] = "idle"
    BY <1>2, EntryFacts, QueueFacts, DomainAssumption DEF Q!Caller
  <1>6. RunsOn \/ StartsAnew
    <2>1. CASE running' = running
      BY <1>1, <1>2, <1>5, <2>1, EntryFacts, QueueFacts DEF RunsOn, CallsNewEntry, Q!Caller
    <2>2. CASE running = 0 /\ running' = n
      BY <1>1, <1>5, <2>2, EntryFacts DEF StartsAnew, CallsNewEntry, EntriesInv, Q!NoEntry
    <2> QED
      BY <1>4, <2>1, <2>2
  <1>7. EntriesInv'
    <2>1. (turn = "idle")' <=> running' = 0
      BY <1>6, EntryFacts DEF RunsOn, StartsAnew, EntriesInv, Q!NoEntry
    <2>2. \A c \in Q!Caller : c <= submitted' => request'[c] \in Q!Request
      <3> TAKE c \in Q!Caller
      <3>1. CASE c = n
        BY <1>1, <1>2, <3>1, EntryFacts, QueueFacts
      <3>2. CASE c # n
        BY <1>2, <3>2, EntryFacts, QueueFacts DEF EntriesInv, Q!Caller
      <3> QED
        BY <3>1, <3>2
    <2>3. turn' = turn \/ turn' \in {"starting", "idle"}
      BY <1>6 DEF RunsOn, StartsAnew
    <2> QED
      BY <2>1, <2>2, <2>3, EntryFacts DEF EntriesInv, Q!NoEntry, Q!Caller, Q!Request, Q!Operation
  <1>8. ASSUME turn' = "idle"  PROVE turn = "idle" /\ uncommanded' # {}
    <2>1. running' = 0 /\ running = 0 /\ turn = "idle"
      BY <1>4, <1>5, <1>7, <1>8, EntryFacts DEF EntriesInv, Q!NoEntry
    <2>2. status'[n] \in {"succeeded", "failed"}
      BY <1>1, <1>2, <1>4, <1>5, <2>1, EntryFacts, QueueFacts
         DEF IneligibleMount, AlreadyMounted, Queued, Answered, Q!Submit, Q!SubmitRefused,
             Q!SubmitToEmpty, Q!SubmitJoinsPending, Q!SubmitJoinsRunning, Q!SubmitTakesPending,
             Q!StartRunning, Q!NoEntry
    <2>3. n \in uncommanded'
      BY <1>1, <1>2, <1>5, <2>2 DEF SettlesCallers
    <2> QED
      BY <2>1, <2>3
  <1> QED
    BY <1>3, <1>6, <1>7, <1>8

(* The running entry's task ends. *)
LEMMA EndKeepsEntries ==
  ASSUME IInv, TaskEnds
  PROVE  /\ Q!IInv' /\ EntriesInv' /\ StartsAnew /\ uncommanded' # {}
  <1>1. /\ turn \in {"succeeded", "failed"} /\ Q!FinishRunning(running, turn)
        /\ CallsNewEntry /\ SettlesCallers
    BY DEF TaskEnds
  <1>2. /\ running # 0 /\ running \in Q!Caller
        /\ UNCHANGED <<submitted, request>>
    BY <1>1, TurnFacts DEF Q!FinishRunning
  <1>3. Q!IInv'
    <2>1. QP!IInv /\ QP!FinishRunning(running, turn) /\ running \in QP!Caller
      BY <1>1, <1>2, EntryFacts, SameQueueInv, SameFinish DEF Q!Caller, QP!Caller
    <2>2. QP!IInv'
      BY <1>1, <2>1, QP!NextIInv, DomainAssumption DEF QP!MaxCallersAssumption, QP!Next
    <2> QED
      BY <2>2, SameQueueInv, PTL
  <1>4. running' = 0 \/ (running' = pending /\ pending # 0)
    <2>1. ASSUME NEW S, NEW st, NEW tasks, Q!StartRunning(pending, S, st, tasks)
          PROVE  running' = pending
      BY <2>1 DEF Q!StartRunning
    <2>2. PICK left, tasks :
            /\ left = 0 /\ tasks = [task EXCEPT ![running] = 0]
            /\ \/ pending # 0 /\ Q!StartRunning(pending, members[pending], status', tasks)
               \/ running' = left
      BY <1>1 DEF Q!FinishRunning, Q!NoEntry
    <2> QED
      BY <2>1, <2>2
  <1>5. running' # running
    <2>1. (pending \notin started /\ running \in started) \/ pending = 0
      BY <1>2, EntryFacts DEF Q!IInv, Q!SlotsInv, Q!NoEntry
    <2> QED
      BY <1>2, <1>4, <2>1
  <1>6. StartsAnew
    BY <1>1, <1>4, <1>5 DEF CallsNewEntry, StartsAnew, Q!NoEntry
  <1>7. EntriesInv'
    BY <1>2, <1>6, EntryFacts
       DEF StartsAnew, EntriesInv, Q!NoEntry, Q!Caller, Q!Request, Q!Operation
  <1>8. uncommanded' # {}
    <2>1. PICK c \in members[running] : c \in Q!Caller /\ status[c] = "waiting"
      BY <1>2, EntryFacts, QueueFacts
    <2>2. status'[c] = turn
      BY <1>1, <2>1 DEF Q!FinishRunning, Q!SettleAll
    <2>3. c \in uncommanded'
      BY <1>1, <2>1, <2>2 DEF SettlesCallers
    <2> QED
      BY <2>3
  <1> QED
    BY <1>3, <1>6, <1>7, <1>8

(* A timer fires, the domain closes or opens again. *)
LEMMA QueueStepKeepsEntries ==
  ASSUME IInv, QueueStep
  PROVE  Q!IInv' /\ EntriesInv' /\ RunsOn /\ uncommanded \subseteq uncommanded'
  <1>1. Q!IInv'
    <2>1. QP!IInv
      BY EntryFacts, SameQueueInv
    <2>2. QP!Next
      BY SameOtherSteps DEF QueueStep, QP!Next, Q!Caller, QP!Caller
    <2>3. QP!IInv'
      BY <2>1, <2>2, QP!NextIInv, DomainAssumption DEF QP!MaxCallersAssumption
    <2> QED
      BY <2>3, SameQueueInv, PTL
  <1>2. UNCHANGED <<submitted, running, request, turn, evicting>>
    BY DEF QueueStep, Q!TimerFires, Q!Close, Q!Reopen
  <1>3. uncommanded \subseteq uncommanded'
    BY DEF QueueStep, SettlesCallers
  <1> QED
    BY <1>1, <1>2, <1>3, EntryFacts
       DEF RunsOn, EntriesInv, Q!NoEntry, Q!Caller, Q!Request, Q!Operation

(* No step of the queue disturbs what a turn relies on. *)
LEMMA QueueKeepsTurns ==
  ASSUME IInv, NoneCrossed, EntriesInv', RunsOn \/ StartsAnew, UNCHANGED physical
  PROVE  /\ M!IInv' /\ M!MountedInv' /\ EvictionInv' /\ TurnInv' /\ DetachInv'
         /\ AtMostOneOccupant'
  <1>1. M!IInv' /\ M!MountedInv'
    BY Facts, MounterKeeps
  <1>2. M!Occupants' = M!Occupants /\ DetachInv' /\ AtMostOneOccupant'
    BY Facts, SameOccupants DEF physical, M!Occupants, M!ToSet, DetachInv, AtMostOneOccupant
  <1>3. CASE StartsAnew
    <2>1. \A x \in Subject : attempt[x] = "none"
      BY <1>3, Facts DEF StartsAnew, TurnInv
    <2> QED
      BY <1>1, <1>2, <1>3, <2>1 DEF StartsAnew, EvictionInv, TurnInv, physical
  <1>4. CASE RunsOn
    <2>1. CASE turn = "idle"
      BY <1>1, <1>2, <1>4, <2>1, Facts DEF RunsOn, EvictionInv, TurnInv, physical
    <2>2. CASE turn # "idle"
      <3>1. Now' = Now /\ (Mounting' <=> Mounting)
        BY <1>4, <2>2, TurnFacts DEF RunsOn, Now, Mounting
      <3> QED
        BY <1>1, <1>2, <1>4, <3>1, Facts DEF RunsOn, EvictionInv, TurnInv, physical
    <2> QED
      BY <2>1, <2>2
  <1> QED
    BY <1>3, <1>4

-----------------------------------------------------------------------------
(* The turn moves from step to step while its entry runs. *)
LEMMA TurnKeepsEntries ==
  ASSUME IInv, Turn
  PROVE  /\ Q!IInv' /\ EntriesInv' /\ turn # "idle" /\ turn' # "idle"
         /\ Now' = Now /\ (Mounting' <=> Mounting)
  <1>1. /\ UNCHANGED <<queue, url, strategy>> /\ turn # "idle"
        /\ turn' \in {"resumed", "awaiting", "evicting", "releasing", "mounting", "succeeded",
                      "failed"}
    BY DEF Turn, TurnAwaitsUnmount, TurnIneligible, TurnFindsItDone, TurnReleases, TurnEvicts,
           TurnMounts, MountProceeds, FreshTurn, AtTurn
  <1>2. Q!IInv'
    <2>1. QP!IInv /\ UNCHANGED QP!vars
      BY <1>1, EntryFacts, SameQueueInv DEF queue, QP!vars
    <2>2. QP!IInv'
      BY <2>1, QP!NextIInv, DomainAssumption DEF QP!MaxCallersAssumption
    <2> QED
      BY <2>2, SameQueueInv, PTL
  <1> QED
    BY <1>1, <1>2, EntryFacts DEF EntriesInv, queue, Now, Mounting, Q!NoEntry, Q!Caller, Q!Request, Q!Operation

(* A turn that only reads keeps what others rely on. *)
LEMMA ReadingTurnKeeps ==
  ASSUME IInv, NoneCrossed, TurnAwaitsUnmount \/ TurnIneligible \/ TurnFindsItDone, UNCHANGED queue
  PROVE  EvictionInv' /\ TurnInv' /\ DetachInv' /\ AtMostOneOccupant'
  <1>1. /\ UNCHANGED physical /\ turn \in {"starting", "resumed"}
        /\ (turn' = "awaiting" /\ Mounting) \/ turn' \in {"succeeded", "failed"}
    BY DEF TurnAwaitsUnmount, TurnIneligible, TurnFindsItDone, AtTurn
  <1>2. Mounting' <=> Mounting
    BY DEF queue, Mounting
  <1>3. \A x \in Subject : attempt[x] = "none"
    BY <1>1, Facts DEF TurnInv
  <1> QED
    BY <1>1, <1>2, <1>3, Facts
       DEF physical, EvictionInv, TurnInv, DetachInv, AtMostOneOccupant

(* A release begun, or joined, by the turn. *)
LEMMA ReleasingTurnKeeps ==
  ASSUME IInv, NoneCrossed, TurnReleases \/ TurnEvicts, UNCHANGED queue
  PROVE  EvictionInv' /\ TurnInv' /\ DetachInv' /\ AtMostOneOccupant'
  <1>1. turn # "mounting" /\ turn # "idle"
    BY DEF TurnReleases, TurnEvicts, FreshTurn, AtTurn
  <1>2. /\ \A x \in Subject : attempt[x] = "none"
        /\ Now' = Now /\ (Mounting' <=> Mounting)
    BY <1>1, Facts DEF TurnInv, queue, Now, Mounting
  <1>3. PICK x \in Subject :
          /\ M!Release(x)
          /\ \/ turn' = "releasing" /\ ~Mounting
             \/ /\ turn' = "evicting" /\ evicting' = <<x>> /\ Mounting /\ releases[Now] = "none"
                /\ x # Now /\ M!Occupants = {x}
    <2>1. CASE TurnReleases
      BY <1>1, <2>1, TurnFacts DEF TurnReleases
    <2>2. CASE TurnEvicts
      <3>1. FreshTurn
        BY <2>2, EvictionFacts DEF TurnEvicts
      <3>2. PICK x \in Subject : ToEvict = <<x>> /\ M!Occupants = {x} /\ x # Now
        BY <2>2, <3>1, FreshFacts DEF TurnEvicts
      <3> QED
        BY <2>2, <3>1, <3>2, FreshFacts DEF TurnEvicts
    <2> QED
      BY <2>1, <2>2
  <1>4. /\ UNCHANGED <<mountSet, attempt, detaching, detachWaits>>
        /\ \A y \in Subject : releases[y] # "none" => releases'[y] # "none"
        /\ \A y \in Subject : y # x => releases'[y] = releases[y]
        /\ releases'[x] # "none"
    BY <1>3, Facts DEF M!Release, M!StartsRelease, M!TypeOK
  <1>5. M!Occupants' = M!Occupants /\ AtMostOneOccupant'
    BY <1>4, Facts DEF M!Occupants, M!ToSet, AtMostOneOccupant
  <1>6. DetachInv'
    BY <1>4, Facts DEF DetachInv
  <1>7. TurnInv'
    BY <1>2, <1>3, <1>4 DEF TurnInv
  <1>8. EvictionInv'
    <2>1. Now \in Subject
      BY <1>1, TurnFacts
    <2> QED
      BY <1>2, <1>3, <1>4, <1>5, <2>1 DEF EvictionInv
  <1> QED
    BY <1>5, <1>6, <1>7, <1>8

(* The turn mounts into an empty mount set, and nobody else mounts. *)
LEMMA MountingTurnKeeps ==
  ASSUME IInv, NoneCrossed, TurnMounts \/ MountProceeds, UNCHANGED queue, M!IInv'
  PROVE  EvictionInv' /\ TurnInv' /\ DetachInv' /\ AtMostOneOccupant'
  <1>1. turn # "idle" /\ turn' \in {"mounting", "succeeded", "failed"}
    BY DEF TurnMounts, MountProceeds, FreshTurn, AtTurn
  <1>2. Now \in Subject /\ Now' = Now /\ (Mounting' <=> Mounting)
    BY <1>1, TurnFacts DEF queue, Now, Mounting
  <1>3. Mounting /\ mountSet = <<>> /\ M!Occupants = {}
    BY EvictionFacts, FreshFacts, Facts DEF TurnMounts, MountProceeds, TurnInv
  <1>4. \A x \in Subject : attempt[x] # "none" => x = Now
    BY Facts DEF TurnInv
  <1>5. /\ UNCHANGED <<releases, detaching, detachWaits>>
        /\ \A x \in Subject : x # Now => attempt'[x] = attempt[x]
        /\ turn' # "mounting" => attempt'[Now] = "none"
        /\ \/ mountSet' \in {mountSet, M!Rest(Now)}
           \/ turn' # "mounting" /\ mountSet' = Append(mountSet, Now)
    <2>0. attempt \in [Subject -> {"none", "mounting", "placing", "undoing"}]
      BY Facts DEF M!TypeOK
    <2>1. CASE TurnMounts
      <3>1. attempt[Now] = "none"
        BY <1>2, <2>1, Facts DEF TurnMounts, FreshTurn, AtTurn, TurnInv
      <3> QED
        BY <1>2, <2>0, <2>1, <3>1 DEF TurnMounts, M!MountBegins, physical
    <2>2. CASE M!MountGoesOn(Now) /\ UNCHANGED turn /\ MountProceeds
      BY <1>2, <2>0, <2>2
         DEF MountProceeds, M!MountGoesOn, M!LifecycleMounted, M!UndoesMount
    <2>3. CASE M!Places(Now) /\ turn' = "succeeded"
      BY <1>2, <1>3, <2>0, <2>3 DEF M!Places, M!AttemptEnds
    <2>4. CASE M!MountFails(Now) /\ turn' = "failed"
      BY <1>2, <2>0, <2>4
         DEF M!MountFails, M!LifecycleMountFails, M!MountUndone, M!NothingToUndo, M!AttemptEnds
    <2> QED
      BY <2>1, <2>2, <2>3, <2>4 DEF MountProceeds
  <1>6. /\ M!Occupants' \subseteq {Now} /\ (turn' = "mounting" => mountSet' = <<>>)
        /\ AtMostOneOccupant'
    <2>1. mountSet' = <<>> \/ (mountSet' = <<Now>> /\ turn' # "mounting")
      <3>1. M!Rest(Now) = <<>>
        BY <1>3, SameRest DEF RemoveFirst
      <3> QED
        BY <1>3, <1>5, <3>1
    <2>2. M!Occupants' = ToSet(mountSet')
      BY DEF M!Occupants, M!ToSet, ToSet
    <2>3. Len(mountSet') <= 1
      <3>1. Len(<<>>) = 0 /\ Len(<<Now>>) = 1
        OBVIOUS
      <3>2. CASE mountSet' = <<>>
        BY <3>1, <3>2
      <3>3. CASE mountSet' = <<Now>>
        BY <3>1, <3>3
      <3> QED
        BY <2>1, <3>2, <3>3
    <2>4. ToSet(mountSet') \subseteq {Now}
      BY <2>1 DEF ToSet
    <2> QED
      BY <2>1, <2>2, <2>3, <2>4 DEF AtMostOneOccupant
  <1>7. DetachInv'
    BY <1>5, Facts DEF DetachInv
  <1>8. TurnInv'
    BY <1>1, <1>2, <1>3, <1>4, <1>5, <1>6 DEF TurnInv
  <1> QED
    BY <1>1, <1>6, <1>7, <1>8 DEF EvictionInv

-----------------------------------------------------------------------------
(* Beside the turn, releases begin only of occupants whose lifecycle is mounted, *)
(* so that none of the subject of an eviction does.                             *)
LEMMA StartsOnlyOfOccupants ==
  ASSUME IInv, NoneCrossed, NEW x \in Subject, M!StartsRelease(x),
         x \in M!Occupants \/ (mountState[x] = "mounted" /\ attempt[x] = "none")
  PROVE  /\ \A y \in Subject : releases[y] # "none" => releases'[y] # "none"
         /\ releases'[x] # "none"
         /\ turn \in {"evicting", "evicted"} => releases'[Now] = "none"
  <1>1. x \in M!Occupants
    BY Facts DEF M!MountedInv
  <1>2. releases \in [Subject -> {"none", "unmounting", "unmounted", "broken", "left", "leftBroken"}]
    BY Facts DEF M!TypeOK
  <1>3. /\ \A y \in Subject : releases[y] # "none" \/ y # x => releases'[y] = releases[y]
        /\ releases'[x] # "none"
    BY <1>2 DEF M!StartsRelease
  <1>4. ASSUME turn \in {"evicting", "evicted"}  PROVE releases'[Now] = "none"
    BY <1>1, <1>3, <1>4, TurnFacts, Facts DEF EvictionInv
  <1> QED
    BY <1>3, <1>4

(* What such steps leave as it was. *)
LEMMA UndisturbedTurn ==
  ASSUME IInv, NoneCrossed, UNCHANGED <<running, request, turn, evicting, mountSet, attempt>>,
         \A y \in Subject : releases[y] # "none" => releases'[y] # "none",
         turn \in {"evicting", "evicted"} => releases'[Now] = "none"
  PROVE  EvictionInv' /\ TurnInv' /\ AtMostOneOccupant'
  <1>1. M!Occupants' = M!Occupants /\ Now' = Now /\ (Mounting' <=> Mounting)
    BY DEF M!Occupants, M!ToSet, Now, Mounting
  <1>2. AtMostOneOccupant'
    BY Facts DEF AtMostOneOccupant
  <1>3. TurnInv'
    BY <1>1, Facts DEF TurnInv
  <1>4. EvictionInv'
    BY <1>1, Facts DEF EvictionInv
  <1> QED
    BY <1>2, <1>3, <1>4

LEMMA SurroundingsKeep ==
  ASSUME IInv, NoneCrossed, Surroundings \/ DetachProceeds \/ (\E x \in Subject : UnregisterEnds(x)),
         UNCHANGED <<queue, evicting>>
  PROVE  EvictionInv' /\ TurnInv' /\ DetachInv' /\ AtMostOneOccupant'
  <1>1. UNCHANGED <<running, request, turn, evicting, mountSet, attempt>>
    BY DEF queue, Surroundings, DetachProceeds, UnregisterEnds, M!Attach, M!Detach, M!Unregister,
           M!Register, M!DetachGoesOn, M!UnregisterEnds, M!Forget
  <1>2. ~DetachProceeds
    BY Facts DEF DetachProceeds, M!DetachGoesOn, DetachInv
  <1>3. ASSUME UNCHANGED <<releases, detaching, detachWaits>>
        PROVE  EvictionInv' /\ TurnInv' /\ DetachInv' /\ AtMostOneOccupant'
    <2>1. turn \in {"evicting", "evicted"} => releases'[Now] = "none"
      BY <1>3, Facts DEF EvictionInv
    <2> QED
      BY <1>1, <1>3, <2>1, UndisturbedTurn, Facts DEF DetachInv
  <1>4. CASE M!Detach /\ mountSet # <<>>
    <2>1. detaching' = mountSet /\ detachWaits' = "yes" /\ M!StartsRelease(mountSet[1])
      BY <1>4 DEF M!Detach
    <2>3. PICK x \in Subject : x = mountSet[1] /\ mountSet = <<x>> /\ x \in M!Occupants
      BY <1>4, Facts, OneOrNone DEF AtMostOneOccupant
    <2>4. /\ \A y \in Subject : releases[y] # "none" => releases'[y] # "none"
          /\ releases'[x] # "none"
          /\ turn \in {"evicting", "evicted"} => releases'[Now] = "none"
      BY <2>1, <2>3, StartsOnlyOfOccupants
    <2> QED
      BY <1>1, <2>1, <2>3, <2>4, UndisturbedTurn DEF DetachInv
  <1>5. ASSUME NEW x \in Subject, M!Unregister(x), mountState[x] = "mounted"
        PROVE  EvictionInv' /\ TurnInv' /\ DetachInv' /\ AtMostOneOccupant'
    <2>1. UNCHANGED <<detaching, detachWaits>> /\ M!StartsRelease(x)
      BY <1>5 DEF M!Unregister
    <2>2. CASE attempt[x] = "none"
      <3>1. /\ \A y \in Subject : releases[y] # "none" => releases'[y] # "none"
            /\ turn \in {"evicting", "evicted"} => releases'[Now] = "none"
        BY <1>5, <2>1, <2>2, StartsOnlyOfOccupants
      <3> QED
        BY <1>1, <2>1, <3>1, UndisturbedTurn, Facts DEF DetachInv
    <2>3. CASE attempt[x] # "none"
      <3>1. turn = "mounting"
        BY <2>3, Facts DEF TurnInv
      <3>2. \A y \in Subject : releases[y] # "none" => releases'[y] # "none"
        BY <2>1, Facts DEF M!StartsRelease, M!TypeOK
      <3> QED
        BY <1>1, <2>1, <3>1, <3>2, UndisturbedTurn, Facts DEF DetachInv
    <2> QED
      BY <2>2, <2>3
  <1>6. ASSUME NEW x \in Subject, M!Unregister(x), mountState[x] # "mounted"
        PROVE  UNCHANGED <<releases, detaching, detachWaits>>
    BY <1>6 DEF M!Unregister
  <1> QED
    BY <1>2, <1>3, <1>4, <1>5, <1>6
       DEF Surroundings, UnregisterEnds, M!Attach, M!Detach, M!Register, M!UnregisterEnds

(* A release on its way: the occupant's lifecycle is unmounted, it leaves. *)
LEMMA ReleaseProceedsKeeps ==
  ASSUME IInv, NoneCrossed, NEW x \in Subject, ReleaseProceeds(x), UNCHANGED <<queue, evicting>>
  PROVE  EvictionInv' /\ TurnInv' /\ DetachInv' /\ AtMostOneOccupant'
  <1>1. /\ releases[x] # "none"
        /\ UNCHANGED <<turn, attempt, detaching, detachWaits>>
        /\ mountSet' \in {mountSet, M!Rest(x)}
    BY DEF ReleaseProceeds, M!LifecycleUnmounted, M!LeavesMountSet
  <1>2. releases \in [Subject -> {"none", "unmounting", "unmounted", "broken", "left", "leftBroken"}]
    BY Facts DEF M!TypeOK
  <1>3. /\ \A y \in Subject : y # x => releases'[y] = releases[y]
        /\ \A y \in Subject : releases[y] # "none" => releases'[y] # "none"
    BY <1>1, <1>2 DEF ReleaseProceeds, M!LifecycleUnmounted, M!LeavesMountSet
  <1>4. Now' = Now /\ (Mounting' <=> Mounting)
    BY DEF queue, Now, Mounting
  <1>5. /\ M!Occupants' \subseteq M!Occupants /\ (mountSet = <<>> => mountSet' = <<>>)
        /\ AtMostOneOccupant'
    <2>1. IsInjective(mountSet)
      BY Facts DEF M!IInv, M!SlotInv, M!IsInjective, IsInjective
    <2>2. M!Occupants' = ToSet(mountSet')
      BY DEF M!Occupants, M!ToSet, ToSet
    <2>3. /\ mountSet' \in Seq(Subject) /\ IsInjective(mountSet')
          /\ ToSet(mountSet') \subseteq ToSet(mountSet)
      BY <1>1, <2>1, SameRest, RemoveFirstFacts, Facts
    <2>4. M!Occupants' \subseteq M!Occupants
      BY <2>2, <2>3, Facts
    <2>5. /\ Len(mountSet') <= 1 <=> \A y, z \in M!Occupants' : y = z
          /\ mountSet' = <<>> <=> M!Occupants' = {}
      BY <2>2, <2>3, SingleFacts, ElementsTyped
    <2> QED
      BY <2>4, <2>5, Facts DEF AtMostOneOccupant
  <1>6. DetachInv'
    BY <1>1, <1>3, Facts DEF DetachInv
  <1>7. TurnInv'
    BY <1>1, <1>4, <1>5, Facts DEF TurnInv
  <1>8. EvictionInv'
    <2> SUFFICES ASSUME turn \in {"evicting", "evicted"}  PROVE EvictionInv'
      BY <1>1 DEF EvictionInv
    <2>1. Now \in Subject /\ Now # x
      BY <1>1, TurnFacts, Facts DEF EvictionInv
    <2> QED
      BY <1>1, <1>3, <1>4, <1>5, <2>1, Facts DEF EvictionInv
  <1> QED
    BY <1>5, <1>6, <1>7, <1>8

(* The turn is woken where it stands, and never out of its mount. *)
LEMMA ReleaseEndsTurn ==
  ASSUME NEW x \in Subject, ReleaseEnds(x)
  PROVE  turn' = turn \/ (turn' # "idle" /\ turn # "idle" /\ turn # "mounting")
  BY DEF ReleaseEnds, WakesTurn, TurnWaitsFor

(* A release settles, and the turn that waits for it is woken. *)
LEMMA ReleaseEndsKeeps ==
  ASSUME IInv, NoneCrossed, NEW x \in Subject, ReleaseEnds(x), UNCHANGED <<queue, evicting>>
  PROVE  EvictionInv' /\ TurnInv' /\ DetachInv' /\ AtMostOneOccupant'
  <1>1. PICK outcome : M!ReleaseSettles(x, outcome) /\ WakesTurn(x, outcome)
    BY DEF ReleaseEnds
  <1>2. releases \in [Subject -> {"none", "unmounting", "unmounted", "broken", "left", "leftBroken"}]
    BY Facts DEF M!TypeOK
  <1>3. /\ releases[x] \in {"left", "leftBroken"} /\ UNCHANGED <<mountSet, attempt>>
        /\ \A y \in Subject : y # x => releases'[y] = releases[y]
    BY <1>1, <1>2 DEF M!ReleaseSettles
  <1>4. x \notin M!Occupants
    BY <1>3, Facts DEF M!OccupantsInv
  <1>5. /\ Now' = Now /\ (Mounting' <=> Mounting) /\ M!Occupants' = M!Occupants
        /\ AtMostOneOccupant'
    BY <1>3, Facts DEF queue, Now, Mounting, M!Occupants, M!ToSet, AtMostOneOccupant
  <1>6. DetachInv'
    <2>1. IF M!WaitsFor(x) THEN detaching' = Tail(detaching)
                           ELSE UNCHANGED <<detaching, detachWaits>>
      BY <1>1 DEF M!ReleaseSettles
    <2> SUFFICES ASSUME detaching # <<>>  PROVE DetachInv'
      <3>1. detaching = <<>> => ~M!WaitsFor(x)
        BY Facts DEF M!TypeOK, M!WaitsFor
      <3> QED
        BY <2>1, <3>1 DEF DetachInv
    <2>2. PICK y \in Subject : detaching = <<y>> /\ releases[y] # "none" /\ detachWaits = "yes"
      BY Facts DEF DetachInv
    <2>3. Head(detaching) = y /\ Tail(detaching) = <<>>
      BY <2>2
    <2> QED
      BY <1>3, <2>1, <2>2, <2>3 DEF DetachInv, M!WaitsFor
  <1>7. \/ turn' = turn /\ ~TurnWaitsFor(x)
        \/ turn' = "resumed" \/ turn' \in {"succeeded", "failed"}
        \/ turn' = "evicted" /\ turn = "evicting" /\ Head(evicting) = x
    BY <1>1 DEF WakesTurn, TurnWaitsFor
  <1>8. turn' = turn \/ (turn' # "idle" /\ turn # "idle" /\ turn # "mounting")
    BY ReleaseEndsTurn
  <1>9. TurnInv'
    BY <1>3, <1>5, <1>7, <1>8, Facts DEF TurnInv
  <1>10. EvictionInv'
    <2>1. CASE turn' = turn /\ ~TurnWaitsFor(x) /\ turn \in {"evicting", "evicted"}
      <3>1. Now \in Subject /\ Now # x
        BY <1>3, <2>1, TurnFacts, Facts DEF EvictionInv
      <3>2. PICK y \in Subject :
              /\ evicting = <<y>> /\ M!Occupants \subseteq {y}
              /\ IF turn = "evicting" THEN y # Now /\ releases[y] # "none" ELSE mountSet = <<>>
        BY <2>1, Facts DEF EvictionInv
      <3>3. turn = "evicting" => y # x
        BY <2>1, <3>2 DEF TurnWaitsFor
      <3> QED
        BY <1>3, <1>5, <2>1, <3>1, <3>2, <3>3, Facts DEF EvictionInv
    <2>2. CASE turn' = "evicted" /\ turn = "evicting" /\ Head(evicting) = x
      <3>1. Now \in Subject /\ Now # x
        BY <1>3, <2>2, TurnFacts, Facts DEF EvictionInv
      <3>2. evicting = <<x>> /\ M!Occupants \subseteq {x}
        BY <2>2, Facts DEF EvictionInv
      <3>3. mountSet = <<>>
        BY <1>4, <3>2, Facts
      <3> QED
        BY <1>3, <1>5, <2>2, <3>1, <3>2, <3>3, Facts DEF EvictionInv
    <2> QED
      BY <1>7, <2>1, <2>2 DEF EvictionInv
  <1> QED
    BY <1>5, <1>6, <1>9, <1>10

-----------------------------------------------------------------------------
(* The URL: whatever ends a turn leaves a settle command due, and the last of   *)
(* them shows the mount set, since nothing mounts while the queue is empty.     *)
LEMMA UrlKept ==
  ASSUME IInv, [Next]_vars
  PROVE  UrlShowsTheOccupant'
  <1>1. ASSUME NEW r \in Requests, RequestArrives(submitted + 1, r)  PROVE UrlShowsTheOccupant'
    BY <1>1, ArrivalKeepsEntries DEF UrlShowsTheOccupant
  <1>2. CASE TaskEnds
    BY <1>2, EndKeepsEntries DEF UrlShowsTheOccupant
  <1>3. CASE QueueStep
    <2>1. uncommanded \subseteq uncommanded'
      BY <1>3, QueueStepKeepsEntries
    <2> QED
      BY <1>3, <2>1, EntryFacts DEF QueueStep, UrlShowsTheOccupant, physical
  <1>4. CASE Turn
    BY <1>4, TurnKeepsEntries DEF UrlShowsTheOccupant
  <1>5. ASSUME NEW c \in Q!Caller, SettleCommand(c)  PROVE UrlShowsTheOccupant'
    <2>1. CASE turn = "idle"
      <3>1. running = 0 /\ pending = 0
        BY <2>1, EntryFacts, QueueFacts DEF EntriesInv, Q!NoEntry
      <3>2. Project(Q!ReadEntries) = mountSet
        BY <3>1 DEF Project, Q!ReadEntries, Q!RequestOf, Q!NoEntry, Q!NoRequest, Applied
      <3> QED
        BY <1>5, <3>2 DEF SettleCommand, UrlShowsTheOccupant, physical
    <2>2. CASE turn # "idle"
      BY <1>5, <2>2 DEF SettleCommand, UrlShowsTheOccupant
    <2> QED
      BY <2>1, <2>2
  <1>6. ASSUME UNCHANGED <<url, mountSet>>, turn' = turn \/ (turn' # "idle" /\ turn # "idle")
        PROVE  UrlShowsTheOccupant'
    BY <1>6, EntryFacts DEF UrlShowsTheOccupant, url
  <1>7. CASE Beside(Surroundings \/ DetachProceeds) \/ (\E x \in Subject : Beside(UnregisterEnds(x)))
    BY <1>6, <1>7
       DEF Beside, Surroundings, DetachProceeds, UnregisterEnds, M!Attach, M!Detach, M!Unregister,
           M!Register, M!DetachGoesOn, M!UnregisterEnds, M!Forget
  <1>8. ASSUME NEW x \in Subject, Beside(ReleaseProceeds(x))  PROVE UrlShowsTheOccupant'
    BY <1>8, EntryFacts DEF Beside, ReleaseProceeds, UrlShowsTheOccupant
  <1>9. ASSUME NEW x \in Subject, Beside(ReleaseEnds(x))  PROVE UrlShowsTheOccupant'
    <2>1. turn' = turn \/ (turn' # "idle" /\ turn # "idle")
      BY <1>9, ReleaseEndsTurn DEF Beside
    <2> QED
      BY <1>6, <1>9, <2>1 DEF Beside, ReleaseEnds, M!ReleaseSettles
  <1>10. CASE UNCHANGED vars
    BY <1>6, <1>10 DEF vars, physical
  <1> QED
    BY <1>1, <1>2, <1>3, <1>4, <1>5, <1>7, <1>8, <1>9, <1>10 DEF Next, Beside

-----------------------------------------------------------------------------
LEMMA InitIInv == Init => IInv
  <1> SUFFICES ASSUME Init PROVE IInv
    OBVIOUS
  <1>1. Q!IInv
    <2>1. QP!Init
      BY DEF Init, Q!Init, QP!Init, Q!NoEntry, QP!NoEntry, Q!Caller, QP!Caller, Q!NoRequest,
             QP!NoRequest
    <2>2. QP!IInv
      BY <2>1, QP!InitIInv, DomainAssumption DEF QP!MaxCallersAssumption
    <2> QED
      BY <2>2, SameQueueInv
  <1>2. M!IInv /\ M!MountedInv
    <2>1. MP!IInv
      BY SameMounterInv, MP!InitIInv, DomainAssumption DEF Init, MP!RemovableAssumption
    <2> QED
      BY <2>1, SameMounterInv DEF Init, M!Init, M!MountedInv
  <1>3. EntriesInv /\ EvictionInv /\ TurnInv /\ DetachInv
    BY DomainAssumption
       DEF Init, Q!Init, M!Init, EntriesInv, EvictionInv, TurnInv, DetachInv, Q!Caller
  <1>4. AtMostOneOccupant /\ UrlShowsTheOccupant
    BY DEF Init, M!Init, AtMostOneOccupant, UrlShowsTheOccupant
  <1> QED
    BY <1>1, <1>2, <1>3, <1>4 DEF IInv, OccupancyInv

(* Beside the turn, the queue stands still. *)
LEMMA BesideKeepsEntries ==
  ASSUME IInv, UNCHANGED queue, turn' = turn \/ (turn' # "idle" /\ turn # "idle"),
         turn' = turn \/ turn' \in {"resumed", "evicted", "succeeded", "failed"}
  PROVE  Q!IInv' /\ EntriesInv'
  <1>1. Q!IInv'
    <2>1. QP!IInv /\ UNCHANGED QP!vars
      BY EntryFacts, SameQueueInv DEF queue, QP!vars
    <2>2. QP!IInv'
      BY <2>1, QP!NextIInv, DomainAssumption DEF QP!MaxCallersAssumption
    <2> QED
      BY <2>2, SameQueueInv, PTL
  <1> QED
    BY <1>1, EntryFacts DEF EntriesInv, queue, Q!NoEntry, Q!Caller, Q!Request, Q!Operation

(* What a release has crossed stays noted. *)
LEMMA CrossingStays == ASSUME [Next]_vars, NoneCrossed' PROVE NoneCrossed
  <1>1. ASSUME NEW x, M!Release(x) \/ M!Unregister(x) \/ M!UnregisterEnds(x) \/ M!Register(x)
        PROVE  crossed \subseteq crossed'
    BY <1>1 DEF M!Release, M!StartsRelease, M!Unregister, M!UnregisterEnds, M!Register
  <1>2. ASSUME M!Attach \/ M!Detach \/ M!DetachGoesOn  PROVE crossed \subseteq crossed'
    BY <1>2 DEF M!Attach, M!Detach, M!DetachGoesOn, M!StartsRelease
  <1>3. ASSUME NEW x, ReleaseProceeds(x) \/ ReleaseEnds(x)  PROVE crossed \subseteq crossed'
    BY <1>3 DEF ReleaseProceeds, ReleaseEnds, M!LifecycleUnmounted, M!LeavesMountSet,
                M!ReleaseSettles
  <1>4. ASSUME TurnMounts \/ MountProceeds  PROVE crossed' = crossed
    BY <1>4 DEF TurnMounts, MountProceeds, physical, M!MountBegins, M!MountGoesOn, M!MountFails,
                M!Places, M!LifecycleMounted, M!UndoesMount, M!LifecycleMountFails,
                M!MountUndone, M!NothingToUndo
  <1>5. CASE Turn
    BY <1>1, <1>4, <1>5
       DEF Turn, TurnAwaitsUnmount, TurnIneligible, TurnFindsItDone, TurnReleases, TurnEvicts,
           physical, NoneCrossed
  <1>6. CASE Beside(Surroundings \/ DetachProceeds)
    BY <1>1, <1>2, <1>6 DEF Beside, Surroundings, DetachProceeds, NoneCrossed
  <1>7. ASSUME NEW x \in Subject, Beside(ReleaseProceeds(x) \/ ReleaseEnds(x) \/ UnregisterEnds(x))
        PROVE  NoneCrossed
    BY <1>1, <1>3, <1>7 DEF Beside, UnregisterEnds, NoneCrossed
  <1> QED
    BY <1>5, <1>6, <1>7
       DEF Next, RequestArrives, TaskEnds, QueueStep, SettleCommand, vars, physical, NoneCrossed

(* Every step keeps what the queue and the entries keep. *)
LEMMA NextKeepsEntries == ASSUME IInv, [Next]_vars PROVE Q!IInv' /\ EntriesInv'
  <1>1. ASSUME NEW r \in Requests, RequestArrives(submitted + 1, r)
        PROVE  Q!IInv' /\ EntriesInv'
    BY <1>1, ArrivalKeepsEntries
  <1>2. CASE TaskEnds
    BY <1>2, EndKeepsEntries
  <1>3. CASE QueueStep
    BY <1>3, QueueStepKeepsEntries
  <1>4. CASE Turn
    BY <1>4, TurnKeepsEntries
  <1>5. ASSUME NEW x \in Subject, Beside(ReleaseEnds(x))  PROVE Q!IInv' /\ EntriesInv'
    <2>1. turn' = turn \/ turn' \in {"resumed", "evicted", "succeeded", "failed"}
      BY <1>5 DEF Beside, ReleaseEnds, WakesTurn, TurnWaitsFor
    <2> QED
      BY <1>5, <2>1, ReleaseEndsTurn, BesideKeepsEntries DEF Beside
  <1>6. ASSUME UNCHANGED <<queue, turn>>  PROVE Q!IInv' /\ EntriesInv'
    BY <1>6, BesideKeepsEntries
  <1>7. ASSUME Beside(Surroundings \/ DetachProceeds) \/ UNCHANGED vars
        PROVE  UNCHANGED <<queue, turn>>
    BY <1>7 DEF Beside, Surroundings, DetachProceeds, vars
  <1>8. ASSUME NEW x \in Subject, Beside(ReleaseProceeds(x) \/ UnregisterEnds(x))
        PROVE  UNCHANGED <<queue, turn>>
    BY <1>8 DEF Beside, ReleaseProceeds, UnregisterEnds
  <1>9. ASSUME NEW c \in Q!Caller, SettleCommand(c)  PROVE UNCHANGED <<queue, turn>>
    BY <1>9 DEF SettleCommand
  <1>10. CASE \E x \in Subject : Beside(ReleaseProceeds(x) \/ ReleaseEnds(x) \/ UnregisterEnds(x))
    BY <1>5, <1>6, <1>8, <1>10 DEF Beside
  <1> QED
    BY <1>1, <1>2, <1>3, <1>4, <1>6, <1>7, <1>9, <1>10 DEF Next

LEMMA NextIInv == ASSUME IInv, [Next]_vars PROVE IInv'
  <1> DEFINE Turns == EvictionInv' /\ TurnInv' /\ DetachInv' /\ AtMostOneOccupant'
  <1> SUFFICES ASSUME NoneCrossed  PROVE M!IInv' /\ M!MountedInv' /\ Turns
    BY NextKeepsEntries, UrlKept, CrossingStays DEF IInv, OccupancyInv
  <1>1. M!IInv' /\ M!MountedInv'
    BY NextUsesMounter, MounterKeeps, Facts
  <1> SUFFICES Turns
    BY <1>1
  <1>2. ASSUME NEW r \in Requests, RequestArrives(submitted + 1, r)  PROVE Turns
    BY <1>2, ArrivalKeepsEntries, QueueKeepsTurns DEF RequestArrives
  <1>3. CASE TaskEnds
    BY <1>3, EndKeepsEntries, QueueKeepsTurns DEF TaskEnds
  <1>4. CASE QueueStep
    BY <1>4, QueueStepKeepsEntries, QueueKeepsTurns DEF QueueStep
  <1>5. CASE Turn
    BY <1>1, <1>5, ReadingTurnKeeps, ReleasingTurnKeeps, MountingTurnKeeps DEF Turn
  <1>6. ASSUME NEW x \in Subject, Beside(ReleaseProceeds(x) \/ ReleaseEnds(x))  PROVE Turns
    BY <1>6, ReleaseProceedsKeeps, ReleaseEndsKeeps DEF Beside
  <1>7. CASE Beside(Surroundings \/ DetachProceeds) \/ (\E x \in Subject : Beside(UnregisterEnds(x)))
    BY <1>7, SurroundingsKeep DEF Beside
  <1>8. ASSUME UNCHANGED <<queue, physical, turn, evicting>>  PROVE Turns
    <2>1. RunsOn
      BY <1>8 DEF RunsOn, queue
    <2> QED
      BY <1>8, <2>1, NextKeepsEntries, QueueKeepsTurns
  <1>9. (\E c \in Q!Caller : SettleCommand(c)) \/ UNCHANGED vars
           => UNCHANGED <<queue, physical, turn, evicting>>
    BY DEF SettleCommand, vars
  <1> QED
    BY <1>2, <1>3, <1>4, <1>5, <1>6, <1>7, <1>8, <1>9 DEF Next, Beside

-----------------------------------------------------------------------------
(* The invariant holds however requests, turns, releases, detaches and          *)
(* unregistrations interleave.                                                  *)
THEOREM Invariance == Spec => []IInv
  BY InitIInv, NextIInv, PTL DEF Spec

(* The cardinality both strategies exist for: a sibling is gone before the      *)
(* turn's subject is placed.                                                    *)
THEOREM NeverTwoOccupants == Spec => []AtMostOneOccupant
  <1>1. IInv => AtMostOneOccupant
    BY Facts DEF AtMostOneOccupant
  <1> QED
    BY <1>1, Invariance, PTL

(* With the queue empty and every settle command issued, the router was last    *)
(* told exactly what is mounted.                                                *)
THEOREM UrlCatchesUp == Spec => []UrlShowsTheOccupant
  <1>1. IInv => UrlShowsTheOccupant
    BY EntryFacts
  <1> QED
    BY <1>1, Invariance, PTL

(* The handlers and the strategies use the mounter by its rules, so that the    *)
(* theorems of ExtensionMounterProofs hold in the domain.                       *)
THEOREM MounterUsedWell == Spec => UsesTheMounterWell
  <1>1. Init => M!Init
    BY DEF Init
  <1>2. IInv /\ [Next]_vars => [NoneCrossed => M!Next]_physical
    BY NextUsesMounter
  <1> QED
    BY <1>1, <1>2, Invariance, PTL DEF Spec, UsesTheMounterWell

(* A mount entry that succeeds leaves its subject mounted and staying, an       *)
(* unmount entry leaves it gone.                                                *)
THEOREM SuccessIsTrue == Spec => SuccessMeansDone
  <1> DEFINE Done == IF Mounting THEN Now \in M!Occupants' /\ releases'[Now] = "none" /\ Now \in alive'
                                 ELSE Now \notin M!Occupants'
  <1>1. ASSUME IInv, NoneCrossed, [Next]_vars, turn # "succeeded", turn' = "succeeded"
        PROVE  Done
    <2>1. turn # "idle" /\ Now \in Subject
      <3>1. ~(\E r \in Requests : RequestArrives(submitted + 1, r)) /\ ~TaskEnds
        BY <1>1, ArrivalKeepsEntries, EndKeepsEntries DEF RunsOn, StartsAnew
      <3>2. turn # "idle"
        BY <1>1, <3>1, ReleaseEndsTurn, TurnKeepsEntries
           DEF Next, QueueStep, SettleCommand, Beside, Surroundings, DetachProceeds,
               ReleaseProceeds, UnregisterEnds, vars
      <3> QED
        BY <1>1, <3>2, TurnFacts
    <2>2. TurnFindsItDone \/ (MountProceeds /\ M!Places(Now))
            \/ (\E x \in Subject : ReleaseEnds(x))
      BY <1>1, ArrivalKeepsEntries, EndKeepsEntries
         DEF RunsOn, StartsAnew, Next, QueueStep, SettleCommand, Beside, Surroundings,
             DetachProceeds, ReleaseProceeds, UnregisterEnds, vars, Turn, TurnAwaitsUnmount,
             TurnIneligible, TurnReleases, TurnEvicts, TurnMounts, MountProceeds
    <2>3. CASE TurnFindsItDone
      <3>1. M!Occupants' = M!Occupants /\ UNCHANGED <<releases, alive>>
        BY <2>3 DEF TurnFindsItDone, physical, M!Occupants, M!ToSet
      <3>2. Mounting <=> Now \in M!Occupants
        BY <2>3 DEF TurnFindsItDone
      <3>3. Mounting => releases[Now] = "none" /\ Now \in alive
        BY <2>3, <3>2, <1>1, Facts DEF TurnFindsItDone, Settled, M!OccupantsInv
      <3> QED
        BY <3>1, <3>2, <3>3
    <2>4. CASE MountProceeds /\ M!Places(Now)
      <3>1. Mounting /\ mountSet = <<>>
        BY <2>4, <1>1, Facts DEF MountProceeds, TurnInv
      <3>2. mountSet' = <<Now>>
        BY <2>4, <3>1, <1>1, Facts DEF M!Places
      <3>3. Now \in M!Occupants'
        BY <3>2 DEF M!Occupants, M!ToSet
      <3>4. Now \in alive /\ releases[Now] = "none"
        BY <2>1, <2>4, <1>1, Facts DEF M!Places, M!AttemptsInv
      <3> QED
        BY <2>4, <3>1, <3>3, <3>4 DEF M!Places
    <2>5. ASSUME NEW x \in Subject, ReleaseEnds(x)  PROVE Done
      <3>1. turn = "releasing" /\ Now = x /\ ~Mounting
        BY <1>1, <2>5, Facts DEF ReleaseEnds, WakesTurn, TurnWaitsFor, TurnInv
      <3>2. x \notin M!Occupants /\ UNCHANGED mountSet
        BY <2>5, <1>1, Facts DEF ReleaseEnds, M!ReleaseSettles, M!OccupantsInv
      <3> QED
        BY <3>1, <3>2 DEF M!Occupants, M!ToSet
    <2> QED
      BY <2>2, <2>3, <2>4, <2>5
  <1>2. IInv /\ [Next]_vars => [NoneCrossed /\ turn # "succeeded" /\ turn' = "succeeded" => Done]_vars
    BY <1>1
  <1> QED
    BY <1>2, Invariance, PTL DEF Spec, SuccessMeansDone

=============================================================================
