---------------------------- MODULE DomainOccupancy ----------------------------
(***************************************************************************)
(* One Optional or Exclusive domain: the occupancy queue (OccupancyQueue)  *)
(* and the extensions themselves (ExtensionMounter), joined by what the    *)
(* queue's running entry does at its turn (MountExtActionHandler,          *)
(* UnmountExtActionHandler and the two strategies), and the URL commands   *)
(* the domain issues (DomainReflectCommands).                              *)
(*                                                                         *)
(* When the queue starts an entry it calls the entry's task at once: while *)
(* turn = "starting" no other action is enabled.                           *)
(***************************************************************************)
EXTENDS Sequences, Integers

CONSTANTS Subject,     \* the extensions of the domain
          MaxCallers,  \* bound: how many requests ever reach the domain
          Removable    \* the extensions that are ever unregistered

ASSUME DomainAssumption == MaxCallers \in Nat /\ Removable \subseteq Subject

VARIABLES submitted, running, pending, admission, request, members, started,
          task, status, entryOf, timer      \* the queue's, see OccupancyQueue
VARIABLES root, registered, mountState, alive, mountSet, containers, destroys, attempt,
          stale, releases, detaching, detachWaits, leaving, crossed   \* see ExtensionMounter

Q == INSTANCE OccupancyQueue
M == INSTANCE ExtensionMounter

VARIABLES
  strategy,    \* the domain's mount strategy: "optional" or "exclusive"
  turn,        \* where the running entry's task stands
  evicting,    \* the occupants the strategy has yet to release, in order
  shown,       \* the occupancy last commanded to the router
  uncommanded, \* the settled requests whose settle command is still due
  silent       \* auxiliary: an occupant left outside any action since

queue    == <<submitted, running, pending, admission, request, members, started,
              task, status, entryOf, timer>>
physical == <<root, registered, mountState, alive, mountSet, containers, destroys,
              attempt, stale, releases, detaching, detachWaits, leaving, crossed>>
url      == <<shown, uncommanded, silent>>
vars     == <<queue, physical, url, strategy, turn, evicting>>

-----------------------------------------------------------------------------
Now == request[running].subject      \* the running entry's subject
Mounting == running # Q!NoEntry /\ request[running].op = "mount"
Calm == turn # "starting"

\* An Exclusive domain registers no unmount_ext handler.
Requests == {r \in Q!Request : strategy = "exclusive" => r.op = "mount"}

\* The projected occupancy: the mount set, then the running entry, then the
\* pending one; a mount makes it exactly its subject, an unmount removes it.
Applied(occupancy, r) == CASE r.op = "mount"   -> <<r.subject>>
                           [] r.op = "unmount" -> SelectSeq(occupancy, LAMBDA x : x # r.subject)
                           [] OTHER            -> occupancy

Project(entries) == Applied(Applied(mountSet, entries.running), entries.pending)

\* The acceptance command, with any history intent: "none" issues none.
Accept(entries) ==
  \/ shown' = Project(entries) /\ silent' = FALSE
  \/ UNCHANGED <<shown, silent>>

\* Fault: failed requests are not followed by a settle command.
SettlesTheSuccessful ==
  uncommanded' = uncommanded \cup {c \in Q!Caller : status'[c] # status[c]
                                      /\ status'[c] = "succeeded"}

\* The settle command of a request follows its settlement.
SettlesCallers ==
  uncommanded' = uncommanded \cup {c \in Q!Caller : status'[c] # status[c]
                                      /\ status'[c] \in {"succeeded", "failed"}}

\* A newly started entry is called in the same step.
CallsNewEntry ==
  turn' = IF running' = running THEN turn
          ELSE IF running' = Q!NoEntry THEN "idle" ELSE "starting"

-----------------------------------------------------------------------------
Init ==
  /\ Q!Init /\ M!Init
  /\ strategy \in {"optional", "exclusive"}
  /\ turn = "idle" /\ evicting = <<>>
  /\ shown = <<>> /\ uncommanded = {} /\ silent = FALSE

(* Requests *)

\* A request that never reaches the queue.
Answered(c, r, outcome) ==
  /\ Q!Call(c, r)
  /\ status' = [status EXCEPT ![c] = outcome]
  /\ UNCHANGED <<running, pending, members, started, task, entryOf, timer>>

IneligibleMount(c, r) ==
  /\ r.op = "mount" /\ r.subject \notin registered
  /\ Answered(c, r, "failed")
  /\ UNCHANGED <<shown, silent>>

\* A record that an unmount in flight is about to remove does not count.
StandsMounted(x) ==
  x \in M!Occupants /\ Q!IsEmpty /\ ~Q!IsClosed /\ releases[x] = "none"

AlreadyMounted(c, r) ==
  /\ r.op = "mount" /\ r.subject \in registered /\ StandsMounted(r.subject)
  /\ Answered(c, r, "succeeded")
  /\ Accept(Q!ReadEntries)

Queued(c, r) ==
  /\ r.op = "mount" => r.subject \in registered /\ ~StandsMounted(r.subject)
  /\ Q!Submit(c, r)
  /\ IF Q!IsClosed THEN UNCHANGED <<shown, silent>>
     ELSE Accept(Q!ReadEntriesAfterPlacing(r))

RequestArrives(c, r) ==
  /\ Calm
  /\ IneligibleMount(c, r) \/ AlreadyMounted(c, r) \/ Queued(c, r)
  /\ CallsNewEntry /\ SettlesCallers
  /\ UNCHANGED <<physical, strategy, evicting>>

\* The queue's own steps: the running entry's task ends, a caller's timer
\* fires, the domain closes and opens again.
TaskEnds ==
  /\ turn \in {"succeeded", "failed"}
  /\ Q!FinishRunning(running, turn)
  /\ CallsNewEntry /\ SettlesCallers
  /\ evicting' = <<>>
  /\ UNCHANGED <<physical, strategy, shown, silent>>

QueueStep ==
  /\ Calm
  /\ (\E c \in Q!Caller : Q!TimerFires(c)) \/ Q!Close \/ Q!Reopen
  /\ SettlesCallers
  /\ UNCHANGED <<physical, strategy, turn, evicting, shown, silent>>

SettleCommand(c) ==
  /\ Calm /\ c \in uncommanded
  /\ uncommanded' = uncommanded \ {c}
  /\ shown' = Project(Q!ReadEntries) /\ silent' = FALSE
  /\ UNCHANGED <<queue, physical, strategy, turn, evicting>>

(* The running entry's turn *)

AtTurn == turn \in {"starting", "resumed"}

\* An unmount of the subject in flight is awaited before anything is read.
TurnAwaitsUnmount ==
  /\ AtTurn /\ Mounting /\ releases[Now] # "none"
  /\ turn' = "awaiting"
  /\ UNCHANGED <<physical, evicting>>

\* Fault: the turn does not wait for an unmount in flight.
SettledWithoutWaiting == TRUE

Settled == Mounting => releases[Now] = "none"

TurnIneligible ==
  /\ AtTurn /\ Settled /\ Now \notin registered
  /\ turn' = "failed"
  /\ UNCHANGED <<physical, evicting>>

\* Nothing to do: the subject is mounted already, or absent already.
TurnFindsItDone ==
  /\ AtTurn /\ Settled /\ Now \in registered
  /\ Mounting <=> Now \in M!Occupants
  /\ turn' = "succeeded"
  /\ UNCHANGED <<physical, evicting>>

TurnReleases ==
  /\ AtTurn /\ ~Mounting /\ Now \in registered /\ Now \in M!Occupants
  /\ M!Release(Now)
  /\ turn' = "releasing"
  /\ UNCHANGED evicting

FreshTurn == AtTurn /\ Mounting /\ Settled /\ Now \in registered /\ Now \notin M!Occupants

\* Fault: the strategy evicts nobody.
NoSiblings == <<>>

\* The mount set as the strategy reads it: Optional displaces a sole occupant,
\* Exclusive evicts every one.
Siblings == IF strategy = "optional" /\ Len(mountSet) # 1 THEN <<>> ELSE mountSet

ToEvict == IF turn = "evicted" THEN Tail(evicting) ELSE Siblings

TurnEvicts ==
  /\ FreshTurn \/ turn = "evicted"
  /\ ToEvict # <<>>
  /\ evicting' = ToEvict
  /\ M!Release(Head(ToEvict))
  /\ turn' = "evicting"

\* The strategy creates a container and has it mounted, unless no container is
\* to be had, no root is attached or the extension has been removed meanwhile.
TurnMounts ==
  /\ FreshTurn \/ turn = "evicted"
  /\ ToEvict = <<>>
  /\ evicting' = <<>>
  /\ \/ M!MountBegins(Now) /\ turn' = "mounting"
     \/ UNCHANGED physical /\ turn' = "failed"

MountProceeds ==
  /\ turn = "mounting"
  /\ \/ M!MountGoesOn(Now) /\ UNCHANGED turn
     \/ M!Places(Now) /\ turn' = "succeeded"
     \/ M!MountFails(Now) /\ turn' = "failed"
  /\ UNCHANGED evicting

Turn ==
  /\ \/ TurnAwaitsUnmount \/ TurnIneligible \/ TurnFindsItDone \/ TurnReleases
     \/ TurnEvicts \/ TurnMounts \/ MountProceeds
  /\ UNCHANGED <<queue, url, strategy>>

(* What goes on beside the turn: releases, the slot, extensions *)

ReleaseProceeds(x) ==
  /\ M!LifecycleUnmounted(x) \/ M!LeavesMountSet(x)
  /\ silent' = (silent \/ (turn = "idle" /\ mountSet' # mountSet))
  /\ UNCHANGED <<turn, shown, uncommanded>>

TurnWaitsFor(x) == \/ turn \in {"awaiting", "releasing"} /\ Now = x
                   \/ turn = "evicting" /\ Head(evicting) = x

\* Fault: the turn is not told of a failed release.
WakesTurnOnSuccess(x, outcome) ==
  turn' = IF ~TurnWaitsFor(x) \/ outcome = "failed" THEN turn
          ELSE CASE turn = "awaiting"  -> "resumed"
                 [] turn = "releasing" -> "succeeded"
                 [] turn = "evicting"  -> "evicted"

\* The turn that awaits the release of x goes on, or fails with it.
WakesTurn(x, outcome) ==
  turn' = IF ~TurnWaitsFor(x) THEN turn
          ELSE IF outcome = "failed" THEN "failed"
          ELSE CASE turn = "awaiting"  -> "resumed"
                 [] turn = "releasing" -> "succeeded"
                 [] turn = "evicting"  -> "evicted"

ReleaseEnds(x) ==
  /\ \E outcome \in {"succeeded", "failed"} :
       M!ReleaseSettles(x, outcome) /\ WakesTurn(x, outcome)
  /\ UNCHANGED url

DetachProceeds == M!DetachGoesOn /\ UNCHANGED <<turn, url>>
UnregisterEnds(x) == M!UnregisterEnds(x) /\ UNCHANGED <<turn, url>>

Surroundings ==
  /\ M!Attach \/ M!Detach \/ \E x \in Subject : M!Unregister(x) \/ M!Register(x)
  /\ UNCHANGED <<turn, url>>

Beside(step) == Calm /\ step /\ UNCHANGED <<queue, strategy, evicting>>

-----------------------------------------------------------------------------
Next ==
  \/ \E r \in Requests : RequestArrives(submitted + 1, r)
  \/ TaskEnds \/ QueueStep \/ Turn
  \/ \E c \in Q!Caller : SettleCommand(c)
  \/ Beside(Surroundings \/ DetachProceeds)
  \/ \E x \in Subject : Beside(ReleaseProceeds(x) \/ ReleaseEnds(x) \/ UnregisterEnds(x))

Spec == Init /\ [][Next]_vars

\* Promise continuations always run, and a lifecycle's mount and unmount
\* settle; nobody is obliged to ask for anything, attach, detach or unregister.
FairSpec ==
  /\ Spec
  /\ WF_vars(TaskEnds) /\ WF_vars(Turn)
  /\ \A c \in Q!Caller : WF_vars(SettleCommand(c))
  /\ WF_vars(Beside(DetachProceeds))
  /\ \A x \in Subject : WF_vars(Beside(ReleaseProceeds(x) \/ ReleaseEnds(x)))
  /\ \A x \in Subject : WF_vars(Beside(UnregisterEnds(x)))

-----------------------------------------------------------------------------
(* Properties *)

\* Every variable holds values of its type; a task stands somewhere exactly
\* while an entry runs.
TypeOK ==
  /\ Q!TypeOK /\ M!TypeOK /\ strategy \in {"optional", "exclusive"}
  /\ turn \in {"idle", "starting", "resumed", "awaiting", "evicting", "evicted", "releasing",
               "mounting", "succeeded", "failed"}
  /\ turn = "idle" <=> running = Q!NoEntry
  /\ evicting \in Seq(Subject) /\ shown \in Seq(Subject)
  /\ uncommanded \subseteq Q!Caller /\ silent \in BOOLEAN

\* A release that crosses a mount may leave a record of somebody unmounted, which
\* the strategies then take for an occupant; what follows is said until then.
NoneCrossed == crossed = {}

\* The cardinality both strategies exist for: never two occupants, not even
\* while one replaces the other.
AtMostOneOccupant == NoneCrossed => Len(mountSet) <= 1

\* The handlers and strategies use the mounter as it must be used: they never
\* mount what is mounted or on its way out, and never release what is on its
\* way in.  ExtensionMounter's invariants hold here for that reason.
UsesTheMounterWell == M!Init /\ [][NoneCrossed => M!Next]_physical

\* What success means: a mount entry succeeds only with its subject mounted
\* and staying, an unmount entry only with its subject gone.
SuccessMeansDone ==
  [][NoneCrossed /\ turn # "succeeded" /\ turn' = "succeeded" =>
       IF Mounting THEN Now \in M!Occupants' /\ releases'[Now] = "none" /\ Now \in alive'
                   ELSE Now \notin M!Occupants']_vars

\* The URL: with the queue empty and every settle command issued, the router
\* was last told exactly what is mounted, unless an occupant left since then
\* without an action (a slot detach or an unregistration).
UrlShowsTheOccupant ==
  turn = "idle" /\ uncommanded = {} /\ ~silent => shown = mountSet

\* A task stands somewhere exactly while an entry runs, and asks for something real.
EntriesInv ==
  /\ turn = "idle" <=> running = Q!NoEntry
  /\ turn \in {"idle", "starting", "resumed", "awaiting", "evicting", "evicted", "releasing",
               "mounting", "succeeded", "failed"}
  /\ \A c \in Q!Caller : c <= submitted => request[c] \in Q!Request

\* The turn's subject is nowhere in the domain while its sibling is evicted.
EvictionInv ==
  turn \in {"evicting", "evicted"} =>
    /\ Mounting /\ Now \notin M!Occupants /\ releases[Now] = "none"
    /\ \E x \in Subject :
         /\ evicting = <<x>> /\ M!Occupants \subseteq {x}
         /\ IF turn = "evicting" THEN x # Now /\ releases[x] # "none" ELSE mountSet = <<>>

\* Only the turn mounts, into an empty mount set, and only a mount entry waits
\* for an unmount before it.
TurnInv ==
  /\ \A x \in Subject : attempt[x] # "none" => turn = "mounting" /\ x = Now
  /\ turn = "mounting" => Mounting /\ mountSet = <<>>
  /\ turn = "awaiting" => Mounting
  /\ turn = "releasing" => ~Mounting

\* A detach has one occupant to release at most, whose release is in flight.
DetachInv ==
  detaching # <<>> =>
    detachWaits = "yes" /\ \E x \in Subject : detaching = <<x>> /\ releases[x] # "none"

\* What the turns, the releases and the mounter keep between them.
OccupancyInv ==
  /\ M!IInv /\ M!MountedInv
  /\ EvictionInv /\ TurnInv /\ DetachInv /\ AtMostOneOccupant

\* The inductive invariant behind the properties above.
IInv ==
  /\ Q!IInv /\ EntriesInv /\ UrlShowsTheOccupant
  /\ NoneCrossed => OccupancyInv

\* Every request settles and its settle command follows, although releases,
\* detaches and evictions wait for one another.
EveryRequestSettles ==
  \A c \in Q!Caller : c \in Q!Waiting \cup uncommanded ~> c \notin Q!Waiting \cup uncommanded
=============================================================================
