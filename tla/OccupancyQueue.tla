---------------------------- MODULE OccupancyQueue ----------------------------
(***************************************************************************)
(* The two-slot occupancy queue of an Optional or Exclusive domain         *)
(* (DomainOccupancyCoordinator, OccupancyEntry, OccupancyCaller).          *)
(*                                                                         *)
(* A caller is one call of `submit`; callers are numbered in the order of  *)
(* their calls, so "first in join order" is "smallest".  An entry is       *)
(* created by exactly one caller and carries that caller's number.         *)
(*                                                                         *)
(* JavaScript runs each of the methods below to its end without            *)
(* interleaving, so each is one action.  A task that throws synchronously  *)
(* is a FinishRunning taken as the very next step.                         *)
(***************************************************************************)
EXTENDS Naturals

CONSTANTS Subject,     \* the extensions a request can name
          MaxCallers   \* bound: how many requests are ever submitted

ASSUME MaxCallersAssumption == MaxCallers \in Nat

Operation == {"mount", "unmount"}
Request   == [op : Operation, subject : Subject]
Caller    == 1 .. MaxCallers
NoEntry   == 0
NoRequest == [op |-> "none", subject |-> "none"]

VARIABLES
  submitted,   \* number of calls of submit so far
  running,     \* the running entry, or NoEntry
  pending,     \* the pending entry, or NoEntry
  admission,   \* "closed" once closedReasonSuffix is set, else "open"
  request,     \* request[c]: what c asked for; an entry's is its creator's
  members,     \* members[e]: the callers array of entry e
  started,     \* the entries whose started flag is set
  task,        \* task[e]: whose task e is executing, NoEntry when none is
  status,      \* status[c]: c's settlement
  entryOf,     \* entryOf[c]: the entry c's timer callback closes over
  timer        \* the callers whose timer is armed

vars == <<submitted, running, pending, admission, request, members, started,
          task, status, entryOf, timer>>

-----------------------------------------------------------------------------
IsClosed == admission = "closed"

IsEmpty == running = NoEntry /\ pending = NoEntry

Waiting == {c \in Caller : status[c] = "waiting"}

\* OccupancyEntry.matches: same operation and same subject.
Matches(e, r) == e # NoEntry /\ request[e] = r

RequestOf(e) == IF e = NoEntry THEN NoRequest ELSE request[e]

\* readEntries
ReadEntries == [running |-> RequestOf(running), pending |-> RequestOf(pending)]

\* Fault: the prediction overlooks that a request may join.
ReadPendingAlwaysPlaced(r) ==
  [running |-> IF ~IsClosed /\ running = NoEntry THEN r ELSE RequestOf(running),
   pending |-> IF IsClosed THEN RequestOf(pending)
               ELSE IF running = NoEntry THEN NoRequest ELSE r]

\* readEntriesAfterPlacing: what the slots will read once r is submitted.
ReadEntriesAfterPlacing(r) ==
  [running |-> IF ~IsClosed /\ running = NoEntry THEN r ELSE RequestOf(running),
   pending |-> IF IsClosed \/ (running # NoEntry /\ Matches(pending, r))
                 THEN RequestOf(pending)
               ELSE IF running = NoEntry \/ Matches(running, r)
                 THEN NoRequest
               ELSE r]

-----------------------------------------------------------------------------
MembersOf(e) == IF e = NoEntry THEN {} ELSE members[e]

\* Fault: the callers of an entry that ends or is dropped are forgotten.
SettleNobody(S, outcome) == status

\* OccupancyEntry.settleAll through OccupancyCaller.succeed / fail: only an
\* unsettled caller changes.
SettleAll(S, outcome) ==
  [c \in Caller |-> IF c \in S /\ status[c] = "waiting" THEN outcome ELSE status[c]]

\* clearTimer in succeed / fail: a settled caller's timer is disarmed.
ClearSettledTimers(armed) == timer' = {c \in armed : status'[c] = "waiting"}

\* admit: c joins entry e and arms its timer; `replaced` are the callers that
\* settlePendingFailure fails in the same call.
Admit(e, c, replaced) ==
  /\ members' = [members EXCEPT ![e] = @ \cup {c}]
  /\ entryOf' = [entryOf EXCEPT ![c] = e]
  /\ status'  = [SettleAll(replaced, "failed") EXCEPT ![c] = "waiting"]
  /\ ClearSettledTimers(timer \cup {c})

\* firstLiveCaller: the first caller in join order that has not settled.
FirstLiveCaller(c, S, st) ==
  /\ c \in S /\ st[c] = "waiting"
  /\ \A d \in S : st[d] = "waiting" => c <= d

\* startRunning and OccupancyEntry.run: e takes the running slot, is marked
\* started, and runs the task of its first live caller.  S are e's callers,
\* st the settlements and tasks the executions at that moment.
StartRunning(e, S, st, tasks) ==
  \E c \in Caller :
    /\ FirstLiveCaller(c, S, st)
    /\ running' = e
    /\ started' = started \cup {e}
    /\ task'    = [tasks EXCEPT ![e] = c]

-----------------------------------------------------------------------------
Init ==
  /\ submitted = 0 /\ running = NoEntry /\ pending = NoEntry /\ admission = "open"
  /\ request = [c \in Caller |-> NoRequest]
  /\ members = [e \in Caller |-> {}]
  /\ started = {}
  /\ task    = [e \in Caller |-> NoEntry]
  /\ status  = [c \in Caller |-> "idle"]
  /\ entryOf = [c \in Caller |-> NoEntry]
  /\ timer   = {}

\* submit, one action per branch.  Call(c, r) is what every branch shares.
Call(c, r) ==
  /\ c \in Caller /\ submitted' = c
  /\ request' = [request EXCEPT ![c] = r]
  /\ UNCHANGED admission

\* A closed queue admits nothing: the request fails at once.
SubmitRefused(c, r) ==
  /\ Call(c, r)
  /\ IsClosed
  /\ status' = [status EXCEPT ![c] = "failed"]
  /\ UNCHANGED <<running, pending, members, started, task, entryOf, timer>>

SubmitToEmpty(c, r) ==
  /\ Call(c, r)
  /\ ~IsClosed /\ running = NoEntry
  /\ Admit(c, c, {})
  /\ StartRunning(c, members'[c], status', task)
  /\ UNCHANGED pending

SubmitJoinsPending(c, r) ==
  /\ Call(c, r)
  /\ ~IsClosed /\ running # NoEntry /\ Matches(pending, r)
  /\ Admit(pending, c, {})
  /\ UNCHANGED <<running, pending, started, task>>

\* Fault: joining the running entry keeps what is pending.
SubmitJoinsBesidePending(c, r) ==
  /\ Call(c, r)
  /\ ~IsClosed /\ running # NoEntry /\ ~Matches(pending, r) /\ Matches(running, r)
  /\ Admit(running, c, {})
  /\ UNCHANGED <<running, pending, started, task>>

\* Joining the running entry drops whatever was pending.
SubmitJoinsRunning(c, r) ==
  /\ Call(c, r)
  /\ ~IsClosed /\ running # NoEntry /\ ~Matches(pending, r) /\ Matches(running, r)
  /\ Admit(running, c, MembersOf(pending))
  /\ pending' = NoEntry
  /\ UNCHANGED <<running, started, task>>

\* A request matching neither slot becomes the pending entry, replacing the
\* one that was there.
SubmitTakesPending(c, r) ==
  /\ Call(c, r)
  /\ ~IsClosed /\ running # NoEntry /\ ~Matches(pending, r) /\ ~Matches(running, r)
  /\ Admit(c, c, MembersOf(pending))
  /\ pending' = c
  /\ UNCHANGED <<running, started, task>>

Submit(c, r) ==
  \/ SubmitRefused(c, r)
  \/ SubmitToEmpty(c, r)
  \/ SubmitJoinsPending(c, r)
  \/ SubmitJoinsRunning(c, r)
  \/ SubmitTakesPending(c, r)

\* finishRunning: the task of entry e settles; every caller of e settles with
\* its outcome, and the pending entry is promoted and started.
FinishRunning(e, outcome) ==
  LET left  == IF running = e THEN NoEntry ELSE running
      tasks == [task EXCEPT ![e] = NoEntry]
  IN /\ task[e] # NoEntry
     /\ status' = SettleAll(members[e], outcome)
     /\ ClearSettledTimers(timer)
     /\ \/ /\ left = NoEntry /\ pending # NoEntry
           /\ pending' = NoEntry
           /\ StartRunning(pending, members[pending], status', tasks)
        \/ /\ left # NoEntry \/ pending = NoEntry
           /\ running' = left /\ task' = tasks
           /\ UNCHANGED <<pending, started>>
     /\ UNCHANGED <<submitted, admission, request, members, entryOf>>

\* Fault: the pending entry stays when its last caller has left.
NeverLastCaller(e) == FALSE

\* The pending entry leaves the queue with its last caller.
LastCallerLeft(e) == pending = e /\ members'[e] = {}

\* Fault: a timer fails its caller even once the entry has started.
QueuedForEver(c) == TRUE

QueuedStill(c) == entryOf[c] \notin started

\* onCallerTimerFired: a caller of an entry that has not started leaves it and
\* fails alone; a caller of a started entry keeps waiting.
TimerFires(c) ==
  /\ c \in timer
  /\ \/ /\ status[c] # "waiting" \/ ~QueuedStill(c)
        /\ timer' = timer \ {c}
        /\ UNCHANGED <<pending, members, status>>
     \/ /\ status[c] = "waiting" /\ QueuedStill(c)
        /\ members' = [members EXCEPT ![entryOf[c]] = @ \ {c}]
        /\ status'  = [status EXCEPT ![c] = "failed"]
        /\ ClearSettledTimers(timer \ {c})
        /\ pending' = IF LastCallerLeft(entryOf[c]) THEN NoEntry ELSE pending
  /\ UNCHANGED <<submitted, running, admission, request, started, task, entryOf>>

\* close: the pending entry's callers fail; the running entry goes on.
Close ==
  /\ admission' = "closed"
  /\ pending' = NoEntry
  /\ status' = SettleAll(MembersOf(pending), "failed")
  /\ ClearSettledTimers(timer)
  /\ UNCHANGED <<submitted, running, request, members, started, task, entryOf>>

Reopen ==
  /\ admission' = "open"
  /\ UNCHANGED <<submitted, running, pending, request, members, started, task,
                 status, entryOf, timer>>

Next ==
  \/ \E r \in Request : Submit(submitted + 1, r)
  \/ \E e \in Caller, outcome \in {"succeeded", "failed"} : FinishRunning(e, outcome)
  \/ \E c \in Caller : TimerFires(c)
  \/ Close
  \/ Reopen

Spec == Init /\ [][Next]_vars

\* setTimeout callbacks always run, and nothing else is promised: a task may
\* hang for ever.
TimerSpec == Spec /\ \A c \in Caller : WF_vars(TimerFires(c))

\* What holds if no task hangs.
TasksSettle == \A e \in Caller :
  WF_vars(\E outcome \in {"succeeded", "failed"} : FinishRunning(e, outcome))

-----------------------------------------------------------------------------
(* Properties *)

\* Every variable holds values of its type, and callers are numbered in order.
TypeOK ==
  /\ submitted \in 0 .. MaxCallers
  /\ running \in 0 .. MaxCallers /\ pending \in 0 .. MaxCallers
  /\ admission \in {"open", "closed"}
  /\ request \in [Caller -> Request \cup {NoRequest}]
  /\ members \in [Caller -> SUBSET Caller]
  /\ started \in SUBSET Caller
  /\ task \in [Caller -> 0 .. MaxCallers]
  /\ status \in [Caller -> {"idle", "waiting", "succeeded", "failed"}]
  /\ entryOf \in [Caller -> 0 .. MaxCallers]
  /\ timer \in SUBSET Caller
  /\ \A c \in Caller : status[c] = "idle" <=> c > submitted

\* One mutation of the domain at a time: the entry in the running slot is the
\* only one whose task is executing.
OneTaskAtATime == \A e \in Caller : task[e] # NoEntry <=> e = running

\* "A live caller always exists here" (OccupancyEntry.run): whatever waits to
\* be promoted still has callers, and every one of them is unsettled.
PendingHasLiveCallers ==
  pending # NoEntry =>
    /\ running # NoEntry
    /\ pending \notin started
    /\ members[pending] # {}
    /\ members[pending] \subseteq Waiting

\* Nobody is stranded: a caller that has not settled sits in one of the two
\* slots, so some later step can settle it; and while it is still queued its
\* own timer is armed.
NobodyStranded ==
  \A c \in Waiting :
    \/ c \in MembersOf(running)
    \/ c \in MembersOf(pending) /\ c \in timer

\* Requests are merged only when they are the same: everyone in an entry asked
\* for the operation and the subject that the entry executes.
JoinersAskedForTheSame ==
  \A e \in Caller : \A c \in members[e] : request[c] = request[e]

\* The pending entry is never a repetition of the running one.
PendingDiffersFromRunning ==
  pending # NoEntry => request[pending] # request[running]

\* A closed queue has nothing to promote ("After close() nothing is promoted").
ClosedQueueHoldsNoPending == IsClosed => pending = NoEntry

\* What the two slots hold, and where each caller is: together with the types,
\* the inductive invariant behind the properties above.
SlotsInv ==
  /\ running # NoEntry => running \in started /\ members[running] # {}
  /\ pending # NoEntry => /\ running # NoEntry
                          /\ pending \notin started
                          /\ members[pending] # {}
                          /\ request[pending] # request[running]
  /\ IsClosed => pending = NoEntry
  /\ \A e \in Caller : task[e] # NoEntry <=> e = running
  /\ \A e \in started : e <= submitted
  /\ pending <= submitted

Belongs(c, e) ==
  /\ entryOf[c] = e
  /\ request[c] = request[e]
  /\ c <= submitted /\ e <= submitted
  /\ e \in {running, pending} => status[c] = "waiting"

MembersInv == \A e \in Caller : \A c \in members[e] : Belongs(c, e)

Placed(c) ==
  /\ entryOf[c] \in {running, pending} \ {NoEntry}
  /\ c \in members[entryOf[c]]
  /\ entryOf[c] = pending => c \in timer

WaitingInv == \A c \in Caller : status[c] = "waiting" => Placed(c)

\* The slots, the entries and the callers agree; every property above follows.
IInv == TypeOK /\ SlotsInv /\ MembersInv /\ WaitingInv

\* readEntriesAfterPlacing, which the URL command is computed from before the
\* request is placed, reads exactly what submit then leaves in the slots.
PlacementPredicted ==
  [][\A r \in Request : Submit(submitted + 1, r) =>
        ReadEntries' = ReadEntriesAfterPlacing(r)]_vars

\* A caller of a started entry settles only when that entry's task does, and
\* with the outcome of everyone else in it; a caller whose entry never started
\* can only fail.
SettledByOwnTask ==
  [][\A c \in Waiting : status'[c] # "waiting" =>
        IF entryOf[c] \in started
          THEN /\ task[entryOf[c]] # NoEntry /\ task'[entryOf[c]] = NoEntry
               /\ \A d \in members[entryOf[c]] : status'[d] = status'[c]
          ELSE status'[c] = "failed"]_vars

\* Even behind a task that never settles, a queued caller is not stuck.
QueuedCallerMovesOn ==
  \A c \in Caller : (c \in Waiting /\ entryOf[c] \notin started)
                      ~> (c \notin Waiting \/ entryOf[c] \in started)

\* When tasks settle, every caller does.
EveryCallerSettles == TasksSettle => \A c \in Caller : c \in Waiting ~> c \notin Waiting

\* Where a caller stands, as the promise sees it.
Phase ==
  [c \in Caller |-> IF status[c] # "waiting" THEN status[c]
                    ELSE IF entryOf[c] \in started THEN "active" ELSE "queued"]

Promise == INSTANCE OccupancyRequests WITH
  phase <- Phase, asked <- request

\* The queue implements its promise: one request at a time, the newest request
\* wins the waiting place, identical requests share one execution, a waiting
\* caller gives up alone.
ImplementsPromise == Promise!Spec
=============================================================================
