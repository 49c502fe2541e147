---------------------------- MODULE ConcurrentDomain ----------------------------
(***************************************************************************)
(* One Concurrent domain: no occupancy queue.  Requests for different      *)
(* extensions are independent; mounts of one extension share one run       *)
(* (ConcurrentMountJoiner), an unmount waits for the run of its extension, *)
(* a run waits for the release of its extension (MountExtActionHandler,    *)
(* UnmountExtActionHandler).  The URL commands are computed from the mount *)
(* set and from the record of the requests accepted last                   *)
(* (ConcurrentOccupancyRecord, DomainReflectCommands).                     *)
(***************************************************************************)
EXTENDS Sequences, Integers, SequencesExt

CONSTANTS Subject,     \* the extensions of the domain
          MaxCallers,  \* bound: how many requests ever reach the domain
          Removable    \* the extensions that are ever unregistered

ASSUME DomainAssumption == MaxCallers \in Nat /\ Removable \subseteq Subject

VARIABLES root, registered, mountState, alive, mountSet, containers, destroys, attempt,
          stale, releases, detaching, detachWaits, leaving, crossed   \* see ExtensionMounter

M == INSTANCE ExtensionMounter

VARIABLES
  submitted,   \* how many requests have arrived
  request,     \* request[c]: what caller c asked for
  where,       \* where[c]: what caller c waits for, or how it was settled
  runs,        \* runs[x]: where the joiner's run for x stands
  admission,   \* "open" or "closed"
  record,      \* the requests accepted last, one per extension, in order
  shown,       \* the occupancy last commanded to the router
  uncommanded, \* the settled requests whose settle command is still due
  accepted,    \* auxiliary: the requests accepted so far
  silent       \* auxiliary: has an occupant left that no request asked to

physical == <<root, registered, mountState, alive, mountSet, containers, destroys,
              attempt, stale, releases, detaching, detachWaits, leaving, crossed>>
requests == <<submitted, request, where, runs>>
url      == <<record, shown, uncommanded, accepted, silent>>
vars     == <<physical, requests, admission, url>>

-----------------------------------------------------------------------------
Caller  == 1 .. MaxCallers
Request == [op : {"mount", "unmount"}, subject : Subject]

Settled == {"succeeded", "failed"}
Open    == {c \in 1 .. submitted : where[c] \notin Settled} \cup uncommanded

\* The callers for x that wait at p.
At(p, x) == {c \in 1 .. submitted : where[c] = p /\ request[c].subject = x}

Init ==
  /\ M!Init
  /\ submitted = 0 /\ request = <<>> /\ where = <<>>
  /\ runs = [x \in Subject |-> "none"]
  /\ admission = "open"
  /\ record = <<>> /\ shown = <<>> /\ uncommanded = {}
  /\ accepted = {} /\ silent = "never"

(* URL commands *)

\* The mount set once every recorded request has been done, in their order.
Project(rec) ==
  LET occupancy[i \in 0 .. Len(rec)] ==
        IF i = 0 THEN mountSet
        ELSE LET r == request'[rec[i]] IN
             IF r.op = "unmount"
               THEN SelectSeq(occupancy[i - 1], LAMBDA x : x # r.subject)
             ELSE IF r.subject \in ToSet(occupancy[i - 1]) THEN occupancy[i - 1]
             ELSE Append(occupancy[i - 1], r.subject)
  IN  occupancy[Len(rec)]

Commands ==
  /\ shown' = Project(record')
  /\ silent' = IF silent = "untold" THEN "told" ELSE silent

\* The record of an extension is replaced and moves to the end.
RecordSet(c, r) ==
  Append(RemoveFirstMatch(record, LAMBDA d : request[d].subject = r.subject), c)

\* Acceptance: the record first, then a command unless the history intent is
\* "none".
Accept(c, r) ==
  /\ accepted' = accepted \cup {c}
  /\ record' = RecordSet(c, r)
  /\ \/ Commands
     \/ UNCHANGED <<shown, silent>>

NotAccepted == UNCHANGED <<accepted, record, shown, silent>>

\* Only the record this very request holds is cleared.
RecordClear(c) == RemoveFirst(record, c)

SettleCommand(c) ==
  /\ c \in uncommanded
  /\ uncommanded' = uncommanded \ {c}
  /\ record' = RecordClear(c)
  /\ UNCHANGED <<physical, requests, admission, accepted>>
  /\ Commands

\* Fault: failed requests are not followed by a settle command.
SettlesTheSuccessful ==
  uncommanded' = uncommanded \cup
    {c \in DOMAIN where' : where'[c] = "succeeded"
                               /\ (c \in 1 .. submitted => where[c] \notin Settled)}

\* The settle command of a request follows its settlement.
SettlesCallers ==
  uncommanded' = uncommanded \cup
    {c \in DOMAIN where' : where'[c] \in Settled
                               /\ (c \in 1 .. submitted => where[c] \notin Settled)}

(* The joiner's run of one extension *)

SetsRun(x, to) == runs' = [runs EXCEPT ![x] = to]

\* What a run does at its start and again after each release it waited for.
Evaluates(x) ==
  IF x \notin registered THEN "failed"
  ELSE IF releases[x] # "none" THEN "waiting"
  ELSE IF x \in M!Occupants THEN "succeeded"
  ELSE "mounting"

\* A fresh mount: the strategy creates a container and has it mounted, unless
\* no container is to be had or no root is attached.
RunEvaluates(x) ==
  \/ Evaluates(x) # "mounting" /\ SetsRun(x, Evaluates(x)) /\ UNCHANGED physical
  \/ Evaluates(x) = "mounting" /\ M!MountBegins(x) /\ SetsRun(x, "mounting")
  \/ Evaluates(x) = "mounting" /\ SetsRun(x, "failed") /\ UNCHANGED physical

RunGoesOn(x) ==
  /\ \/ runs[x] = "resumed" /\ RunEvaluates(x)
     \/ runs[x] = "mounting" /\ \/ M!MountGoesOn(x) /\ UNCHANGED runs
                                \/ M!Places(x) /\ SetsRun(x, "succeeded")
                                \/ M!MountFails(x) /\ SetsRun(x, "failed")
  /\ UNCHANGED <<submitted, request, where, admission, url>>

\* The run settles its callers; the unmounts that waited for it release what it
\* mounted, or are done when it failed.
RunSettles(x) ==
  /\ runs[x] \in Settled
  /\ SetsRun(x, "none")
  /\ where' = [c \in 1 .. submitted |->
                 CASE c \in At("run", x)   -> runs[x]
                   [] c \in At("mount", x) ->
                        IF runs[x] = "failed" THEN "succeeded" ELSE "release"
                   [] OTHER -> where[c]]
  /\ IF runs[x] = "succeeded" /\ At("mount", x) # {} THEN M!Release(x)
                                                     ELSE UNCHANGED physical
  /\ SettlesCallers
  /\ UNCHANGED <<submitted, request, admission, record, shown, accepted, silent>>

(* Requests *)

Arrives(c, r, place) ==
  /\ c \in Caller /\ submitted' = c
  /\ request' = Append(request, r) /\ where' = Append(where, place)
  /\ SettlesCallers
  /\ UNCHANGED admission

Refused(c, r) ==
  /\ admission = "closed" \/ (r.op = "mount" /\ r.subject \notin registered)
  /\ Arrives(c, r, "failed")
  /\ NotAccepted
  /\ UNCHANGED <<physical, runs>>

\* A mount request joins the run of its extension.
Joins(x) == runs[x] # "none"

Mount(c, r) ==
  /\ r.op = "mount" /\ r.subject \in registered /\ admission = "open"
  /\ Arrives(c, r, "run")
  /\ Accept(c, r)
  /\ IF Joins(r.subject) THEN UNCHANGED <<physical, runs>> ELSE RunEvaluates(r.subject)

\* Fault: an unmount goes ahead whatever runs.
AwaitsNothing(x) == FALSE

\* An unmount waits for the run of its extension.
AwaitsRun(x) == runs[x] # "none"

Unmount(c, r) ==
  /\ r.op = "unmount" /\ admission = "open"
  /\ Arrives(c, r, IF AwaitsRun(r.subject) THEN "mount" ELSE "release")
  /\ Accept(c, r)
  /\ IF AwaitsRun(r.subject) THEN UNCHANGED physical ELSE M!Release(r.subject)
  /\ UNCHANGED runs

Admission(to) ==
  /\ admission' = to /\ UNCHANGED <<physical, requests, url>>

(* Releases, the slot, extensions *)

ReleaseProceeds(x) ==
  /\ M!LifecycleUnmounted(x) \/ M!LeavesMountSet(x)
  /\ silent' = IF mountSet' # mountSet /\ At("release", x) = {} THEN "untold" ELSE silent
  /\ UNCHANGED <<requests, admission, record, shown, uncommanded, accepted>>

\* Fault: a run is not told of the failed release it waits for.
WakesRunOnSuccess(x, outcome) ==
  runs' = IF runs[x] = "waiting" /\ outcome = "succeeded"
            THEN [runs EXCEPT ![x] = "resumed"] ELSE runs

\* A run that waits for the release of x goes on, or fails with it.
WakesRun(x, outcome) ==
  runs' = IF runs[x] # "waiting" THEN runs
          ELSE [runs EXCEPT ![x] = IF outcome = "failed" THEN "failed" ELSE "resumed"]

\* Whoever waits for the release of x learns its outcome.
ReleaseEnds(x) ==
  /\ \E outcome \in Settled :
       /\ M!ReleaseSettles(x, outcome)
       /\ where' = [c \in 1 .. submitted |->
                      IF c \in At("release", x) THEN outcome ELSE where[c]]
       /\ WakesRun(x, outcome)
  /\ SettlesCallers
  /\ UNCHANGED <<submitted, request, admission, record, shown, accepted, silent>>

Undisturbed == UNCHANGED <<requests, admission, url>>
DetachProceeds     == M!DetachGoesOn /\ Undisturbed
UnregisterEnds(x)  == M!UnregisterEnds(x) /\ Undisturbed

Surroundings ==
  /\ M!Attach \/ M!Detach \/ \E x \in Subject : M!Unregister(x) \/ M!Register(x)
  /\ Undisturbed

-----------------------------------------------------------------------------
Next ==
  \/ \E r \in Request : LET c == submitted + 1
                        IN  Refused(c, r) \/ Mount(c, r) \/ Unmount(c, r)
  \/ \E to \in {"open", "closed"} : Admission(to)
  \/ \E c \in Caller : SettleCommand(c)
  \/ \E x \in Subject : RunGoesOn(x) \/ RunSettles(x) \/ ReleaseProceeds(x)
                          \/ ReleaseEnds(x) \/ UnregisterEnds(x)
  \/ Surroundings \/ DetachProceeds

Spec == Init /\ [][Next]_vars

\* Promise continuations always run, and a lifecycle's mount and unmount settle.
FairSpec ==
  /\ Spec /\ WF_vars(DetachProceeds)
  /\ \A c \in Caller : WF_vars(SettleCommand(c))
  /\ \A x \in Subject : /\ WF_vars(RunGoesOn(x) \/ RunSettles(x))
                        /\ WF_vars(ReleaseProceeds(x) \/ ReleaseEnds(x))
                        /\ WF_vars(UnregisterEnds(x))

-----------------------------------------------------------------------------
(* Properties *)

\* The handlers use the mounter as it must be used: they never mount what is
\* mounted or on its way out, and never release what is on its way in.
UsesTheMounterWell == M!Spec

\* Every variable holds values of its type.
TypeOK ==
  /\ M!TypeOK
  /\ submitted \in 0 .. MaxCallers /\ admission \in {"open", "closed"}
  /\ request \in Seq(Request) /\ Len(request) = submitted
  /\ where \in Seq({"run", "mount", "release"} \cup Settled) /\ Len(where) = submitted
  /\ runs \in [Subject -> {"none", "waiting", "resumed", "mounting"} \cup Settled]
  /\ record \in Seq(1 .. submitted) /\ accepted \in SUBSET (1 .. submitted)
  /\ uncommanded \in SUBSET (1 .. submitted)
  /\ silent \in {"never", "untold", "told"}

\* A mount in flight is the one its extension's run waits for: no two mounts of
\* one extension ever meet in the mounter, and none goes unwatched.
RunOwnsTheMount == \A x \in Subject : attempt[x] # "none" <=> runs[x] = "mounting"

\* Somebody waits for every run, until it settles.
RunsAreAwaited == \A x \in Subject : runs[x] # "none" => At("run", x) # {}

\* The record of an extension is the request accepted last for it, until that
\* request's settle command; a request settling late never removes another's.
RecordsTheLatest ==
  /\ IsInjective(record)
  /\ ToSet(record) =
       {c \in accepted \cap Open : \A d \in accepted :
                                     request[d].subject = request[c].subject => d <= c}

\* The run succeeds only with its extension mounted and staying, unless a release
\* crossed a mount of it.
SuccessMeansMounted ==
  [][\A x \in Subject : runs[x] # "succeeded" /\ runs'[x] = "succeeded" =>
       /\ x \in M!Occupants'
       /\ x \notin crossed' => x \in alive' /\ releases'[x] = "none"]_vars

\* With every request settled and every settle command issued, the router was
\* last told exactly what is mounted, in mount order, unless an occupant left
\* since then without an action.
UrlShowsTheOccupants == Open = {} /\ silent # "untold" => shown = mountSet

\* The inductive invariant behind the properties above: what a settled request
\* leaves behind is its command, and the last command finds the record empty.
IInv ==
  /\ M!IInv /\ M!MountedInv
  /\ TypeOK /\ RunOwnsTheMount /\ RunsAreAwaited /\ RecordsTheLatest
  /\ (\A c \in uncommanded : where[c] \in Settled)
  /\ UrlShowsTheOccupants

\* What an acceptance command announces: when every request has succeeded and
\* no occupant ever left otherwise, an extension is mounted exactly if the
\* request accepted last for it was a mount.
ProjectionComesTrue ==
  Open = {} /\ silent = "never" /\ (\A c \in 1 .. submitted : where[c] = "succeeded") =>
    \A c \in accepted :
      (\A d \in accepted : request[d].subject = request[c].subject => d <= c) =>
        (request[c].op = "mount" <=> request[c].subject \in M!Occupants)

\* Every request settles and its settle command follows, although runs wait for
\* releases, unmounts for runs and a detach for releases.
EveryRequestSettles == \A c \in Caller : c \in Open ~> c \notin Open
=============================================================================
