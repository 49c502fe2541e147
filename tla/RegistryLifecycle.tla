---------------------------- MODULE RegistryLifecycle ----------------------------
(***************************************************************************)
(* Registration and unregistration of domains and extensions in one        *)
(* registry, and the registry's disposal (DefaultMfeRegistry,              *)
(* DefaultExtensionManager, OperationSerializer).                          *)
(*                                                                         *)
(* registerDomain is synchronous.  The other operations are calls: each is *)
(* chained behind the earlier ones of its id by the serializer, and may be *)
(* overtaken at every await.  The unregistration of a domain unregisters   *)
(* its extensions one by one through the same serializer.                  *)
(*                                                                         *)
(* Declarations are routed: an admission is known to the router and, once  *)
(* the registry has recorded it, in routerAdmittedExtensionIds,            *)
(* advertisableTargets and packages, which change together ("tracked").    *)
(***************************************************************************)
EXTENDS Sequences, Integers

CONSTANTS Domain, Extension,
          MaxCalls,          \* bound: asynchronous calls made
          MaxRegistrations   \* bound: successful registrations of a domain

None == "none"

ASSUME CallBoundsAssumption == MaxCalls \in Nat /\ MaxRegistrations \in Nat

\* The ids of domains and those of extensions are of different GTS types.
ASSUME IdsAssumption == Domain \cap Extension = {} /\ None \notin Domain

VARIABLES
  registrations, \* how many domains have been registered
  domains,       \* domains[d]: the registration of d in force, 0 if none
  served,        \* served[d]: the registration whose handlers, queue and router
                 \* admission are installed, 0 if none
  open,          \* open[d]: whether d's queue or joiner admits requests
  home,          \* home[x]: the domain x is registered in, or None
  inRouter,      \* the extensions the router holds
  tracked,       \* the extensions the registry has recorded as admitted
  unregistering, \* domainsUnregistering
  disposing,     \* "no", "waiting" for started work, or "done"
  calls,         \* calls[c]: what the c-th call asked for
  pc,            \* pc[c]: where it stands
  todo,          \* todo[c]: the extensions left of a drain's current pass
  queue,         \* queue[id]: the calls serialized on id, the first executing
  unmounting     \* the extensions whose unregistration awaits their unmount

registry == <<registrations, domains, served, open, unregistering>>
members  == <<home, inRouter, tracked>>
rvars    == <<registry, members, disposing, calls, pc, todo, queue, unmounting>>

-----------------------------------------------------------------------------
Over == {"idle", "returned", "failed"}

\* The unregisterDomain calls on d that have not returned.
Pending(d) == {c \in DOMAIN calls : calls[c].op = "unregisterDomain"
                                      /\ calls[c].domain = d /\ pc[c] \notin Over}

Executing(c, id) == queue[id] # <<>> /\ Head(queue[id]) = c

Members(d) == {x \in Extension : home[x] = d}

RegistryInit ==
  /\ registrations = 0
  /\ domains = [d \in Domain |-> 0] /\ served = [d \in Domain |-> 0]
  /\ open = [d \in Domain |-> FALSE] /\ unregistering = {}
  /\ home = [x \in Extension |-> None] /\ tracked = {} /\ inRouter = {}
  /\ disposing = "no"
  /\ calls = <<>> /\ pc = <<>> /\ todo = <<>>
  /\ queue = [id \in Domain \cup Extension |-> <<>>]
  /\ unmounting = {}

(* Calls *)

\* Bound: a disposed registry, in which nothing can be found, is not called.
Arrives(call, id) ==
  /\ Len(calls) < MaxCalls /\ disposing # "done"
  /\ calls' = Append(calls, call)
  /\ pc'    = Append(pc, "queued")
  /\ todo'  = Append(todo, {})
  /\ queue' = [queue EXCEPT ![id] = Append(@, Len(calls) + 1)]

CallsRegisterExtension(x, d) ==
  /\ Arrives([op |-> "registerExtension", domain |-> d, target |-> 0], x)
  /\ UNCHANGED <<registry, members, disposing, unmounting>>

CallsUnregisterExtension(x) ==
  /\ Arrives([op |-> "unregisterExtension", domain |-> None, target |-> 0], x)
  /\ UNCHANGED <<registry, members, disposing, unmounting>>

\* The call names the registration in force and closes the domain to requests.
CallsUnregisterDomain(d) ==
  /\ Arrives([op |-> "unregisterDomain", domain |-> d, target |-> domains[d]], d)
  /\ open' = [open EXCEPT ![d] = FALSE]
  /\ UNCHANGED <<registrations, domains, served, unregistering, members, disposing, unmounting>>

(* registerDomain *)

\* All checks passed; a refused registration leaves nothing behind.
RegisterDomain(d) ==
  /\ registrations < MaxRegistrations
  /\ disposing = "no" /\ domains[d] = 0
  /\ registrations' = registrations + 1
  /\ domains' = [domains EXCEPT ![d] = registrations']
  /\ served'  = [served EXCEPT ![d] = registrations']
  /\ open'    = [open EXCEPT ![d] = TRUE]
  /\ UNCHANGED <<unregistering, members, disposing, calls, pc, todo, queue, unmounting>>

(* registerExtension *)

\* The call returns, and the next one on the same id may start.
Returns(c, id, result) ==
  /\ pc' = [pc EXCEPT ![c] = result]
  /\ queue' = [queue EXCEPT ![id] = Tail(@)]
  /\ UNCHANGED <<calls, todo>>

Admits(x, d) == d \notin unregistering /\ home[x] = None /\ domains[d] # 0

\* Any other check, the router or the type system may reject it as well; the
\* router's admission is then released within the call.
ExtensionRejected(c, x) ==
  /\ Returns(c, x, "failed")
  /\ UNCHANGED <<registry, members, disposing, unmounting>>

ExtensionAdmitted(c, x) ==
  /\ Admits(x, calls[c].domain)
  /\ home' = [home EXCEPT ![x] = calls[c].domain]
  /\ inRouter' = inRouter \cup {x}
  /\ pc' = [pc EXCEPT ![c] = "admitted"]
  /\ UNCHANGED <<registry, tracked, disposing, calls, todo, queue, unmounting>>

ExtensionTracked(c, x) ==
  /\ tracked' = tracked \cup {x}
  /\ Returns(c, x, "returned")
  /\ UNCHANGED <<registry, home, inRouter, disposing, unmounting>>

RegisterExtension(c, x) ==
  /\ Executing(c, x) /\ calls[c].op = "registerExtension"
  /\ \/ pc[c] = "queued" /\ (ExtensionRejected(c, x) \/ ExtensionAdmitted(c, x))
     \/ pc[c] = "admitted" /\ ExtensionTracked(c, x)

(* unregisterExtension, called for itself or by the drain of a domain *)

Unregisters(c) == calls[c].op = "unregisterExtension" \/ pc[c] = "draining"

\* The unregistration of x ends; the drain that asked for it goes on to the
\* next extension, or fails with it.
Unregistered(c, x, outcome) ==
  IF calls[c].op = "unregisterExtension" THEN Returns(c, x, outcome)
  ELSE /\ todo' = [todo EXCEPT ![c] = @ \ {x}]
       /\ pc' = [pc EXCEPT ![c] = IF outcome = "failed" THEN "drainFailed" ELSE "drainNext"]
       /\ queue' = [queue EXCEPT ![x] = Tail(@)]
       /\ UNCHANGED calls

\* Fault: the router is not told of a removed extension.
RemovesQuietly(x) ==
  /\ home' = [home EXCEPT ![x] = None]
  /\ tracked' = tracked \ {x}
  /\ UNCHANGED inRouter

\* x is removed; the router is told if the registry recorded its admission.
Removes(x) ==
  /\ home' = [home EXCEPT ![x] = None]
  /\ tracked' = tracked \ {x}
  /\ inRouter' = IF x \in tracked THEN inRouter \ {x} ELSE inRouter

\* A mounted extension is unmounted first, which may fail.
UnregisterExtension(c, x) ==
  /\ Executing(c, x) /\ Unregisters(c)
  /\ \/ /\ home[x] # None /\ x \notin unmounting
        /\ unmounting' = unmounting \cup {x}
        /\ UNCHANGED <<members, calls, pc, todo, queue>>
     \/ /\ unmounting' = unmounting \ {x}
        /\ Removes(x) /\ Unregistered(c, x, "returned")
     \/ /\ x \in unmounting /\ unmounting' = unmounting \ {x}
        /\ Unregistered(c, x, "failed") /\ UNCHANGED members
  /\ UNCHANGED <<registry, disposing>>

(* unregisterDomain *)

\* finishUnregistrationCall: the domain, if it is still there, reopens with the
\* last of the calls.
Reopens(c, d) == Pending(d) = {c} /\ domains'[d] # 0 /\ disposing = "no"

Finishes(c, d, result) ==
  /\ open' = IF Reopens(c, d) THEN [open EXCEPT ![d] = TRUE] ELSE open
  /\ Returns(c, d, result)

\* The registration the call named is gone, and another is in force.
NamesAnotherOne(c, d) == calls[c].target # 0 /\ domains[d] # calls[c].target

\* Nothing is left of what the call named.
NothingToUnregister(c, d) ==
  /\ pc[c] = "queued" /\ NamesAnotherOne(c, d)
  /\ UNCHANGED <<registrations, domains, served, unregistering, members, disposing, unmounting>>
  /\ Finishes(c, d, "returned")

\* The domain is closed to requests and to extensions, before anything else.
UnregistrationBegins(c, d) ==
  /\ pc[c] = "queued" /\ ~NamesAnotherOne(c, d)
  /\ open' = [open EXCEPT ![d] = FALSE]
  /\ unregistering' = unregistering \cup {d}
  /\ pc' = [pc EXCEPT ![c] = "waiting"]
  /\ UNCHANGED <<registrations, domains, served, members, disposing, calls, todo, queue, unmounting>>

\* What is left of a drain's pass, or a new one: the members are queried again
\* when a pass is over.
Pass(c, d) == IF todo[c] # {} THEN todo[c] ELSE Members(d)

\* The work the domain had started has settled, or the extension before.
Drains(c) == pc[c] \in {"waiting", "drainNext"}

\* Fault: one serializer queue for everything, on which the drain waits for itself.
DrainsBehindItself(c, d) ==
  /\ Drains(c) /\ Pass(c, d) # {}
  /\ todo' = [todo EXCEPT ![c] = Pass(c, d)]
  /\ queue' = [queue EXCEPT ![d] = Append(@, c)]
  /\ pc' = [pc EXCEPT ![c] = "draining"]
  /\ UNCHANGED <<registry, members, disposing, calls, unmounting>>

\* One extension of the pass at a time, through its own serializer.
DrainsNext(c, d) ==
  /\ Drains(c)
  /\ todo' = [todo EXCEPT ![c] = Pass(c, d)]
  /\ \E x \in Pass(c, d) : queue' = [queue EXCEPT ![x] = Append(@, c)]
  /\ pc' = [pc EXCEPT ![c] = "draining"]
  /\ UNCHANGED <<registry, members, disposing, calls, unmounting>>

DomainRemoved(c, d) ==
  /\ Drains(c) /\ Pass(c, d) = {}
  /\ domains' = [domains EXCEPT ![d] = 0]
  /\ pc' = [pc EXCEPT ![c] = "removed"]
  /\ UNCHANGED <<registrations, served, open, unregistering, members, disposing, calls, todo,
                 queue, unmounting>>

\* Handlers, queue and router admission go, and the call returns.
DomainReleased(c, d) ==
  /\ pc[c] = "removed"
  /\ served' = [served EXCEPT ![d] = 0]
  /\ unregistering' = unregistering \ {d}
  /\ UNCHANGED <<registrations, domains, members, disposing, unmounting>>
  /\ Finishes(c, d, "returned")

\* Fault: the handlers go although the unregistration failed.
FailsReleased(c, d) ==
  /\ pc[c] = "drainFailed"
  /\ served' = [served EXCEPT ![d] = 0]
  /\ unregistering' = unregistering \ {d}
  /\ UNCHANGED <<registrations, domains, members, disposing, unmounting>>
  /\ Finishes(c, d, "failed")

UnregistrationFails(c, d) ==
  /\ pc[c] = "drainFailed"
  /\ unregistering' = unregistering \ {d}
  /\ UNCHANGED <<registrations, domains, served, members, disposing, unmounting>>
  /\ Finishes(c, d, "failed")

UnregisterDomain(c, d) ==
  /\ Executing(c, d)
  /\ \/ NothingToUnregister(c, d) \/ UnregistrationBegins(c, d)
     \/ DrainsNext(c, d) \/ DomainRemoved(c, d)
     \/ DomainReleased(c, d) \/ UnregistrationFails(c, d)

(* dispose *)

DisposeWaits ==
  /\ disposing = "no" /\ disposing' = "waiting"
  /\ open' = [d \in Domain |-> FALSE]
  /\ UNCHANGED <<registrations, domains, served, unregistering, members, calls, pc, todo, queue,
                 unmounting>>

\* Once the started work has settled, everything recorded is released and the
\* registry is cleared; calls in flight go on and find nothing.
DisposeTearsDown ==
  /\ disposing = "waiting" /\ disposing' = "done"
  /\ inRouter' = inRouter \ tracked
  /\ tracked'  = {}
  /\ home'     = [x \in Extension |-> None]
  /\ domains'  = [d \in Domain |-> 0]
  /\ served'   = [d \in Domain |-> 0]
  /\ UNCHANGED <<registrations, open, unregistering, calls, pc, todo, queue, unmounting>>

-----------------------------------------------------------------------------
Step(c) ==
  \/ \E x \in Extension : RegisterExtension(c, x) \/ UnregisterExtension(c, x)
  \/ \E d \in Domain : UnregisterDomain(c, d)

RegistryNext ==
  \/ \E x \in Extension : \/ \E d \in Domain : CallsRegisterExtension(x, d)
                          \/ CallsUnregisterExtension(x)
  \/ \E d \in Domain : CallsUnregisterDomain(d) \/ RegisterDomain(d)
  \/ \E c \in DOMAIN calls : Step(c)
  \/ DisposeWaits \/ DisposeTearsDown

RegistrySpec == RegistryInit /\ [][RegistryNext]_rvars

\* Continuations run, unmounts settle, and so does the work a domain started.
RegistryFairSpec ==
  RegistrySpec /\ \A c \in 1 .. MaxCalls : WF_rvars(c \in DOMAIN calls /\ Step(c))

-----------------------------------------------------------------------------
(* Properties *)

\* Every variable holds values of its type, and no extension outlives its domain.
RegistryTypeOK ==
  /\ registrations \in 0 .. MaxRegistrations
  /\ domains \in [Domain -> 0 .. registrations] /\ served \in [Domain -> 0 .. registrations]
  /\ open \in [Domain -> BOOLEAN] /\ unregistering \in SUBSET Domain
  /\ home \in [Extension -> Domain \cup {None}]
  /\ \A x \in Extension : home[x] # None => domains[home[x]] # 0
  /\ inRouter \in SUBSET Extension /\ tracked \in SUBSET inRouter
  /\ unmounting \in SUBSET Extension
  /\ disposing \in {"no", "waiting", "done"}
  /\ Len(calls) <= MaxCalls /\ Len(pc) = Len(calls) /\ Len(todo) = Len(calls)
  /\ \A c \in DOMAIN pc : pc[c] \in Over \cup {"queued", "admitted", "waiting", "drainNext",
                                      "draining", "drainFailed", "removed"}
  /\ \A id \in DOMAIN queue : queue[id] \in Seq(1 .. Len(calls))

\* The calls, where they stand, and their places in the queues.
Asked == [op : {"registerExtension", "unregisterExtension", "unregisterDomain"},
          domain : Domain \cup {None}, target : Nat]

Position == Over \cup {"queued", "admitted", "waiting", "drainNext", "draining", "drainFailed",
                       "removed"}

CallsInv ==
  /\ calls \in Seq(Asked) /\ pc \in Seq(Position) /\ todo \in Seq(SUBSET Extension)
  /\ Len(calls) <= MaxCalls /\ Len(pc) = Len(calls) /\ Len(todo) = Len(calls)
  /\ queue \in [Domain \cup Extension -> Seq(1 .. Len(calls))]
  /\ \A c \in DOMAIN calls : calls[c].op # "unregisterExtension" => calls[c].domain \in Domain

\* A domain's queue holds its unregistrations; a registration of an extension is
\* queued once, and first by the time the extension is admitted.
QueuesInv ==
  /\ \A d \in Domain : \A p \in DOMAIN queue[d] :
       calls[queue[d][p]].op = "unregisterDomain" /\ calls[queue[d][p]].domain = d
  /\ \A x, y \in Extension : \A p \in DOMAIN queue[x], q \in DOMAIN queue[y] :
       calls[queue[x][p]].op = "registerExtension" /\ queue[y][q] = queue[x][p] => x = y /\ p = q
  /\ \A x \in Extension : \A p \in DOMAIN queue[x] :
       pc[queue[x][p]] = "admitted" => p = 1 /\ calls[queue[x][p]].op = "registerExtension"

\* The router knows what the registry holds; what it admitted and the registry
\* has not recorded yet is being recorded; a disposed registry has no domains.
Admitting(x) == queue[x] # <<>> /\ pc[Head(queue[x])] = "admitted"

AdmissionInv ==
  /\ disposing = "done" => \A d \in Domain : domains[d] = 0
  /\ \A x \in Extension :
       /\ x \in tracked => x \in inRouter
       /\ Admitting(x) => x \in inRouter /\ x \notin tracked
       /\ disposing # "done" =>
            /\ home[x] # None <=> x \in inRouter
            /\ x \in inRouter => x \in tracked \/ Admitting(x)

\* The inductive invariant behind the properties of admissions and handlers.
RegistryIInv == RegistryTypeOK /\ CallsInv /\ QueuesInv /\ AdmissionInv

\* A domain is closed to requests for as long as any unregistration of it is
\* pending, and usable again afterwards if it is still registered.
ClosedExactlyWhilePending ==
  \A d \in Domain : domains[d] # 0 /\ disposing = "no" =>
    /\ (\E c \in Pending(d) : calls[c].target = domains[d]) => ~open[d]
    /\ Pending(d) = {} => open[d]

\* While a domain is drained its membership only shrinks, so the drain ends:
\* no extension is admitted to it behind the drain's back.
DrainingOnlyShrinks ==
  [][\A d \in unregistering : Members(d)' \subseteq Members(d)]_rvars

\* A domain that stays registered keeps its handlers, its queue and its router
\* admission, however many unregistrations of it fail; only one that has removed
\* an earlier domain of the id, and not yet returned, may still take them.
HandlersStayWithTheDomain ==
  [][\A d \in Domain :
       domains[d] # 0 /\ domains'[d] = domains[d] /\ served[d] # 0 /\ served'[d] = 0 =>
         \E c \in Pending(d) : pc[c] = "removed"]_rvars

\* With no operation on x in flight, the router holds x exactly if the registry
\* does: no failure path leaks an admission or releases one too many.
RouterAgrees ==
  \A x \in Extension : queue[x] = <<>> /\ disposing # "done" =>
    (x \in inRouter <=> home[x] # None)

\* An unregistration never takes a domain registered after the one it named.
TakesNoLaterDomain ==
  [][\A d \in Domain : \A c \in Pending(d) :
       domains[d] # 0 /\ pc[c] # "removed" /\ pc'[c] = "removed" =>
         calls[c].target \in {0, domains[d]}]_rvars

\* "The unregistration names the domain registered when it is called": a call
\* made while no domain was registered removes none.
TakesWhatItNamed ==
  [][\A d \in Domain : \A c \in Pending(d) :
       domains[d] # 0 /\ pc[c] # "removed" /\ pc'[c] = "removed" =>
         calls[c].target = domains[d]]_rvars

\* "Drain every extension this domain currently holds": what the drain of a
\* domain unregisters is then a member of that domain.
DrainTakesItsOwn ==
  [][\A c \in DOMAIN calls : \A x \in Extension :
       pc[c] = "draining" /\ Executing(c, x) /\ home[x] # None /\ home'[x] = None =>
         home[x] = calls[c].domain \/ disposing' # disposing]_rvars

\* Every call returns, although domains wait for their extensions' operations
\* and those for one another.
EveryCallReturns ==
  \A c \in 1 .. MaxCalls : c \in DOMAIN pc ~> (c \in DOMAIN pc /\ pc[c] \in Over)
=============================================================================
