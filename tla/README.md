# A verification development for gears-frontx

gears-frontx is a TypeScript framework for applications assembled from
micro-frontends: a host registers *domains* (slots), MFEs register *extensions*
(what is shown in a slot), and everything that happens is an *action* that a
mediator delivers to a handler. The code is single-threaded, but almost every
operation of the runtime is a chain of `await`s, and at each of them any other
operation may run. That is where its hard behaviour is, and what these modules
are about: state read before an await and used after it, one extension
mounted, released, detached and unregistered by four actors at once, queues
that promise an answer to every caller, shared work that several callers join
and leave.

Paths below are relative to `src/packages/`.

Contents: [inventory](#inventory) · [modules](#the-modules) ·
[how code becomes actions](#how-code-becomes-actions) · [runs](#the-runs) ·
[fairness](#fairness) · [proofs](#the-proofs) ·
[divergences](#where-code-and-documentation-disagree) ·
[not modelled](#what-is-not-modelled) · [plan](#plan)

## Inventory

### Extensions in a domain (`mfes/src/runtime`)

| component | state it keeps | operations | what is hard | correct means |
|---|---|---|---|---|
| Occupancy queue: `DomainOccupancyCoordinator`, `OccupancyEntry`, `OccupancyCaller` | a running and a pending entry, their callers, one timer per caller, a closed flag | submit, close, reopen; a task finishing; a caller's timer | promotion, joining, replacement and timers interleave; a timer can fire just before or just after its entry starts | one task at a time; every caller settles once, with its own task's outcome; a queued caller never waits for ever |
| Mounter: `DefaultExtensionMounter`, `ExtensionReleaser`, `DefaultMountManager` | slot root, containers and their destroy callbacks, mount and release in flight per extension, the domain's mount set, each lifecycle | mount, unmount (release), attach, detach | a slot detached during a mount; releases started by an action, a strategy, a detach and an unregistration at once | who is recorded is mounted; each container is destroyed once; nothing stays in a detached slot |
| Handlers: `MountExtActionHandler`, `UnmountExtActionHandler` | none of their own | answer at once, queue, run at their turn; the Concurrent variants | state read when a request arrives and again at its turn, after waiting for a release | success means done; every request settles |
| Strategies: `OptionalMountStrategy`, `ExclusiveMountStrategy`, `ConcurrentMountStrategy` | none | mount, evicting others first | eviction awaits one sibling after another | at most one occupant where that is the rule |
| Joiner: `ConcurrentMountJoiner`, `StartedWorkTracker` | one run per extension, started work, closed flag | run, whenSettled, close, reopen | a mount joins a run others wait for | one mount per extension at a time |
| Router commands: `DomainReflectCommands`, `ConcurrentOccupancyRecord` | the record of accepted requests | accept, settle, settleAfter | commands are issued in later turns, in any order of settlement | the URL ends up showing what is mounted |

They interact by direct calls and promises: the mediator calls a handler, the
handler submits a task to the queue or a run to the joiner, the task calls the
strategy, the strategy the mounter, and the mounter the mount manager and the
releaser. The mount set is shared by all of them through the extension
manager; the slot (React or DOM) calls attach and detach at any time.

### Registries and the chains between them (`mfes`)

| component | state | operations | what is hard | correct means |
|---|---|---|---|---|
| Registry: `DefaultMfeRegistry`, `OperationSerializer` | domains, handlers, queues and joiners per domain, recorded router admissions, domains being unregistered, pending calls per id | register and unregister domain and extension, dispose | operations are serialised per id only; a domain's unregistration drains extensions through *their* serializer while others register, fail or dispose | a domain being drained takes no new member, reopens only after the last of its unregistrations, and every call returns |
| Extension manager: `DefaultExtensionManager` | extension and domain states, mount sets | admit, remove (unmounting first) | a removal awaits an unmount | no extension outlives its domain; the router knows exactly what is registered |
| Nesting: `inbound-bridge-link`, `CrossHopRoute`, the two bridge implementations | per registry its inbound link, what it advertised, its forwarding entries, what it propagated | advertise, retract, deactivate, release, relink, dispose | a bridge is replaced while the registries below advertise over the old one | an entry leads to its target; a retracted target is gone everywhere above |
| Mediator: `DefaultActionsChainsMediator` | handlers per target, per chain the action under way and its timer | execute a chain: action, then next or fallback, within a timeout; hand it down an entry or up the link | a handler goes on after its timer; an entry vanishes under a chain that travels it; disposal | each action continues with one branch; a chain visits a registry once; every chain ends |
| Lifecycle stages, occupant value rendezvous, lazy loader, validation, type substrate | small holders | - | little concurrency of their own | not modelled |

### Loading code (`mfes/src/handler/mfe-handler-mf`)

| component | state | operations | what is hard | correct means |
|---|---|---|---|---|
| Chunk chains: `MfeHandlerMF`, `FetchBudget` | constructions in flight with their lineages, minted chunks, fetch slots and their line | request a chunk, join, fetch, fan out, mint, fail, drop | branches of one load join each other; a slot must not be held while waiting; a build fails under its joiners | nobody waits in a circle; nobody fails for another's reason |
| Loads: attempts, `AttemptSourceTextLedger`, the two text caches, `RetryHandler` | attempts, timers, texts shared in a handler and in the realm, who used which | load, time out, retry, release, ask for a lazy chunk | an abandoned attempt's fetches are shared with loads that go on | a retry does not wait for what hung; a text that is needed stays |

### Navigation (`routing`, `routing-tanstack`)

| component | state | operations | what is hard | correct means |
|---|---|---|---|---|
| History: `navigation-history`, `fanout-dispatch` | position, subscribers, the round in progress, rounds pending | push, replace, go, subscribe, notify | subscribers that navigate and unsubscribe inside a notification | all of them see the last position; rounds end |
| Realm and router: `realm-state`, `router` | domains admitted by every copy of the package, their observers and deferred writes, the page load | admit, start, reflect, release, restore, load, write | writes deferred to a microtask, deep links that mount level by level, nested domains that leave with their host | the URL and the domains agree; the user's history is not cut off |
| Signals: `url-back-projection`, `observe-change`, `entry-resolution` | - | project a target to the URL, compare two readings | order and duplicates of entries | modelled as operators (`UrlEntries`) |
| Engine provider: `history-adaptation` | location, index, subscription | attach, detach, write, be notified | attaching to a history that moved; its own writes come back | the engine stands where the URL says |
| Grammar | - | parse, serialize | strings | out of reach |

### Shared requests (`api`)

| component | state | operations | what is hard | correct means |
|---|---|---|---|---|
| Shared fetch cache | entries per key, versions, aliases, consumers per fetch | getOrFetch, invalidate, clear, consumer abort | late answers after invalidation, aborts of shared work, joins of what is being aborted | a fetch in flight is shared, invalidated by every alias, cancelled with its last consumer |
| REST protocol | plugins of the instance and of all instances, the client, the attempts of a request | request, cached GET, hooks, retry, add and remove plugins, cleanup | retries within an error hook's await, plugins removed under way, aborts at any depth, hooks outside the error chain | data is processed on every path; a cancellation is nobody's to recover unless it is caught on purpose; a request settles |
| Event streams, services, descriptors | plugins, connections | connect, disconnect, cleanup | a cleanup while a connection is being made | not modelled |

### Projects on disk (`cli`)

| component | state | operations | what is hard | correct means |
|---|---|---|---|---|
| Upgrade | the project's files and records, the change set, the snapshot | compute, review, apply, restore, roll back | a write fails or is torn, the process dies, the developer edits in between, restoring fails too | the record says what is there; a failed upgrade is undone; nobody else's text is lost |
| Adding a template | the claims of the recorded templates, the blocks in shared files | check ground and claims, compose, write, record | the same, in files other templates own parts of | the same, for every record |
| Seeding, inventory, presets, the other commands | files | sequential | - | not modelled (seeding gives the initial state) |

### The data grid (`ui-kit/src/components/data-grid`)

| component | state | operations | what is hard | correct means |
|---|---|---|---|---|
| Load service: `load-service`, `load-instance`, `load-state`, `create-data-grid` | loads in flight, the latest refresh, the load state of the core and who owns it | first load, refresh, load, abort, mount, unmount | a refresh aborts the first load and is aborted itself; React unmounts and mounts again at any time; an abort may be ignored | the grid ends up with rows or an error, and an abort is neither |
| Pager, search box | page, size, query, debounce | page, size, type, search | each starts loads or refreshes beside the others, the unmount flushes the debounce | as above |
| Tree, export, selection, filters, order, columns | view state; the tree and the export load | - | loads of rows beneath a row | not modelled |

### The rest

`telemetry`, `gts-plugin`, `cyber-pilot-kit-frontx`, the other components of
`ui-kit`, scripts and lint configuration: see [not modelled](#what-is-not-modelled). `PROJECT.json` lists
each component with its files and status, and every hazard with the line where
it bites and the properties aimed at it.

## The modules

| module | models | uses |
|---|---|---|
| `OccupancyRequests` | what the queue promises a caller: abstract, no slots or timers | |
| `OccupancyQueue` | the queue itself | `OccupancyRequests` (refinement) |
| `OccupancyQueueProofs` | theorems about `OccupancyQueue` | |
| `ExtensionMounter` | mount, release, attach, detach, unregister and register of a domain's extensions, whoever asks | |
| `ExtensionMounterProofs` | theorems about `ExtensionMounter` | extends `OrderedSets` |
| `DomainOccupancy` | an Optional or Exclusive domain: handlers, strategies, URL commands | `OccupancyQueue`, `ExtensionMounter` |
| `DomainOccupancyProofs` | theorems about `DomainOccupancy` | instances of `OccupancyQueueProofs`, `ExtensionMounterProofs` |
| `ConcurrentDomain` | a Concurrent domain: joiner, record, handlers, URL commands | `ExtensionMounter` |
| `ConcurrentDomainProofs` | theorems about `ConcurrentDomain` | instance of `ExtensionMounterProofs` |
| `RegistryLifecycle` | registration, unregistration, disposal, the serializer | |
| `NestedRoutes` | nested registries, their bridges, links and forwarding entries | |
| `ActionChains` | chains travelling over nested registries | extends `NestedRoutes` |
| `UrlEntries` | the entries of a URL, and what is computed from them (operators) | |
| `NavigationHistory` | the history and its notification rounds (operators on a record) | |
| `RealmRouting` | the routers of a realm over that history, an engine beside them | extends `UrlEntries`, `NavigationHistory` |
| `RuntimeProofs` | theorems about routing, chains, routes and `RegistryLifecycle` | extends `RealmRouting`, `ActionChains`, `RegistryLifecycle`, `OrderedSets` |
| `ChunkGraph` | the construction of one load's chunks (operators on a graph) | |
| `ModuleLoads` | loads, attempts, fetches and shared texts | extends `ChunkGraph` |
| `SharedFetchCache` | the realm-wide cache of shared requests | |
| `RestRequests` | a request of the REST protocol and its plugins | |
| `TemplateUpgrade` | upgrades and rollbacks of a project's template | |
| `TemplateAddition` | additions of templates, between upgrades | extends `TemplateUpgrade` |
| `TemplateProofs` | theorems about both | extends `TemplateAddition` |
| `GridLoads` | the loads of a data grid and what starts and aborts them | |
| `RequestProofs` | theorems about the loads of extensions, the cache, a request and the loads of a grid | extends `ModuleLoads`, `SharedFetchCache`, `RestRequests`, `GridLoads`, `OrderedSets` |
| `OrderedSets` | lemmas about sequences without repetition, and about least numbers | |
| `MC...` | constants and symmetry for TLC | one of the above; `MCLoadLimits` has the two pages of `ModuleLoads` that are divergences |

`OccupancyRequests` has callers that are idle, queued, active or settled, and
nothing else. `OccupancyQueue` implements it under the mapping
`phase <- Phase` (a caller of a started entry is active, of another one queued)
and `asked <- request`.

`ExtensionMounter` is used in two ways. On its own it is checked with every
request its guard allows (`AsksToMount`, `AsksToRelease`): never mount what is
mounted or on its way out, never release what is on its way in. The two domain
modules take its steps without that guard and use the guards of the real
handlers instead; `UsesTheMounterWell` states that these imply it, in a domain
with one place until a release crosses a mount (see `crossed` below). So the
mounter's invariants carry over to both kinds of domain and are checked only
once.

### State and code

*OccupancyQueue.* A caller is one call of `submit`, an entry is numbered by the
caller that created it. `running`, `pending` are the two fields of the
coordinator, `members` an entry's callers array, `started` its flag, `timer`
the armed `setTimeout`s, `task` what is actually executing - kept apart from
`running`, so that "one task at a time" is something that could fail. `Submit`
has one disjunct per return of `submit`, in its order.

*ExtensionMounter.* `attempt[x]` and `releases[x]` are program counters of the
mount and of the release in flight; `alive` is what lifecycles really are, and
`mountState`, `mountSet` what the extension manager records, so that the two
can disagree. `detaching` is the list the detach loop read at its start.
`leaving` is an unregistration waiting for its unmount; `stale` marks a mount
that outlived the registration it was started for and therefore writes into a
dropped state object. `crossed` observes: those a release of which began while
a mount of theirs was still to be placed. An unregistration, or a detach over an
older list, can do that in the microtasks between `mountState = 'mounted'`
(`DefaultMountManager.ts:406`) and the placement
(`DefaultExtensionMounter.ts:248`); such a release may unmount the lifecycle
before the container is placed, or find the container or not (`MissesDestroy`),
and then a record of somebody unmounted may stay in the mount set
(`Overtaken`). What is said of occupants excepts these, and nothing else does.

*DomainOccupancy.* `turn` and `evicting` are the position of the running
entry's task between two awaits. `shown` is the occupancy last commanded to
the router, `uncommanded` the requests whose settle command is due. `silent`
is an auxiliary variable: an occupant left without an action (slot detach,
unregistration), which the code does not report to the URL.

*ConcurrentDomain.* `runs[x]` is the joiner's run for x, `where[c]` what caller
c waits for, `record` the `ConcurrentOccupancyRecord`.

*RegistryLifecycle.* Each asynchronous call has a position `pc[c]`;
`queue[id]` is the chain of the serializer, the drain of a domain queueing
under the ids of its extensions. `domains` (the manager) and `served`
(handlers, queue, joiner and router admission of the domain) are separate
because the code changes them on two sides of an await; so are `inRouter` and
`tracked`.

*SharedFetchCache.* `entries`, `versions` and `aliases` are the maps of
`SharedFetchCacheImpl`; `version`, `pending`, `kept`, `aborted`, `attached`
the fields of an entry, which outlive its place in the map. `kept` is what
remains of `maxStaleTime`: whether it is positive. A call whose signal is
aborted already is rejected without a trace and left out.

*RestRequests.* `attempts` is the stack of calls of `requestInternal`, a retry
on top of the hook that awaits it; an attempt is at a hook of its `chain`, the
copy of `getPluginsInOrder` made when the chain began. With `viaCache` the
bottom attempt is `getWithSharedCache`, whose preparation and response hooks
stand outside the error chain. Of the cache there is only what its one
consumer sees: it is rejected at once when it aborts, and what was begun ends
inside. A hook retries at most once; a plugin leaves the request's signal be.

*NestedRoutes.* `forwarding[a][t]` is the registry's map of forwarded targets,
`advertisable` and `propagated` its two sets of targets, `link[r]` the inbound
link as the generation of the bridge it was minted for; a link is live as long
as its bridge is kept. A call through a link runs up all ancestors before it
returns and is one step; the operators `Recording` and `Dropping` say how far
up it gets. A nested registry is built once, in its host's first mount window.

*ActionChains.* `exec[k]` is the position of one `executeActionsChain` with
the node it is at; a failure known at once runs the fallback in the same
synchronous step, which `due` stands for. `tag[n]` is the WeakMap from actions
to the edge they arrived by. `invocations`, `begun`, `inTime` and `trail` observe.

*RealmRouting.* `nav` is the history, `router[d]` what the router knows of a
routed domain: whether it is admitted, its observer with the reading it
compares against, its pending and deferred writes. A call that navigates is
under way until the drain it began is over; until then only the drain takes
steps, one call of a subscriber each. The runtime that registers, starts,
commands and releases domains is the environment. The clearing of the URL that
opens a page has a drain of one round, because nothing here navigates on an empty
URL, so the throw of a start whose drain is given up does not arise.

*ChunkGraph, ModuleLoads.* `works[f]` is a construction in flight, with its
lineage, the lineage its imports were given, and what each import has come to;
`builds[b]` holds a build's budget. `fetches` are numbered, so that a retry's
fetch differs from the one it replaces; `cached` is the contents of the text
caches; `loadOf[x]` is how far the load of an extension is, `attemptsOf[x]` its
attempts with what the ledger recorded.
Continuations run before the next task (`Quiet`).

*TemplateUpgrade, TemplateAddition.* A file is a function from its parts (a
marked region, or all of an exclusive file) to their texts, `Gone` where it has
none, or is `Gone` itself. `disk` holds the
files and the records, `up` what the upgrade holds in memory (`seen`: the
project as it was when the change set was computed), `adding` the same for an
addition. A write may fail, and may leave the file torn. `excused` observes:
parts that do not agree with the record for a reason somebody was told, or
that the developer changed.

*GridLoads.* A load is numbered when `triggerLoad` begins it and has a position
between its awaits; `aborted` is its signal. `refreshes` are the promises that
`latestRefresh` held one after another, `runs` the promises of `load.init()`
with the owner `loadPromise` gave each, `core` and `owner` the load state of
the core. Of the rows in the storage `shown` keeps which page they are.

Variables that no code variable corresponds to (`silent`, `task`, `submitted`,
`registrations`, `called`, the numbering of
callers, `invocations`, `trail`, `excused`, `byHand`) only observe.

## How code becomes actions

An action is what runs between two awaits, everything it calls included.
Where the number of microtasks between two steps decides an outcome, the
module says so at the action (`ExtensionMounter`: placing a container and
registering its destroy callback are one action, `MissesDestroy` being what can
come between the two; a release begun during the mount itself has nothing to
unmount and is over before the placement, one begun after may stand anywhere.
`NestedRoutes`: no
host is registered while a hand-over is one microtask away. `ModuleLoads`:
continuations run before the next task). `RegistryLifecycle` makes no such
assumption: every await is a gap into which anything fits, the two
one-microtask ones (domain deleted in the manager, not yet in the registry;
extension admitted, not yet recorded) included.

Every choice the environment has is nondeterministic: lifecycles succeed or
fail, fetches too or stay unanswered, validation admits or rejects, timers
fire at any time after being armed, slots attach and detach, extensions are
unregistered and registered again, users navigate, writes to disk fail, the
process dies. Operators marked `Fault:` are plausible mistakes in the
definition that follows them; nothing uses them, and they serve to check that
each property can fail: `PROJECT.json` pairs each property with one.

## The runs

Bounds are constants (`MaxCallers`, `MaxCalls`, `MaxRegistrations`, `MaxAge`,
`MaxBridges`, `MaxEntries`, `MaxTasks`, `MaxBuilds`, `MaxOperations`,
`MaxEdits`, `MaxFaults`, `MaxMounts`, `MaxLoads`; `RoundLimit` and `Width` are constants of the code,
made small).

| run | instance | distinct states |
|---|---|---|
| `OccupancyQueue` | 2 extensions, 4 callers | 358 050 |
| `ExtensionMounter` | 2 extensions, 1 removable | 74 020 |
| `DomainOccupancy` | Optional and Exclusive, 2 extensions, 3 callers, symmetric | 1 387 570 |
| `DomainRemovals` | the same with 1 removable, 2 callers | 572 471 |
| `ConcurrentDomain` | 2 extensions, 1 removable, 2 callers | 362 996 |
| `RegistryLifecycle` | 1 domain, 2 extensions, 4 calls, 2 registrations | 433 004 |
| `SharedFetchCache` | 2 keys, 1 alias, 3 calls, 2 stale times, age up to 1; a request with 2 plugins, 3 attempts deep, 2 changes of plugins | 1 059 908 |
| `ActionChains` | 3 registries in a row, 2 targets, a chain of 3 nodes, 2 bridges each | 224 422 |
| `RealmRouting` | 3 domains in a row, 4 extensions, 1 engine, 3 tasks, 3 history entries, 2 rounds | 1 491 709 |
| `ModuleLoads` | 4 pages of 1 or 2 loads, 4 builds, fetch width 1 | 266 274 |
| `TemplateUpgrade` | 4 versions, 2 other templates, 4 files, 2 operations, 1 edit, 2 faults | 927 552 |
| `GridLoads` | 2 pages, 2 mounts, 3 loads | 739 856 |

Symmetry (interchangeable extensions) is used only in `DomainOccupancy`, which
has neither liveness nor a removable extension.

**OccupancyQueue.** Four callers are the first number at which everything
meets: one runs, one waits, one joins either, one replaces. Two subjects and
two operations give four different requests. `PendingHasLiveCallers`: the
unchecked `firstLiveCaller()` of a task finds someone. `PlacementPredicted`:
`readEntriesAfterPlacing`, from which the accept command is computed before
the request is placed, is what `submit` then leaves in the slots.
`SettledByOwnTask`: a caller of a started entry settles with that entry's task
and with everyone in it, a queued one only by failing. `ImplementsPromise` is
the refinement. `EveryCallerSettles`: if tasks do not hang every caller
settles, on every path out of the queue.

**ExtensionMounter.** Two extensions: a detach walks over a list of both while
either is released, mounted again or unregistered under it; the theorems are for
any number. `ContainersAccountedFor`:
created and destroyed once each. `NothingLeftMounted`: no path forgets a
mounted lifecycle of an extension that is never unregistered (for those that
are, see the divergences). `DetachEmptiesTheSlot` is liveness: it does, but for
a record that a crossed release left over.

**DomainOccupancy, DomainRemovals.** Both strategies are initial states of one
run. Three requests on two extensions: one at its turn, one waiting, one
arriving. `AtMostOneOccupant` even while one replaces the other.
`SuccessMeansDone`: what is reported as done is, at that moment, and is not
about to be undone by a release in flight. `UrlShowsTheOccupant`: with all
settle commands issued the router was last told what is mounted. Removals
multiply the states; two requests are enough for them, since a removal takes
the place of the third: it releases what a turn waits for. All but the URL and
the liveness is said until a release crosses a mount (`NoneCrossed`). After that
a record of somebody unmounted may stay, which the strategies take for an
occupant, and the next mount stands beside it: an eviction that joins the
release already past the mount set removes nothing, and an Optional domain
with two records evicts nobody. The states after a crossing are explored all
the same: `EveryRequestSettles` holds in them.
`UsesTheMounterWell`: the handlers keep to the mounter's terms.
`EveryRequestSettles`: turns wait for releases, releases for lifecycles, and
nothing waits in a circle.

**ConcurrentDomain.** Two requests and a removal, the actors of an unmount
that waits for a run which a mount joins. `UrlShowsTheOccupants` also holds with
three requests and no removals (1 619 084 states).

**RegistryLifecycle.** Four calls: two overlapping unregistrations of a domain
beside a registration and an unregistration of its members. Two registrations:
a domain and its successor. `HandlersStayWithTheDomain`: a failed
unregistration leaves a usable domain. `RouterAgrees`: no failure leaks an
admission. `EveryCallReturns`: waiting across serialised ids never becomes
circular. On two domains with one extension the safety properties hold too
(2 705 643 states). The system may stop when its calls are used up, so deadlock is not
reported here, nor in the runs below; liveness takes its place.

**SharedFetchCache.** Three calls: a fetch, its successor after an
invalidation, and a joiner of either. `FetchInFlightIsShared`: the version
bookkeeping never hides, evicts or duplicates a fetch in flight however late
its predecessors settle. `AliasesReachTheirEntry`: whatever the cache offers
can be invalidated through every alias of everyone it was given to. In the
same run, sharing no state, a request of the protocol: two plugins, so that
order and the removal of one of them show; three attempts, so that one has
both a retry above and a hook that waits below. `DataIsProcessed`: whether the
transport, a plugin or a retry answered, data has gone through the response
hooks of every plugin that stayed. `CancellationPasses`: from any depth, past
all error hooks. With `SPECIFICATION RestOnly` in its place the same configuration
checks the request alone, and then its liveness, `RequestSettles`.

**ActionChains.** A shell, a registry in it and one in that: the middle one
both forwards and is forwarded to. Two bridges per host: one and its
replacement. The root action is for a domain of the leaf and may be dispatched
there or in the shell; next and fallback are for one of the shell, so a chain
goes down and comes up; the fallback is inadmissible, the failure that is
known at once. `EachActionOnce`: of next and fallback one, and the right one,
whichever order timer, late answer and disposal take. `RoutesLeadToTheTarget`:
an entry never outlives what it leads to. `EveryChainEnds`: no chain is lost
or sent round in a circle, whatever bridges are exchanged under way.

**RealmRouting.** A domain in an extension of a domain in an extension of a
domain: entries nested beneath nested ones, and a host that is adopted inside
its mount window. The page is loaded at a deep link, with an entry behind it
to step back to. `ObserversKeepUp`: after the last round everyone has seen the
last position. `NoWriteLeftWaiting`: a write deferred for the absence of its
host's entry is made when that returns. `LeavingTakesTheNested`: and only by
the nesting of the page, computed independently of the record the code keeps.
`StepsKeepTheWayForward`: what a back step sets off never pushes.
`EngineInStep`.

**ModuleLoads.** The pages are the situations that differ: lazy chunks sharing
imports with each other and with the entry; chunks that import each other; two
extensions served by one handler; two handlers with one shared dependency. The
pool that asks for shared dependencies has `Width` workers too.
Width 1 makes every fetch wait for every other; a slot held across the
recursion would show at once. `NobodyWaitsForever`: among constructions no
circle of waits and no wait for what is not there; it is to be read of imports
with circles of two at most, as those of the pages are. `FailsForItsOwnReason`:
against the graph of imports, computed independently.
`ReleasedWithItsAttempt` has the two sides of releasing an attempt's texts:
its retry fetches afresh, and nobody loses what it still waits for.

**TemplateUpgrade.** Two operations are an upgrade and what undoes it, an
upgrade after an addition, or two upgrades. The instance has a file that
changes, one that goes, one that comes, one that is shared and then exclusive,
one whose marker names change, and a version that is another template's.
`RecordsAreTrue`: at rest every recorded template's text is on disk as its
version has it, apart from what somebody was told. `BackAsItWas`: what is
reported restored or rolled back is. `ForeignTextSurvives`: of an upgrade and
of an addition, judged by what was there when it began. `RegionsSurvive`: of
records from before manifests declared identities.

**GridLoads.** Three loads: a first load, the refresh that aborts it and one
that aborts that, or the first loads of two mounts and a refresh between them.
`CoreSaysWhatIsSo` has two parts. `LoadedHasRows`: the first load is done only
when rows have come, through however many refreshes and unmounts.
`AbortsAreSilent`: the error view is reached only by a load that failed of
itself and that the present first load waits for. `GridComesUp` is liveness: no
overlap leaves a grid on screen idle or loading for good. The first except a
consumer's `abort()`, which the documentation owns up to, or allow for it.

The modules define more properties than the runs list: `TypeOK` of each and
`RestTypeOK`, the invariants `IInv`, `RestIInv`, `ChainsInv`, `RoutesInv`,
`RoutingInv`, `LoadsInv`, `TextsInv`, `AddIInv` and their parts,
`OccupantsAreReal`, `NoOrphanAfterDetach`, `SuccessMeansMounted`,
`CancelledWithTheLastConsumer` (these are proved),
`ClosedExactlyWhilePending`, `DrainingOnlyShrinks`, `TakesNoLaterDomain`,
`QueuedCallerMovesOn`, `VisitsARegistryOnce`, `EveryDrainEnds` and
`BudgetIsKept`. They hold in these instances when added to the configuration of
the run (`EveryDrainEnds` with `MaxTasks = 2`, as its liveness takes long), and
are stepping stones: for proofs, or for the reader. `RecordInv` and `RecordIsTrue` of `TemplateUpgrade`, proved too, are about upgrades and
rollbacks: they are to be checked under its `SPECIFICATION Spec`, which has no
additions.

## Fairness

- *Timers* (`TimerSpec`): an armed `setTimeout` fires. Nothing else is
  promised in `TimerSpec`: a task may hang. `EveryCallerSettles` is therefore
  the implication `TasksSettle => ...`.
- *Continuations* (`FairSpec`, `RegistryFairSpec`): a resolved promise's continuation runs; these
  are the `WF` on the steps named `...Proceeds`, `...Ends`, `...GoesOn`,
  `SettleCommand` and on the steps of a registry call.
- *Lifecycles settle* (`FairSpec`): mount and unmount of an MFE resolve or
  reject. The code does not enforce it (the mediator bounds the *action*, not
  the handler), so liveness of domains is relative to well-behaved MFEs.
- *Chains* (`ActionChains!Spec`): synchronous code and continuations run, and
  a timer fires. Handlers are not fair: they may never answer.
- *Drains* (`RealmRouting!RoutingSpec`): a synchronous loop goes on (this is for
  `EveryDrainEnds`).
- *Loads of a grid* (`GridLoads!GridFairSpec`): hooks and the consumer's `load`
  settle, one way or the other, as the promise they return is awaited without
  a timeout; continuations run.
- *Requests of the protocol* (`RestRequests!RestSpec`): hooks and the transport
  settle. The code enforces neither (a timeout is an option of the service),
  so this is relative to plugins and servers that answer.
- Requests, attaches, detaches, removals, registrations, disposals,
  navigations, fetches and operations on disk are never fair: nobody has to
  make them. Weak fairness suffices throughout, because no step that is waited
  for is disabled again by a competitor.

`ModuleLoads` states no fairness: a fetch may hang for ever, and what could be
said about loads that end is said by `NobodyWaitsForever`, in each state.

## The proofs

TLC checks the instances above; the theorems hold for every value of the
constants. `tlapm <module>.tla` checks them.

| module | theorem | states |
|---|---|---|
| `OccupancyQueueProofs` | `Invariance`, `TypeCorrect` | `[]IInv`, `[]TypeOK` |
| | `MutualExclusion` | `[]OneTaskAtATime` |
| | `LiveCallerExists` | `[]PendingHasLiveCallers` |
| | `NoCallerLost` | `[]NobodyStranded` |
| | `SharedOnlyWhenSame` | `[]JoinersAskedForTheSame` |
| | `ClosedIsFinal` | `[]ClosedQueueHoldsNoPending` |
| | `NoRepetitionPending` | `[]PendingDiffersFromRunning` |
| | `PlacementAlwaysPredicted` | `PlacementPredicted` |
| | `OutcomeIsTheTasks` | `SettledByOwnTask` |
| | `QueueImplementsPromise` | `ImplementsPromise` |
| `ExtensionMounterProofs` | `Invariance`, `TypeCorrect` | `[]IInv`, `[]TypeOK` |
| | `ContainersDestroyedOnce` | `[]ContainersAccountedFor` |
| | `MountedMeansRecorded` | `[]NothingLeftMounted` |
| | `RecordedMeansMounted` | `[]OccupantsAreReal` |
| | `DetachMissesNobody` | `[]NoOrphanAfterDetach` |
| | `MountedStateIsTrue` | `[]MountedInv` |
| `DomainOccupancyProofs` | `Invariance` | `[]IInv` |
| | `NeverTwoOccupants` | `[]AtMostOneOccupant` |
| | `UrlCatchesUp` | `[]UrlShowsTheOccupant` |
| | `SuccessIsTrue` | `SuccessMeansDone` |
| | `MounterUsedWell` | `UsesTheMounterWell` |
| `ConcurrentDomainProofs` | `Invariance`, `TypeCorrect` | `[]IInv`, `[]TypeOK` |
| | `UrlCatchesUp` | `[]UrlShowsTheOccupants` |
| | `RecordIsTheLatest` | `[]RecordsTheLatest` |
| | `RunsMountWhatTheySay` | `SuccessMeansMounted` |
| | `MounterUsedWell` | `UsesTheMounterWell` |
| `RuntimeProofs` | `RegistryInvariance`, `RegistryTypeCorrect` | `[]RegistryIInv`, `[]RegistryTypeOK` |
| | `RouterHoldsTheRegistered` | `[]RouterAgrees` |
| | `HandlersAreKept` | `HandlersStayWithTheDomain` |
| | `Invariance` | `[]ChainsInv` |
| | `ActionsRunOnce` | `[]EachActionOnce` |
| | `RoutesInvariance` | `[]RoutesInv` |
| | `RoutesReachTheirTarget` | `[]RoutesLeadToTheTarget` |
| | `RoutingInvariance` | `[]RoutingInv` |
| | `ObserversCatchUp` | `[]ObserversKeepUp` |
| | `DeferredWritesGoOut` | `[]NoWriteLeftWaiting` |
| | `EngineStandsWithTheUrl` | `[]EngineInStep` |
| | `WayForwardStays` | `StepsKeepTheWayForward` |
| | `NestedLeaveTogether` | `LeavingTakesTheNested` |
| `RequestProofs` | `Invariance`, `TypeCorrect` | `[]IInv`, `[]TypeOK` of the cache |
| | `FetchesAreShared` | `[]FetchInFlightIsShared` |
| | `AliasesSuffice` | `[]AliasesReachTheirEntry` |
| | `CancelledInTime` | `CancelledWithTheLastConsumer` |
| | `RestInvariance`, `RestTypeCorrect` | `[]RestIInv`, `[]RestTypeOK` of a request |
| | `EveryPluginProcesses` | `[]DataIsProcessed` |
| | `CancellationIsNotOffered` | `[]CancellationPasses` |
| | `GridInvariance` | `[]GridIInv` of the loads of a grid |
| | `CoreIsRight` | `CoreSaysWhatIsSo` |
| | `LoadsInvariance` | `[]LoadsInv` of the loads of extensions |
| | `LoadsFailForTheirReasons` | `[]FailsForItsOwnReason` |
| | `ChunksNeverDeadlock` | `[]NobodyWaitsForever`, under `OnlyShortCircles` |
| | `TextsInvariance` | `[]TextsInv`, under `OwnBuilds` and `SharedFitThePool` |
| | `GivenUpTextsGo` | `ReleasedWithItsAttempt`, under `OwnBuilds` and `SharedFitThePool` |
| `TemplateProofs` | `TemplatesInvariance`, `TypeCorrect` | `[]AddIInv`, `[]TypeOK` |
| | `ProjectsComeBack` | `[]BackAsItWas` |
| | `ForeignTextIsSafe` | `ForeignTextSurvives` |
| | `RegionsAreKept` | `RegionsSurvive` |
| | `RecordsStayTrue` | `[]RecordIsTrue` of upgrades and rollbacks, under `ClaimsComeWithTexts` and `ScaffoldsDoNotClash` |

Hardly any of these properties is inductive. Each module states an inductive
invariant, in named parts, which TLC has found true in the instance of its run
and which the proof module carries over every action, one lemma per action;
each property follows from it, an action property from the invariant before the
step.

*The queue.* That a pending entry has a live caller survives a timer only
because the entry is dropped with its last caller, which needs that a waiting
caller is a member of the entry its timer closes over, that members belong to
one entry only, and that the pending entry has not started. `IInv` says this in
four parts: `TypeOK`; `SlotsInv`, what the two slots hold; `MembersInv`, that a
member of an entry was placed in it, asked for the same, and waits while the
entry is in a slot; and `WaitingInv`, the converse. The refinement maps every
action to a step of `OccupancyRequests` or to none; where a promotion settles
one set of callers and activates another it needs `IInv`, to know that a caller
is not in both.

*The mounter.* `SlotInv` counts containers by what is to destroy them: the
mount in flight, or the callback that was registered. `OccupantsInv` says how
far a release of an occupant has come, `AttemptsInv` relates mounts in flight to
the states that are recorded; both except those a release has overtaken before
they were placed, and what they say of a mount and a release side by side, they
say of mounts that no release has crossed. `StayingInv` is what the last two become for an
extension that is never unregistered; of the others only `MountedInv` is true, a
second invariant on top of the first. What a mount or a release may do to a
detach under way is `NoOrphanAfterDetach`, inductive as it stands.

*The domains.* The proof of each instantiates the theorems about the parts it
is composed of. It first shows that a step of the domain is a step of the
mounter, or of the queue, or leaves it alone (`UsesTheMounterWell`; the guards
of the handlers are what makes it true), and with that the invariants of the
parts hold. Of a domain with one place the rest of `IInv` says where a turn
stands: that only a turn mounts, and into an empty mount set (`TurnInv`); that
an eviction has one sibling in the domain and the subject of the turn nowhere
in it (`EvictionInv`); that a detach has one occupant to release (`DetachInv`).
All this holds until a release crosses a mount; what is proved of the queue and
of the URL holds after it too.
These are why there are never two occupants. `UrlShowsTheOccupant` is inductive
only beside them, since it is claimed again the moment the last command is
issued. In a Concurrent domain `RunOwnsTheMount` and `RunsAreAwaited` tie runs,
mounts and waiting requests to each other, and `RecordsTheLatest` says that the
record is empty by the last command, so that what is projected then is the mount
set and nothing else.

*The registry.* Places in the queues of the serializer are what matters:
`QueuesInv` says that the registration of an extension is queued once, and is
first when it has been admitted. From that `AdmissionInv` concludes that nobody
else can be changing an extension between its admission in the manager and its
record in the registry, where the router knows it and the registry does not.

*Chains.* `BranchesInv` says of every dispatch that neither branch of the node
it is at has begun, and that every node reached was reached through its parent
and by that one's outcome, which is recorded (`inTime`) in the step that settles
the handler. `InvocationsInv` counts the calls of handlers.

*Routes.* `RoutesLeadToTheTarget` needs two facts in which it is not contained:
a registry has what it advertises until it retracts it (`AdvertisedInv`; a
relinking advertises from that list without looking at the domains), and
remembers whatever its parent forwards to it (`SentInv`; a retraction goes up
only if the target is remembered). The proof is about paths in a forest. A
retraction must reach every registry that has an entry leading down to where it
begins: `DroppedBelow` shows it, from the order of the ancestors of a registry
(`UpOrdered`) and the parts a path consists of (`PathFacts`). `Up` is a
recursive function, so these lemmas start by showing that its equation has a
solution.

*Routing.* Every subscriber of the history (an observer, a deferred write, an
engine) either stands where the URL says or its call is still to come
(`Unheard`): that is `ObserverInv`, `DeferredInv` and `EngineInv`, and `Rounds`
says that between the rounds no call is still to come unless a drain was given
up. A navigation from inside a round changes the URL under everyone, and keeps
the invariant because it queues a notification for all. `StepsKeepTheWayForward`
needs the order of subscriptions besides (`OrderInv`): the copy of the package
that a router belongs to subscribed before the writes it has deferred, and turns
their pushes into replacements when it hears of the step, so in the rounds of a
step a deferred push exists only until that copy has been called. For
`LeavingTakesTheNested` the record of nested domains is shown to be the page's
own nesting (`RecordInv`), and the search for what stands beneath an extension
to find all of it, by the length of the ways down.

*Loads of extensions.* `GraphInv` says of every attempt what a construction, its
imports and its build have come to, and follows the cascade in which a failed
construction fails those that wait for it; `FailsForItsOwnReason` is read off
it, as every failure that is handed up has a chunk beneath it that could not be
fetched, or a circle. `NobodyWaitsForever` follows where no three chunks need one another: in a ring of waiting
constructions the one with the fewest chunks beneath it would wait for one with
fewer still, unless the two need each other; and of two that do, each has the
other in its lineage or is asked for again by it, so that the second to ask
sees the circle (`WaitsAreSeen`). For what retries
leave behind, `AskedInv` says that only the last attempt of a load, not given up
on, still asks for texts; `OfferInv`, that a text under way is on offer only
while an attempt waits for it and has recorded it; and `LeftInv`, that none of
what a given-up attempt waited for is offered to its successors.

*Shared requests.* `NumberingInv` says that late settlements belong to entries
of the same key and no others, `InFlightInv` that a fetch nobody cancelled is
the one on offer and has a consumer, `AliasInv` that a stored entry has the
aliases of everyone who was given it. `RestIInv` follows a request down its
stack of retries: all attempts but the last wait (`Stacked`), and in the last
one what has processed the data and what is still to come make up all plugins
that stayed (`YetToProcess`).

*Loads of a grid.* What must not happen is that the first load is done because
the last load it waited for had been aborted. `CutOffInv` says who aborts that
one: a newer refresh, which the first load is to follow next, or the consumer.
An unmount aborts it too, and leaves no first load present; that rests on
`OwnerInv`, by which only the run that owns the core is under way while the core
is loading, so that the reset of an unmount takes the core from it.
`RowsInv` is the rest: a load that has stored has stored a page.
`AbortsAreSilent` is read off the one action that ends a run with an error.

*Templates.* `SnapshotInv` says that the snapshot holds everything an apply may
write, as it was, and that nothing else has changed but by those told apart in
`since`; whatever is put back, written or torn afterwards, `BackAsItWas` follows
at either end. `ReviewInv` ties an entry to what it was computed from: the
record is still that of the review, and what the file held then was no change of
the developer's. So an entry that replaces a file replaces what the template
had, and one that replaces a region is under the template's own identity.
`AddingInv` does the same for an addition: all contents are computed before the
first is written, and keep every marked block that is there, because the ground
of a file that is claimed whole was found empty.

`RecordsStayTrue` follows what a part of a file holds through an upgrade.
`BeforeInv` says that the project agreed with its record when the review began;
`ChangesCover`, that the change set has an entry for every part in which the two
versions differ. From that, `ApplyInv` says what each file holds while it is
applied: the new text if its entry has been written, the old one if not, and
`TornInv` which file a write may have torn. So an apply that ends leaves what
the new record says, and one that is put back what the old one says
(`PutBackInv`, `Settled`), apart from what somebody was told.

`OrderedSets` has lemmas about sequences without repetition, as the mount set and
the lists of plugins are, which the community modules define and say nothing of.

### Assumptions

Every assumption on constants is a named `ASSUME` of the module that declares
them, and TLC evaluates it in the runs. Most are types of bounds. The others:

- `IdsAssumption` (`RegistryLifecycle`): domains and extensions have different
  ids. They are instances of different GTS types, and the type is part of the
  id (`mfes/src/types/index.ts:95`, `:146`). The serializer has one map for
  both, so the theorems depend on it.
- `TreeAssumption` (`NestedRoutes`): the way up from every registry ends at the
  shell; a nested registry is built in a mount window of its parent's
  extension, so after its parent.
- `RemovableAssumption`, `DomainAssumption`: what is unregistered is an
  extension of the domain.
- `GridAssumption`: there is at least one page, as the pager starts on page 1.
- `NestingAssumption`, `SessionsAssumption` (`RealmRouting`): there are finitely
  many routed domains, each in the top runtime or in an extension of another
  one, and none inside itself; every browser session has at least one entry.
- `LoadsAssumption`, `CachesAssumption`, `FilesAreFinite` (`ModuleLoads`,
  `ChunkGraph`): the entries and lazy chunks of extensions are files, of which
  there are finitely many, and no handler's cache is the realm's.
- `TemplateAssumption` (`TemplateUpgrade`): templates bring no part under the
  identity of another template (identities are what markers are told apart by),
  and no text of theirs reads like the developer's; the path of the records is
  not among the files of a template. A record that scaffolding has left names
  the identity its version declares, or the repository.
- `RestAssumption`, `ChainAssumption`: there are finitely many plugins, and the
  branches of a node are nodes.

Where a theorem holds only of some constants, what it needs is a hypothesis of
that theorem and not an assumption of the module:

- `ChainsAreTrees` (the theorems about chains): no action is a branch of two
  others, and none that is a branch is dispatched itself. A chain that is read
  from a declared instance is such a tree; a program that builds chains from
  shared objects can break it, and then an action is executed as often as it is
  reached.
- `OwnBuilds` (the texts of attempts): loads by one handler ask for no common
  text. The module names what happens otherwise among the windows below.
- `OnlyShortCircles` (no deadlock of chunks): no three chunks need one another.
  Chunks that import each other are covered, which are what the lineages save;
  with circles of three the statement is false of the code (see the divergences).
- `SharedFitThePool` (the texts of attempts): no extension declares more shared
  dependencies than the pool asks for at once, which is 6 (`MfeHandlerMF.ts:68`).
  With more, an attempt that was given up on asks for the rest as workers come
  free, and leaves those texts behind (`WideSharing.cfg`).
- `ClaimsComeWithTexts` (the record): what a version newly claims, a file as a
  whole or a region of a shared one, comes with a text other than that of the
  version it is upgraded from. The change set compares texts only, so a region
  that no version claimed, and that one claims with the text it had, gets no
  entry: what the developer has made of it stays, and the record names it.
- `ScaffoldsDoNotClash` (the record): where scaffolding puts several templates
  together, the parts of the others are under their own identities, in files the
  template shares or does not have.

TLC evaluates all of these for the instances of the runs. Nothing else
is assumed: in particular nothing
about how many extensions, callers, calls, registries, bridges, domains,
sessions, loads, retries, chunks, plugins, mounts, templates or edits there are,
and nothing about fairness.

### Model-checked and not proved

- Liveness, all of it: `EveryCallerSettles`, `DetachEmptiesTheSlot`,
  `EveryRequestSettles`, `EveryCallReturns`, `EveryChainEnds`, `EveryDrainEnds`,
  `GridComesUp` and `RequestSettles` are out of the prover's reach.
- `RecordsAreTrue`, beyond `RecordsStayTrue`. With additions it depends on more
  than the templates: an addition composes against the version that is
  installed and drops what stands outside the markers, an upgrade takes over
  whole a file in which another template has an empty block, and a rollback
  takes back what an addition composed since. None of these occurs in the
  instance, where it is checked over all interleavings.
- In the modules with proofs, properties no run checks:
  `ClosedExactlyWhilePending`, `DrainingOnlyShrinks`, `TakesNoLaterDomain`,
  `VisitsARegistryOnce` and `BudgetIsKept`.

## Where code and documentation disagree

Each of the following ends in a counterexample. They are demonstrations beside
the runs: either a configuration of its own (`tlc -config <name>.cfg <module>`),
or that of a run with the property named here in place of its own properties.

`LongCycle.cfg` with `MCLoadLimits`: a construction hands its lineage to its
imports when it fans out; what a later join adds to the lineage does not reach
imports already requested. In a circle of three chunks, each begun by a branch
of its own, every branch joins the next and none sees a lineage that names it:
the load hangs until its timeout. FEATURE.md of `mfe-isolation` (line 152)
says that such a circle is diagnosed without waiting. Circles of two are,
which the run `ModuleLoads` has and `ChunksNeverDeadlock` proves.

`WideSharing.cfg` with `MCLoadLimits`: the shared dependencies of a load are asked
for by a pool of workers that nothing stops when the attempt times out
(`MfeHandlerMF.ts:90`, `:1396`). With more of them than workers, the expired
attempt asks for the next one after its ledger has been closed, so that nobody
takes the text out of the handler's cache again; published to the realm, it is
what the retry of another extension then waits for.

The others:

| run or configuration | what happens |
|---|---|
| `ExtensionMounter` with `PROPERTY FailedMountIsUndone` | a mount that finds its root detached undoes the lifecycle mount through the extension manager; if the extension was unregistered meanwhile the manager knows nothing to unmount, and the lifecycle stays mounted |
| `ConcurrentProjection.cfg`, `MCConcurrentDomain` | an unmount waits for a running mount; a later mount joins that same run, is recorded last and projected, and the domain ends without it |
| `RegistryLifecycle` with `PROPERTY TakesWhatItNamed` | an unregistration called while no domain was registered removes one registered later; the guard that should prevent it is skipped when nothing was named |
| `RegistryStrayDrain.cfg`, `MCRegistryLifecycle` | a drain works through ids read before its awaits (`DefaultMfeRegistry.ts:1519`): an extension that was unregistered and registered in another domain meanwhile, by calls queued ahead of the drain, is unregistered from that one |
| `SharedFetchCache` with `INVARIANT WantedIsNotAborted` | a consumer that arrives after the last one left, and before the aborted fetch settles, joins the aborted fetch and receives another's cancellation |
| `SharedFetchCache` with `SPECIFICATION RestOnly` and `PROPERTY PluginErrorsAreOffered` | in a GET through the cache the request hooks and the response hooks stand outside the error chain (`RestProtocol.ts:276`, `:309`): what they throw goes to the consumer without being offered to any error hook, against `api-protocol-surface/FEATURE.md:122` |
| `NestedReadmission.cfg`, `MCNestedRoutes` | a target stays marked as propagated after its retraction through a parent's link (`DefaultMfeRegistry.ts:664`); admitted again, it is not advertised again, against `mfe-host-communication/FEATURE.md:185` |
| `ActionChains` with `Dispatch = {1, 2}` and `INVARIANT VisitsARegistryOnce` | the edge an action arrived by is kept per action object (`inbound-bridge-link.ts:325`); one chain object dispatched in two runtimes at once comes back to a registry it has left, against the same document (lines 194, 195) |
| `GridLoads` with `INVARIANT FirstLoadOnce` | a load of a refresh is in flight before the first load has begun its own; an unmount then takes the first load for started and puts the core back to idle, and the next mount begins a second first load beside it, which the comment at `create-data-grid.ts:77` rules out |
| `GridLoads` with `INVARIANT RowsOfThePage` | the answer of an older page replaces the rows of a newer one and stays, as `data-grid.md:1293` says it may |
| `ProvenanceCut.cfg`, `MCTemplateUpgrade` | the set of records is rewritten once per record, each time only up to that record (`provenance/write.ts:49`): an addition interrupted after the first of these writes has lost the records of other templates, against the comment of `materializeAssembly` that they are appended to |

Windows the modules contain and the properties excuse by name, because the code
does behave this way:

- a domain registered in the gap between its predecessor's deletion and the
  continuation loses its handlers (`HandlersStayWithTheDomain` excepts the
  call in that gap); an admission in flight when the registry is disposed
  stays in the router (`RouterAgrees` ends with the disposal);
- a version recorded by an invalidation stays in its map when a successor
  fetch is there as the invalidated one settles and fails later (changes no
  answer);
- `DomainOccupancy` and `ConcurrentDomain` excuse a URL that is out of date
  because an occupant left without an action (`silent`);
- a drain given up at the limit of rounds leaves observers behind until the
  next navigation (`nav.lost`); a back step cancels a deferred write while its
  extension stays mounted; releasing a nested domain leaves its entries in the
  URL; an engine write from inside a notification that changes neither
  location nor position is not notified;
- a second load that joins a shared dependency through a handler's cache
  records only the key of that cache, so that its retry rejoins the hung fetch
  (`ReleasedWithItsAttempt` is checked where the two loads have two handlers);
- an extension unregistered, or released by an older detach, between its
  lifecycle's mount and the placement of its container is recorded although it
  is not mounted, and a domain with one place may then record two
  (`Overtaken`, `NoneCrossed`);
- edits made while a change set is reviewed are overwritten (`flow.ts:95`);
  the rollback reports a removal that failed as done (`rollback.ts:31`); a
  record under the old naming is moved to a version whose shared files were
  left out; composing a shared file drops what no markers enclose; an addition
  killed between its files cannot be repeated before they are deleted.

## What is not modelled

- Data: payloads, results, errors, DOM, shared properties, type validation.
  Each appears as a choice between success and failure where it decides
  control.
- In modelled components: bundle loading inside `DefaultMountManager`; in the
  registry handler resolution and package tracking; history verbs of the
  router commands; in the fetch cache `lookup` and `peek`, which change
  nothing, the count of retainers of the realm's cache, keys that are primary
  for one call and an alias for another; in nesting the properties a bridge
  carries; in routing initial routes read from elsewhere, third parties that
  write to the browser's history, and domains that share a key; in loading
  the capacity of the caches, manifest resolution, public-path checks, source
  rewriting, blob URLs, stylesheets, the evaluation of modules and a second
  `load()` after a failure; in the CLI the resolution of versions, presets of
  several templates and the inventory.
- Lifecycle stages are chains nobody waits for: they add dispatches to
  `ActionChains` and no order. The occupant value rendezvous, the lazy loader,
  the state container, the shadow root and the type substrate read and write
  without an await between.
- `telemetry`: a queue, a session and listeners, sequential; a batch that is
  rejected is lost by design (`managers/events.ts:134`), so there is no promise
  to check. `api`: event streams, whose plugins run around a connection as those
  of requests do, endpoint descriptors, and the maps of services and
  registries. `gts-plugin`: registration and look-up in a library.
- `cyber-pilot-kit-frontx`, the scripts (among them `ui-kit/scripts/contracts`,
  the longest files of the repository), lint configuration: compilers and
  validators of documents, straight through from input to report. They have no
  state between runs and their correctness is in strings.
- `ui-kit`: the components are presentation. Of the data grid the loads of tree
  rows and of the export, and its filters, order, selection, columns and stored
  settings, which change the state of the view without an await.
- Strings (the route grammar, source rewriting) are out of TLC's reach and
  left to tests.

## Plan

What is modelled is what was planned, up to `telemetry` and the pairing of type
stores, left out for the reasons above. Left to model: presets, an addition of
several templates at once; event streams, where a `connect` whose plugins are
still awaited when the protocol is cleaned up opens its source afterwards
(`SseProtocol.ts:209`); and the loads of tree rows in the data grid, where
reading the code found three things to check: rows nested in open rows fetch no
children after a refresh, because the list of rows to reset is cleared when any
load prepares (`table-tree-plugin.tsx:222`), against `data-grid.md:1030`; the
children of a row that answer after a page change clear that page's rows; and
their total replaces the pager's.

Theorems left: `BudgetIsKept`, by counting the slots and the line of
each build; `TakesNoLaterDomain` and `DrainingOnlyShrinks` of
`RegistryLifecycle`; and `RecordsAreTrue` with additions, for templates whose
shared files hold nothing outside their markers.
