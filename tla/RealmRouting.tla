---------------------------- MODULE RealmRouting ----------------------------
(***************************************************************************)
(* The FrontX routers of a page over its one navigation history            *)
(* (packages/routing/src/router, signal), with one engine provider of an   *)
(* extension beside them (packages/routing-tanstack/src).                  *)
(*                                                                         *)
(* Each runtime has a copy of the router; the copies share the history,    *)
(* the nested-domain record and the page load.  The runtime is this        *)
(* module's environment: it registers, starts, commands, stops and         *)
(* releases domains from its own tasks, whatever became of the chains a    *)
(* transition sends it, so the chains themselves are left out.  A call     *)
(* into a router that navigates is under way until the drain it began is   *)
(* over: until then only the drain takes steps.                            *)
(***************************************************************************)
EXTENDS UrlEntries, NavigationHistory, FiniteSets

CONSTANTS
  Routed,           \* the routed domains, each named by its domain key
  Extensions,       \* domain -> the extensions its runtime registers in it
  Host,             \* domain -> the entry address of its runtime, or TopRuntime
  TopRuntime,       \* the runtime that is no extension
  Adopted,          \* the runtimes built inside the mount window of their host
  DeclaresUnmount,  \* the domains that declare unmount_ext
  Engine,           \* the entry address the engine provider is mounted at
  Sessions,         \* the browser's entries a page may be loaded with
  Rendered,         \* the domains whose root is ever attached
  Targets,          \* domain -> the commands its runtime may issue
  MaxEntries,       \* bound on the browser's entries
  MaxTasks          \* bound on commands, steps, writes and departures

VARIABLES
  nav,        \* the navigation history
  router,     \* domain -> the routed domain's state in its router
  supplied,   \* the runtimes whose router has been supplied navigation
  load,       \* the page load
  engine,     \* the engine provider's adapted history
  tasks       \* the commands, steps, writes and departures so far

routingVars == <<nav, router, supplied, load, engine, tasks>>

Counted == tasks < MaxTasks /\ tasks' = tasks + 1

Runtime == {Host[d] : d \in Routed}

OfRuntime(h) == {d \in Routed : Host[d] = h}

\* The subscriptions of the realm: one of each router copy, one of each
\* started observer, one of each deferred write, one of the engine.
RouterToken(h) == <<"router", h>>
ObserverToken(d) == <<"observer", d>>
DeferredToken(d) == <<"deferred", d>>
EngineToken == <<"engine", Engine>>

\* Between the runtime's tasks no round is under way.
NoRound == ~nav.busy

Url == UrlOf(nav)

\* What a URL's entry may be: an extension of a routed domain with one of the
\* engine's parameters, or what the session's URLs already carry.
Given == UNION {UNION {ToSet(urls[i]) : i \in DOMAIN urls} : urls \in Sessions}

Param == {"none", "own"} \cup {entry.par : entry \in Given}

Entries == [key : Routed \cup {entry.key : entry \in Given},
            ext : UNION {Extensions[d] : d \in Routed} \cup {entry.ext : entry \in Given},
            par : Param]

\* A page opens on entries of its session, and a runtime commands a domain with
\* the extensions it registers there.
ASSUME SessionsAssumption ==
  /\ \A urls \in Sessions : urls \in Seq(Seq(Entries)) /\ urls # <<>>
  /\ \A d \in Routed : Targets[d] \subseteq Seq(Extensions[d])

\* A runtime is built inside the extension that hosts it, so no domain stands
\* beneath an extension of its own; the topmost stands beneath none.
ASSUME NestingAssumption ==
  /\ IsFiniteSet(Routed) /\ TopRuntime[1] \notin Routed
  /\ \A d \in Routed : \/ Host[d] = TopRuntime
                       \/ \E k \in Routed : \E ext \in Extensions[k] : Host[d] = <<k, ext>>
  /\ \E depth \in [Routed -> 0..Cardinality(Routed)] :
       \A d, k \in Routed : Host[k][1] = d => depth[d] < depth[k]

NotAdmitted ==
  [admitted |-> FALSE, recorded |-> FALSE, names |-> {}, on |-> FALSE,
   base |-> <<>>, last |-> <<>>, deferred |-> FALSE, target |-> <<>>, verb |-> "none"]

---------------------------------------------------------------------------
(* The realm-shared state. *)

\* The nested-domain record, each key under the occupant value of the runtime
\* that recorded it.
KeysOf(address) == {d \in Routed : router[d].recorded /\ Host[d] = address}

KeysUnder(key) == UNION {KeysOf(<<key, ext>>) : ext \in Extensions[key]}

\* Fault: the walk stops at the first level.
NestedBeneathOnce(key, dropped) == UNION {KeysOf(<<key, ext>>) : ext \in dropped}

\* Every domain key nested beneath the dropped extensions, to any depth: the
\* keys that any set closed under the nesting holds.
NestedBeneath(key, dropped) ==
  LET first     == UNION {KeysOf(<<key, ext>>) : ext \in dropped}
      Closed(S) == first \subseteq S /\ \A k \in S : KeysUnder(k) \subseteq S
  IN {k \in Routed : \A S \in SUBSET Routed : Closed(S) => k \in S}

Fresh == [cleared |-> FALSE, ended |-> FALSE, keeps |-> FALSE, kept |-> <<>>,
          written |-> {}, due |-> {}]

\* The first observer of the page takes the load's one clear and keeps the
\* initial route, unless the load has ended before it.
BeginLoad(l, url) ==
  [l EXCEPT !.cleared = TRUE, !.keeps = ~l.ended,
            !.kept = IF l.ended THEN <<>> ELSE url]

Discard(l) ==
  [l EXCEPT !.keeps = FALSE, !.kept = <<>>, !.ended = @ \/ ~l.cleared]

\* The parameters the initial route still carries for each extension.
InitialParams(l, d) ==
  [ext \in Extensions[d] |->
     IF <<d, ext>> \notin l.written /\ Carries(l.kept, <<d, ext>>)
     THEN ParamsAt(l.kept, <<d, ext>>) ELSE "none"]

\* A write is marked when its history call returns: at once inside a drain,
\* at the drain's end when the call began it, never when the call throws.
MarkWritten(l, within, marks) ==
  IF ~l.keeps THEN l
  ELSE IF within THEN [l EXCEPT !.written = @ \cup marks]
  ELSE [l EXCEPT !.due = marks]

CallReturns(l) == [l EXCEPT !.written = @ \cup l.due, !.due = {}]

CallThrows(l) == [l EXCEPT !.due = {}]

---------------------------------------------------------------------------
(* What one call of a domain's router works on: the history, the domain's  *)
(* state and the page load.  Each operator gives it back changed.          *)

Working(d, n, l) == [nav |-> n, dom |-> router[d], load |-> l]

\* The router copy subscribes before any of its observers.
WithRouter(n, h) ==
  IF RouterToken(h) \in n.live THEN n ELSE Subscribe(n, RouterToken(h))

NamesOf(s, ids) == Those(ids, s.names)

EnclosingAbsent(d, url) == Host[d] \in supplied /\ ~Carries(url, Host[d])

NothingDeferred(s) == [s EXCEPT !.deferred = FALSE, !.target = <<>>, !.verb = "none"]

\* Fault: a cancelled write keeps its record, so the next finds one deferred.
CancelTheSubscription(d, w) ==
  IF w.dom.deferred THEN [w EXCEPT !.nav = Unsubscribe(@, {DeferredToken(d)})] ELSE w

Cancel(d, w) ==
  IF w.dom.deferred
  THEN [w EXCEPT !.nav = Unsubscribe(@, {DeferredToken(d)}),
                 !.dom = NothingDeferred(@)]
  ELSE w

Defer(d, w, target, verb) ==
  [w EXCEPT
     !.nav = IF w.dom.deferred THEN @ ELSE Subscribe(@, DeferredToken(d)),
     !.dom = [@ EXCEPT !.deferred = TRUE, !.target = target,
                       !.verb = IF "replace" \in {w.dom.verb, verb} THEN "replace" ELSE "push"]]

\* One back-projection composed against the live URL.
Project(d, w, target, verb) ==
  LET url   == UrlOf(w.nav)
      live  == NamesUnder(url, d)
      gone  == ToSet(Without(live, ToSet(target)))
      delta == Delta(live, target, NestedBeneath(d, gone))
  IN [w EXCEPT !.nav  = Write(@, BackProject(url, d, delta, InitialParams(w.load, d)), verb),
               !.load = MarkWritten(@, w.nav.busy, {<<d, e>> : e \in ToSet(delta.added)})]

WriteEntries(d, w, target, verb) ==
  IF Shows(NamesUnder(UrlOf(w.nav), d), target) THEN Cancel(d, w)
  ELSE IF EnclosingAbsent(d, UrlOf(w.nav)) THEN Defer(d, w, target, verb)
  ELSE Project(d, Cancel(d, w), target, verb)

Commits(d, w) ==
  /\ nav' = w.nav
  /\ router' = [router EXCEPT ![d] = w.dom]
  /\ load' = w.load

---------------------------------------------------------------------------
(* The runtime's calls, each a task of its own. *)

\* The runtimes have registered their domains, and nothing is started; until
\* then no registration touches the history or the page load.
RoutingInit ==
  /\ \E urls \in Sessions : nav = OpenedOn(urls)
  /\ router = [d \in Routed |->
                 [NotAdmitted EXCEPT !.admitted = TRUE, !.names = Extensions[d],
                                     !.recorded = Host[d] \in Adopted]]
  /\ supplied = Adopted
  /\ load = Fresh
  /\ engine = [on |-> FALSE, loc |-> "none", pos |-> 0, own |-> FALSE]
  /\ tasks = 0

\* The bound on pushes: a full browser history is only replaced.
Verbs == IF nav.at < MaxEntries THEN {"push", "replace"} ELSE {"replace"}

AdmitDomain(d) ==
  /\ NoRound /\ ~router[d].admitted
  /\ router' = [router EXCEPT ![d].admitted = TRUE, ![d].recorded = Host[d] \in supplied]
  /\ UNCHANGED <<nav, supplied, load, engine, tasks>>

AdmitExtension(d, ext) ==
  /\ NoRound /\ router[d].admitted /\ ext \notin router[d].names
  /\ router' = [router EXCEPT ![d].names = @ \cup {ext}]
  /\ UNCHANGED <<nav, supplied, load, engine, tasks>>

ReleaseExtension(d, ext) ==
  /\ NoRound /\ Counted /\ ext \in router[d].names
  /\ router' = [router EXCEPT ![d].names = @ \ {ext}, ![d].last = Without(@, {ext}),
                                ![d].target = Without(@, {ext})]
  /\ UNCHANGED <<nav, supplied, load, engine>>

\* A nested runtime adopts its bridge before any domain of it is mounted, the
\* usual one as it is built, and records what it has registered by then.
SupplyNavigation(h) ==
  /\ NoRound /\ h # TopRuntime /\ h \notin supplied
  /\ supplied' = supplied \cup {h}
  /\ router' = [d \in Routed |->
                   IF d \in OfRuntime(h)
                   THEN [router[d] EXCEPT !.recorded = router[d].admitted] ELSE router[d]]
  /\ UNCHANGED <<nav, load, engine, tasks>>

\* The observer takes its baseline, subscribes and reports; the first of the
\* page then clears the URL, and the round of that write reaches it already.
\* Nothing here navigates on an empty URL, so that drain is over with its one
\* round: it is never given up, and the start, which would throw, never fails.
StartDomain(d) ==
  /\ NoRound /\ d \in Rendered /\ router[d].admitted /\ ~router[d].on
  /\ Host[d] \in supplied \cup {TopRuntime}
  /\ LET seen   == Subscribe(WithRouter(nav, Host[d]), ObserverToken(d))
         clears == ~load.cleared /\ Url # <<>>
     IN nav' = IF clears THEN Replace(seen, <<>>) ELSE seen
  /\ router' = [router EXCEPT ![d].on = TRUE, ![d].base = Under(Url, d)]
  /\ load' = IF load.cleared THEN load ELSE BeginLoad(load, Url)
  /\ UNCHANGED <<supplied, engine, tasks>>

StopDomain(d) ==
  /\ NoRound /\ Counted /\ router[d].on
  /\ LET w == Cancel(d, Working(d, nav, load))
     IN Commits(d, [w EXCEPT
          !.nav = Unsubscribe(@, {ObserverToken(d)}),
          !.dom = [@ EXCEPT !.on = FALSE, !.base = <<>>, !.last = <<>>]])
  /\ UNCHANGED <<supplied, engine>>

ReleaseDomain(d) ==
  /\ NoRound /\ Counted /\ router[d].admitted
  /\ LET w == Cancel(d, Working(d, nav, load))
     IN Commits(d, [w EXCEPT !.nav = Unsubscribe(@, {ObserverToken(d)}),
                             !.dom = NotAdmitted])
  /\ UNCHANGED <<supplied, engine>>

\* A command: only an acceptance carries push, and it ends the page load.
Reflect(d, ids, verb) ==
  /\ NoRound /\ Counted
  /\ LET n == IF verb = "push" THEN WithRouter(nav, Host[d]) ELSE nav
         l == IF verb = "push" THEN Discard(load) ELSE load
         w == IF router[d].admitted
              THEN [Working(d, n, l) EXCEPT !.dom.last = ids] ELSE Working(d, n, l)
     IN Commits(d, IF w.dom.on THEN WriteEntries(d, w, NamesOf(w.dom, ids), verb) ELSE w)
  /\ UNCHANGED <<supplied, engine>>

\* A back or forward step.
UserSteps(entry) ==
  /\ NoRound /\ Counted /\ entry # nav.at
  /\ nav' = Pop(nav, entry)
  /\ UNCHANGED <<router, supplied, load, engine>>

---------------------------------------------------------------------------
(* The engine provider of one extension. *)

\* Its location and position follow the URL while the entry is there.
Reads(e, pos) ==
  IF Carries(Url, Engine)
  THEN [e EXCEPT !.loc = ParamsAt(Url, Engine), !.pos = pos] ELSE e

\* Fault: a history attached again keeps the location it had.
EngineAttachesAsItWas ==
  /\ NoRound /\ ~engine.on
  /\ nav' = Subscribe(nav, EngineToken)
  /\ engine' = [engine EXCEPT !.on = TRUE]
  /\ UNCHANGED <<router, supplied, load, tasks>>

EngineAttaches ==
  /\ NoRound /\ ~engine.on
  /\ nav' = Subscribe(nav, EngineToken)
  /\ engine' = [Reads(engine, nav.pos) EXCEPT !.on = TRUE]
  /\ UNCHANGED <<router, supplied, load, tasks>>

\* Where the engine goes from a route: it has two.
Other(loc) == IF loc = "own" THEN "none" ELSE "own"

EngineDetaches ==
  /\ NoRound /\ Counted /\ engine.on
  /\ nav' = Unsubscribe(nav, {EngineToken})
  /\ engine' = [engine EXCEPT !.on = FALSE]
  /\ UNCHANGED <<router, supplied, load>>

\* A navigation of the engine writes its own entry, when it is there.
EngineWrites(verb) ==
  /\ NoRound /\ Counted /\ engine.on /\ Carries(Url, Engine)
  /\ nav' = Write(nav, WithParams(Url, Engine, Other(engine.loc)), verb)
  /\ engine' = [engine EXCEPT !.own = TRUE]
  /\ UNCHANGED <<router, supplied, load>>

---------------------------------------------------------------------------
(* The drain: one step per subscriber's call. *)

Calls(token) == Due(nav, token)

\* Fault: a back or forward step leaves the deferred writes standing.
CallRouterForTheLoad(h) ==
  /\ Calls(RouterToken(h))
  /\ nav' = NextCall(nav, RouterToken(h))
  /\ load' = IF nav.note.kind = "history" THEN Discard(load) ELSE load
  /\ UNCHANGED <<router, supplied, engine, tasks>>

\* A back or forward step ends the page load and every deferred write of the
\* runtime, before any observer of that runtime runs.
CallRouter(h) ==
  /\ Calls(RouterToken(h))
  /\ LET n       == NextCall(nav, RouterToken(h))
         waiting == {d \in OfRuntime(h) : router[d].deferred}
     IN IF nav.note.kind = "history"
        THEN /\ nav' = Unsubscribe(n, {DeferredToken(d) : d \in waiting})
             /\ router' = [d \in Routed |->
                              IF d \in waiting THEN NothingDeferred(router[d])
                              ELSE router[d]]
             /\ load' = Discard(load)
        ELSE nav' = n /\ UNCHANGED <<router, load>>
  /\ UNCHANGED <<supplied, engine, tasks>>

\* What a back or forward step leaves a domain showing: the entries that
\* resolve, or its last command when it cannot be emptied.
AfterUserChange(d, live) ==
  LET target == NamesOf(router[d], NamesOfEntries(live))
  IN IF target = <<>> /\ d \notin DeclaresUnmount
     THEN NamesOf(router[d], router[d].last) ELSE target

\* An observer resolves its entries afresh; a change under a back or forward
\* step ends in a write, and the baseline moves when the report returns.
CallObserver(d) ==
  /\ Calls(ObserverToken(d))
  /\ LET w    == Working(d, NextCall(nav, ObserverToken(d)), load)
         live == Under(Url, d)
         done == IF nav.note.kind = "history" /\ ~NothingChanged(w.dom.base, live)
                 THEN WriteEntries(d, w, AfterUserChange(d, live), "replace") ELSE w
     IN Commits(d, [done EXCEPT !.dom.base = live])
  /\ UNCHANGED <<supplied, engine, tasks>>

\* A deferred write goes out once its enclosing entry is in the URL.
CallDeferred(d) ==
  /\ Calls(DeferredToken(d))
  /\ LET w == Working(d, NextCall(nav, DeferredToken(d)), load)
     IN Commits(d,
          IF EnclosingAbsent(d, Url) THEN w
          ELSE IF Shows(NamesUnder(Url, d), w.dom.target) THEN Cancel(d, w)
          ELSE Project(d, Cancel(d, w), w.dom.target, w.dom.verb))
  /\ UNCHANGED <<supplied, engine, tasks>>

\* The adapted history tells the engine what changed, and the engine may
\* navigate from inside that call.
CallEngine ==
  /\ Calls(EngineToken)
  /\ LET n == NextCall(nav, EngineToken)
         e == Reads(engine, nav.note.pos)
     IN \/ nav' = n /\ engine' = e
        \/ /\ Carries(Url, Engine)
           /\ e # engine \/ engine.own
           /\ \E verb \in Verbs :
                nav' = Write(n, WithParams(Url, Engine, Other(e.loc)), verb)
           /\ engine' = [e EXCEPT !.own = FALSE]
  /\ UNCHANGED <<router, supplied, load, tasks>>

NextRound ==
  /\ RoundIsOver(nav) /\ nav.queue # <<>> /\ ~AtLimit(nav)
  /\ nav' = ServeQueued(nav)
  /\ UNCHANGED <<router, supplied, load, engine, tasks>>

DrainEnds ==
  /\ RoundIsOver(nav) /\ nav.queue = <<>>
  /\ nav' = Drained(nav)
  /\ load' = CallReturns(load)
  /\ engine' = [engine EXCEPT !.own = FALSE]
  /\ UNCHANGED <<router, supplied, tasks>>

DrainIsAbandoned ==
  /\ RoundIsOver(nav) /\ nav.queue # <<>> /\ AtLimit(nav)
  /\ nav' = Abandoned(nav)
  /\ load' = CallThrows(load)
  /\ engine' = [engine EXCEPT !.own = FALSE]
  /\ UNCHANGED <<router, supplied, tasks>>

Drain ==
  \/ \E h \in Runtime : CallRouter(h)
  \/ \E d \in Routed : CallObserver(d) \/ CallDeferred(d)
  \/ CallEngine
  \/ NextRound
  \/ DrainEnds
  \/ DrainIsAbandoned

Task ==
  \/ \E d \in Routed :
       \/ AdmitDomain(d)
       \/ ReleaseDomain(d)
       \/ StartDomain(d)
       \/ StopDomain(d)
       \/ \E ext \in Extensions[d] : AdmitExtension(d, ext) \/ ReleaseExtension(d, ext)
       \/ \E ids \in Targets[d], verb \in Verbs : Reflect(d, ids, verb)
  \/ \E h \in Runtime : SupplyNavigation(h)
  \/ \E entry \in DOMAIN nav.stack : UserSteps(entry)
  \/ EngineAttaches
  \/ EngineDetaches
  \/ \E verb \in Verbs : EngineWrites(verb)

RoutingNext == Drain \/ Task

\* A drain is one synchronous call: it is never left half served.
RoutingSpec == RoutingInit /\ [][RoutingNext]_routingVars /\ WF_routingVars(Drain)

---------------------------------------------------------------------------
(* The invariant the properties rest on. *)

Kinds == {"none", "push", "replace", "history"}

Notes == [kind : Kinds, pos : Nat]

Tokens == {RouterToken(h) : h \in Runtime} \cup {ObserverToken(d) : d \in Routed}
            \cup {DeferredToken(d) : d \in Routed} \cup {EngineToken}

Items == [url : Seq(Entries), pos : Nat]

Histories ==
  [stack : Seq(Items), at : Nat, pos : Nat, live : SUBSET Tokens,
   before : SUBSET (Tokens \X Tokens), busy : BOOLEAN, note : Notes,
   rest : SUBSET Tokens, queue : Seq(Notes), drained : Nat, origin : Kinds, lost : BOOLEAN]

DomainState(d) ==
  [admitted : BOOLEAN, recorded : BOOLEAN, names : SUBSET Extensions[d], on : BOOLEAN,
   base : Seq(Entries), last : Seq(Extensions[d]), deferred : BOOLEAN,
   target : Seq(Extensions[d]), verb : {"none", "push", "replace"}]

Marks == Routed \X UNION {Extensions[d] : d \in Routed}

Loads == [cleared : BOOLEAN, ended : BOOLEAN, keeps : BOOLEAN, kept : Seq(Entries),
          written : SUBSET Marks, due : SUBSET Marks]

Engines == [on : BOOLEAN, loc : Param, pos : Nat, own : BOOLEAN]

RoutingTyped ==
  /\ router = [d \in Routed |-> router[d]] /\ \A d \in Routed : router[d] \in DomainState(d)
  /\ load \in Loads /\ engine \in Engines

\* Between the rounds nothing waits, and the last notification there is, served
\* or queued, carries the position the history reports.
Rounds(n) ==
  /\ n \in Histories /\ n.at \in DOMAIN n.stack
  /\ n.rest \subseteq n.live
  /\ ~n.busy => n.rest = {} /\ n.queue = <<>>
  /\ n.busy => ~n.lost /\ n.pos = IF n.queue = <<>> THEN n.note.pos
                                  ELSE n.queue[Len(n.queue)].pos

\* A subscription is yet to hear of the navigations made so far.
Unheard(n, token) == token \in n.rest \/ n.queue # <<>> \/ n.lost

\* Each subscriber stands where the URL says, or its call is still to come.
ObserverInv(d) ==
  /\ router[d].on <=> ObserverToken(d) \in nav.live
  /\ router[d].on => \/ Unheard(nav, ObserverToken(d))
                     \/ router[d].base = Under(Url, d)

DeferredInv(d) ==
  /\ router[d].deferred <=> DeferredToken(d) \in nav.live
  /\ router[d].deferred => \/ Unheard(nav, DeferredToken(d))
                           \/ EnclosingAbsent(d, Url)

EngineInv ==
  engine.on =>
    /\ EngineToken \in nav.live
    /\ \/ Unheard(nav, EngineToken)
       \/ Carries(Url, Engine) => engine.loc = ParamsAt(Url, Engine) /\ engine.pos = nav.pos

\* The router copy hears of a navigation before the writes it has deferred, and
\* a back or forward step's drain knows no deferred push once it has.
OrderInv(d) ==
  /\ router[d].on => RouterToken(Host[d]) \in nav.live
  /\ router[d].deferred => /\ RouterToken(Host[d]) \in nav.live
                           /\ <<RouterToken(Host[d]), DeferredToken(d)>> \in nav.before
  /\ router[d].verb = "push" => router[d].deferred
  /\ nav.busy /\ nav.origin = "history" /\ router[d].verb = "push"
       => nav.note.kind = "history" /\ RouterToken(Host[d]) \in nav.rest

\* The record of nested domains is the page's.
RecordInv(d) ==
  router[d].recorded <=> router[d].admitted /\ Host[d] \in supplied

DomainInv(d) == ObserverInv(d) /\ DeferredInv(d) /\ OrderInv(d) /\ RecordInv(d)

RoutingInv ==
  /\ RoutingTyped /\ Rounds(nav) /\ EngineInv
  /\ \A d \in Routed : DomainInv(d)

---------------------------------------------------------------------------
(* Properties. *)

\* Every started observer has reported what the URL shows of its domain, as
\* soon as no round is under way: a navigation made from inside a report, by
\* the page load's clear, a write-back or the engine, reaches every observer
\* in a later round (fanout-dispatch.ts, observe-change.ts).  Only a drain
\* abandoned at the limit leaves them behind, until the next navigation.
ObserversKeepUp ==
  NoRound /\ ~nav.lost =>
    \A d \in Routed : router[d].on => router[d].base = Under(Url, d)

\* A write is deferred only while the entry of its runtime's host is absent:
\* none is left waiting once that entry is back in the URL, whoever put it
\* there (FrontXRouter.writeEntries and its one subscription).
NoWriteLeftWaiting ==
  NoRound /\ ~nav.lost =>
    \A d \in Routed : router[d].deferred => EnclosingAbsent(d, Url)

\* The engine of a mounted extension stands where the URL says: its location
\* is its entry's parameters and its index the history's position, whichever
\* runtime moved either (adaptVirtualLocationHistory).
EngineInStep ==
  NoRound /\ ~nav.lost /\ engine.on /\ Carries(Url, Engine) =>
    engine.loc = ParamsAt(Url, Engine) /\ engine.pos = nav.pos

\* The domains whose runtimes stand beneath an extension, through admitted
\* domains only: the nesting of the page, not the record kept of it.
StandBeneath(address) ==
  {d \in Routed :
     \E n \in 1..Cardinality(Routed) : \E path \in [1..n -> Routed] :
       /\ Host[path[1]] = address /\ path[n] = d
       /\ \A i \in 1..n : router[path[i]].admitted /\ Host[path[i]] \in supplied
       /\ \A i \in 2..n : Host[path[i]][1] = path[i - 1]}

\* A write that drops an extension takes every entry of the domains nested
\* beneath it along, to any depth, in the same history entry
\* (nestedDomainKeysBeneath and the single rewrite of url-back-projection.ts).
LeavingTakesTheNested ==
  [][nav'.stack # nav.stack =>
       \A d \in Routed : \A ext \in Extensions[d] :
         Carries(Url, <<d, ext>>) /\ ~Carries(UrlOf(nav'), <<d, ext>>)
           => \A k \in StandBeneath(<<d, ext>>) : Under(UrlOf(nav'), k) = <<>>]_routingVars

\* What a back or forward step sets off in the routers never adds an entry to
\* the browser's history, so the entries ahead of the user stay: write-backs
\* replace, and a deferred push does not outlive the step.
StepsKeepTheWayForward ==
  [][\A d \in Routed : nav.origin = "history" /\ (CallObserver(d) \/ CallDeferred(d))
        => nav'.at = nav.at /\ Len(nav'.stack) = Len(nav.stack)]_routingVars

\* Every drain ends, though a subscriber navigates from each round it is
\* given: the queue is served to its end or given up at the limit.
EveryDrainEnds == nav.busy ~> NoRound
=============================================================================
