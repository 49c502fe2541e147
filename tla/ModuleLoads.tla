---------------------------- MODULE ModuleLoads ----------------------------
(***************************************************************************)
(* Loading extensions through the module-federation handler                *)
(* (packages/mfes/src/handler/mfe-handler-mf): one load per extension, its *)
(* attempts with their timeout and retries, the source texts they share    *)
(* through the handler's and the realm's caches, and the chunk graph of    *)
(* each attempt.                                                           *)
(*                                                                         *)
(* A step is a task of the page (a call, a timer, an answered fetch) or a  *)
(* continuation; continuations run before the next task.  A fetch may stay *)
(* unanswered, and an attempt given up on goes on behind its successor.    *)
(***************************************************************************)
EXTENDS ChunkGraph

CONSTANTS
  MfeEntry,       \* the extensions, by the MFE entry each is loaded from
  Together,       \* the sets of extensions that a page loads
  Handler,        \* extension -> the handler that loads it
  Exposed,        \* extension -> the chunk it exposes
  Lazy,           \* extension -> the chunks its code asks for later
  Shared,         \* extension -> the shared dependencies it declares
  SharedUrl,      \* extension -> where each of them lies in its build
  Timed,          \* the handlers with a timeout
  RetriesOf,      \* handler -> its retries
  MaxBuilds       \* bound on the builds of one attempt

\* The realm's cache is none of the handlers' own.
ASSUME CachesAssumption == \A x \in MfeEntry : Handler[x] # "realm"

ASSUME LoadsAssumption ==
  /\ Together \subseteq SUBSET MfeEntry
  /\ \A x \in MfeEntry : /\ Exposed[x] \in File /\ Lazy[x] \subseteq File
                         /\ RetriesOf[Handler[x]] \in Nat

VARIABLES
  fetches,    \* the fetches so far: what of, and what they came to
  cached,     \* what the handlers' source-text caches and the realm's hold
  loadOf,     \* the extensions of the page, and how far their loads are
  attemptsOf  \* extension -> its attempts so far

loadsVars == <<fetches, cached, loadOf, attemptsOf>>

Wanted == DOMAIN loadOf

\* An entry of a cache: a handler's, by url, or the realm's, by dependency.
CacheEntry(c, k, i) == [cache |-> c, key |-> k, fetch |-> i]

\* How far an attempt is: at its shared dependencies, at its chunk graph, or
\* settled.  Its ledger holds what it recorded, and `left' what it was still
\* waiting for when it was given up on.
FirstOf(x) ==
  [stage |-> "shared", expired |-> FALSE, ledger |-> {}, left |-> {},
   deps |-> <<>>, graph |-> NoGraph]

LoadAttempt == UNION {{<<x, n>> : n \in DOMAIN attemptsOf[x]} : x \in Wanted}
StateOf(a) == attemptsOf[a[1]][a[2]]
GraphOf(a) == StateOf(a).graph
Works(a) == InFlight(GraphOf(a))

Flying(i) == fetches[i].status = "flying"
Came(i) == fetches[i].status = "ok"

---------------------------------------------------------------------------
(* Source texts. *)

Has(c, k) == \E e \in cached : e.cache = c /\ e.key = k

\* The fetch a caller is given: the cached one, or one begun now.
Found(c, k) == (CHOOSE e \in cached : e.cache = c /\ e.key = k).fetch
TextOf(h, url) == IF Has(h, url) THEN Found(h, url) ELSE Len(fetches) + 1

FetchesText(h, url) ==
  fetches' = IF Has(h, url) THEN fetches
             ELSE Append(fetches, [url |-> url, by |-> h, status |-> "flying"])

\* The ledger takes nothing once its attempt has been given up on.
Records(att, entries) ==
  IF att.expired THEN att ELSE [att EXCEPT !.ledger = @ \cup entries]

Becomes(a, att) == attemptsOf' = [attemptsOf EXCEPT ![a[1]][a[2]] = att]
GraphBecomes(a, g) == Becomes(a, [StateOf(a) EXCEPT !.graph = g])

---------------------------------------------------------------------------
(* Continuations. *)

\* The shared dependencies are asked for by as many workers as a build has
\* slots; each takes another one when its text has come, or has not, and goes
\* on after the attempt was given up on (boundedMap).
WorkerFree(a) == Cardinality({k \in DOMAIN StateOf(a).deps : Flying(StateOf(a).deps[k])}) < Width

SharedToAsk(a) == IF WorkerFree(a) THEN Shared[a[1]] \ DOMAIN StateOf(a).deps ELSE {}

\* A shared dependency is looked up in the realm's cache; on a miss its text
\* is fetched through the handler's cache and published.
AsksShared(a, k) ==
  LET x    == a[1]
      url  == SharedUrl[x][k]
      hit  == Has("realm", k)
      i    == IF hit THEN Found("realm", k) ELSE TextOf(Handler[x], url)
      used == {CacheEntry("realm", k, i)}
                \cup IF hit THEN {} ELSE {CacheEntry(Handler[x], url, i)}
  IN /\ StateOf(a).stage = "shared" /\ k \in SharedToAsk(a)
     /\ IF hit THEN UNCHANGED fetches ELSE FetchesText(Handler[x], url)
     /\ cached' = cached \cup used
     /\ Becomes(a, [Records(StateOf(a), used) EXCEPT !.deps = Put(@, k, i)])
     /\ UNCHANGED loadOf

SharedSettled(a) ==
  /\ StateOf(a).stage = "shared" /\ DOMAIN StateOf(a).deps = Shared[a[1]]
  /\ \A k \in Shared[a[1]] : ~Flying(StateOf(a).deps[k])

\* All of them have come, and the chunk graph is begun; or one has not.
SharedArrives(a) ==
  /\ SharedSettled(a)
  /\ Becomes(a, IF \A k \in Shared[a[1]] : Came(StateOf(a).deps[k])
                THEN [StateOf(a) EXCEPT !.stage = "chain",
                                        !.graph = Opens(@, Exposed[a[1]], {})]
                ELSE [StateOf(a) EXCEPT !.stage = "failed"])
  /\ UNCHANGED <<fetches, cached, loadOf>>

\* Who joined a construction that came to nothing asks again before the next one
\* of the chunk, begun since, asks for the source.
BeginsFetch(a, f) ==
  LET h    == Handler[a[1]]
      i    == TextOf(h, f)
      used == IF BuildOf(GraphOf(a), f).failed THEN {} ELSE {CacheEntry(h, f, i)}
  IN /\ GraphOf(a).works[f].stage = "slot" /\ AsksAgainFor(GraphOf(a), f) = {}
     /\ IF used = {} THEN UNCHANGED fetches ELSE FetchesText(h, f)
     /\ cached' = cached \cup used
     /\ Becomes(a, [Records(StateOf(a), used) EXCEPT !.graph = SourceBegins(@, f, i)])
     /\ UNCHANGED loadOf

HasText(a, f) ==
  GraphOf(a).works[f].stage = "fetch" /\ ~Flying(GraphOf(a).works[f].fetch)

FetchArrives(a, f) ==
  /\ HasText(a, f)
  /\ GraphBecomes(a, SourceArrives(GraphOf(a), f, Came(GraphOf(a).works[f].fetch)))
  /\ UNCHANGED <<fetches, cached, loadOf>>

HasImports(a, f) == GraphOf(a).works[f].stage = "imports" /\ AllSettled(GraphOf(a), f)

ImportsSettle(a, f) ==
  /\ HasImports(a, f)
  /\ GraphBecomes(a, Completes(GraphOf(a), f))
  /\ UNCHANGED <<fetches, cached, loadOf>>

AsksAgain(a, f, d) == GraphOf(a).works[f].waits[d] = "again"

JoinerResumes(a, f, d) ==
  LET w == GraphOf(a).works[f]
      r == Resumes(GraphOf(a), w.build, d, w.kids)
  IN /\ AsksAgain(a, f, d)
     /\ GraphBecomes(a, [r.graph EXCEPT !.works[f].waits[d] = r.wait])
     /\ UNCHANGED <<fetches, cached, loadOf>>

RootResumes(a, b) ==
  LET build == GraphOf(a).builds[b]
      r == Resumes(GraphOf(a), b, build.root, build.from)
  IN /\ build.wait = "again"
     /\ GraphBecomes(a, [r.graph EXCEPT !.builds[b].wait = r.wait])
     /\ UNCHANGED <<fetches, cached, loadOf>>

\* The entry's build is over: the attempt has succeeded, failed, or been
\* refused for good.
ChainSettled(a) ==
  StateOf(a).stage = "chain" /\ GraphOf(a).builds[1].wait \in {"done"} \cup Bad

ChainEnds(a) ==
  /\ ChainSettled(a)
  /\ Becomes(a, [StateOf(a) EXCEPT !.stage =
       CASE GraphOf(a).builds[1].wait = "cycle"  -> "refused"
         [] GraphOf(a).builds[1].wait = "failed" -> "failed"
         [] Exposed[a[1]] \in GraphOf(a).minted  -> "loaded"
         [] OTHER                                -> "failed"])
  /\ UNCHANGED <<fetches, cached, loadOf>>

\* What becomes of the load when an attempt of it is over: a refusal is not
\* retried, any other failure is while retries are left.
AfterFailure(x, refused) ==
  IF ~refused /\ Len(attemptsOf[x]) <= RetriesOf[Handler[x]] THEN "backoff" ELSE "failed"

LatestOf(x) == <<x, Len(attemptsOf[x])>>

Outcome(x) ==
  loadOf[x] = "trying" /\ StateOf(LatestOf(x)).stage \in {"loaded", "failed", "refused"}

LoadHears(x) ==
  /\ Outcome(x)
  /\ loadOf' = [loadOf EXCEPT ![x] =
       IF StateOf(LatestOf(x)).stage = "loaded" THEN "loaded"
       ELSE AfterFailure(x, StateOf(LatestOf(x)).stage = "refused")]
  /\ UNCHANGED <<fetches, cached, attemptsOf>>

\* Whether a continuation is due.
ContinuationDue(a) ==
  \/ StateOf(a).stage = "shared" /\ (SharedToAsk(a) # {} \/ SharedSettled(a))
  \/ \E f \in Works(a) : \/ GraphOf(a).works[f].stage = "slot" \/ HasText(a, f)
                         \/ HasImports(a, f)
                         \/ \E d \in DOMAIN GraphOf(a).works[f].waits : AsksAgain(a, f, d)
  \/ \E b \in DOMAIN GraphOf(a).builds : GraphOf(a).builds[b].wait = "again"
  \/ ChainSettled(a)

Quiet == ~(\E a \in LoadAttempt : ContinuationDue(a)) /\ ~(\E x \in Wanted : Outcome(x))

---------------------------------------------------------------------------
(* Tasks. *)

LoadsInit ==
  /\ fetches = <<>>
  /\ cached = {}
  /\ \E group \in Together : /\ loadOf = [x \in group |-> "none"]
                             /\ attemptsOf = [x \in group |-> <<>>]

\* The first request for an extension, and a retry after its backoff; every
\* request in between is given the load there is.
Tries(x) ==
  /\ Quiet /\ loadOf[x] \in {"none", "backoff"}
  /\ loadOf' = [loadOf EXCEPT ![x] = "trying"]
  /\ attemptsOf' = [attemptsOf EXCEPT ![x] = Append(@, FirstOf(x))]
  /\ UNCHANGED <<fetches, cached>>

\* A fetch answers.  A failure empties its url in its handler's cache,
\* whatever stands there by now, and its keys in the realm's only where the
\* failed fetch itself stands.
FetchSettles(i, status) ==
  /\ Quiet /\ Flying(i)
  /\ fetches' = [fetches EXCEPT ![i].status = status]
  /\ cached' = IF status = "ok" THEN cached
               ELSE {e \in cached : /\ e.fetch # i
                                    /\ <<e.cache, e.key>> # <<fetches[i].by, fetches[i].url>>}
  /\ UNCHANGED <<loadOf, attemptsOf>>

\* What an attempt still waits for by its own ledger.
AwaitedBy(a) == {e \in StateOf(a).ledger : Flying(e.fetch)}

\* Fault: the keys are released, whoever published under them since.
ReleasesWhatever(a) ==
  {e \in cached : \A w \in AwaitedBy(a) : <<e.cache, e.key>> # <<w.cache, w.key>>}

\* Fault: what lies in the realm's cache is not released.
ReleasesTextsOnly(a) == cached \ {w \in AwaitedBy(a) : w.cache # "realm"}

\* What the caches keep of it: the very fetches it was waiting for go.
Releases(a) == cached \ AwaitedBy(a)

\* The timeout of an attempt: the load gives it up, the attempt goes on.
Expires(x) ==
  /\ Quiet /\ Handler[x] \in Timed /\ loadOf[x] = "trying"
  /\ cached' = Releases(LatestOf(x))
  /\ Becomes(LatestOf(x), [StateOf(LatestOf(x)) EXCEPT !.expired = TRUE,
                           !.left = {e.fetch : e \in AwaitedBy(LatestOf(x))}])
  /\ loadOf' = [loadOf EXCEPT ![x] = AfterFailure(x, FALSE)]
  /\ UNCHANGED fetches

\* The code of a loaded extension asks for a lazy chunk.
AsksLazily(x, f) ==
  /\ Quiet /\ loadOf[x] = "loaded" /\ f \in Lazy[x]
  /\ Len(GraphOf(LatestOf(x)).builds) < MaxBuilds
  /\ GraphBecomes(LatestOf(x), Opens(GraphOf(LatestOf(x)), f, {Exposed[x]}))
  /\ UNCHANGED <<fetches, cached, loadOf>>

Continuation ==
  \/ \E a \in LoadAttempt :
       \/ \E k \in Shared[a[1]] : AsksShared(a, k)
       \/ SharedArrives(a)
       \/ \E f \in Works(a) : \/ BeginsFetch(a, f)
                              \/ FetchArrives(a, f)
                              \/ ImportsSettle(a, f)
                              \/ \E d \in DOMAIN GraphOf(a).works[f].waits : JoinerResumes(a, f, d)
       \/ \E b \in DOMAIN GraphOf(a).builds : RootResumes(a, b)
       \/ ChainEnds(a)
  \/ \E x \in Wanted : LoadHears(x)

LoadsNext ==
  \/ Continuation
  \/ \E x \in Wanted : Tries(x) \/ Expires(x) \/ \E f \in Lazy[x] : AsksLazily(x, f)
  \/ \E i \in DOMAIN fetches : \E status \in {"ok", "failed"} : FetchSettles(i, status)

LoadsSpec == LoadsInit /\ [][LoadsNext]_loadsVars

---------------------------------------------------------------------------
(* The invariants the properties rest on. *)

Handlers == {Handler[x] : x \in MfeEntry}
Dependencies == UNION {Shared[x] : x \in MfeEntry}
SharedUrls(x) == {SharedUrl[x][k] : k \in Shared[x]}
Urls == File \cup UNION {SharedUrls(x) : x \in MfeEntry}

FetchRecord == [url : Urls, by : Handlers, status : {"flying", "ok", "failed"}]

CacheEntries == [cache : Handlers \cup {"realm"}, key : Urls \cup Dependencies, fetch : Nat]

AttemptTyped(att) ==
  /\ att \in [stage : {"shared", "chain", "loaded", "failed", "refused"},
              expired : BOOLEAN, ledger : SUBSET CacheEntries, left : SUBSET Nat,
              deps : {att.deps}, graph : {att.graph}]
  /\ Maps(att.deps, Dependencies, Nat)

LoadsTyped ==
  /\ fetches \in Seq(FetchRecord)
  /\ cached \subseteq CacheEntries
  /\ Wanted \subseteq MfeEntry
  /\ loadOf \in [Wanted -> {"none", "trying", "backoff", "loaded", "failed"}]
  /\ attemptsOf \in [Wanted -> {attemptsOf[x] : x \in Wanted}]
  /\ \A x \in Wanted : attemptsOf[x] \in Seq(ToSet(attemptsOf[x]))
  /\ \A a \in LoadAttempt : AttemptTyped(StateOf(a))

\* A text lies in a handler's cache under the url it was asked for by that
\* handler, and in the realm's under a dependency that lies at its url.
EntryIsTrue(e) ==
  /\ e.fetch \in DOMAIN fetches
  /\ e.cache # "realm" => fetches[e.fetch].by = e.cache /\ fetches[e.fetch].url = e.key
  /\ e.cache = "realm" =>
       \E x \in MfeEntry : /\ e.key \in Shared[x]
                           /\ fetches[e.fetch].by = Handler[x]
                           /\ fetches[e.fetch].url = SharedUrl[x][e.key]

EntriesAreTrue ==
  /\ \A e \in cached : EntryIsTrue(e)
  /\ \A a \in LoadAttempt : /\ \A e \in StateOf(a).ledger : EntryIsTrue(e)
                            /\ StateOf(a).left \subseteq DOMAIN fetches
                            /\ \A k \in DOMAIN StateOf(a).deps :
                                 k \in Shared[a[1]] /\ StateOf(a).deps[k] \in DOMAIN fetches

GraphsInv == \A a \in LoadAttempt : GraphInv(GraphOf(a), fetches)

\* What a loaded extension exposes has been minted in its last attempt.
LoadedInv ==
  /\ \A a \in LoadAttempt : StateOf(a).stage = "loaded" => Exposed[a[1]] \in GraphOf(a).minted
  /\ \A x \in Wanted : /\ loadOf[x] \in {"trying", "loaded"} => attemptsOf[x] # <<>>
                       /\ loadOf[x] = "loaded" => StateOf(LatestOf(x)).stage = "loaded"

LoadsInv == LoadsTyped /\ EntriesAreTrue /\ GraphsInv /\ LoadedInv

\* Every extension is built by itself: its shared dependencies lie where no
\* chunk and no other extension's lie.  Extensions of one build share them.
OwnBuilds ==
  \A x \in MfeEntry : \A k \in Shared[x] :
    /\ SharedUrl[x][k] \notin File
    /\ \A y \in MfeEntry : \A l \in Shared[y] :
         Handler[x] = Handler[y] /\ SharedUrl[x][k] = SharedUrl[y][l] => x = y /\ k = l

\* No extension declares more shared dependencies than are asked for at once.
SharedFitThePool == \A x \in MfeEntry : IsFiniteSet(Shared[x]) /\ Cardinality(Shared[x]) <= Width

\* What an extension may be given a text by.
Uses(x, e) ==
  \/ e.cache = "realm" /\ e.key \in Shared[x]
  \/ e.cache = Handler[x] /\ e.key \in File \cup SharedUrls(x)

LedgerInv == \A a \in LoadAttempt : \A e \in StateOf(a).ledger : Uses(a[1], e)

\* Only the last attempt of a load, not given up on, has shared dependencies
\* left to ask for.
AskedInv ==
  \A a \in LoadAttempt :
    DOMAIN StateOf(a).deps # Shared[a[1]] =>
      StateOf(a).stage = "shared" /\ ~StateOf(a).expired /\ a = LatestOf(a[1])

\* A load that is not under way has an attempt it gave up on, or is past its
\* shared dependencies.
RestInv ==
  \A x \in Wanted :
    loadOf[x] # "trying" /\ attemptsOf[x] # <<>> =>
      StateOf(LatestOf(x)).expired \/ StateOf(LatestOf(x)).stage # "shared"

Serves(i, x, k) == fetches[i].by = Handler[x] /\ fetches[i].url = SharedUrl[x][k]

\* The text of a shared dependency is on offer, while it is under way, only as
\* long as the attempt that asked for it waits for it and has recorded it.
OfferInv ==
  \A x \in MfeEntry : \A k \in Shared[x] : \A e \in cached :
    Serves(e.fetch, x, k) /\ Flying(e.fetch) =>
      /\ x \in Wanted /\ attemptsOf[x] # <<>>
      /\ LET att == StateOf(LatestOf(x))
         IN /\ att.stage = "shared" /\ ~att.expired
            /\ k \in DOMAIN att.deps /\ att.deps[k] = e.fetch
            /\ {CacheEntry("realm", k, e.fetch),
                CacheEntry(Handler[x], SharedUrl[x][k], e.fetch)} \subseteq att.ledger

\* What an attempt was waiting for when it was given up on is offered to none
\* of its successors, and none of them waits for it.
LeftInv ==
  \A a \in LoadAttempt : \A i \in StateOf(a).left :
    Flying(i) => /\ \A e \in cached : Uses(a[1], e) => e.fetch # i
                 /\ \A n \in DOMAIN attemptsOf[a[1]] :
                      n > a[2] => \A e \in StateOf(<<a[1], n>>).ledger : e.fetch # i

TextsInv == LoadsInv /\ LedgerInv /\ AskedInv /\ RestInv /\ OfferInv /\ LeftInv

---------------------------------------------------------------------------
(* Properties. *)

\* No construction waits, through others, for itself, and none waits for a
\* construction that is not there: a build can always go on once its fetches
\* are answered (createBlobUrlChain's lineages, joinInFlightConstruction).
NobodyWaitsForever ==
  \A a \in LoadAttempt :
    LET For(f) == WaitsFor(GraphOf(a), f)
    IN /\ \A f \in Works(a) : For(f) \subseteq Works(a)
       /\ ~ \E ring \in (SUBSET {f \in Works(a) : For(f) # {}}) \ {{}} :
              \A f \in ring : For(f) \cap ring # {}

\* A build never has more fetches under way than it has slots, and no slot is
\* idle while a construction waits for one (FetchBudget).
BudgetIsKept ==
  \A a \in LoadAttempt : \A b \in DOMAIN GraphOf(a).builds :
    LET build == GraphOf(a).builds[b]
        held  == {f \in Works(a) : /\ GraphOf(a).works[f].build = b
                                   /\ GraphOf(a).works[f].stage \in {"slot", "fetch"}}
    IN /\ Cardinality(held) + build.free = Width
       /\ build.line # <<>> => build.free = 0

\* A build fails only for a reason of its own: a chunk it needs could not be
\* fetched, or its chunks import one another in a circle.  That a build it
\* shares chunks with fails is no reason (inst-settle-drop-inflight and
\* joinInFlightConstruction).
FailsForItsOwnReason ==
  \A a \in LoadAttempt : \A b \in DOMAIN GraphOf(a).builds :
    LET build == GraphOf(a).builds[b]
    IN /\ build.wait = "cycle" => Circular(build.root)
       /\ build.wait = "failed" =>
            \E i \in DOMAIN fetches :
              fetches[i].status = "failed" /\ fetches[i].url \in Reach[build.root]

\* The attempt after one that was given up on never waits for what that one
\* was waiting for (AttemptSourceTextLedger.release).
RetryFetchesAfresh ==
  \A a \in LoadAttempt :
    a[2] > 1 => {e.fetch : e \in AwaitedBy(a)} \cap StateOf(<<a[1], a[2] - 1>>).left = {}

\* A fetch under way leaves the realm's cache only when an attempt that was
\* waiting for it is given up on: no copy of the package evicts what another
\* has published since (inst-lto-release-generation-identity).
KeptUntilGivenUp ==
  \A e \in cached \ cached' :
    e.cache = "realm" /\ Flying(e.fetch) /\ fetches'[e.fetch].status = "flying"
      => \E x \in Wanted : Expires(x) /\ e \in AwaitedBy(LatestOf(x))

\* What an attempt that is given up on was waiting for is released, and nothing else:
\* its successor fetches afresh, and no other load loses a text it waits for.
ReleasedWithItsAttempt == [][RetryFetchesAfresh' /\ KeptUntilGivenUp]_loadsVars
=============================================================================
