------------------------------ MODULE GridLoads ------------------------------
(***************************************************************************)
(* What the data grid of the UI kit loads: the load service and its loads, *)
(* the first load of the grid under the load state of the core, the pager  *)
(* and the search box, which start loads of their own.                     *)
(*                                                                         *)
(* Loads and refreshes are numbered in the order they begin.  A load's     *)
(* hooks, its fetch and the hooks of a refresh are awaited and take any    *)
(* time; everything between two of them is one step.  An aborted fetch may *)
(* reject at once, later, or answer all the same: that is the consumer's   *)
(* load callback.  Of the rows only the page they are from is told apart,  *)
(* and every page size leaves the same pages.  The hooks of init and of    *)
(* refresh do not reject: those of the kit's own plugins cannot.           *)
(***************************************************************************)
EXTENDS Integers, Sequences, FiniteSets

CONSTANTS Pages,     \* pages the rows fill
          MaxMounts, \* bound: times the grid is mounted
          MaxLoads   \* bound: loads begun or about to begin

ASSUME GridAssumption == Pages \in Nat \ {0} /\ MaxMounts \in Nat /\ MaxLoads \in Nat

NoLoad == 0
NoPage == 0

VARIABLES
  mounted,   \* whether the grid is on screen
  mounts,    \* how often it has been mounted
  core,      \* the load state of the core
  owner,     \* the run of the first load that owns it
  runs,      \* runs of the first load
  refreshes, \* refreshes, the latest last
  loads,     \* loads
  page,      \* the page the pager is on
  shown,     \* the page whose rows the storage holds, or NoPage
  typing,    \* whether the search waits out its debounce
  byHand     \* whether the consumer called abort()

gvars == <<mounted, mounts, core, owner, runs, refreshes, loads, page, shown, typing, byHand>>

-----------------------------------------------------------------------------
(* Loads *)

\* The instance, before its load context is collected.
NewLoad == [at |-> "context", page |-> NoPage, aborted |-> FALSE]

\* getLoadInstances
Instances == {l \in DOMAIN loads : loads[l].at \notin {"loaded", "failed"}}

\* abort
Aborted == [l \in DOMAIN loads |->
              [loads[l] EXCEPT !.aborted = @ \/ l \in Instances]]

Succeeded(l) == loads[l].at = "loaded"

\* Fault: an abort is thrown like any failure.
CutOffNever(l) == FALSE

\* settle: a load this service aborted counts as settled, any other failure is
\* thrown at whoever waits.
CutOff(l) == loads[l].at = "failed" /\ loads[l].aborted

LoadThrows(l) == loads[l].at = "failed" /\ ~CutOff(l)

\* Runs of the first load and refreshes whose hooks are not through.
Due     == {i \in DOMAIN runs : runs[i].at = "hooks"}
Waiting == {r \in DOMAIN refreshes : refreshes[r].load = NoLoad}

\* Bound: n more loads may begin.
MayBegin(n) == Len(loads) + Cardinality(Due) + Cardinality(Waiting) + n <= MaxLoads

\* triggerLoad
Triggered == Append(loads, NewLoad)

\* pagination and search on load:context
CollectsContext(l) ==
  /\ loads[l].at = "context"
  /\ loads' = [loads EXCEPT ![l].at = "fetch", ![l].page = page]
  /\ UNCHANGED <<mounted, mounts, core, owner, runs, refreshes, page, shown, typing, byHand>>

\* The fetch answers and the sections are replaced, whether or not the load has been
\* aborted: between the two only an abort may come, which is then one that the fetch
\* ignored.
Stores(l) ==
  /\ loads[l].at = "fetch"
  /\ loads' = [loads EXCEPT ![l].at = "stored"]
  /\ shown' = loads[l].page
  /\ UNCHANGED <<mounted, mounts, core, owner, runs, refreshes, page, typing, byHand>>

\* A load settles, after the hooks of load:success or load:error.  Of a settled load
\* only this is remembered.
LoadSettles(l, load) ==
  /\ loads' = [loads EXCEPT ![l] = load]
  /\ UNCHANGED <<mounted, mounts, core, owner, runs, refreshes, page, shown, typing, byHand>>

Succeeds(l) ==
  /\ loads[l].at = "stored"
  /\ LoadSettles(l, [NewLoad EXCEPT !.at = "loaded"])

\* A hook or the fetch rejects, because of an abort or not.
Fails(l) ==
  /\ l \in Instances
  /\ LoadSettles(l, [NewLoad EXCEPT !.at = "failed", !.aborted = loads[l].aborted])

LoadGoesOn(l) == CollectsContext(l) \/ Stores(l) \/ Succeeds(l) \/ Fails(l)

-----------------------------------------------------------------------------
(* Refreshes *)

\* refresh up to its hooks: it is the latest, and what is in flight is aborted.
Refreshed(resets) == Append(refreshes, [load |-> NoLoad, resets |-> resets])

Refresh(resets) ==
  /\ mounted /\ MayBegin(1)
  /\ refreshes' = Refreshed(resets)
  /\ loads' = Aborted
  /\ UNCHANGED <<mounted, mounts, core, owner, runs, page, shown, typing, byHand>>

\* The hooks of refresh go back to the first page and, if the filters are reset,
\* drop the search; then the load begins.
RefreshLoads(r) ==
  /\ r \in Waiting
  /\ refreshes' = [refreshes EXCEPT ![r].load = Len(loads) + 1]
  /\ loads' = Triggered
  /\ page' = 1
  /\ typing' = (typing /\ ~refreshes[r].resets)
  /\ UNCHANGED <<mounted, mounts, core, owner, runs, shown, byHand>>

Landed(r) ==
  /\ r \notin Waiting
  /\ refreshes[r].load \notin Instances
  /\ ~LoadThrows(refreshes[r].load)

Threw(r) == r \notin Waiting /\ LoadThrows(refreshes[r].load)

-----------------------------------------------------------------------------
(* The first load *)

\* The promise of a run settles: it writes the core's state if it still owns it.
RunEnds(i, state) ==
  /\ runs' = [runs EXCEPT ![i].at = "ended"]
  /\ core' = IF runs[i].owner = owner THEN state ELSE core

\* After the hooks of init the run notes the latest refresh and begins the load.
RunLoads(i) ==
  /\ i \in Due
  /\ runs' = [runs EXCEPT ![i] = [@ EXCEPT !.at = "load", !.load = Len(loads) + 1,
                                           !.followed = Len(refreshes)]]
  /\ loads' = Triggered
  /\ UNCHANGED <<mounted, mounts, core, owner, refreshes, page, shown, typing, byHand>>

\* Fault: a first load that was cut off is done.
FollowsNobody(i) == RunEnds(i, "loaded")

\* A refresh newer than the one followed last is followed, or the run is done.
Follows(i) ==
  IF runs[i].followed = Len(refreshes)
    THEN RunEnds(i, "loaded")
    ELSE /\ runs' = [runs EXCEPT ![i].at = "follows", ![i].followed = Len(refreshes)]
         /\ UNCHANGED core

RunGoesOn(i) ==
  /\ \/ /\ runs[i].at = "load" /\ Succeeded(runs[i].load)
        /\ RunEnds(i, "loaded")
     \/ /\ runs[i].at = "load" /\ CutOff(runs[i].load)
        /\ Follows(i)
     \/ /\ runs[i].at = "load" /\ LoadThrows(runs[i].load)
        /\ RunEnds(i, "error")
     \/ /\ runs[i].at = "follows" /\ Landed(runs[i].followed)
        /\ Follows(i)
     \/ /\ runs[i].at = "follows" /\ Threw(runs[i].followed)
        /\ RunEnds(i, "error")
  /\ UNCHANGED <<mounted, mounts, owner, refreshes, loads, page, shown, typing, byHand>>

\* loadPromise
Begins ==
  /\ core' = "loading"
  /\ owner' = owner + 1
  /\ runs' = Append(runs, [at |-> "hooks", load |-> NoLoad, followed |-> 0, owner |-> owner + 1])

\* The grid mounts and calls init, which leaves a first load that is done or under
\* way alone.
Mount ==
  /\ ~mounted /\ mounts < MaxMounts
  /\ mounted' = TRUE /\ mounts' = mounts + 1
  /\ IF core \in {"loaded", "loading"}
       THEN UNCHANGED <<core, owner, runs>>
       ELSE MayBegin(1) /\ Begins
  /\ UNCHANGED <<refreshes, loads, page, shown, typing, byHand>>

\* Fault: a first load that was cut off stays under way.
ResetKeepsState(cutOff) ==
  /\ core' = core
  /\ owner' = IF cutOff THEN owner + 1 ELSE owner

\* reset
Reset(cutOff) ==
  /\ core' = IF cutOff THEN "blank" ELSE core
  /\ owner' = IF cutOff THEN owner + 1 ELSE owner

\* destroy: the search in its debounce is flushed, which refreshes; then what is in
\* flight is aborted, and a first load cut off by that leaves the core idle.
Unmount ==
  /\ mounted /\ (typing => MayBegin(1))
  /\ mounted' = FALSE
  /\ refreshes' = IF typing THEN Refreshed(FALSE) ELSE refreshes
  /\ typing' = FALSE
  /\ loads' = Aborted
  /\ Reset(core = "loading" /\ Instances # {})
  /\ UNCHANGED <<mounts, runs, page, shown, byHand>>

-----------------------------------------------------------------------------
(* The pager, the search box and the consumer *)

\* setPage: before the first rows there is one page.
SetPage(p) ==
  /\ mounted /\ MayBegin(1)
  /\ p # page /\ shown # NoPage
  /\ page' = p
  /\ loads' = Triggered
  /\ UNCHANGED <<mounted, mounts, core, owner, runs, refreshes, shown, typing, byHand>>

\* The page size changes: the pager goes to page 1 first, in a change of its own
\* that loads, and loads for the new size.
SetLimit ==
  /\ mounted /\ shown # NoPage
  /\ MayBegin(IF page = 1 THEN 1 ELSE 2)
  /\ page' = 1
  /\ loads' = IF page = 1 THEN Triggered ELSE Append(Triggered, NewLoad)
  /\ UNCHANGED <<mounted, mounts, core, owner, runs, refreshes, shown, typing, byHand>>

\* updateSearch
Types ==
  /\ mounted /\ ~typing
  /\ typing' = TRUE
  /\ UNCHANGED <<mounted, mounts, core, owner, runs, refreshes, loads, page, shown, byHand>>

\* The debounce ends, or setSearch does without it.
Searches ==
  /\ mounted /\ MayBegin(1)
  /\ typing' = FALSE
  /\ refreshes' = Refreshed(FALSE)
  /\ loads' = Aborted
  /\ UNCHANGED <<mounted, mounts, core, owner, runs, page, shown, byHand>>

\* The public abort().
AbortsByHand ==
  /\ Instances # {}
  /\ loads' = Aborted
  /\ byHand' = TRUE
  /\ UNCHANGED <<mounted, mounts, core, owner, runs, refreshes, page, shown, typing>>

User ==
  \/ Mount \/ Unmount \/ SetLimit \/ Types \/ Searches \/ AbortsByHand
  \/ \E p \in 1 .. Pages : SetPage(p)
  \/ \E resets \in BOOLEAN : Refresh(resets)

GridInit ==
  /\ mounted = FALSE /\ mounts = 0 /\ core = "blank" /\ owner = 0
  /\ runs = <<>> /\ refreshes = <<>> /\ loads = <<>>
  /\ page = 1 /\ shown = NoPage /\ typing = FALSE /\ byHand = FALSE

GridNext ==
  \/ User
  \/ \E l \in DOMAIN loads : LoadGoesOn(l)
  \/ \E r \in DOMAIN refreshes : RefreshLoads(r)
  \/ \E i \in DOMAIN runs : RunLoads(i) \/ RunGoesOn(i)

GridSpec == GridInit /\ [][GridNext]_gvars

\* Hooks and fetches settle in the end, one way or the other.
GridFairSpec ==
  /\ GridSpec
  /\ \A n \in 1 .. MaxLoads :
       /\ WF_gvars(n \in DOMAIN loads /\ LoadGoesOn(n))
       /\ WF_gvars(n \in DOMAIN refreshes /\ RefreshLoads(n))
       /\ WF_gvars(n \in DOMAIN runs /\ (RunLoads(n) \/ RunGoesOn(n)))

-----------------------------------------------------------------------------
(* Properties *)

\* Every variable holds values of its type.
GridTypeOK ==
  /\ mounted \in BOOLEAN /\ mounts \in 0 .. MaxMounts
  /\ core \in {"blank", "loading", "loaded", "error"} /\ owner \in Nat
  /\ runs \in Seq([at : {"hooks", "load", "follows", "ended"}, load : 0 .. Len(loads),
                   followed : 0 .. Len(refreshes), owner : 1 .. owner])
  /\ refreshes \in Seq([load : 0 .. Len(loads), resets : BOOLEAN])
  /\ loads \in Seq([at : {"context", "fetch", "stored", "loaded", "failed"},
                    page : 0 .. Pages, aborted : BOOLEAN])
  /\ page \in 1 .. Pages /\ shown \in 0 .. Pages
  /\ typing \in BOOLEAN /\ byHand \in BOOLEAN

\* A grid that says it is loaded has had rows, whatever refreshes superseded its
\* first load and however often it was unmounted meanwhile; only an abort() of
\* the consumer's, which the documentation owns up to, can end the first load
\* with nothing.
LoadedHasRows == core = "loaded" /\ ~byHand => shown # NoPage

\* A run that loads has a load and one that follows a refresh; every mount that began
\* one made it the owner of the core, which is loading until the owner ends.
OwnerInv ==
  /\ \A i \in DOMAIN runs :
       /\ runs[i].at = "load" => runs[i].load # NoLoad
       /\ runs[i].at = "follows" => runs[i].followed # 0
       /\ runs[i].owner = owner /\ runs[i].at # "ended" => core = "loading"
  /\ \A i, j \in DOMAIN runs : runs[i].owner = runs[j].owner => i = j

\* A fetch is for a page, and what has been stored stays.
RowsInv ==
  \A l \in DOMAIN loads :
    /\ loads[l].at = "fetch" => loads[l].page # NoPage
    /\ loads[l].at \in {"stored", "loaded"} => shown # NoPage

\* What the present first load waits for, or is to follow next, has been aborted by a
\* newer refresh or by the consumer only: an unmount leaves no first load present.
CutOffInv ==
  LET n == Len(refreshes)
  IN \A i \in DOMAIN runs : runs[i].owner = owner /\ runs[i].at \in {"load", "follows"} =>
       /\ runs[i].at = "load" /\ runs[i].followed = n /\ loads[runs[i].load].aborted => byHand
       /\ /\ runs[i].at = "follows" \/ runs[i].followed < n
          /\ refreshes[n].load # NoLoad /\ loads[refreshes[n].load].aborted
          => byHand

\* The inductive invariant behind LoadedHasRows.
GridIInv == GridTypeOK /\ OwnerInv /\ RowsInv /\ CutOffInv /\ LoadedHasRows

\* The loads a run of the first load has waited for last.
Awaited(i) ==
  {runs[i].load} \cup {refreshes[r].load : r \in {runs[i].followed} \ {0}}

\* The grid shows its error view only because a load that its present first load waits
\* for failed of itself: neither an abort, by a refresh, an unmount or the consumer, nor
\* a first load that was cut off and fails late ever latches it.
AbortsAreSilent ==
  core' = "error" /\ core # "error" =>
    \E i \in DOMAIN runs :
      /\ runs[i].owner = owner
      /\ \E l \in Awaited(i) \ {NoLoad} : loads[l].at = "failed" /\ ~loads[l].aborted

\* What the grid says of its first load is so: loaded only with rows, and failed only
\* for a load that failed of itself.
CoreSaysWhatIsSo == [][LoadedHasRows' /\ AbortsAreSilent]_gvars

\* A grid on screen ends up with rows or with an error: no overlap of mounts,
\* aborts and refreshes leaves it idle or loading for good.
GridComesUp == mounted ~> core \in {"loaded", "error"} \/ ~mounted

\* What the documentation does not promise, an older answer that comes late replacing
\* a newer one: once every load has succeeded, the rows are those of the
\* page the pager shows.
RowsOfThePage ==
  /\ shown # NoPage /\ Instances = {} /\ Waiting = {} /\ Due = {}
  /\ \A l \in DOMAIN loads : Succeeded(l)
  => shown = page

\* A comment of create-data-grid.ts: a second init() must not start another first
\* load beside the one that has not started yet.
FirstLoadOnce ==
  \A i, j \in DOMAIN runs :
    i # j => ~({runs[i].load, runs[j].load} \subseteq {l \in Instances : ~loads[l].aborted})
=============================================================================
