----------------------------- MODULE ChunkGraph -----------------------------
(***************************************************************************)
(* The construction of a load's chunk graph (MfeHandlerMF.createBlobUrl-   *)
(* Chain and FetchBudget): every chunk is fetched, its imports are built   *)
(* concurrently, and it is minted once they are; a chunk in construction   *)
(* is joined rather than built twice, and a cycle is refused by the        *)
(* lineage each construction carries.                                      *)
(*                                                                         *)
(* A graph g is the state one load attempt keeps: several builds work on   *)
(* it, the entry's own and one for each lazy chunk asked for later.  The   *)
(* operators return it changed.  The rewriting of sources is abstracted: a *)
(* chunk is its name and the names it imports.                             *)
(***************************************************************************)
EXTENDS Naturals, Sequences, FiniteSets, SequencesExt

CONSTANTS
  File,       \* the chunks
  Imports,    \* file -> the sequence of its static imports
  Width       \* MAX_CONCURRENT_FETCHES

ASSUME ImportsAreFiles == Imports \in [File -> Seq(File)]
ASSUME WidthIsPositive == Width \in Nat \ {0}
ASSUME FilesAreFinite == IsFiniteSet(File)

\* A map with one more entry, or another value for a key.
Put(m, key, value) == [k \in DOMAIN m \cup {key} |-> IF k = key THEN value ELSE m[k]]

(***************************************************************************)
(* g.minted  the files with a blob URL (blobUrlMap)                        *)
(* g.works   the files in construction (inFlight), each with the build it  *)
(*           belongs to, its lineage, the ancestors its imports got (kids),*)
(*           how far it is, its fetch, and what each import has come to    *)
(* g.builds  the builds: whether one has failed, its free fetch slots, who *)
(*           waits for one, and what its root has come to                  *)
(*                                                                         *)
(* A wait is "work" or "join" while the promise is unsettled, "again" when *)
(* a joined construction came to nothing, then "done", "failed" or "cycle".*)
(***************************************************************************)
NewWork(b, ancestors) ==
  [build |-> b, lineage |-> ancestors, kids |-> {}, stage |-> "new", fetch |-> 0,
   waits |-> <<>>]

NoGraph == [minted |-> {}, works |-> <<>>, builds |-> <<>>]

InFlight(g) == DOMAIN g.works

Bad == {"failed", "cycle"}

BuildOf(g, f) == g.builds[g.works[f].build]

---------------------------------------------------------------------------
(* The fetch budget of a build. *)

\* A slot at once, or a place at the end of the line.
AcquireSlot(g, f) ==
  LET b == g.works[f].build
  IN IF g.builds[b].free > 0
     THEN [g EXCEPT !.builds[b].free = @ - 1, !.works[f].stage = "slot"]
     ELSE [g EXCEPT !.builds[b].line = Append(@, f), !.works[f].stage = "line"]

\* The slot goes to whoever has waited longest, else it is free.
ReleaseSlot(g, b) ==
  LET line == g.builds[b].line
  IN IF line # <<>>
     THEN [g EXCEPT !.builds[b].line = Tail(@), !.works[Head(line)].stage = "slot"]
     ELSE [g EXCEPT !.builds[b].free = @ + 1]

---------------------------------------------------------------------------
(* A request for a chunk, by a build and under the requester's lineage:    *)
(* the graph it leaves and the wait it is answered with.                   *)

Constructs(g, b, f, ancestors) ==
  AcquireSlot([g EXCEPT !.works = Put(@, f, NewWork(b, ancestors))], f)

LineageOf(g, f) == IF f \in InFlight(g) THEN g.works[f].lineage ELSE {}

\* Fault: a joining branch does not leave its lineage behind.
RequestUnseen(g, b, f, ancestors) ==
  IF f \in g.minted THEN [graph |-> g, wait |-> "done"]
  ELSE IF f \in ancestors \cup LineageOf(g, f) THEN [graph |-> g, wait |-> "cycle"]
  ELSE IF f \in InFlight(g) THEN [graph |-> g, wait |-> "join"]
       ELSE [graph |-> Constructs(g, b, f, ancestors), wait |-> "work"]

RequestChunk(g, b, f, ancestors) ==
  IF f \in g.minted THEN [graph |-> g, wait |-> "done"]
  ELSE IF f \in ancestors \cup LineageOf(g, f) THEN [graph |-> g, wait |-> "cycle"]
  ELSE IF f \in InFlight(g)
       THEN [graph |-> [g EXCEPT !.works[f].lineage = @ \cup ancestors], wait |-> "join"]
       ELSE [graph |-> Constructs(g, b, f, ancestors), wait |-> "work"]

\* A new build asks for its root.
Opens(g, root, ancestors) ==
  LET b == Len(g.builds) + 1
      r == RequestChunk([g EXCEPT !.builds = Append(@,
                           [failed |-> FALSE, free |-> Width, line |-> <<>>,
                            root |-> root, from |-> ancestors, wait |-> "none"])],
                        b, root, ancestors)
  IN [r.graph EXCEPT !.builds[b].wait = r.wait]

---------------------------------------------------------------------------
(* The steps of a construction. *)

\* What a waiter learns of a construction that settles; "void" settles
\* without a blob URL, and only who joined has to look.
Told(wait, how) ==
  IF wait \notin {"work", "join"} THEN wait
  ELSE IF how \in Bad THEN how
  ELSE IF wait = "join" /\ how = "void" THEN "again"
  ELSE "done"

\* The entry is dropped as its promise settles.
WorkSettles(g, f, how) ==
  [g EXCEPT
     !.works = [x \in InFlight(g) \ {f} |->
       IF f \in DOMAIN g.works[x].waits
       THEN [g.works[x] EXCEPT !.waits[f] = Told(@, how)] ELSE g.works[x]],
     !.builds = [b \in DOMAIN g.builds |->
       IF g.builds[b].root = f
       THEN [g.builds[b] EXCEPT !.wait = Told(@, how)] ELSE g.builds[b]]]

\* The slot has come: the source is asked for, unless the build has failed.
SourceBegins(g, f, fetch) ==
  IF BuildOf(g, f).failed THEN WorkSettles(ReleaseSlot(g, g.works[f].build), f, "void")
  ELSE [g EXCEPT !.works[f].stage = "fetch", !.works[f].fetch = fetch]

\* The imports are requested one after the other, in one go.
FansOut(g, f) ==
  LET kids == g.works[f].lineage \cup {f}
      Ask(h, d) ==
        LET r == RequestChunk(h, h.works[f].build, d, kids)
        IN [r.graph EXCEPT !.works[f].waits = Put(@, d, r.wait)]
      asked[n \in 0..Len(Imports[f])] ==
        IF n = 0 THEN [g EXCEPT !.works[f].stage = "imports", !.works[f].kids = kids,
                                !.works[f].waits = <<>>]
        ELSE Ask(asked[n - 1], Imports[f][n])
  IN asked[Len(Imports[f])]

\* The source has come, or has not; the slot is given back first.
SourceArrives(g, f, ok) ==
  LET h == ReleaseSlot(g, g.works[f].build)
  IN IF ~ok THEN WorkSettles(h, f, "failed")
     ELSE IF BuildOf(g, f).failed THEN WorkSettles(h, f, "void")
     ELSE FansOut(h, f)

AllSettled(g, f) ==
  \A d \in DOMAIN g.works[f].waits : g.works[f].waits[d] \in {"done"} \cup Bad

\* The first import that failed, in the order they are declared, is the
\* reason; with none failed the chunk is rewritten and minted.
Completes(g, f) ==
  LET waits == g.works[f].waits
      wrong == {n \in DOMAIN Imports[f] : waits[Imports[f][n]] \in Bad}
      first == CHOOSE n \in wrong : \A m \in wrong : n <= m
  IN IF wrong # {}
     THEN WorkSettles([g EXCEPT !.builds[g.works[f].build].failed = TRUE], f,
                      waits[Imports[f][first]])
     ELSE IF BuildOf(g, f).failed THEN WorkSettles(g, f, "void")
     ELSE IF ToSet(Imports[f]) \subseteq g.minted
          THEN WorkSettles([g EXCEPT !.minted = @ \cup {f}], f, "done")
          ELSE WorkSettles(g, f, "failed")

\* Fault: a joiner takes a settled construction for a chunk that was built.
ResumesBlindly(g, b, d, ancestors) == [graph |-> g, wait |-> "done"]

\* A joiner whose construction came to nothing asks again, for its own build.
Resumes(g, b, d, ancestors) ==
  IF d \in g.minted \/ g.builds[b].failed THEN [graph |-> g, wait |-> "done"]
  ELSE RequestChunk(g, b, d, ancestors)

---------------------------------------------------------------------------
\* The chunks a chunk needs, itself among them: the least set that has the
\* imports of its members.
Reach ==
  [f \in File |->
     {x \in File : \A S \in SUBSET File :
        f \in S /\ (\A y \in S : ToSet(Imports[y]) \subseteq S) => x \in S}]

\* A chunk needs another through one of its imports.
Leads(x, f) == \E d \in ToSet(Imports[x]) : f \in Reach[d]

\* Each of two chunks needs the other.
NeedEachOther(x, y) == x \in Reach[y] /\ y \in Reach[x]

\* No three chunks need one another: what is left of circles are chunks that
\* import each other.
OnlyShortCircles ==
  \A x, y, z \in File :
    NeedEachOther(x, y) /\ NeedEachOther(y, z) => Cardinality({x, y, z}) < 3

\* Some chunk it needs imports itself, through others.
Circular(f) == \E x \in Reach[f] : Leads(x, x)

---------------------------------------------------------------------------
(* What is true of a graph at every moment, given the fetches so far. *)

Maps(f, S, T) == DOMAIN f \subseteq S /\ f \in [DOMAIN f -> T]

Waits == {"work", "join", "again", "done"} \cup Bad

Build == [failed : BOOLEAN, free : Nat, line : Seq(File), root : File,
          from : SUBSET File, wait : Waits \cup {"none"}]

WorkTyped(w) ==
  /\ w \in [build : Nat, lineage : SUBSET File, kids : SUBSET File,
            stage : {"new", "line", "slot", "fetch", "imports"}, fetch : Nat,
            waits : {w.waits}]
  /\ Maps(w.waits, File, Waits)

GraphTyped(g) ==
  /\ g \in [minted : SUBSET File, works : {g.works}, builds : Seq(Build)]
  /\ Maps(g.works, File, {g.works[f] : f \in InFlight(g)})
  /\ \A f \in InFlight(g) : WorkTyped(g.works[f])

\* The files that could not be fetched.
Broken(fetched) == {fetched[i].url : i \in {j \in DOMAIN fetched : fetched[j].status = "failed"}}

\* A wait says what its file has come to; who constructs a file is told of it
\* by the work of its own build.
WaitIsTrue(g, fetched, b, d, wait) ==
  /\ wait \in {"work", "join"} => d \in InFlight(g)
  /\ wait = "work"   => g.works[d].build = b
  /\ wait = "done"   => d \in g.minted \/ g.builds[b].failed
  /\ wait = "failed" => Reach[d] \cap Broken(fetched) # {}
  /\ wait = "cycle"  => Circular(d)

\* A lineage has nothing in it but what needs the construction, or is minted.
WorkIsTrue(g, fetched, f) ==
  LET w == g.works[f]
  IN /\ w.build \in DOMAIN g.builds
     /\ w.stage = "fetch" => w.fetch \in DOMAIN fetched /\ fetched[w.fetch].url = f
     /\ \A x \in w.lineage : x \in g.minted \/ Leads(x, f)
     /\ \A x \in w.kids : x = f \/ x \in g.minted \/ Leads(x, f)
     /\ DOMAIN w.waits \subseteq ToSet(Imports[f])
     /\ \A d \in DOMAIN w.waits : WaitIsTrue(g, fetched, w.build, d, w.waits[d])

BuildIsTrue(g, fetched, b) ==
  LET build == g.builds[b]
  IN build.from \subseteq g.minted /\ WaitIsTrue(g, fetched, b, build.root, build.wait)

GraphIsTrue(g, fetched) ==
  /\ GraphTyped(g)
  /\ \A f \in InFlight(g) : WorkIsTrue(g, fetched, f)
  /\ \A b \in DOMAIN g.builds : BuildIsTrue(g, fetched, b)

\* The constructions that a construction waits for, and who asks again for one.
WaitsFor(g, f) == {d \in DOMAIN g.works[f].waits : g.works[f].waits[d] \in {"work", "join"}}
AsksAgainFor(g, d) ==
  {f \in InFlight(g) : d \in DOMAIN g.works[f].waits /\ g.works[f].waits[d] = "again"}

\* Who waits for a construction has left it the ancestors its imports got, and
\* is not waited for by it; who asks again for one finds it without its source.
WaitsAreSeen(g) ==
  \A f \in InFlight(g) :
    /\ DOMAIN g.works[f].waits # {} => f \in g.works[f].kids
    /\ \A d \in WaitsFor(g, f) : /\ g.works[f].kids \subseteq g.works[d].lineage
                                 /\ f \notin WaitsFor(g, d)
    /\ AsksAgainFor(g, f) # {} => /\ g.works[f].stage \in {"new", "line", "slot"}
                                  /\ DOMAIN g.works[f].waits = {}

\* Who waits for its imports has asked for all of them.
AsksForAll(g, f) == g.works[f].stage = "imports" => DOMAIN g.works[f].waits = ToSet(Imports[f])

GraphInv(g, fetched) ==
  GraphIsTrue(g, fetched) /\ WaitsAreSeen(g) /\ \A f \in InFlight(g) : AsksForAll(g, f)
=============================================================================
