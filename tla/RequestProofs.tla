------------------------------ MODULE RequestProofs ------------------------------
(***************************************************************************)
(* Theorems about what is requested: the loads of extensions, for every    *)
(* import graph, every set of extensions, handlers and shared dependencies *)
(* and any number of slots, retries, attempts and fetches; the shared      *)
(* fetch cache, for every set of keys, aliases and stale times and any     *)
(* number of calls; a request of the REST protocol, for every set of       *)
(* plugins, every depth of retries and any number of changes of plugins;   *)
(* and the loads of a data grid, for any number of pages, mounts,          *)
(* refreshes and loads.                                                    *)
(***************************************************************************)
EXTENDS SharedFetchCache, RestRequests, GridLoads, ModuleLoads, OrderedSets, FiniteSetTheorems, TLAPS

-----------------------------------------------------------------------------
(* Loads of extensions: the graph of a load, and what is true of it. *)

(* The chunks a chunk needs. *)

LEMMA ImportsTyped ==
  ASSUME NEW f \in File
  PROVE  /\ ToSet(Imports[f]) \subseteq File
         /\ Imports[f] \in Seq(File)
         /\ DOMAIN Imports[f] = 1..Len(Imports[f]) /\ Len(Imports[f]) \in Nat
         /\ ToSet(Imports[f]) = {Imports[f][n] : n \in DOMAIN Imports[f]}
  <1>1. Imports[f] \in Seq(File)
    BY ImportsAreFiles
  <1> QED
    BY <1>1 DEF ToSet

LEMMA ReachFacts ==
  ASSUME NEW f \in File
  PROVE  /\ Reach[f] \subseteq File /\ f \in Reach[f]
         /\ \A x \in Reach[f] : ToSet(Imports[x]) \subseteq Reach[f]
         /\ \A S \in SUBSET File :
              f \in S /\ (\A y \in S : ToSet(Imports[y]) \subseteq S) => Reach[f] \subseteq S
  <1>1. Reach[f] = {x \in File : \A S \in SUBSET File :
                      f \in S /\ (\A y \in S : ToSet(Imports[y]) \subseteq S) => x \in S}
    BY DEF Reach
  <1>2. ASSUME NEW x \in Reach[f], NEW d \in ToSet(Imports[x])  PROVE d \in Reach[f]
    <2>1. d \in File
      BY <1>1, <1>2, ImportsTyped
    <2>2. ASSUME NEW S \in SUBSET File, f \in S, \A y \in S : ToSet(Imports[y]) \subseteq S
          PROVE  d \in S
      BY <1>1, <1>2, <2>2
    <2> QED
      BY <1>1, <2>1, <2>2
  <1> QED
    BY <1>1, <1>2

LEMMA ReachOn ==
  ASSUME NEW f \in File, NEW x \in Reach[f]
  PROVE  Reach[x] \subseteq Reach[f]
  <1>1. x \in File /\ Reach[f] \in SUBSET File
    BY ReachFacts
  <1> QED
    BY <1>1, ReachFacts

LEMMA LeadsOn ==
  ASSUME NEW x \in File, NEW f \in File, NEW d \in ToSet(Imports[f]), Leads(x, f)
  PROVE  Leads(x, d)
  <1>1. PICK e \in ToSet(Imports[x]) : f \in Reach[e]
    BY DEF Leads
  <1>2. e \in File
    BY ImportsTyped
  <1> QED
    BY <1>1, <1>2, ReachFacts DEF Leads

LEMMA LeadsAtOnce ==
  ASSUME NEW f \in File, NEW d \in ToSet(Imports[f])
  PROVE  d \in File /\ Leads(f, d) /\ Reach[d] \subseteq Reach[f]
  <1>1. d \in File
    BY ImportsTyped
  <1>2. d \in Reach[d] /\ d \in Reach[f]
    BY <1>1, ReachFacts
  <1> QED
    BY <1>1, <1>2, ReachOn DEF Leads

LEMMA CircularWhenLed ==
  ASSUME NEW f \in File, Leads(f, f)
  PROVE  Circular(f)
  BY ReachFacts DEF Circular

LEMMA CircularAbove ==
  ASSUME NEW f \in File, NEW d \in ToSet(Imports[f]), Circular(d)
  PROVE  Circular(f)
  BY LeadsAtOnce DEF Circular

(* Types, as sets. *)
Partial(S, T) == UNION {[D -> T] : D \in SUBSET S}

Constructions ==
  [build : Nat, lineage : SUBSET File, kids : SUBSET File,
   stage : {"new", "line", "slot", "fetch", "imports"}, fetch : Nat,
   waits : Partial(File, Waits)]

Graphs == [minted : SUBSET File, works : Partial(File, Constructions), builds : Seq(Build)]

LEMMA PartialFacts ==
  ASSUME NEW S, NEW T, NEW f
  PROVE  f \in Partial(S, T) <=> Maps(f, S, T)
  BY DEF Partial, Maps

LEMMA WorkIsTyped ==
  ASSUME NEW w
  PROVE  WorkTyped(w) <=> w \in Constructions
  <1>1. ASSUME WorkTyped(w)  PROVE w \in Constructions
    <2>1. w.waits \in Partial(File, Waits)
      BY <1>1, PartialFacts DEF WorkTyped
    <2> QED
      BY <1>1, <2>1 DEF WorkTyped, Constructions
  <1>2. ASSUME w \in Constructions  PROVE WorkTyped(w)
    <2>1. w.waits \in Partial(File, Waits)
      BY <1>2 DEF Constructions
    <2>2. Maps(w.waits, File, Waits)
      BY <2>1, PartialFacts
    <2> QED
      BY <1>2, <2>2 DEF WorkTyped, Constructions
  <1> QED
    BY <1>1, <1>2

LEMMA GraphIsTyped ==
  ASSUME NEW g
  PROVE  GraphTyped(g) <=> g \in Graphs
  <1>1. ASSUME GraphTyped(g)  PROVE g \in Graphs
    <2>1. \A f \in DOMAIN g.works : g.works[f] \in Constructions
      BY <1>1, WorkIsTyped DEF GraphTyped, InFlight
    <2>2. Maps(g.works, File, Constructions)
      BY <1>1, <2>1 DEF GraphTyped, Maps
    <2>3. g.works \in Partial(File, Constructions)
      BY <2>2, PartialFacts
    <2> QED
      BY <1>1, <2>3 DEF GraphTyped, Graphs
  <1>2. ASSUME g \in Graphs  PROVE GraphTyped(g)
    <2>1. g.works \in Partial(File, Constructions)
      BY <1>2 DEF Graphs
    <2>2. Maps(g.works, File, Constructions)
      BY <2>1, PartialFacts
    <2>3. \A f \in DOMAIN g.works : g.works[f] \in Constructions
      BY <2>2 DEF Maps
    <2>4. Maps(g.works, File, {g.works[f] : f \in InFlight(g)})
      BY <2>2 DEF Maps, InFlight
    <2>5. \A f \in InFlight(g) : WorkTyped(g.works[f])
      BY <2>3, WorkIsTyped DEF InFlight
    <2> QED
      BY <1>2, <2>4, <2>5 DEF GraphTyped, Graphs
  <1> QED
    BY <1>1, <1>2

(* What a typed graph is made of. *)
LEMMA GraphParts ==
  ASSUME NEW g, GraphTyped(g)
  PROVE  /\ g = [minted |-> g.minted, works |-> g.works, builds |-> g.builds]
         /\ g.minted \subseteq File /\ InFlight(g) \subseteq File
         /\ g.works \in [InFlight(g) -> Constructions]
         /\ g.builds \in Seq(Build)
         /\ DOMAIN g.builds = 1..Len(g.builds) /\ Len(g.builds) \in Nat
         /\ \A b \in DOMAIN g.builds : g.builds[b] \in Build
  <1>1. g \in Graphs
    BY GraphIsTyped
  <1>2. Maps(g.works, File, Constructions)
    BY <1>1, PartialFacts DEF Graphs
  <1>3. g.works \in [InFlight(g) -> Constructions] /\ InFlight(g) \subseteq File
    BY <1>2 DEF Maps, InFlight
  <1>4. g.builds \in Seq(Build) /\ g = [minted |-> g.minted, works |-> g.works, builds |-> g.builds]
    BY <1>1 DEF Graphs
  <1>5. g.minted \subseteq File
    BY <1>1 DEF Graphs
  <1> QED
    BY <1>3, <1>4, <1>5

LEMMA GraphOfParts ==
  ASSUME NEW h, NEW m \in SUBSET File, NEW D \in SUBSET File, NEW w \in [D -> Constructions],
         NEW bs \in Seq(Build), h = [minted |-> m, works |-> w, builds |-> bs]
  PROVE  /\ GraphTyped(h) /\ InFlight(h) = D
         /\ h.minted = m /\ h.works = w /\ h.builds = bs
  <1>1. Maps(w, File, Constructions)
    BY DEF Maps
  <1>2. w \in Partial(File, Constructions)
    BY <1>1, PartialFacts
  <1> QED
    BY <1>2, GraphIsTyped DEF Graphs, InFlight

-----------------------------------------------------------------------------
(* The slots a build fetches with. *)

(* A step that changes no more than how far constructions are: none of them is *)
(* taken to its fetch or its imports.                                          *)
Restaged(g, h) ==
  /\ GraphTyped(h)
  /\ h.minted = g.minted /\ InFlight(h) = InFlight(g) /\ DOMAIN h.builds = DOMAIN g.builds
  /\ \A x \in InFlight(g) :
       /\ h.works[x].build = g.works[x].build /\ h.works[x].lineage = g.works[x].lineage
       /\ h.works[x].kids = g.works[x].kids /\ h.works[x].fetch = g.works[x].fetch
       /\ h.works[x].waits = g.works[x].waits
       /\ h.works[x].stage = g.works[x].stage \/ h.works[x].stage \in {"new", "line", "slot"}
  /\ \A b \in DOMAIN g.builds :
       /\ h.builds[b].failed = g.builds[b].failed /\ h.builds[b].root = g.builds[b].root
       /\ h.builds[b].from = g.builds[b].from /\ h.builds[b].wait = g.builds[b].wait

LEMMA RestagedIsTrue ==
  ASSUME NEW g, NEW h, NEW fetched, GraphIsTrue(g, fetched), Restaged(g, h)
  PROVE  /\ GraphIsTrue(h, fetched)
         /\ \A x \in InFlight(g) : AsksForAll(g, x) => AsksForAll(h, x)
  <1>1. ASSUME NEW b, NEW d, NEW wait, b \in DOMAIN g.builds, WaitIsTrue(g, fetched, b, d, wait)
        PROVE  WaitIsTrue(h, fetched, b, d, wait)
    BY <1>1 DEF Restaged, WaitIsTrue
  <1>2. ASSUME NEW x \in InFlight(h)  PROVE WorkIsTrue(h, fetched, x)
    <2>1. WorkIsTrue(g, fetched, x)
      BY DEF GraphIsTrue, Restaged
    <2> QED
      BY <1>1, <2>1 DEF WorkIsTrue, Restaged
  <1>3. ASSUME NEW b \in DOMAIN h.builds  PROVE BuildIsTrue(h, fetched, b)
    <2>1. BuildIsTrue(g, fetched, b) /\ b \in DOMAIN g.builds
      BY DEF GraphIsTrue, Restaged
    <2> QED
      BY <1>1, <2>1 DEF BuildIsTrue, Restaged
  <1>4. \A x \in InFlight(g) : AsksForAll(g, x) => AsksForAll(h, x)
    BY DEF AsksForAll, Restaged
  <1> QED
    BY <1>2, <1>3, <1>4 DEF GraphIsTrue, Restaged

(* A construction and a build, replaced by others of their type. *)
LEMMA WorkReplaced ==
  ASSUME NEW g, GraphTyped(g), NEW f \in InFlight(g), NEW w \in Constructions
  PROVE  /\ GraphTyped([g EXCEPT !.works[f] = w])
         /\ InFlight([g EXCEPT !.works[f] = w]) = InFlight(g)
         /\ [g EXCEPT !.works[f] = w].works = [g.works EXCEPT ![f] = w]
         /\ [g EXCEPT !.works[f] = w].minted = g.minted
         /\ [g EXCEPT !.works[f] = w].builds = g.builds
  <1> DEFINE ws == [g.works EXCEPT ![f] = w]
             h  == [g EXCEPT !.works[f] = w]
  <1>1. ws \in [InFlight(g) -> Constructions]
    BY GraphParts
  <1>2. h = [minted |-> g.minted, works |-> ws, builds |-> g.builds]
    BY GraphParts
  <1> HIDE DEF ws, h
  <1>3. g.minted \in SUBSET File /\ InFlight(g) \in SUBSET File /\ g.builds \in Seq(Build)
    BY GraphParts
  <1>4. /\ GraphTyped(h) /\ InFlight(h) = InFlight(g)
        /\ h.minted = g.minted /\ h.works = ws /\ h.builds = g.builds
    BY <1>1, <1>2, <1>3, GraphOfParts
  <1> QED
    BY <1>4 DEF ws, h

LEMMA BuildReplaced ==
  ASSUME NEW g, GraphTyped(g), NEW b \in DOMAIN g.builds, NEW c \in Build
  PROVE  /\ GraphTyped([g EXCEPT !.builds[b] = c])
         /\ InFlight([g EXCEPT !.builds[b] = c]) = InFlight(g)
         /\ [g EXCEPT !.builds[b] = c].builds = [g.builds EXCEPT ![b] = c]
         /\ [g EXCEPT !.builds[b] = c].minted = g.minted
         /\ [g EXCEPT !.builds[b] = c].works = g.works
  <1> DEFINE bs == [g.builds EXCEPT ![b] = c]
             h  == [g EXCEPT !.builds[b] = c]
  <1>1. bs \in Seq(Build)
    BY GraphParts
  <1>2. h = [minted |-> g.minted, works |-> g.works, builds |-> bs]
    BY GraphParts
  <1> HIDE DEF bs, h
  <1>3. g.minted \in SUBSET File /\ InFlight(g) \in SUBSET File /\ g.works \in [InFlight(g) -> Constructions]
    BY GraphParts
  <1>4. /\ GraphTyped(h) /\ InFlight(h) = InFlight(g)
        /\ h.minted = g.minted /\ h.works = g.works /\ h.builds = bs
    BY <1>1, <1>2, <1>3, GraphOfParts
  <1> QED
    BY <1>4 DEF bs, h

(* A place in the budget of a build. *)
LEMMA AcquireFacts ==
  ASSUME NEW g, GraphTyped(g), NEW f \in InFlight(g), g.works[f].build \in DOMAIN g.builds
  PROVE  /\ Restaged(g, AcquireSlot(g, f))
         /\ \A x \in InFlight(g) \ {f} : AcquireSlot(g, f).works[x] = g.works[x]
         /\ AcquireSlot(g, f).works[f].stage \in {"line", "slot"}
  <1> DEFINE b == g.works[f].build
             c(n, l) == [g.builds[b] EXCEPT !.free = n, !.line = l]
             w(s) == [g.works[f] EXCEPT !.stage = s]
             h(n, l, s) == [[g EXCEPT !.builds[b] = c(n, l)] EXCEPT !.works[f] = w(s)]
  <1>1. g.builds[b] \in Build /\ g.works[f] \in Constructions /\ f \in File
    BY GraphParts
  <1>2. ASSUME NEW n \in Nat, NEW l \in Seq(File), NEW s \in {"line", "slot"}
        PROVE  /\ Restaged(g, h(n, l, s))
               /\ \A x \in InFlight(g) \ {f} : h(n, l, s).works[x] = g.works[x]
               /\ h(n, l, s).works[f].stage = s
    <2>1. /\ c(n, l) \in Build /\ c(n, l).failed = g.builds[b].failed /\ c(n, l).root = g.builds[b].root
          /\ c(n, l).from = g.builds[b].from /\ c(n, l).wait = g.builds[b].wait
      BY <1>1 DEF Build
    <2>2. /\ w(s) \in Constructions /\ w(s).build = g.works[f].build /\ w(s).stage = s
          /\ w(s).lineage = g.works[f].lineage /\ w(s).kids = g.works[f].kids
          /\ w(s).fetch = g.works[f].fetch /\ w(s).waits = g.works[f].waits
      BY <1>1 DEF Constructions
    <2> DEFINE k == [g EXCEPT !.builds[b] = c(n, l)]
    <2> HIDE DEF c, w
    <2>3. /\ GraphTyped(k) /\ InFlight(k) = InFlight(g) /\ k.minted = g.minted
          /\ k.builds = [g.builds EXCEPT ![b] = c(n, l)] /\ k.works = g.works
      BY <2>1, BuildReplaced
    <2> HIDE DEF k
    <2> DEFINE m == [k EXCEPT !.works[f] = w(s)]
    <2>4. /\ GraphTyped(m) /\ InFlight(m) = InFlight(g) /\ m.minted = g.minted
          /\ m.works = [g.works EXCEPT ![f] = w(s)] /\ m.builds = k.builds
      BY <2>2, <2>3, WorkReplaced
    <2>5. m = h(n, l, s)
      BY DEF k
    <2> HIDE DEF m, h
    <2>6. /\ \A x \in InFlight(g) : m.works[x] = IF x = f THEN w(s) ELSE g.works[x]
          /\ \A d \in DOMAIN g.builds : m.builds[d] = IF d = b THEN c(n, l) ELSE g.builds[d]
          /\ DOMAIN m.builds = DOMAIN g.builds
      BY <2>3, <2>4, GraphParts
    <2>7. Restaged(g, m)
      BY <2>1, <2>2, <2>4, <2>6 DEF Restaged
    <2> QED
      BY <2>2, <2>5, <2>6, <2>7
  <1>3. CASE g.builds[b].free > 0
    <2>1. g.builds[b].free - 1 \in Nat /\ g.builds[b].line \in Seq(File)
      BY <1>1, <1>3 DEF Build
    <2> SUFFICES \E n \in Nat, l \in Seq(File), s \in {"line", "slot"} : AcquireSlot(g, f) = h(n, l, s)
      <3> HIDE DEF h
      <3> QED
        BY <1>2
    <2>2. AcquireSlot(g, f) = h(g.builds[b].free - 1, g.builds[b].line, "slot")
      <3>1. g = [minted |-> g.minted, works |-> g.works, builds |-> g.builds]
        BY GraphParts
      <3>2. [g.builds[b] EXCEPT !.free = @ - 1] = c(g.builds[b].free - 1, g.builds[b].line)
        BY <1>1 DEF Build
      <3>3. AcquireSlot(g, f) = [g EXCEPT !.builds[b].free = @ - 1, !.works[f].stage = "slot"]
        BY <1>3 DEF AcquireSlot
      <3> QED
        BY <3>1, <3>2, <3>3
    <2> HIDE DEF h
    <2> QED
      BY <2>1, <2>2
  <1>4. CASE ~(g.builds[b].free > 0)
    <2>1. g.builds[b].free \in Nat /\ Append(g.builds[b].line, f) \in Seq(File)
      <3>1. g.builds[b].free \in Nat /\ g.builds[b].line \in Seq(File)
        BY <1>1 DEF Build
      <3> HIDE DEF b
      <3> QED
        BY <1>1, <3>1
    <2> SUFFICES \E n \in Nat, l \in Seq(File), s \in {"line", "slot"} : AcquireSlot(g, f) = h(n, l, s)
      <3> HIDE DEF h
      <3> QED
        BY <1>2
    <2>2. AcquireSlot(g, f) = h(g.builds[b].free, Append(g.builds[b].line, f), "line")
      <3>1. g = [minted |-> g.minted, works |-> g.works, builds |-> g.builds]
        BY GraphParts
      <3>2. [g.builds[b] EXCEPT !.line = Append(@, f)] = c(g.builds[b].free, Append(g.builds[b].line, f))
        BY <1>1 DEF Build
      <3>3. AcquireSlot(g, f) = [g EXCEPT !.builds[b].line = Append(@, f), !.works[f].stage = "line"]
        BY <1>4 DEF AcquireSlot
      <3> QED
        BY <3>1, <3>2, <3>3
    <2> HIDE DEF h
    <2> QED
      BY <2>1, <2>2
  <1> QED
    BY <1>3, <1>4

LEMMA ReleaseFacts ==
  ASSUME NEW g, GraphTyped(g), NEW b \in DOMAIN g.builds
  PROVE  Restaged(g, ReleaseSlot(g, b))
  <1> DEFINE line == g.builds[b].line
             c(n, l) == [g.builds[b] EXCEPT !.free = n, !.line = l]
             k(n, l) == [g EXCEPT !.builds[b] = c(n, l)]
  <1>1. /\ g.builds[b] \in Build /\ line \in Seq(File) /\ g.builds[b].free \in Nat
        /\ g = [minted |-> g.minted, works |-> g.works, builds |-> g.builds]
    BY GraphParts DEF Build
  <1>2. ASSUME NEW n \in Nat, NEW l \in Seq(File)
        PROVE  /\ GraphTyped(k(n, l)) /\ InFlight(k(n, l)) = InFlight(g) /\ k(n, l).minted = g.minted
               /\ k(n, l).works = g.works /\ Restaged(g, k(n, l))
    <2>1. /\ c(n, l) \in Build /\ c(n, l).failed = g.builds[b].failed /\ c(n, l).root = g.builds[b].root
          /\ c(n, l).from = g.builds[b].from /\ c(n, l).wait = g.builds[b].wait
      BY <1>1 DEF Build
    <2> HIDE DEF c
    <2>2. /\ GraphTyped(k(n, l)) /\ InFlight(k(n, l)) = InFlight(g) /\ k(n, l).minted = g.minted
          /\ k(n, l).builds = [g.builds EXCEPT ![b] = c(n, l)] /\ k(n, l).works = g.works
      BY <2>1, BuildReplaced
    <2> HIDE DEF k
    <2>3. /\ \A d \in DOMAIN g.builds : k(n, l).builds[d] = IF d = b THEN c(n, l) ELSE g.builds[d]
          /\ DOMAIN k(n, l).builds = DOMAIN g.builds
      BY <2>2, GraphParts
    <2>4. Restaged(g, k(n, l))
      BY <2>1, <2>2, <2>3 DEF Restaged
    <2> QED
      BY <2>2, <2>4
  <1>3. CASE line = <<>>
    <2>1. g.builds[b].free + 1 \in Nat
      BY <1>1
    <2>2. [g.builds[b] EXCEPT !.free = @ + 1] = c(g.builds[b].free + 1, line)
      BY <1>1 DEF Build
    <2>3. ReleaseSlot(g, b) = k(g.builds[b].free + 1, line)
      BY <1>1, <1>3, <2>2 DEF ReleaseSlot
    <2> HIDE DEF k, line
    <2> QED
      BY <1>1, <1>2, <2>1, <2>3
  <1>4. CASE line # <<>>
    <2>1. Tail(line) \in Seq(File)
      BY <1>1, <1>4
    <2> DEFINE m == k(g.builds[b].free, Tail(line))
               x == Head(line)
    <2>2. [g.builds[b] EXCEPT !.line = Tail(@)] = c(g.builds[b].free, Tail(line))
      BY <1>1 DEF Build
    <2>3. ReleaseSlot(g, b) = [m EXCEPT !.works[x].stage = "slot"]
      BY <1>1, <1>4, <2>2 DEF ReleaseSlot
    <2>4. /\ GraphTyped(m) /\ InFlight(m) = InFlight(g) /\ m.minted = g.minted
          /\ m.works = g.works /\ Restaged(g, m)
      <3> HIDE DEF k, line
      <3> QED
        BY <1>1, <1>2, <2>1
    <2> HIDE DEF m, line
    <2>5. CASE x \in InFlight(m)
      <3> DEFINE w == [m.works[x] EXCEPT !.stage = "slot"]
                 h == [m EXCEPT !.works[x] = w]
      <3>1. m.works[x] \in Constructions
        BY <2>4, <2>5, GraphParts
      <3>2. /\ w \in Constructions /\ w.build = m.works[x].build /\ w.stage = "slot"
            /\ w.lineage = m.works[x].lineage /\ w.kids = m.works[x].kids
            /\ w.fetch = m.works[x].fetch /\ w.waits = m.works[x].waits
        BY <3>1 DEF Constructions
      <3>3. ReleaseSlot(g, b) = h
        BY <2>3
      <3> HIDE DEF w, x
      <3>4. /\ GraphTyped(h) /\ InFlight(h) = InFlight(m) /\ h.minted = m.minted
            /\ h.works = [m.works EXCEPT ![x] = w] /\ h.builds = m.builds
        BY <2>4, <2>5, <3>2, WorkReplaced
      <3> HIDE DEF h
      <3>5. \A y \in InFlight(g) : h.works[y] = IF y = x THEN w ELSE m.works[y]
        BY <2>4, <3>4, GraphParts
      <3>6. Restaged(g, h)
        BY <2>4, <3>2, <3>4, <3>5 DEF Restaged
      <3> QED
        BY <3>3, <3>6
    <2>6. CASE x \notin InFlight(m)
      <3>1. m = [minted |-> m.minted, works |-> m.works, builds |-> m.builds]
        BY <2>4, GraphParts
      <3>2. [m.works EXCEPT ![x].stage = "slot"] = m.works
        BY <2>4, <2>6, GraphParts DEF InFlight
      <3>3. ReleaseSlot(g, b) = m
        BY <2>3, <3>1, <3>2
      <3> QED
        BY <2>4, <3>3
    <2> QED
      BY <2>5, <2>6
  <1> QED
    BY <1>3, <1>4

-----------------------------------------------------------------------------
(* A request for a chunk. *)

(* A request changes no construction but in its lineage and the budget; the one *)
(* it may add has not come to its imports.                                      *)
Grown(g, h) ==
  /\ GraphTyped(h)
  /\ h.minted = g.minted /\ InFlight(g) \subseteq InFlight(h) /\ DOMAIN h.builds = DOMAIN g.builds
  /\ \A x \in InFlight(g) :
       /\ h.works[x].build = g.works[x].build /\ h.works[x].kids = g.works[x].kids
       /\ h.works[x].fetch = g.works[x].fetch /\ h.works[x].waits = g.works[x].waits
       /\ h.works[x].stage = g.works[x].stage /\ g.works[x].lineage \subseteq h.works[x].lineage
  /\ \A x \in InFlight(h) \ InFlight(g) :
       h.works[x].stage \in {"line", "slot"} /\ DOMAIN h.works[x].waits = {}
  /\ \A b \in DOMAIN g.builds :
       /\ h.builds[b].failed = g.builds[b].failed /\ h.builds[b].root = g.builds[b].root
       /\ h.builds[b].from = g.builds[b].from /\ h.builds[b].wait = g.builds[b].wait

LEMMA NewWorkFacts ==
  ASSUME NEW b \in Nat, NEW ancestors \in SUBSET File
  PROVE  /\ NewWork(b, ancestors) \in Constructions
         /\ NewWork(b, ancestors).build = b /\ NewWork(b, ancestors).lineage = ancestors
         /\ NewWork(b, ancestors).kids = {} /\ NewWork(b, ancestors).stage = "new"
         /\ DOMAIN NewWork(b, ancestors).waits = {}
  <1>1. <<>> \in [{} -> Waits]
    OBVIOUS
  <1>2. <<>> \in Partial(File, Waits)
    BY <1>1 DEF Partial
  <1> QED
    BY <1>2 DEF NewWork, Constructions

(* A file in no construction is begun. *)
LEMMA ConstructsFacts ==
  ASSUME NEW g, NEW fetched, GraphIsTrue(g, fetched), NEW b \in DOMAIN g.builds,
         NEW f \in File \ InFlight(g), NEW ancestors \in SUBSET File,
         \A x \in ancestors : x \in g.minted \/ Leads(x, f)
  PROVE  /\ GraphIsTrue(Constructs(g, b, f, ancestors), fetched)
         /\ Grown(g, Constructs(g, b, f, ancestors))
         /\ f \in InFlight(Constructs(g, b, f, ancestors))
         /\ Constructs(g, b, f, ancestors).works[f].build = b
         /\ Constructs(g, b, f, ancestors).works[f].lineage = ancestors
  <1> DEFINE w  == NewWork(b, ancestors)
             ws == Put(g.works, f, w)
             h  == [g EXCEPT !.works = Put(@, f, w)]
  <1>1. /\ GraphTyped(g) /\ b \in Nat
        /\ g.minted \in SUBSET File /\ InFlight(g) \in SUBSET File /\ g.builds \in Seq(Build)
        /\ g.works \in [InFlight(g) -> Constructions]
        /\ g = [minted |-> g.minted, works |-> g.works, builds |-> g.builds]
    BY GraphParts DEF GraphIsTrue
  <1>2. /\ w \in Constructions /\ w.build = b /\ w.lineage = ancestors /\ w.kids = {}
        /\ w.stage = "new" /\ DOMAIN w.waits = {}
    BY <1>1, NewWorkFacts
  <1> HIDE DEF w
  <1>3. ws = [x \in {f} \cup InFlight(g) |-> IF x = f THEN w ELSE g.works[x]]
    BY <1>1 DEF Put
  <1>4. h = [minted |-> g.minted, works |-> ws, builds |-> g.builds]
    BY <1>1
  <1>5. Constructs(g, b, f, ancestors) = AcquireSlot(h, f)
    BY DEF Constructs, w
  <1> HIDE DEF ws, h
  <1>6. /\ ws \in [{f} \cup InFlight(g) -> Constructions] /\ ws[f] = w
        /\ \A x \in InFlight(g) : ws[x] = g.works[x]
    BY <1>1, <1>2, <1>3
  <1>7. {f} \cup InFlight(g) \in SUBSET File
    BY <1>1
  <1>8. /\ GraphTyped(h) /\ InFlight(h) = {f} \cup InFlight(g)
        /\ h.minted = g.minted /\ h.works = ws /\ h.builds = g.builds
    BY <1>1, <1>4, <1>6, <1>7, GraphOfParts
  <1>9. ASSUME NEW c \in DOMAIN g.builds, NEW d, NEW wait, WaitIsTrue(g, fetched, c, d, wait)
        PROVE  WaitIsTrue(h, fetched, c, d, wait)
    BY <1>6, <1>8, <1>9 DEF WaitIsTrue
  <1>10. ASSUME NEW x \in InFlight(h)  PROVE WorkIsTrue(h, fetched, x)
    <2>1. CASE x = f
      BY <1>2, <1>6, <1>8, <2>1 DEF WorkIsTrue
    <2>2. CASE x # f
      <3>1. x \in InFlight(g) /\ h.works[x] = g.works[x]
        BY <1>6, <1>8, <2>2
      <3>2. WorkIsTrue(g, fetched, x)
        BY <3>1 DEF GraphIsTrue
      <3> QED
        BY <1>8, <1>9, <3>1, <3>2 DEF WorkIsTrue
    <2> QED
      BY <2>1, <2>2
  <1>11. ASSUME NEW c \in DOMAIN h.builds  PROVE BuildIsTrue(h, fetched, c)
    <2>1. BuildIsTrue(g, fetched, c) /\ c \in DOMAIN g.builds
      BY <1>8 DEF GraphIsTrue
    <2> QED
      BY <1>8, <1>9, <2>1 DEF BuildIsTrue
  <1>12. GraphIsTrue(h, fetched)
    BY <1>8, <1>10, <1>11 DEF GraphIsTrue
  <1> DEFINE k == AcquireSlot(h, f)
  <1>13. /\ f \in InFlight(h) /\ h.works[f] = w /\ h.works[f].build \in DOMAIN h.builds
    BY <1>2, <1>6, <1>8
  <1>14. /\ Restaged(h, k) /\ \A x \in InFlight(h) \ {f} : k.works[x] = h.works[x]
         /\ k.works[f].stage \in {"line", "slot"}
    BY <1>8, <1>13, AcquireFacts
  <1> HIDE DEF k
  <1>15. GraphIsTrue(k, fetched)
    BY <1>12, <1>14, RestagedIsTrue
  <1>16. \A x \in InFlight(g) : x \in InFlight(h) \ {f} /\ k.works[x] = g.works[x]
    BY <1>6, <1>8, <1>14
  <1>17. /\ InFlight(k) \ InFlight(g) = {f} /\ f \in InFlight(k) /\ k.works[f].build = b
         /\ k.works[f].lineage = ancestors /\ DOMAIN k.works[f].waits = {}
    BY <1>2, <1>8, <1>13, <1>14 DEF Restaged
  <1>18. Grown(g, k)
    BY <1>8, <1>14, <1>16, <1>17 DEF Grown, Restaged
  <1> QED
    BY <1>5, <1>15, <1>17, <1>18 DEF k

(* A construction joined: its lineage takes in who waits for it. *)
LEMMA JoinedFacts ==
  ASSUME NEW g, NEW fetched, GraphIsTrue(g, fetched), NEW f \in InFlight(g),
         NEW ancestors \in SUBSET File,
         \A x \in ancestors : x \in g.minted \/ Leads(x, f)
  PROVE  LET h == [g EXCEPT !.works[f].lineage = @ \cup ancestors]
         IN /\ GraphIsTrue(h, fetched) /\ Grown(g, h) /\ InFlight(h) = InFlight(g)
            /\ ancestors \subseteq h.works[f].lineage
  <1> DEFINE w == [g.works[f] EXCEPT !.lineage = @ \cup ancestors]
             h == [g EXCEPT !.works[f].lineage = @ \cup ancestors]
  <1>1. GraphTyped(g) /\ g.works[f] \in Constructions /\ f \in File
    BY GraphParts DEF GraphIsTrue
  <1>2. /\ w \in Constructions /\ w.lineage = g.works[f].lineage \cup ancestors
        /\ w.build = g.works[f].build /\ w.stage = g.works[f].stage
        /\ w.kids = g.works[f].kids /\ w.fetch = g.works[f].fetch /\ w.waits = g.works[f].waits
    BY <1>1 DEF Constructions
  <1>3. h = [g EXCEPT !.works[f] = w]
    BY <1>1, GraphParts
  <1> HIDE DEF w, h
  <1>4. /\ GraphTyped(h) /\ InFlight(h) = InFlight(g) /\ h.works = [g.works EXCEPT ![f] = w]
        /\ h.minted = g.minted /\ h.builds = g.builds
    BY <1>1, <1>2, <1>3, WorkReplaced
  <1>5. \A x \in InFlight(g) : h.works[x] = IF x = f THEN w ELSE g.works[x]
    BY <1>1, <1>4, GraphParts
  <1>6. ASSUME NEW c \in DOMAIN g.builds, NEW d, NEW wait, WaitIsTrue(g, fetched, c, d, wait)
        PROVE  WaitIsTrue(h, fetched, c, d, wait)
    BY <1>2, <1>4, <1>5, <1>6 DEF WaitIsTrue
  <1>7. ASSUME NEW x \in InFlight(h)  PROVE WorkIsTrue(h, fetched, x)
    <2>1. WorkIsTrue(g, fetched, x)
      BY <1>4 DEF GraphIsTrue
    <2>2. /\ h.works[x].build = g.works[x].build /\ h.works[x].kids = g.works[x].kids
          /\ h.works[x].fetch = g.works[x].fetch /\ h.works[x].waits = g.works[x].waits
          /\ h.works[x].stage = g.works[x].stage
      BY <1>2, <1>4, <1>5
    <2>3. \A y \in h.works[x].lineage : y \in g.works[x].lineage \/ (x = f /\ y \in ancestors)
      BY <1>2, <1>4, <1>5
    <2> QED
      BY <1>4, <1>6, <2>1, <2>2, <2>3 DEF WorkIsTrue
  <1>8. ASSUME NEW c \in DOMAIN h.builds  PROVE BuildIsTrue(h, fetched, c)
    <2>1. BuildIsTrue(g, fetched, c) /\ c \in DOMAIN g.builds
      BY <1>4 DEF GraphIsTrue
    <2> QED
      BY <1>4, <1>6, <2>1 DEF BuildIsTrue
  <1>9. GraphIsTrue(h, fetched)
    BY <1>4, <1>7, <1>8 DEF GraphIsTrue
  <1>10. Grown(g, h)
    BY <1>2, <1>4, <1>5 DEF Grown
  <1>11. ancestors \subseteq h.works[f].lineage
    BY <1>2, <1>5
  <1> QED
    BY <1>4, <1>9, <1>10, <1>11 DEF h

LEMMA GrownItself ==
  ASSUME NEW g, GraphTyped(g)
  PROVE  Grown(g, g)
  BY DEF Grown

(* What a request is answered with is true: a cycle is refused only where there is one. *)
LEMMA RequestFacts ==
  ASSUME NEW g, NEW fetched, GraphIsTrue(g, fetched), NEW b \in DOMAIN g.builds,
         NEW f \in File, NEW ancestors \in SUBSET File,
         \A x \in ancestors : x \in g.minted \/ Leads(x, f)
  PROVE  LET r == RequestChunk(g, b, f, ancestors)
         IN /\ GraphIsTrue(r.graph, fetched) /\ Grown(g, r.graph)
            /\ r.wait \in Waits /\ WaitIsTrue(r.graph, fetched, b, f, r.wait)
            /\ r.wait # "again"
            /\ r.wait \in {"work", "join"} =>
                 f \notin ancestors /\ ancestors \subseteq r.graph.works[f].lineage
  <1> DEFINE r == RequestChunk(g, b, f, ancestors)
  <1>1. GraphTyped(g) /\ Grown(g, g)
    BY GrownItself DEF GraphIsTrue
  <1>2. CASE f \in g.minted
    <2>1. r.graph = g /\ r.wait = "done"
      BY <1>2 DEF RequestChunk
    <2> QED
      BY <1>1, <1>2, <2>1 DEF WaitIsTrue, Waits
  <1>3. CASE f \notin g.minted /\ f \in ancestors \cup LineageOf(g, f)
    <2>1. r.graph = g /\ r.wait = "cycle"
      BY <1>3 DEF RequestChunk
    <2>2. Leads(f, f)
      <3>1. CASE f \in ancestors
        BY <1>3, <3>1
      <3>2. CASE f \notin ancestors
        <4>1. f \in InFlight(g) /\ f \in g.works[f].lineage
          BY <1>3, <3>2 DEF LineageOf
        <4>2. WorkIsTrue(g, fetched, f)
          BY <4>1 DEF GraphIsTrue
        <4> QED
          BY <1>3, <4>1, <4>2 DEF WorkIsTrue
      <3> QED
        BY <3>1, <3>2
    <2>3. Circular(f)
      BY <2>2, CircularWhenLed
    <2> QED
      BY <1>1, <2>1, <2>3 DEF WaitIsTrue, Waits, Bad
  <1>4. CASE f \notin g.minted /\ f \notin ancestors \cup LineageOf(g, f) /\ f \in InFlight(g)
    <2> DEFINE h == [g EXCEPT !.works[f].lineage = @ \cup ancestors]
    <2>1. r.graph = h /\ r.wait = "join"
      BY <1>4 DEF RequestChunk
    <2>2. GraphIsTrue(h, fetched) /\ Grown(g, h) /\ ancestors \subseteq h.works[f].lineage
      BY <1>4, JoinedFacts
    <2> HIDE DEF h
    <2>3. f \in InFlight(h)
      BY <1>4, <2>2 DEF Grown
    <2> QED
      BY <1>4, <2>1, <2>2, <2>3 DEF WaitIsTrue, Waits
  <1>5. CASE f \notin g.minted /\ f \notin ancestors \cup LineageOf(g, f) /\ f \notin InFlight(g)
    <2> DEFINE h == Constructs(g, b, f, ancestors)
    <2>1. r.graph = h /\ r.wait = "work"
      BY <1>5 DEF RequestChunk
    <2>2. /\ GraphIsTrue(h, fetched) /\ Grown(g, h) /\ f \in InFlight(h)
          /\ h.works[f].build = b /\ h.works[f].lineage = ancestors
      BY <1>5, ConstructsFacts
    <2> HIDE DEF h
    <2> QED
      BY <1>5, <2>1, <2>2 DEF WaitIsTrue, Waits
  <1> QED
    BY <1>2, <1>3, <1>4, <1>5

-----------------------------------------------------------------------------
(* A construction settles. *)

Outcomes == {"done", "void"} \cup Bad

(* What a construction may settle with. *)
MaySettle(g, fetched, f, how) ==
  /\ f \in InFlight(g) /\ how \in Outcomes
  /\ how = "done"   => f \in g.minted
  /\ how = "void"   => BuildOf(g, f).failed
  /\ how = "failed" => Reach[f] \cap Broken(fetched) # {}
  /\ how = "cycle"  => Circular(f)

(* A construction that is told of another. *)
Informed(w, v, f, how) ==
  /\ v.kids = w.kids /\ v.lineage = w.lineage /\ v.stage = w.stage
  /\ DOMAIN v.waits = DOMAIN w.waits
  /\ \A d \in DOMAIN w.waits : v.waits[d] = IF d = f THEN Told(w.waits[f], how) ELSE w.waits[d]

(* Who waited for it is told what is true; "void" is told as it should be to    *)
(* the work of its own build, which has failed.                                 *)
LEMMA SettlingFacts ==
  ASSUME NEW g, NEW fetched, GraphIsTrue(g, fetched), NEW f, NEW how, MaySettle(g, fetched, f, how)
  PROVE  /\ GraphIsTrue(WorkSettles(g, f, how), fetched)
         /\ WorkSettles(g, f, how).minted = g.minted
         /\ InFlight(WorkSettles(g, f, how)) = InFlight(g) \ {f}
         /\ \A x \in InFlight(g) \ {f} : AsksForAll(g, x) => AsksForAll(WorkSettles(g, f, how), x)
         /\ \A x \in InFlight(g) \ {f} :
              Informed(g.works[x], WorkSettles(g, f, how).works[x], f, how)
  <1> DEFINE h  == WorkSettles(g, f, how)
             wk(x) == IF f \in DOMAIN g.works[x].waits
                      THEN [g.works[x] EXCEPT !.waits[f] = Told(@, how)] ELSE g.works[x]
             bd(b) == IF g.builds[b].root = f
                      THEN [g.builds[b] EXCEPT !.wait = Told(@, how)] ELSE g.builds[b]
             D  == InFlight(g) \ {f}
             ws == [x \in D |-> wk(x)]
             bs == [b \in DOMAIN g.builds |-> bd(b)]
  <1>1. /\ GraphTyped(g) /\ f \in File /\ f \in InFlight(g) /\ how \in Outcomes
        /\ g.minted \in SUBSET File /\ D \in SUBSET File
        /\ g = [minted |-> g.minted, works |-> g.works, builds |-> g.builds]
    BY GraphParts DEF GraphIsTrue, MaySettle
  <1>2. \A wait \in Waits : Told(wait, how) \in Waits
    BY <1>1 DEF Told, Waits, Outcomes, Bad
  <1>3. Told("none", how) = "none"
    BY DEF Told
  <1>4. ASSUME NEW x \in D
        PROVE  /\ wk(x) \in Constructions
               /\ wk(x).build = g.works[x].build /\ wk(x).lineage = g.works[x].lineage
               /\ wk(x).kids = g.works[x].kids /\ wk(x).stage = g.works[x].stage
               /\ wk(x).fetch = g.works[x].fetch
               /\ DOMAIN wk(x).waits = DOMAIN g.works[x].waits
               /\ \A d \in DOMAIN g.works[x].waits :
                    wk(x).waits[d] = IF d = f THEN Told(g.works[x].waits[f], how)
                                     ELSE g.works[x].waits[d]
    <2> DEFINE w == g.works[x]
               v == [w.waits EXCEPT ![f] = Told(@, how)]
    <2>1. w \in Constructions
      BY <1>1, GraphParts
    <2>2. Maps(w.waits, File, Waits)
      BY <2>1, PartialFacts DEF Constructions
    <2>3. CASE f \in DOMAIN w.waits
      <3>1. /\ DOMAIN v = DOMAIN w.waits
            /\ \A d \in DOMAIN w.waits : v[d] = IF d = f THEN Told(w.waits[f], how) ELSE w.waits[d]
        BY <2>2 DEF Maps
      <3>2. \A d \in DOMAIN w.waits : v[d] \in Waits
        BY <1>2, <2>2, <3>1 DEF Maps
      <3>3. v \in Partial(File, Waits)
        <4>1. Maps(v, File, Waits)
          BY <2>2, <3>1, <3>2 DEF Maps
        <4> QED
          BY <4>1, PartialFacts
      <3>4. wk(x) = [w EXCEPT !.waits = v]
        BY <2>3
      <3> HIDE DEF v, wk
      <3>5. /\ [w EXCEPT !.waits = v] \in Constructions
            /\ [w EXCEPT !.waits = v].build = w.build /\ [w EXCEPT !.waits = v].lineage = w.lineage
            /\ [w EXCEPT !.waits = v].kids = w.kids /\ [w EXCEPT !.waits = v].stage = w.stage
            /\ [w EXCEPT !.waits = v].fetch = w.fetch /\ [w EXCEPT !.waits = v].waits = v
        BY <2>1, <3>3 DEF Constructions
      <3> HIDE DEF w
      <3>6. /\ wk(x) \in Constructions
            /\ wk(x).build = w.build /\ wk(x).lineage = w.lineage
            /\ wk(x).kids = w.kids /\ wk(x).stage = w.stage
            /\ wk(x).fetch = w.fetch /\ wk(x).waits = v
        BY <3>4, <3>5
      <3> QED
        BY <3>1, <3>6 DEF w
    <2>4. CASE f \notin DOMAIN w.waits
      <3>1. wk(x) = w
        BY <2>4
      <3> HIDE DEF wk
      <3> QED
        BY <2>1, <2>4, <3>1
    <2> QED
      BY <2>3, <2>4
  <1>5. ASSUME NEW b \in DOMAIN g.builds
        PROVE  /\ bd(b) \in Build
               /\ bd(b).failed = g.builds[b].failed /\ bd(b).root = g.builds[b].root
               /\ bd(b).from = g.builds[b].from
               /\ bd(b).wait = IF g.builds[b].root = f THEN Told(g.builds[b].wait, how)
                               ELSE g.builds[b].wait
    <2>1. g.builds[b] \in Build
      BY <1>1, GraphParts
    <2>2. Told(g.builds[b].wait, how) \in Waits \cup {"none"}
      BY <1>2, <1>3, <2>1 DEF Build
    <2> QED
      BY <2>1, <2>2 DEF Build
  <1>6. h = [minted |-> g.minted, works |-> ws, builds |-> bs]
    <2>1. h = [g EXCEPT !.works = ws, !.builds = bs]
      BY Zenon DEF WorkSettles
    <2> HIDE DEF h, ws, bs
    <2> DEFINE k == [g EXCEPT !.works = ws]
    <2>2. k = [minted |-> g.minted, works |-> ws, builds |-> g.builds]
      BY <1>1
    <2>3. [g EXCEPT !.works = ws, !.builds = bs] = [k EXCEPT !.builds = bs]
      OBVIOUS
    <2> HIDE DEF k
    <2>4. [k EXCEPT !.builds = bs] = [minted |-> g.minted, works |-> ws, builds |-> bs]
      BY <2>2
    <2> QED
      BY <2>1, <2>3, <2>4
  <1>7. /\ ws \in [D -> Constructions] /\ \A x \in D : ws[x] = wk(x)
        /\ bs \in Seq(Build) /\ DOMAIN bs = DOMAIN g.builds /\ \A b \in DOMAIN g.builds : bs[b] = bd(b)
    <2> HIDE DEF wk, bd
    <2>1. DOMAIN g.builds = 1..Len(g.builds) /\ Len(g.builds) \in Nat
      BY <1>1, GraphParts
    <2>2. bs \in [1..Len(g.builds) -> Build]
      BY <1>5, <2>1
    <2>3. bs \in Seq(Build)
      BY <2>1, <2>2
    <2> QED
      BY <1>4, <2>3
  <1> HIDE DEF h, ws, bs, wk, bd, D
  <1>8. /\ GraphTyped(h) /\ InFlight(h) = D /\ h.minted = g.minted /\ h.works = ws /\ h.builds = bs
    BY <1>1, <1>6, <1>7, GraphOfParts
  <1>9. ASSUME NEW c \in DOMAIN g.builds, NEW d, NEW wait, d # f, WaitIsTrue(g, fetched, c, d, wait)
        PROVE  WaitIsTrue(h, fetched, c, d, wait)
    <2>1. d \in InFlight(g) => d \in D
      BY <1>9 DEF D
    <2> QED
      BY <1>4, <1>5, <1>7, <1>8, <1>9, <2>1 DEF WaitIsTrue
  <1>10. ASSUME NEW c \in DOMAIN g.builds, NEW wait, WaitIsTrue(g, fetched, c, f, wait)
         PROVE  WaitIsTrue(h, fetched, c, f, Told(wait, how))
    <2>1. h.builds[c].failed = g.builds[c].failed
      BY <1>5, <1>7, <1>8
    <2>2. CASE wait \notin {"work", "join"}
      <3>1. Told(wait, how) = wait
        BY <2>2 DEF Told
      <3> QED
        BY <1>8, <1>10, <2>1, <2>2, <3>1 DEF WaitIsTrue
    <2>3. CASE wait \in {"work", "join"} /\ how \in Bad
      <3>1. Told(wait, how) = how
        BY <2>3 DEF Told
      <3> QED
        BY <2>3, <3>1 DEF WaitIsTrue, MaySettle, Bad
    <2>4. CASE wait \in {"work", "join"} /\ how = "done"
      <3>1. Told(wait, how) = "done"
        BY <2>4 DEF Told, Bad
      <3> QED
        BY <1>8, <2>4, <3>1 DEF WaitIsTrue, MaySettle
    <2>5. CASE wait = "join" /\ how = "void"
      <3>1. Told(wait, how) = "again"
        BY <2>5 DEF Told, Bad
      <3> QED
        BY <3>1 DEF WaitIsTrue
    <2>6. CASE wait = "work" /\ how = "void"
      <3>1. Told(wait, how) = "done"
        BY <2>6 DEF Told, Bad
      <3>2. g.builds[c].failed
        BY <1>10, <2>6 DEF WaitIsTrue, MaySettle, BuildOf
      <3> QED
        BY <2>1, <3>1, <3>2 DEF WaitIsTrue
    <2> QED
      BY <1>1, <2>2, <2>3, <2>4, <2>5, <2>6 DEF Outcomes
  <1>11. ASSUME NEW x \in InFlight(h)  PROVE WorkIsTrue(h, fetched, x)
    <2>1. x \in D /\ x \in InFlight(g) /\ h.works[x] = wk(x)
      BY <1>7, <1>8 DEF D
    <2>2. WorkIsTrue(g, fetched, x)
      BY <2>1 DEF GraphIsTrue
    <2>3. ASSUME NEW d \in DOMAIN h.works[x].waits
          PROVE  WaitIsTrue(h, fetched, h.works[x].build, d, h.works[x].waits[d])
      <3>1. /\ d \in DOMAIN g.works[x].waits /\ h.works[x].build = g.works[x].build
            /\ h.works[x].waits[d] = IF d = f THEN Told(g.works[x].waits[f], how)
                                     ELSE g.works[x].waits[d]
        BY <1>4, <2>1
      <3>2. /\ g.works[x].build \in DOMAIN g.builds
            /\ WaitIsTrue(g, fetched, g.works[x].build, d, g.works[x].waits[d])
        BY <2>2, <3>1 DEF WorkIsTrue
      <3> QED
        BY <1>9, <1>10, <3>1, <3>2
    <2> QED
      BY <1>4, <1>7, <1>8, <2>1, <2>2, <2>3 DEF WorkIsTrue
  <1>12. ASSUME NEW c \in DOMAIN h.builds  PROVE BuildIsTrue(h, fetched, c)
    <2>1. c \in DOMAIN g.builds /\ h.builds[c] = bd(c)
      BY <1>7, <1>8
    <2>2. BuildIsTrue(g, fetched, c)
      BY <2>1 DEF GraphIsTrue
    <2>3. /\ g.builds[c].from \subseteq g.minted
          /\ WaitIsTrue(g, fetched, c, g.builds[c].root, g.builds[c].wait)
      BY <2>2 DEF BuildIsTrue
    <2>4. WaitIsTrue(h, fetched, c, h.builds[c].root, h.builds[c].wait)
      BY <1>5, <1>9, <1>10, <2>1, <2>3
    <2> QED
      BY <1>5, <1>8, <2>1, <2>3, <2>4 DEF BuildIsTrue
  <1>13. \A x \in D : AsksForAll(g, x) => AsksForAll(h, x)
    BY <1>4, <1>7, <1>8 DEF AsksForAll
  <1>14. GraphIsTrue(h, fetched)
    BY <1>8, <1>11, <1>12 DEF GraphIsTrue
  <1>15. \A x \in D : Informed(g.works[x], h.works[x], f, how)
    BY <1>4, <1>7, <1>8 DEF Informed
  <1> QED
    BY <1>8, <1>13, <1>14, <1>15 DEF h, D

-----------------------------------------------------------------------------
(* What a step of one construction leaves true of the graph. *)

(* Whether a construction would be true of its file. *)
TrueWork(g, fetched, f, w) ==
  /\ w \in Constructions /\ w.build = g.works[f].build
  /\ w.stage = "fetch" => w.fetch \in DOMAIN fetched /\ fetched[w.fetch].url = f
  /\ \A x \in w.lineage : x \in g.minted \/ Leads(x, f)
  /\ \A x \in w.kids : x = f \/ x \in g.minted \/ Leads(x, f)
  /\ DOMAIN w.waits \subseteq ToSet(Imports[f])
  /\ \A d \in DOMAIN w.waits : WaitIsTrue(g, fetched, w.build, d, w.waits[d])

(* One construction, or one build, is all that changes. *)
WorkBecomes(g, f, w, h) == h = [g EXCEPT !.works[f] = w]
BuildBecomes(g, b, c, h) == h = [g EXCEPT !.builds[b] = c]

LEMMA WorkRewritten ==
  ASSUME NEW g, NEW fetched, GraphIsTrue(g, fetched), NEW f \in InFlight(g), NEW w,
         TrueWork(g, fetched, f, w), NEW h, WorkBecomes(g, f, w, h)
  PROVE  /\ GraphIsTrue(h, fetched) /\ InFlight(h) = InFlight(g)
         /\ h.minted = g.minted /\ h.builds = g.builds
         /\ \A x \in InFlight(g) : h.works[x] = IF x = f THEN w ELSE g.works[x]
         /\ \A x \in InFlight(g) \ {f} : AsksForAll(g, x) => AsksForAll(h, x)
  <1>1. GraphTyped(g) /\ w \in Constructions /\ w.build = g.works[f].build
    BY DEF GraphIsTrue, TrueWork
  <1>2. /\ GraphTyped(h) /\ InFlight(h) = InFlight(g) /\ h.works = [g.works EXCEPT ![f] = w]
        /\ h.minted = g.minted /\ h.builds = g.builds
    BY <1>1, WorkReplaced DEF WorkBecomes
  <1>3. \A x \in InFlight(g) : h.works[x] = IF x = f THEN w ELSE g.works[x]
    BY <1>1, <1>2, GraphParts
  <1>4. ASSUME NEW c, NEW d, NEW wait, WaitIsTrue(g, fetched, c, d, wait)
        PROVE  WaitIsTrue(h, fetched, c, d, wait)
    BY <1>1, <1>2, <1>3, <1>4 DEF WaitIsTrue
  <1>5. ASSUME NEW x \in InFlight(h)  PROVE WorkIsTrue(h, fetched, x)
    <2>1. WorkIsTrue(g, fetched, x)
      BY <1>2 DEF GraphIsTrue
    <2>2. CASE x # f
      <3>1. h.works[x] = g.works[x]
        BY <1>2, <1>3, <2>2
      <3> QED
        BY <1>2, <1>4, <2>1, <3>1 DEF WorkIsTrue
    <2>3. CASE x = f
      <3>1. h.works[x] = w
        BY <1>3, <2>3
      <3> QED
        BY <1>2, <1>4, <2>1, <2>3, <3>1 DEF WorkIsTrue, TrueWork
    <2> QED
      BY <2>2, <2>3
  <1>6. ASSUME NEW c \in DOMAIN h.builds  PROVE BuildIsTrue(h, fetched, c)
    <2>1. BuildIsTrue(g, fetched, c) /\ c \in DOMAIN g.builds
      BY <1>2 DEF GraphIsTrue
    <2> QED
      BY <1>2, <1>4, <2>1 DEF BuildIsTrue
  <1>7. GraphIsTrue(h, fetched)
    BY <1>2, <1>5, <1>6 DEF GraphIsTrue
  <1>8. \A x \in InFlight(g) \ {f} : AsksForAll(g, x) => AsksForAll(h, x)
    BY <1>3 DEF AsksForAll
  <1> QED
    BY <1>2, <1>3, <1>7, <1>8

(* A build as it becomes: it does not unfail. *)
LEMMA BuildRewritten ==
  ASSUME NEW g, NEW fetched, GraphIsTrue(g, fetched), NEW b \in DOMAIN g.builds, NEW c \in Build,
         g.builds[b].failed => c.failed, c.from \subseteq g.minted,
         WaitIsTrue(g, fetched, b, c.root, c.wait), NEW h, BuildBecomes(g, b, c, h)
  PROVE  /\ GraphIsTrue(h, fetched) /\ InFlight(h) = InFlight(g)
         /\ h.minted = g.minted /\ h.works = g.works
         /\ DOMAIN h.builds = DOMAIN g.builds /\ h.builds[b] = c
         /\ \A x \in InFlight(g) : AsksForAll(g, x) => AsksForAll(h, x)
  <1>1. GraphTyped(g)
    BY DEF GraphIsTrue
  <1>2. /\ GraphTyped(h) /\ InFlight(h) = InFlight(g) /\ h.builds = [g.builds EXCEPT ![b] = c]
        /\ h.minted = g.minted /\ h.works = g.works
    BY <1>1, BuildReplaced DEF BuildBecomes
  <1>3. /\ DOMAIN h.builds = DOMAIN g.builds
        /\ \A d \in DOMAIN g.builds : h.builds[d] = IF d = b THEN c ELSE g.builds[d]
    BY <1>1, <1>2, GraphParts
  <1>4. ASSUME NEW e \in DOMAIN g.builds, NEW d, NEW wait, WaitIsTrue(g, fetched, e, d, wait)
        PROVE  WaitIsTrue(h, fetched, e, d, wait)
    <2>1. g.builds[e].failed => h.builds[e].failed
      BY <1>3
    <2> QED
      BY <1>2, <1>4, <2>1 DEF WaitIsTrue
  <1>5. ASSUME NEW x \in InFlight(h)  PROVE WorkIsTrue(h, fetched, x)
    <2>1. WorkIsTrue(g, fetched, x)
      BY <1>2 DEF GraphIsTrue
    <2> QED
      BY <1>2, <1>3, <1>4, <2>1 DEF WorkIsTrue
  <1>6. ASSUME NEW e \in DOMAIN h.builds  PROVE BuildIsTrue(h, fetched, e)
    <2>1. BuildIsTrue(g, fetched, e) /\ e \in DOMAIN g.builds
      BY <1>3 DEF GraphIsTrue
    <2>2. CASE e = b
      BY <1>2, <1>3, <1>4, <2>2 DEF BuildIsTrue
    <2>3. CASE e # b
      BY <1>2, <1>3, <1>4, <2>1, <2>3 DEF BuildIsTrue
    <2> QED
      BY <2>2, <2>3
  <1>7. GraphIsTrue(h, fetched)
    BY <1>2, <1>5, <1>6 DEF GraphIsTrue
  <1>8. \A x \in InFlight(g) : AsksForAll(g, x) => AsksForAll(h, x)
    BY <1>2 DEF AsksForAll
  <1> QED
    BY <1>2, <1>3, <1>7, <1>8

LEMMA FileMinted ==
  ASSUME NEW g, NEW fetched, GraphIsTrue(g, fetched), NEW f \in File
  PROVE  LET h == [g EXCEPT !.minted = @ \cup {f}]
         IN /\ GraphIsTrue(h, fetched) /\ h.minted = g.minted \cup {f}
            /\ h.works = g.works /\ h.builds = g.builds /\ InFlight(h) = InFlight(g)
            /\ \A x \in InFlight(g) : AsksForAll(g, x) => AsksForAll(h, x)
  <1> DEFINE m == g.minted \cup {f}
             h == [g EXCEPT !.minted = @ \cup {f}]
  <1>1. /\ GraphTyped(g) /\ g.minted \in SUBSET File /\ InFlight(g) \in SUBSET File
        /\ g.builds \in Seq(Build) /\ g.works \in [InFlight(g) -> Constructions]
        /\ g = [minted |-> g.minted, works |-> g.works, builds |-> g.builds]
    BY GraphParts DEF GraphIsTrue
  <1>2. h = [minted |-> m, works |-> g.works, builds |-> g.builds]
    <2>1. h = [g EXCEPT !.minted = m]
      OBVIOUS
    <2> HIDE DEF m, h
    <2>2. [g EXCEPT !.minted = m] = [minted |-> m, works |-> g.works, builds |-> g.builds]
      BY <1>1
    <2> QED
      BY <2>1, <2>2
  <1>3. m \in SUBSET File
    BY <1>1
  <1> HIDE DEF h
  <1>4. /\ GraphTyped(h) /\ InFlight(h) = InFlight(g)
        /\ h.minted = m /\ h.works = g.works /\ h.builds = g.builds
    BY <1>1, <1>2, <1>3, GraphOfParts
  <1>5. ASSUME NEW c, NEW d, NEW wait, WaitIsTrue(g, fetched, c, d, wait)
        PROVE  WaitIsTrue(h, fetched, c, d, wait)
    BY <1>4, <1>5 DEF WaitIsTrue
  <1>6. ASSUME NEW x \in InFlight(h)  PROVE WorkIsTrue(h, fetched, x)
    <2>1. WorkIsTrue(g, fetched, x)
      BY <1>4 DEF GraphIsTrue
    <2> QED
      BY <1>4, <1>5, <2>1 DEF WorkIsTrue
  <1>7. ASSUME NEW c \in DOMAIN h.builds  PROVE BuildIsTrue(h, fetched, c)
    <2>1. BuildIsTrue(g, fetched, c) /\ c \in DOMAIN g.builds
      BY <1>4 DEF GraphIsTrue
    <2> QED
      BY <1>4, <1>5, <2>1 DEF BuildIsTrue
  <1>8. GraphIsTrue(h, fetched)
    BY <1>4, <1>6, <1>7 DEF GraphIsTrue
  <1>9. \A x \in InFlight(g) : AsksForAll(g, x) => AsksForAll(h, x)
    BY <1>4 DEF AsksForAll
  <1> QED
    BY <1>4, <1>8, <1>9 DEF h

(* More fetches, and more of them answered, make nothing untrue. *)
FetchedOn(fetched, later) ==
  /\ DOMAIN fetched \subseteq DOMAIN later
  /\ \A i \in DOMAIN fetched : /\ later[i].url = fetched[i].url
                               /\ fetched[i].status = "failed" => later[i].status = "failed"

LEMMA GraphStaysTrue ==
  ASSUME NEW g, NEW fetched, NEW later, FetchedOn(fetched, later), GraphInv(g, fetched)
  PROVE  GraphInv(g, later)
  <1>1. Broken(fetched) \subseteq Broken(later)
    BY DEF Broken, FetchedOn
  <1>2. ASSUME NEW c, NEW d, NEW wait, WaitIsTrue(g, fetched, c, d, wait)
        PROVE  WaitIsTrue(g, later, c, d, wait)
    BY <1>1, <1>2 DEF WaitIsTrue
  <1>3. ASSUME NEW x \in InFlight(g)  PROVE WorkIsTrue(g, later, x)
    <2>1. WorkIsTrue(g, fetched, x)
      BY DEF GraphInv, GraphIsTrue
    <2> QED
      BY <1>2, <2>1 DEF WorkIsTrue, FetchedOn
  <1>4. ASSUME NEW c \in DOMAIN g.builds  PROVE BuildIsTrue(g, later, c)
    <2>1. BuildIsTrue(g, fetched, c)
      BY DEF GraphInv, GraphIsTrue
    <2> QED
      BY <1>2, <2>1 DEF BuildIsTrue
  <1> QED
    BY <1>3, <1>4 DEF GraphInv, GraphIsTrue

LEMMA GrownAsks ==
  ASSUME NEW g, NEW h, Grown(g, h), NEW E, \A x \in InFlight(g) \ E : AsksForAll(g, x)
  PROVE  \A x \in InFlight(h) \ E : AsksForAll(h, x)
  <1> SUFFICES ASSUME NEW x \in InFlight(h) \ E, h.works[x].stage = "imports"
               PROVE  DOMAIN h.works[x].waits = ToSet(Imports[x])
    BY DEF AsksForAll
  <1>1. x \in InFlight(g)
    BY DEF Grown
  <1> QED
    BY <1>1 DEF Grown, AsksForAll

-----------------------------------------------------------------------------
(* Who waits for a construction has been seen by it. *)

LEMMA WaitedFor ==
  ASSUME NEW g, NEW fetched, GraphIsTrue(g, fetched), NEW f \in InFlight(g)
  PROVE  WaitsFor(g, f) \subseteq InFlight(g)
  BY DEF GraphIsTrue, WorkIsTrue, WaitIsTrue, WaitsFor

(* A step that answers nobody, and begins no fetch. *)
NobodyAnswered(g, h) ==
  /\ InFlight(g) \subseteq InFlight(h)
  /\ \A x \in InFlight(g) :
       /\ h.works[x].kids = g.works[x].kids /\ h.works[x].waits = g.works[x].waits
       /\ g.works[x].lineage \subseteq h.works[x].lineage
       /\ h.works[x].stage = g.works[x].stage \/ h.works[x].stage \in {"new", "line", "slot"}
  /\ \A x \in InFlight(h) \ InFlight(g) :
       h.works[x].stage \in {"line", "slot"} /\ DOMAIN h.works[x].waits = {}

LEMMA SeenOn ==
  ASSUME NEW g, NEW h, NEW fetched, GraphIsTrue(g, fetched), WaitsAreSeen(g), NobodyAnswered(g, h)
  PROVE  /\ WaitsAreSeen(h) /\ \A f : AsksAgainFor(h, f) = AsksAgainFor(g, f)
         /\ \A f \in InFlight(g) : WaitsFor(h, f) = WaitsFor(g, f)
         /\ \A f \in InFlight(h) \ InFlight(g) : WaitsFor(h, f) = {}
  <1>1. \A f \in InFlight(g) : WaitsFor(h, f) = WaitsFor(g, f)
    BY DEF NobodyAnswered, WaitsFor
  <1>2. \A f \in InFlight(h) \ InFlight(g) : WaitsFor(h, f) = {}
    BY DEF NobodyAnswered, WaitsFor
  <1>3. ASSUME NEW f  PROVE AsksAgainFor(h, f) = AsksAgainFor(g, f)
    BY DEF NobodyAnswered, AsksAgainFor
  <1>4. ASSUME NEW f \in InFlight(h)
        PROVE  /\ DOMAIN h.works[f].waits # {} => f \in h.works[f].kids
               /\ \A d \in WaitsFor(h, f) : /\ h.works[f].kids \subseteq h.works[d].lineage
                                            /\ f \notin WaitsFor(h, d)
               /\ AsksAgainFor(h, f) # {} => /\ h.works[f].stage \in {"new", "line", "slot"}
                                             /\ DOMAIN h.works[f].waits = {}
    <2>1. CASE f \in InFlight(g)
      <3>1. /\ DOMAIN g.works[f].waits # {} => f \in g.works[f].kids
            /\ \A d \in WaitsFor(g, f) : /\ g.works[f].kids \subseteq g.works[d].lineage
                                         /\ f \notin WaitsFor(g, d)
            /\ AsksAgainFor(g, f) # {} => /\ g.works[f].stage \in {"new", "line", "slot"}
                                          /\ DOMAIN g.works[f].waits = {}
        BY <2>1 DEF WaitsAreSeen
      <3>2. WaitsFor(g, f) \subseteq InFlight(g)
        BY <2>1, WaitedFor
      <3> QED
        BY <1>1, <1>3, <2>1, <3>1, <3>2 DEF NobodyAnswered
    <2>2. CASE f \notin InFlight(g)
      BY <1>2, <2>2 DEF NobodyAnswered
    <2> QED
      BY <2>1, <2>2
  <1> QED
    BY <1>1, <1>2, <1>3, <1>4 DEF WaitsAreSeen

LEMMA SeenWhenRestaged ==
  ASSUME NEW g, NEW h, NEW fetched, GraphIsTrue(g, fetched), WaitsAreSeen(g), Restaged(g, h)
  PROVE  WaitsAreSeen(h) /\ \A f : AsksAgainFor(h, f) = AsksAgainFor(g, f)
  <1>1. NobodyAnswered(g, h)
    BY DEF Restaged, NobodyAnswered
  <1> QED
    BY <1>1, SeenOn

LEMMA SeenWhenGrown ==
  ASSUME NEW g, NEW h, NEW fetched, GraphIsTrue(g, fetched), WaitsAreSeen(g), Grown(g, h)
  PROVE  /\ WaitsAreSeen(h) /\ \A f : AsksAgainFor(h, f) = AsksAgainFor(g, f)
         /\ \A f \in InFlight(g) : WaitsFor(h, f) = WaitsFor(g, f)
         /\ \A f \in InFlight(h) \ InFlight(g) : WaitsFor(h, f) = {}
  <1>1. NobodyAnswered(g, h)
    BY DEF Grown, NobodyAnswered
  <1> QED
    BY <1>1, SeenOn

LEMMA SeenWithTheSameWorks ==
  ASSUME NEW g, NEW h, WaitsAreSeen(g), h.works = g.works
  PROVE  WaitsAreSeen(h)
  BY DEF WaitsAreSeen, WaitsFor, AsksAgainFor, InFlight

(* A construction that nobody asks again for goes on, with its waits or without any. *)
LEMMA SeenWhenOneGoesOn ==
  ASSUME NEW g, NEW h, NEW fetched, GraphIsTrue(g, fetched), WaitsAreSeen(g), NEW f \in InFlight(g),
         AsksAgainFor(g, f) = {}, NEW w, InFlight(h) = InFlight(g),
         \A x \in InFlight(g) : h.works[x] = IF x = f THEN w ELSE g.works[x],
         w.lineage = g.works[f].lineage,
         \/ w.waits = g.works[f].waits /\ w.kids = g.works[f].kids
         \/ DOMAIN w.waits = {}
  PROVE  WaitsAreSeen(h) /\ AsksAgainFor(h, f) = {} /\ \A x \in InFlight(g) : WaitsFor(h, x) \subseteq WaitsFor(g, x)
  <1>1. \A x \in InFlight(g) : /\ WaitsFor(h, x) \subseteq WaitsFor(g, x)
                               /\ h.works[x].lineage = g.works[x].lineage
    BY DEF WaitsFor
  <1>2. \A x : AsksAgainFor(h, x) \subseteq AsksAgainFor(g, x)
    BY DEF AsksAgainFor
  <1>3. ASSUME NEW x \in InFlight(h)
        PROVE  /\ DOMAIN h.works[x].waits # {} => x \in h.works[x].kids
               /\ \A d \in WaitsFor(h, x) : /\ h.works[x].kids \subseteq h.works[d].lineage
                                            /\ x \notin WaitsFor(h, d)
               /\ AsksAgainFor(h, x) # {} => /\ h.works[x].stage \in {"new", "line", "slot"}
                                             /\ DOMAIN h.works[x].waits = {}
    <2>1. /\ DOMAIN g.works[x].waits # {} => x \in g.works[x].kids
          /\ \A d \in WaitsFor(g, x) : /\ g.works[x].kids \subseteq g.works[d].lineage
                                       /\ x \notin WaitsFor(g, d)
          /\ AsksAgainFor(g, x) # {} => /\ g.works[x].stage \in {"new", "line", "slot"}
                                        /\ DOMAIN g.works[x].waits = {}
      BY DEF WaitsAreSeen
    <2>2. WaitsFor(g, x) \subseteq InFlight(g)
      BY WaitedFor
    <2>3. CASE x # f
      BY <1>1, <1>2, <2>1, <2>2, <2>3
    <2>4. CASE x = f
      <3>1. h.works[f] = w /\ AsksAgainFor(h, f) = {}
        BY <1>2
      <3>2. DOMAIN w.waits = {} => WaitsFor(h, f) = {}
        BY <3>1 DEF WaitsFor
      <3> QED
        BY <1>1, <2>1, <2>2, <2>4, <3>1, <3>2
    <2> QED
      BY <2>3, <2>4
  <1> QED
    BY <1>1, <1>2, <1>3 DEF WaitsAreSeen

(* A construction settles: nobody waits for it any more. *)
LEMMA SeenWhenOneSettles ==
  ASSUME NEW g, NEW h, NEW fetched, GraphIsTrue(g, fetched), WaitsAreSeen(g), NEW f, NEW how,
         InFlight(h) = InFlight(g) \ {f}, how \in Outcomes,
         \A x \in InFlight(h) : Informed(g.works[x], h.works[x], f, how)
  PROVE  WaitsAreSeen(h)
  <1>1. \A wait : Told(wait, how) \notin {"work", "join"}
    BY DEF Told, Outcomes, Bad
  <1>2. ASSUME NEW x \in InFlight(h)  PROVE WaitsFor(h, x) = WaitsFor(g, x) \ {f}
    <2>1. Informed(g.works[x], h.works[x], f, how)
      OBVIOUS
    <2> QED
      BY <1>1, <2>1 DEF Informed, WaitsFor
  <1>3. ASSUME NEW d, d # f  PROVE AsksAgainFor(h, d) \subseteq AsksAgainFor(g, d)
    BY <1>3 DEF Informed, AsksAgainFor
  <1>4. ASSUME NEW x \in InFlight(h)
        PROVE  /\ DOMAIN h.works[x].waits # {} => x \in h.works[x].kids
               /\ \A d \in WaitsFor(h, x) : /\ h.works[x].kids \subseteq h.works[d].lineage
                                            /\ x \notin WaitsFor(h, d)
               /\ AsksAgainFor(h, x) # {} => /\ h.works[x].stage \in {"new", "line", "slot"}
                                             /\ DOMAIN h.works[x].waits = {}
    <2>1. /\ DOMAIN g.works[x].waits # {} => x \in g.works[x].kids
          /\ \A d \in WaitsFor(g, x) : /\ g.works[x].kids \subseteq g.works[d].lineage
                                       /\ x \notin WaitsFor(g, d)
          /\ AsksAgainFor(g, x) # {} => /\ g.works[x].stage \in {"new", "line", "slot"}
                                        /\ DOMAIN g.works[x].waits = {}
      BY DEF WaitsAreSeen
    <2>2. WaitsFor(g, x) \subseteq InFlight(g) /\ x # f
      BY WaitedFor
    <2>3. \A d \in WaitsFor(h, x) : d \in InFlight(h) /\ d \in WaitsFor(g, x)
      BY <1>2, <2>2
    <2>4. /\ h.works[x].kids = g.works[x].kids /\ h.works[x].stage = g.works[x].stage
          /\ DOMAIN h.works[x].waits = DOMAIN g.works[x].waits
          /\ \A d \in InFlight(h) : h.works[d].lineage = g.works[d].lineage
      BY DEF Informed
    <2> QED
      BY <1>2, <1>3, <2>1, <2>2, <2>3, <2>4
  <1> QED
    BY <1>4 DEF WaitsAreSeen

(* A wait of a construction, answered. *)
OneIsAnswered(g, f, d, wait, h) ==
  /\ InFlight(h) = InFlight(g) /\ \A x \in InFlight(g) \ {f} : h.works[x] = g.works[x]
  /\ h.works[f].kids = g.works[f].kids /\ h.works[f].lineage = g.works[f].lineage
  /\ h.works[f].stage = g.works[f].stage
  /\ DOMAIN h.works[f].waits = DOMAIN g.works[f].waits \cup {d} /\ h.works[f].waits[d] = wait
  /\ \A e \in DOMAIN g.works[f].waits : e # d => h.works[f].waits[e] = g.works[f].waits[e]

LEMMA SeenWhenOneIsAnswered ==
  ASSUME NEW g, NEW h, NEW fetched, GraphIsTrue(g, fetched), WaitsAreSeen(g), NEW f \in InFlight(g),
         NEW d, NEW wait, OneIsAnswered(g, f, d, wait, h), wait # "again",
         f \in g.works[f].kids, AsksAgainFor(g, f) = {},
         wait \in {"work", "join"} => /\ d \in InFlight(g) /\ d # f
                                      /\ g.works[f].kids \subseteq g.works[d].lineage
                                      /\ f \notin WaitsFor(g, d)
  PROVE  /\ WaitsAreSeen(h) /\ AsksAgainFor(h, f) = {}
         /\ \A x \in InFlight(h) : f \in WaitsFor(h, x) => f \in WaitsFor(g, x)
  <1>1. \A x \in InFlight(g) \ {f} : WaitsFor(h, x) = WaitsFor(g, x)
    BY DEF OneIsAnswered, WaitsFor
  <1>2. \A e \in WaitsFor(h, f) : e \in WaitsFor(g, f) \/ (e = d /\ wait \in {"work", "join"})
    BY DEF OneIsAnswered, WaitsFor
  <1>3. \A x : AsksAgainFor(h, x) \subseteq AsksAgainFor(g, x)
    BY DEF OneIsAnswered, AsksAgainFor
  <1>4. \A x \in InFlight(g) : /\ h.works[x].kids = g.works[x].kids
                               /\ h.works[x].lineage = g.works[x].lineage
                               /\ h.works[x].stage = g.works[x].stage
    BY DEF OneIsAnswered
  <1>5. \A x \in InFlight(g) :
          /\ DOMAIN g.works[x].waits # {} => x \in g.works[x].kids
          /\ \A e \in WaitsFor(g, x) : /\ g.works[x].kids \subseteq g.works[e].lineage
                                       /\ x \notin WaitsFor(g, e)
          /\ AsksAgainFor(g, x) # {} => /\ g.works[x].stage \in {"new", "line", "slot"}
                                        /\ DOMAIN g.works[x].waits = {}
    BY DEF WaitsAreSeen
  <1>6. \A x \in InFlight(g) : WaitsFor(g, x) \subseteq InFlight(g)
    BY WaitedFor
  <1>7. ASSUME NEW x \in InFlight(h), NEW e \in WaitsFor(h, x)
        PROVE  h.works[x].kids \subseteq h.works[e].lineage /\ x \notin WaitsFor(h, e)
    <2>1. x \in InFlight(g)
      BY DEF OneIsAnswered
    <2>2. CASE x # f
      <3>1. e \in WaitsFor(g, x) /\ e \in InFlight(g)
        BY <1>1, <1>6, <2>1, <2>2
      <3>2. x \notin WaitsFor(g, e) /\ h.works[x].kids \subseteq h.works[e].lineage
        BY <1>4, <1>5, <2>1, <3>1
      <3>3. CASE e # f
        BY <1>1, <3>1, <3>2, <3>3
      <3>4. CASE e = f
        <4>1. x \in WaitsFor(h, f) => x = d /\ wait \in {"work", "join"}
          BY <1>2, <3>2, <3>4
        <4> QED
          BY <3>1, <3>2, <3>4, <4>1
      <3> QED
        BY <3>3, <3>4
    <2>3. CASE x = f
      <3>1. e \in InFlight(g) /\ e # f
        BY <1>2, <1>5, <1>6, <2>1, <2>3
      <3>2. g.works[f].kids \subseteq g.works[e].lineage /\ f \notin WaitsFor(g, e)
        BY <1>2, <1>5, <2>1, <2>3
      <3> QED
        BY <1>1, <1>4, <2>3, <3>1, <3>2
    <2> QED
      BY <2>2, <2>3
  <1>8. ASSUME NEW x \in InFlight(h)
        PROVE  /\ DOMAIN h.works[x].waits # {} => x \in h.works[x].kids
               /\ AsksAgainFor(h, x) # {} => /\ h.works[x].stage \in {"new", "line", "slot"}
                                             /\ DOMAIN h.works[x].waits = {}
    <2>1. x \in InFlight(g)
      BY DEF OneIsAnswered
    <2>2. CASE x = f
      BY <1>3, <1>4, <2>1, <2>2
    <2>3. CASE x # f
      <3>1. h.works[x] = g.works[x]
        BY <2>1, <2>3 DEF OneIsAnswered
      <3> QED
        BY <1>3, <1>5, <2>1, <3>1
    <2> QED
      BY <2>2, <2>3
  <1>9. \A x \in InFlight(h) : f \in WaitsFor(h, x) => f \in WaitsFor(g, x)
    BY <1>1, <1>2 DEF OneIsAnswered
  <1> QED
    BY <1>3, <1>7, <1>8, <1>9 DEF WaitsAreSeen

-----------------------------------------------------------------------------
(* A wait of a construction as it is answered. *)
WithAnswer(g, f, d, wait) == [g EXCEPT !.works[f].waits = Put(@, d, wait)]

LEMMA WaitAnswered ==
  ASSUME NEW g, NEW fetched, GraphIsTrue(g, fetched), NEW f \in InFlight(g),
         NEW d \in ToSet(Imports[f]), NEW wait \in Waits,
         WaitIsTrue(g, fetched, g.works[f].build, d, wait)
  PROVE  LET h == WithAnswer(g, f, d, wait)
         IN /\ GraphIsTrue(h, fetched) /\ InFlight(h) = InFlight(g)
            /\ h.minted = g.minted /\ h.builds = g.builds
            /\ h.works[f].build = g.works[f].build /\ h.works[f].kids = g.works[f].kids
            /\ h.works[f].stage = g.works[f].stage
            /\ DOMAIN h.works[f].waits = DOMAIN g.works[f].waits \cup {d}
            /\ \A x \in InFlight(g) \ {f} : AsksForAll(g, x) => AsksForAll(h, x)
            /\ OneIsAnswered(g, f, d, wait, h)
  <1> DEFINE W == Put(g.works[f].waits, d, wait)
             w == [g.works[f] EXCEPT !.waits = W]
             h == WithAnswer(g, f, d, wait)
             k == [g EXCEPT !.works[f] = w]
  <1>1. /\ GraphTyped(g) /\ g.works[f] \in Constructions /\ f \in File
        /\ g = [minted |-> g.minted, works |-> g.works, builds |-> g.builds]
    BY GraphParts DEF GraphIsTrue
  <1>2. d \in File
    BY <1>1, ImportsTyped
  <1>3. g.works[f].waits \in Partial(File, Waits)
    BY <1>1 DEF Constructions
  <1>4. Maps(g.works[f].waits, File, Waits)
    BY <1>3, PartialFacts
  <1>5. /\ Maps(W, File, Waits) /\ DOMAIN W = DOMAIN g.works[f].waits \cup {d} /\ W[d] = wait
        /\ \A e \in DOMAIN g.works[f].waits : e # d => W[e] = g.works[f].waits[e]
    BY <1>2, <1>4 DEF Put, Maps
  <1>6. h = k
    BY DEF WithAnswer
  <1> HIDE DEF W, h
  <1>7. W \in Partial(File, Waits)
    BY <1>5, PartialFacts
  <1>8. /\ w \in Constructions /\ w.build = g.works[f].build /\ w.kids = g.works[f].kids
        /\ w.stage = g.works[f].stage /\ w.fetch = g.works[f].fetch
        /\ w.lineage = g.works[f].lineage /\ w.waits = W
    BY <1>1, <1>7 DEF Constructions
  <1>9. WorkIsTrue(g, fetched, f)
    BY DEF GraphIsTrue
  <1> HIDE DEF w
  <1>10. DOMAIN w.waits \subseteq ToSet(Imports[f])
    BY <1>5, <1>8, <1>9 DEF WorkIsTrue
  <1>11. ASSUME NEW e \in DOMAIN w.waits  PROVE WaitIsTrue(g, fetched, w.build, e, w.waits[e])
    <2>1. CASE e = d
      BY <1>5, <1>8, <2>1
    <2>2. CASE e # d
      BY <1>5, <1>8, <1>9, <2>2 DEF WorkIsTrue
    <2> QED
      BY <2>1, <2>2
  <1>12. TrueWork(g, fetched, f, w)
    BY <1>8, <1>9, <1>10, <1>11 DEF WorkIsTrue, TrueWork
  <1>13. WorkBecomes(g, f, w, k)
    BY DEF WorkBecomes
  <1> HIDE DEF k
  <1>14. /\ GraphIsTrue(k, fetched) /\ InFlight(k) = InFlight(g)
         /\ k.minted = g.minted /\ k.builds = g.builds
         /\ \A x \in InFlight(g) : k.works[x] = IF x = f THEN w ELSE g.works[x]
         /\ \A x \in InFlight(g) \ {f} : AsksForAll(g, x) => AsksForAll(k, x)
    BY <1>12, <1>13, WorkRewritten
  <1>15. OneIsAnswered(g, f, d, wait, k)
    BY <1>5, <1>8, <1>14 DEF OneIsAnswered
  <1> QED
    BY <1>5, <1>6, <1>8, <1>14, <1>15 DEF h

(* An import is asked for, under the lineage of who asks. *)
AsksFor(g, f, d) ==
  LET r == RequestChunk(g, g.works[f].build, d, g.works[f].kids)
  IN WithAnswer(r.graph, f, d, r.wait)

LEMMA KidsLead ==
  ASSUME NEW g, NEW fetched, GraphIsTrue(g, fetched), NEW f \in InFlight(g),
         NEW d \in ToSet(Imports[f])
  PROVE  /\ g.works[f].kids \in SUBSET File /\ g.works[f].build \in DOMAIN g.builds
         /\ \A x \in g.works[f].kids : x \in g.minted \/ Leads(x, d)
  <1>1. g.works[f] \in Constructions /\ f \in File
    BY GraphParts DEF GraphIsTrue
  <1>2. g.works[f].kids \in SUBSET File
    BY <1>1 DEF Constructions
  <1>3. WorkIsTrue(g, fetched, f)
    BY DEF GraphIsTrue
  <1>4. ASSUME NEW x \in g.works[f].kids, x \notin g.minted  PROVE Leads(x, d)
    <2>1. x = f \/ Leads(x, f)
      BY <1>3, <1>4 DEF WorkIsTrue
    <2> QED
      BY <1>1, <1>2, <2>1, LeadsOn, LeadsAtOnce
  <1> QED
    BY <1>2, <1>3, <1>4 DEF WorkIsTrue

LEMMA ChildrenAskedFacts ==
  ASSUME NEW g, NEW fetched, GraphIsTrue(g, fetched), NEW f \in InFlight(g),
         NEW d \in ToSet(Imports[f]), WaitsAreSeen(g), f \in g.works[f].kids,
         AsksAgainFor(g, f) = {},
         d \in InFlight(g) /\ f \in WaitsFor(g, d) => d \in g.works[f].kids
  PROVE  LET h == AsksFor(g, f, d)
         IN /\ WaitsAreSeen(h) /\ AsksAgainFor(h, f) = {}
            /\ \A x \in InFlight(h) : f \in WaitsFor(h, x) => x \in InFlight(g) /\ f \in WaitsFor(g, x)
            /\ GraphIsTrue(h, fetched) /\ f \in InFlight(h)
            /\ h.minted = g.minted /\ DOMAIN h.builds = DOMAIN g.builds
            /\ h.works[f].build = g.works[f].build /\ h.works[f].kids = g.works[f].kids
            /\ h.works[f].stage = g.works[f].stage
            /\ DOMAIN h.works[f].waits = DOMAIN g.works[f].waits \cup {d}
            /\ (\A x \in InFlight(g) \ {f} : AsksForAll(g, x))
                 => \A x \in InFlight(h) \ {f} : AsksForAll(h, x)
  <1> DEFINE r == RequestChunk(g, g.works[f].build, d, g.works[f].kids)
             h == WithAnswer(r.graph, f, d, r.wait)
  <1>1. d \in File
    BY GraphParts, ImportsTyped DEF GraphIsTrue
  <1>2. /\ g.works[f].kids \in SUBSET File /\ g.works[f].build \in DOMAIN g.builds
        /\ \A x \in g.works[f].kids : x \in g.minted \/ Leads(x, d)
    BY KidsLead
  <1>3. /\ GraphIsTrue(r.graph, fetched) /\ Grown(g, r.graph)
        /\ r.wait \in Waits /\ WaitIsTrue(r.graph, fetched, g.works[f].build, d, r.wait)
        /\ r.wait # "again"
        /\ r.wait \in {"work", "join"} =>
             d \notin g.works[f].kids /\ g.works[f].kids \subseteq r.graph.works[d].lineage
    BY <1>1, <1>2, RequestFacts
  <1> HIDE DEF r
  <1>4. /\ f \in InFlight(r.graph) /\ r.graph.works[f].build = g.works[f].build
        /\ r.graph.works[f].kids = g.works[f].kids /\ r.graph.works[f].stage = g.works[f].stage
        /\ r.graph.works[f].waits = g.works[f].waits
        /\ r.graph.minted = g.minted /\ DOMAIN r.graph.builds = DOMAIN g.builds
    BY <1>3 DEF Grown
  <1>5. WaitIsTrue(r.graph, fetched, r.graph.works[f].build, d, r.wait)
    BY <1>3, <1>4
  <1>6. /\ GraphIsTrue(h, fetched) /\ InFlight(h) = InFlight(r.graph)
        /\ h.minted = r.graph.minted /\ h.builds = r.graph.builds
        /\ h.works[f].build = r.graph.works[f].build /\ h.works[f].kids = r.graph.works[f].kids
        /\ h.works[f].stage = r.graph.works[f].stage
        /\ DOMAIN h.works[f].waits = DOMAIN r.graph.works[f].waits \cup {d}
        /\ \A x \in InFlight(r.graph) \ {f} : AsksForAll(r.graph, x) => AsksForAll(h, x)
        /\ OneIsAnswered(r.graph, f, d, r.wait, h)
    BY <1>3, <1>4, <1>5, WaitAnswered
  <1> HIDE DEF h
  <1>8. /\ WaitsAreSeen(r.graph) /\ AsksAgainFor(r.graph, f) = {}
        /\ \A x \in InFlight(g) : WaitsFor(r.graph, x) = WaitsFor(g, x)
        /\ \A x \in InFlight(r.graph) \ InFlight(g) : WaitsFor(r.graph, x) = {}
    <2>1. /\ WaitsAreSeen(r.graph) /\ \A x : AsksAgainFor(r.graph, x) = AsksAgainFor(g, x)
          /\ \A x \in InFlight(g) : WaitsFor(r.graph, x) = WaitsFor(g, x)
          /\ \A x \in InFlight(r.graph) \ InFlight(g) : WaitsFor(r.graph, x) = {}
      BY <1>3, SeenWhenGrown
    <2> QED
      BY <2>1
  <1>9. r.wait \in {"work", "join"} => /\ d \in InFlight(r.graph) /\ d # f
                                       /\ r.graph.works[f].kids \subseteq r.graph.works[d].lineage
                                       /\ f \notin WaitsFor(r.graph, d)
    <2> SUFFICES ASSUME r.wait \in {"work", "join"}
                 PROVE  /\ d \in InFlight(r.graph) /\ d # f
                        /\ r.graph.works[f].kids \subseteq r.graph.works[d].lineage
                        /\ f \notin WaitsFor(r.graph, d)
      OBVIOUS
    <2>1. d \in InFlight(r.graph)
      BY <1>3 DEF WaitIsTrue
    <2>2. d \notin g.works[f].kids /\ g.works[f].kids \subseteq r.graph.works[d].lineage
      BY <1>3
    <2> QED
      BY <1>4, <1>8, <2>1, <2>2
  <1>10. /\ WaitsAreSeen(h) /\ AsksAgainFor(h, f) = {}
         /\ \A x \in InFlight(h) : f \in WaitsFor(h, x) => f \in WaitsFor(r.graph, x)
    BY <1>3, <1>4, <1>6, <1>8, <1>9, SeenWhenOneIsAnswered
  <1>11. \A x \in InFlight(h) : f \in WaitsFor(h, x) => x \in InFlight(g) /\ f \in WaitsFor(g, x)
    BY <1>6, <1>8, <1>10
  <1>7. (\A x \in InFlight(g) \ {f} : AsksForAll(g, x))
          => \A x \in InFlight(r.graph) \ {f} : AsksForAll(r.graph, x)
    BY <1>3, GrownAsks
  <1> QED
    BY <1>4, <1>6, <1>7, <1>10, <1>11 DEF AsksFor, h, r

(* A construction that has its source asks for its imports, one after the other. *)
LEMMA FansOutFacts ==
  ASSUME NEW g, NEW fetched, GraphIsTrue(g, fetched), NEW f \in InFlight(g),
         \A x \in InFlight(g) \ {f} : AsksForAll(g, x), WaitsAreSeen(g), AsksAgainFor(g, f) = {}
  PROVE  GraphInv(FansOut(g, f), fetched) /\ FansOut(g, f).minted = g.minted
  <1> DEFINE N == Len(Imports[f])
             kids == g.works[f].lineage \cup {f}
             Ask(h, d) ==
               LET r == RequestChunk(h, h.works[f].build, d, kids)
               IN [r.graph EXCEPT !.works[f].waits = Put(@, d, r.wait)]
             outset == [g EXCEPT !.works[f].stage = "imports", !.works[f].kids = kids,
                                 !.works[f].waits = <<>>]
             OneMore(s, n) == IF n = 0 THEN outset ELSE Ask(s[n - 1], Imports[f][n])
             Taken(n) == \E s : s = [i \in 0..n |-> OneMore(s, i)]
             steps[n \in 0..Len(Imports[f])] ==
               IF n = 0 THEN outset ELSE Ask(steps[n - 1], Imports[f][n])
  <1>1. /\ GraphTyped(g) /\ f \in File /\ g.works[f] \in Constructions
        /\ N \in Nat /\ Imports[f] \in Seq(File) /\ DOMAIN Imports[f] = 1..N
        /\ ToSet(Imports[f]) = {Imports[f][n] : n \in 1..N}
    <2>1. GraphTyped(g) /\ f \in File /\ g.works[f] \in Constructions
      BY GraphParts DEF GraphIsTrue
    <2> QED
      BY <2>1, ImportsTyped
  <1>2. FansOut(g, f) = steps[N]
    BY DEF FansOut
  <1> HIDE DEF Ask, outset, N
  <1>3. ASSUME NEW n \in Nat  PROVE Taken(n)
    <2> DEFINE Missing == {m \in Nat : ~Taken(m)}
    <2>1. SUFFICES ASSUME Missing # {}  PROVE FALSE
      OBVIOUS
    <2>2. PICK m \in Missing : \A y \in Missing : m <= y
      <3> HIDE DEF Taken
      <3> QED
        BY <2>1, LeastNumber
    <2>3. m \in Nat /\ ~Taken(m) /\ (m # 0 => m - 1 \in Nat /\ Taken(m - 1))
      <3> HIDE DEF Taken
      <3>1. m \in Nat /\ ~Taken(m)
        OBVIOUS
      <3> QED
        BY <2>2, <3>1
    <2> HIDE DEF Missing
    <2>4. CASE m = 0
      <3> DEFINE s == [i \in 0..0 |-> outset]
      <3>1. s = [i \in 0..m |-> OneMore(s, i)]
        BY <2>4
      <3> QED
        BY <2>3, <3>1
    <2>5. CASE m # 0
      <3>1. PICK s : s = [i \in 0..m - 1 |-> OneMore(s, i)]
        BY <2>3, <2>5
      <3> DEFINE h == [i \in 0..m |-> IF i = m THEN OneMore(s, m) ELSE s[i]]
      <3>2. ASSUME NEW i \in 0..m  PROVE h[i] = OneMore(h, i)
        <4>1. m \in Nat /\ i \in Nat /\ i <= m
          BY <2>3
        <4>2. h[i] = OneMore(s, i)
          <5>1. CASE i = m
            BY <5>1
          <5>2. CASE i # m
            <6>1. i \in 0..m - 1
              BY <4>1, <5>2
            <6>2. s[i] = OneMore(s, i)
              <7> HIDE DEF OneMore
              <7> QED
                BY <3>1, <6>1
            <6> HIDE DEF OneMore
            <6> QED
              BY <5>2, <6>2
          <5> QED
            BY <5>1, <5>2
        <4>3. i # 0 => h[i - 1] = s[i - 1]
          BY <4>1
        <4> QED
          BY <4>2, <4>3
      <3> HIDE DEF h
      <3>3. h = [i \in 0..m |-> h[i]]
        BY DEF h
      <3>4. h = [i \in 0..m |-> OneMore(h, i)]
        <4> HIDE DEF OneMore
        <4> QED
          BY <3>2, <3>3
      <3> QED
        BY <2>3, <3>4
    <2> QED
      BY <2>4, <2>5
  <1>4. steps = [n \in 0..N |-> OneMore(steps, n)]
    <2>1. Taken(N)
      BY <1>1, <1>3
    <2> QED
      BY <2>1 DEF N
  <1> HIDE DEF steps
  <1> DEFINE Fine(h, n) ==
        /\ GraphIsTrue(h, fetched) /\ f \in InFlight(h) /\ h.minted = g.minted
        /\ h.works[f].kids = kids /\ h.works[f].stage = "imports"
        /\ {Imports[f][i] : i \in 1..n} \subseteq DOMAIN h.works[f].waits
        /\ \A x \in InFlight(h) \ {f} : AsksForAll(h, x)
        /\ WaitsAreSeen(h) /\ AsksAgainFor(h, f) = {}
        /\ \A x \in InFlight(h) : f \in WaitsFor(h, x) => x \in kids
  <1>5. Fine(outset, 0)
    <2> DEFINE w == [g.works[f] EXCEPT !.stage = "imports", !.kids = kids, !.waits = <<>>]
    <2>1. kids \in SUBSET File
      BY <1>1 DEF Constructions
    <2>2. /\ w \in Constructions /\ w.build = g.works[f].build /\ w.kids = kids
          /\ w.stage = "imports" /\ w.fetch = g.works[f].fetch
          /\ w.lineage = g.works[f].lineage /\ DOMAIN w.waits = {}
      <3> HIDE DEF kids
      <3>1. <<>> \in Partial(File, Waits) /\ DOMAIN <<>> = {}
        <4>1. <<>> \in [{} -> Waits]
          OBVIOUS
        <4> QED
          BY <4>1 DEF Partial
      <3> QED
        BY <1>1, <2>1, <3>1 DEF Constructions
    <2>3. WorkBecomes(g, f, w, outset)
      BY <1>1, GraphParts DEF WorkBecomes, outset
    <2> HIDE DEF w
    <2>4. WorkIsTrue(g, fetched, f)
      BY DEF GraphIsTrue
    <2>5. TrueWork(g, fetched, f, w)
      BY <2>2, <2>4 DEF TrueWork, WorkIsTrue
    <2>6. /\ GraphIsTrue(outset, fetched) /\ InFlight(outset) = InFlight(g)
          /\ outset.minted = g.minted /\ outset.builds = g.builds
          /\ \A x \in InFlight(g) : outset.works[x] = IF x = f THEN w ELSE g.works[x]
          /\ \A x \in InFlight(g) \ {f} : AsksForAll(g, x) => AsksForAll(outset, x)
      BY <2>3, <2>5, WorkRewritten
    <2>7. outset.works[f] = w
      BY <2>6
    <2>8. {Imports[f][i] : i \in 1..0} = {}
      OBVIOUS
    <2>9. /\ WaitsAreSeen(outset) /\ AsksAgainFor(outset, f) = {}
          /\ \A x \in InFlight(g) : WaitsFor(outset, x) \subseteq WaitsFor(g, x)
      BY <2>2, <2>6, SeenWhenOneGoesOn
    <2>10. ASSUME NEW x \in InFlight(outset), f \in WaitsFor(outset, x)  PROVE x \in kids
      <3>1. x \in InFlight(g) /\ f \in WaitsFor(g, x)
        BY <2>6, <2>9, <2>10
      <3>2. x \in g.works[x].kids /\ g.works[x].kids \subseteq g.works[f].lineage
        BY <3>1 DEF WaitsAreSeen, WaitsFor
      <3> QED
        BY <3>2
    <2> HIDE DEF kids
    <2> QED
      BY <2>2, <2>6, <2>7, <2>8, <2>9, <2>10
  <1>6. ASSUME NEW h, NEW n \in 1..N, Fine(h, n - 1)  PROVE Fine(Ask(h, Imports[f][n]), n)
    <2> DEFINE d == Imports[f][n]
               k == AsksFor(h, f, d)
    <2>1. d \in ToSet(Imports[f])
      BY <1>1
    <2>2. Ask(h, d) = k
      BY <1>6 DEF Ask, AsksFor, WithAnswer
    <2> HIDE DEF d
    <2>3. /\ GraphIsTrue(k, fetched) /\ f \in InFlight(k)
          /\ k.minted = h.minted /\ DOMAIN k.builds = DOMAIN h.builds
          /\ k.works[f].build = h.works[f].build /\ k.works[f].kids = h.works[f].kids
          /\ k.works[f].stage = h.works[f].stage
          /\ DOMAIN k.works[f].waits = DOMAIN h.works[f].waits \cup {d}
          /\ (\A x \in InFlight(h) \ {f} : AsksForAll(h, x))
               => \A x \in InFlight(k) \ {f} : AsksForAll(k, x)
          /\ WaitsAreSeen(k) /\ AsksAgainFor(k, f) = {}
          /\ \A x \in InFlight(k) : f \in WaitsFor(k, x) => x \in InFlight(h) /\ f \in WaitsFor(h, x)
      <3>1. f \in h.works[f].kids /\ (d \in InFlight(h) /\ f \in WaitsFor(h, d) => d \in h.works[f].kids)
        BY <1>6
      <3>2. GraphIsTrue(h, fetched) /\ f \in InFlight(h) /\ WaitsAreSeen(h) /\ AsksAgainFor(h, f) = {}
        BY <1>6
      <3> HIDE DEF Fine, Ask, steps, outset, OneMore, kids, N
      <3> QED
        BY <2>1, <3>1, <3>2, ChildrenAskedFacts
    <2> HIDE DEF k, kids
    <2>4. \A i \in 1..n : i \in 1..n - 1 \/ i = n
      BY <1>1
    <2>5. {Imports[f][i] : i \in 1..n} \subseteq DOMAIN k.works[f].waits
      BY <1>6, <2>3, <2>4 DEF d
    <2>6. Fine(k, n)
      BY <1>6, <2>3, <2>5
    <2> HIDE DEF Fine
    <2> QED
      BY <2>2, <2>6 DEF d
  <1>7. \A n \in 0..N : Fine(steps[n], n)
    <2> HIDE DEF Fine, kids
    <2> DEFINE Missing == {m \in 0..N : ~Fine(steps[m], m)}
    <2>1. SUFFICES ASSUME Missing # {}  PROVE FALSE
      OBVIOUS
    <2>2. PICK m \in Missing : \A y \in Missing : m <= y
      <3>1. Missing \subseteq Nat
        BY <1>1
      <3> QED
        BY <2>1, <3>1, LeastNumber
    <2>3. m \in 0..N /\ ~Fine(steps[m], m)
      OBVIOUS
    <2>4. steps[m] = OneMore(steps, m)
      <3> HIDE DEF OneMore
      <3> QED
        BY <1>4, <2>3
    <2>5. m # 0
      BY <1>5, <2>3, <2>4
    <2>6. m \in 1..N /\ m - 1 \in 0..N /\ steps[m] = Ask(steps[m - 1], Imports[f][m])
      BY <1>1, <2>3, <2>4, <2>5
    <2>7. Fine(steps[m - 1], m - 1)
      BY <1>1, <2>2, <2>6
    <2> QED
      BY <1>6, <2>3, <2>6, <2>7
  <1>8. Fine(steps[N], N)
    <2> HIDE DEF Fine
    <2> QED
      BY <1>1, <1>7
  <1> DEFINE h == steps[N]
  <1>9. AsksForAll(h, f)
    <2>1. WorkIsTrue(h, fetched, f)
      BY <1>8 DEF GraphIsTrue
    <2> QED
      BY <1>1, <1>8, <2>1 DEF AsksForAll, WorkIsTrue
  <1>10. \A x \in InFlight(h) : AsksForAll(h, x)
    <2> HIDE DEF kids, h
    <2> QED
      BY <1>8, <1>9 DEF h
  <1> QED
    BY <1>2, <1>8, <1>10 DEF GraphInv

-----------------------------------------------------------------------------
(* The steps of a construction. *)

LEMMA NoGraphFacts ==
  ASSUME NEW fetched
  PROVE  GraphInv(NoGraph, fetched)
  <1>1. <<>> \in [{} -> Constructions] /\ <<>> \in Seq(Build) /\ {} \in SUBSET File
    OBVIOUS
  <1>2. NoGraph = [minted |-> {}, works |-> <<>>, builds |-> <<>>]
    BY DEF NoGraph
  <1>3. GraphTyped(NoGraph) /\ InFlight(NoGraph) = {} /\ NoGraph.builds = <<>>
    BY <1>1, <1>2, GraphOfParts
  <1>4. DOMAIN NoGraph.builds = {} /\ WaitsAreSeen(NoGraph)
    BY <1>3 DEF WaitsAreSeen
  <1> QED
    BY <1>3, <1>4 DEF GraphInv, GraphIsTrue

(* A slot given back. *)
LEMMA ReleasedGraph ==
  ASSUME NEW g, NEW fetched, GraphInv(g, fetched), NEW f \in InFlight(g)
  PROVE  LET h == ReleaseSlot(g, g.works[f].build)
         IN /\ GraphInv(h, fetched) /\ Restaged(g, h)
            /\ \A x : AsksAgainFor(h, x) = AsksAgainFor(g, x)
            /\ f \in InFlight(h) /\ BuildOf(h, f).failed = BuildOf(g, f).failed
            /\ f \in File /\ h.minted = g.minted
  <1> DEFINE b == g.works[f].build
             h == ReleaseSlot(g, b)
  <1>1. GraphIsTrue(g, fetched) /\ GraphTyped(g) /\ f \in File /\ WaitsAreSeen(g)
    BY GraphParts DEF GraphInv, GraphIsTrue
  <1>2. b \in DOMAIN g.builds
    BY <1>1 DEF GraphIsTrue, WorkIsTrue
  <1>3. Restaged(g, h)
    BY <1>1, <1>2, ReleaseFacts
  <1> HIDE DEF h
  <1>6. WaitsAreSeen(h) /\ \A x : AsksAgainFor(h, x) = AsksAgainFor(g, x)
    BY <1>1, <1>3, SeenWhenRestaged
  <1>4. GraphInv(h, fetched)
    BY <1>1, <1>3, <1>6, RestagedIsTrue DEF GraphInv, Restaged
  <1>5. f \in InFlight(h) /\ BuildOf(h, f).failed = BuildOf(g, f).failed /\ h.minted = g.minted
    BY <1>2, <1>3 DEF Restaged, BuildOf
  <1> QED
    BY <1>1, <1>3, <1>4, <1>5, <1>6 DEF h

(* A construction settles, and the others stay as they are. *)
LEMMA SettledGraph ==
  ASSUME NEW g, NEW fetched, NEW f, NEW how, GraphIsTrue(g, fetched), MaySettle(g, fetched, f, how),
         \A x \in InFlight(g) \ {f} : AsksForAll(g, x), WaitsAreSeen(g)
  PROVE  GraphInv(WorkSettles(g, f, how), fetched) /\ WorkSettles(g, f, how).minted = g.minted
  <1> DEFINE h == WorkSettles(g, f, how)
  <1>1. /\ GraphIsTrue(h, fetched) /\ h.minted = g.minted /\ InFlight(h) = InFlight(g) \ {f}
        /\ \A x \in InFlight(g) \ {f} : AsksForAll(g, x) => AsksForAll(h, x)
        /\ \A x \in InFlight(g) \ {f} : Informed(g.works[x], h.works[x], f, how)
    BY SettlingFacts
  <1> HIDE DEF h
  <1>2. WaitsAreSeen(h)
    BY <1>1, SeenWhenOneSettles DEF MaySettle
  <1> QED
    BY <1>1, <1>2 DEF GraphInv, h

LEMMA BeginsFacts ==
  ASSUME NEW g, NEW fetched, GraphInv(g, fetched), NEW f \in InFlight(g), NEW fetch \in Nat,
         ~BuildOf(g, f).failed => fetch \in DOMAIN fetched /\ fetched[fetch].url = f,
         AsksAgainFor(g, f) = {}
  PROVE  GraphInv(SourceBegins(g, f, fetch), fetched) /\ SourceBegins(g, f, fetch).minted = g.minted
  <1>1. CASE BuildOf(g, f).failed
    <2> DEFINE h == ReleaseSlot(g, g.works[f].build)
    <2>1. /\ GraphInv(h, fetched) /\ f \in InFlight(h) /\ BuildOf(h, f).failed = BuildOf(g, f).failed
          /\ h.minted = g.minted
      BY ReleasedGraph
    <2>2. SourceBegins(g, f, fetch) = WorkSettles(h, f, "void")
      BY <1>1 DEF SourceBegins
    <2> HIDE DEF h
    <2>3. MaySettle(h, fetched, f, "void")
      BY <1>1, <2>1 DEF MaySettle, Outcomes
    <2> QED
      BY <2>1, <2>2, <2>3, SettledGraph DEF GraphInv
  <1>2. CASE ~BuildOf(g, f).failed
    <2> DEFINE w == [g.works[f] EXCEPT !.stage = "fetch", !.fetch = fetch]
               h == SourceBegins(g, f, fetch)
    <2>1. GraphIsTrue(g, fetched) /\ GraphTyped(g) /\ g.works[f] \in Constructions
      BY GraphParts DEF GraphInv, GraphIsTrue
    <2>2. /\ w \in Constructions /\ w.build = g.works[f].build /\ w.kids = g.works[f].kids
          /\ w.stage = "fetch" /\ w.fetch = fetch
          /\ w.lineage = g.works[f].lineage /\ w.waits = g.works[f].waits
      BY <2>1 DEF Constructions
    <2>3. WorkBecomes(g, f, w, h)
      <3>1. h = [g EXCEPT !.works[f].stage = "fetch", !.works[f].fetch = fetch]
        BY <1>2 DEF SourceBegins
      <3> QED
        BY <2>1, <3>1, GraphParts DEF WorkBecomes
    <2> HIDE DEF w, h
    <2>4. TrueWork(g, fetched, f, w)
      <3>1. WorkIsTrue(g, fetched, f)
        BY <2>1 DEF GraphIsTrue
      <3> QED
        BY <1>2, <2>2, <3>1 DEF TrueWork, WorkIsTrue
    <2>5. /\ GraphIsTrue(h, fetched) /\ InFlight(h) = InFlight(g) /\ h.minted = g.minted
          /\ \A x \in InFlight(g) : h.works[x] = IF x = f THEN w ELSE g.works[x]
          /\ \A x \in InFlight(g) \ {f} : AsksForAll(g, x) => AsksForAll(h, x)
      BY <2>1, <2>3, <2>4, WorkRewritten
    <2>6. AsksForAll(h, f)
      BY <2>2, <2>5 DEF AsksForAll
    <2>8. WaitsAreSeen(h)
      <3>1. WaitsAreSeen(g)
        BY DEF GraphInv
      <3> QED
        BY <2>1, <2>2, <2>5, <3>1, SeenWhenOneGoesOn
    <2>7. GraphInv(h, fetched)
      BY <2>5, <2>6, <2>8 DEF GraphInv
    <2> QED
      BY <2>5, <2>7 DEF h
  <1> QED
    BY <1>1, <1>2

LEMMA SourceArrivesFacts ==
  ASSUME NEW g, NEW fetched, GraphInv(g, fetched), NEW f \in InFlight(g), NEW ok \in BOOLEAN,
         ~ok => f \in Broken(fetched), g.works[f].stage = "fetch"
  PROVE  GraphInv(SourceArrives(g, f, ok), fetched) /\ SourceArrives(g, f, ok).minted = g.minted
  <1> DEFINE h == ReleaseSlot(g, g.works[f].build)
  <1>1. /\ GraphInv(h, fetched) /\ f \in InFlight(h) /\ BuildOf(h, f).failed = BuildOf(g, f).failed
        /\ f \in File /\ h.minted = g.minted /\ \A x : AsksAgainFor(h, x) = AsksAgainFor(g, x)
    BY ReleasedGraph
  <1>2. SourceArrives(g, f, ok) = IF ~ok THEN WorkSettles(h, f, "failed")
                                  ELSE IF BuildOf(g, f).failed THEN WorkSettles(h, f, "void")
                                  ELSE FansOut(h, f)
    BY DEF SourceArrives
  <1> HIDE DEF h
  <1>3. /\ GraphIsTrue(h, fetched) /\ WaitsAreSeen(h) /\ AsksAgainFor(h, f) = {}
        /\ \A x \in InFlight(h) : AsksForAll(h, x)
    <2>1. AsksAgainFor(g, f) = {}
      BY DEF GraphInv, WaitsAreSeen
    <2> QED
      BY <1>1, <2>1 DEF GraphInv
  <1>4. CASE ~ok
    <2>1. MaySettle(h, fetched, f, "failed")
      BY <1>1, <1>4, ReachFacts DEF MaySettle, Outcomes, Bad
    <2> QED
      BY <1>1, <1>2, <1>3, <1>4, <2>1, SettledGraph
  <1>5. CASE ok /\ BuildOf(g, f).failed
    <2>1. MaySettle(h, fetched, f, "void")
      BY <1>1, <1>5 DEF MaySettle, Outcomes
    <2> QED
      BY <1>1, <1>2, <1>3, <1>5, <2>1, SettledGraph
  <1>6. CASE ok /\ ~BuildOf(g, f).failed
    BY <1>1, <1>2, <1>3, <1>6, FansOutFacts
  <1> QED
    BY <1>4, <1>5, <1>6

(* A chunk whose imports are settled: what its first failed import failed for is a *)
(* reason of its own, and with none failed all of them have been minted.           *)
LEMMA CompletesFacts ==
  ASSUME NEW g, NEW fetched, GraphInv(g, fetched), NEW f \in InFlight(g),
         g.works[f].stage = "imports", AllSettled(g, f)
  PROVE  GraphInv(Completes(g, f), fetched) /\ g.minted \subseteq Completes(g, f).minted
  <1> DEFINE w == g.works[f]
             b == w.build
             waits == w.waits
             wrong == {n \in DOMAIN Imports[f] : waits[Imports[f][n]] \in Bad}
             first == CHOOSE n \in wrong : \A m \in wrong : n <= m
  <1>1. /\ GraphIsTrue(g, fetched) /\ GraphTyped(g) /\ f \in File /\ WaitsAreSeen(g)
        /\ \A x \in InFlight(g) : AsksForAll(g, x)
    BY GraphParts DEF GraphInv, GraphIsTrue
  <1>2. WorkIsTrue(g, fetched, f) /\ b \in DOMAIN g.builds
    BY <1>1 DEF GraphIsTrue, WorkIsTrue
  <1>3. DOMAIN waits = ToSet(Imports[f])
    BY <1>1 DEF AsksForAll
  <1>4. /\ Completes(g, f) =
             IF wrong # {}
             THEN WorkSettles([g EXCEPT !.builds[b].failed = TRUE], f, waits[Imports[f][first]])
             ELSE IF BuildOf(g, f).failed THEN WorkSettles(g, f, "void")
             ELSE IF ToSet(Imports[f]) \subseteq g.minted
                  THEN WorkSettles([g EXCEPT !.minted = @ \cup {f}], f, "done")
                  ELSE WorkSettles(g, f, "failed")
    BY DEF Completes
  <1>5. /\ DOMAIN Imports[f] \subseteq Nat
        /\ \A n \in DOMAIN Imports[f] : Imports[f][n] \in ToSet(Imports[f])
        /\ \A d \in ToSet(Imports[f]) : \E n \in DOMAIN Imports[f] : d = Imports[f][n]
    <2>1. /\ DOMAIN Imports[f] = 1..Len(Imports[f]) /\ Len(Imports[f]) \in Nat
          /\ ToSet(Imports[f]) = {Imports[f][n] : n \in DOMAIN Imports[f]}
      BY <1>1, ImportsTyped
    <2>2. DOMAIN Imports[f] \subseteq Nat
      BY <2>1
    <2> QED
      BY <2>1, <2>2
  <1>6. CASE wrong # {}
    <2> DEFINE c == [g.builds[b] EXCEPT !.failed = TRUE]
               h == [g EXCEPT !.builds[b].failed = TRUE]
               how == waits[Imports[f][first]]
    <2>1. first \in wrong
      <3>1. wrong \subseteq Nat
        BY <1>5
      <3> HIDE DEF wrong
      <3> QED
        BY <1>6, <3>1, LeastNumber
    <2>2. PICK d \in ToSet(Imports[f]) : d \in DOMAIN waits /\ how = waits[d] /\ how \in Bad
      <3> HIDE DEF first, waits
      <3> QED
        BY <1>3, <1>5, <2>1
    <2>3. Completes(g, f) = WorkSettles(h, f, how)
      BY <1>4, <1>6
    <2>4. g.builds[b] \in Build
      BY <1>1, <1>2, GraphParts
    <2>5. BuildBecomes(g, b, c, h)
      BY <1>1, GraphParts DEF BuildBecomes
    <2>6. /\ c \in Build /\ c.failed /\ c.from = g.builds[b].from /\ c.root = g.builds[b].root
          /\ c.wait = g.builds[b].wait
      BY <2>4 DEF Build
    <2>7. BuildIsTrue(g, fetched, b)
      BY <1>1, <1>2 DEF GraphIsTrue
    <2> HIDE DEF how, h, c, first, wrong
    <2>8. /\ GraphIsTrue(h, fetched) /\ InFlight(h) = InFlight(g) /\ h.minted = g.minted
          /\ h.works = g.works /\ \A x \in InFlight(g) : AsksForAll(g, x) => AsksForAll(h, x)
      BY <1>1, <1>2, <2>5, <2>6, <2>7, BuildRewritten DEF BuildIsTrue
    <2>13. WaitsAreSeen(h)
      BY <1>1, <2>8, SeenWithTheSameWorks
    <2>9. WaitIsTrue(g, fetched, b, d, how)
      BY <1>2, <2>2 DEF WorkIsTrue
    <2>10. how = "failed" => Reach[f] \cap Broken(fetched) # {}
      BY <1>1, <2>2, <2>9, LeadsAtOnce DEF WaitIsTrue
    <2>11. how = "cycle" => Circular(f)
      BY <1>1, <2>2, <2>9, CircularAbove DEF WaitIsTrue
    <2>12. MaySettle(h, fetched, f, how)
      BY <2>2, <2>8, <2>10, <2>11 DEF MaySettle, Outcomes, Bad
    <2> QED
      BY <1>1, <2>3, <2>8, <2>12, <2>13, SettledGraph
  <1>7. CASE wrong = {} /\ BuildOf(g, f).failed
    <2>1. Completes(g, f) = WorkSettles(g, f, "void")
      BY <1>4, <1>7
    <2>2. MaySettle(g, fetched, f, "void")
      BY <1>7 DEF MaySettle, Outcomes
    <2> QED
      BY <1>1, <2>1, <2>2, SettledGraph
  <1>8. CASE wrong = {} /\ ~BuildOf(g, f).failed
    <2>1. ASSUME NEW d \in ToSet(Imports[f])  PROVE d \in g.minted
      <3>1. PICK n \in DOMAIN Imports[f] : d = Imports[f][n]
        BY <1>5
      <3>2. waits[d] \notin Bad
        BY <1>8, <3>1
      <3>3. d \in DOMAIN waits /\ waits[d] = "done"
        BY <1>3, <3>2 DEF AllSettled
      <3>4. WaitIsTrue(g, fetched, b, d, waits[d])
        BY <1>2, <3>3 DEF WorkIsTrue
      <3> QED
        BY <1>8, <3>3, <3>4 DEF WaitIsTrue, BuildOf
    <2> DEFINE h == [g EXCEPT !.minted = @ \cup {f}]
    <2>2. Completes(g, f) = WorkSettles(h, f, "done")
      <3>1. ToSet(Imports[f]) \subseteq g.minted
        BY <2>1
      <3> QED
        BY <1>4, <1>8, <3>1
    <2>3. /\ GraphIsTrue(h, fetched) /\ h.minted = g.minted \cup {f} /\ InFlight(h) = InFlight(g)
          /\ h.works = g.works /\ \A x \in InFlight(g) : AsksForAll(g, x) => AsksForAll(h, x)
      BY <1>1, FileMinted
    <2>5. WaitsAreSeen(h)
      BY <1>1, <2>3, SeenWithTheSameWorks
    <2> HIDE DEF h
    <2>4. MaySettle(h, fetched, f, "done")
      BY <2>3 DEF MaySettle, Outcomes, Bad
    <2> QED
      BY <1>1, <2>2, <2>3, <2>4, <2>5, SettledGraph
  <1> QED
    BY <1>6, <1>7, <1>8

(* A joiner whose construction came to nothing. *)
LEMMA JoinerResumesFacts ==
  ASSUME NEW g, NEW fetched, GraphInv(g, fetched), NEW f \in InFlight(g),
         NEW d \in DOMAIN g.works[f].waits, g.works[f].waits[d] = "again"
  PROVE  LET r == Resumes(g, g.works[f].build, d, g.works[f].kids)
             h == [r.graph EXCEPT !.works[f].waits[d] = r.wait]
         IN GraphInv(h, fetched) /\ h.minted = g.minted
  <1> DEFINE b == g.works[f].build
             r == Resumes(g, b, d, g.works[f].kids)
             h == [r.graph EXCEPT !.works[f].waits[d] = r.wait]
  <1>1. /\ GraphIsTrue(g, fetched) /\ GraphTyped(g) /\ f \in File /\ WaitsAreSeen(g)
        /\ \A x \in InFlight(g) : AsksForAll(g, x)
    BY GraphParts DEF GraphInv, GraphIsTrue
  <1>2. WorkIsTrue(g, fetched, f) /\ d \in ToSet(Imports[f])
    BY <1>1 DEF GraphIsTrue, WorkIsTrue
  <1>6. /\ f \in g.works[f].kids /\ AsksAgainFor(g, f) = {}
        /\ d \in InFlight(g) => f \notin WaitsFor(g, d)
    <2>1. f \in AsksAgainFor(g, d)
      BY DEF AsksAgainFor
    <2>2. d \in InFlight(g) => DOMAIN g.works[d].waits = {}
      BY <1>1, <2>1 DEF WaitsAreSeen
    <2> QED
      BY <1>1, <2>2 DEF WaitsAreSeen, WaitsFor
  <1>3. ASSUME NEW k, GraphTyped(k), f \in InFlight(k), k.works[f].waits = g.works[f].waits, NEW wait
        PROVE  [k EXCEPT !.works[f].waits[d] = wait] = WithAnswer(k, f, d, wait)
    <2> DEFINE m == k.works[f].waits
    <2>1. k.works[f] \in Constructions
      BY <1>3, GraphParts
    <2>2. m \in Partial(File, Waits)
      BY <2>1 DEF Constructions
    <2>3. Maps(m, File, Waits) /\ d \in DOMAIN m
      BY <1>3, <2>2, PartialFacts
    <2>4. [m EXCEPT ![d] = wait] = Put(m, d, wait)
      <3> HIDE DEF m
      <3>1. DOMAIN m \cup {d} = DOMAIN m
        BY <2>3
      <3>2. Put(m, d, wait) = [e \in DOMAIN m |-> IF e = d THEN wait ELSE m[e]]
        BY <3>1 DEF Put
      <3> QED
        BY <2>3, <3>2 DEF Maps
    <2> QED
      BY <2>4 DEF WithAnswer
  <1>4. CASE d \in g.minted \/ g.builds[b].failed
    <2> DEFINE k == WithAnswer(g, f, d, "done")
    <2>1. r.graph = g /\ r.wait = "done"
      BY <1>4 DEF Resumes
    <2> HIDE DEF r
    <2>2. h = k
      BY <1>1, <1>3, <2>1
    <2>3. WaitIsTrue(g, fetched, g.works[f].build, d, "done") /\ "done" \in Waits
      BY <1>4 DEF WaitIsTrue, Waits
    <2> HIDE DEF b, h
    <2>4. /\ GraphIsTrue(k, fetched) /\ InFlight(k) = InFlight(g) /\ k.minted = g.minted
          /\ k.works[f].stage = g.works[f].stage
          /\ DOMAIN k.works[f].waits = DOMAIN g.works[f].waits \cup {d}
          /\ \A x \in InFlight(g) \ {f} : AsksForAll(g, x) => AsksForAll(k, x)
          /\ OneIsAnswered(g, f, d, "done", k)
      BY <1>1, <1>2, <2>3, WaitAnswered
    <2> HIDE DEF k, h
    <2>5. AsksForAll(k, f)
      BY <1>1, <2>4 DEF AsksForAll
    <2>6. WaitsAreSeen(k)
      <3>1. OneIsAnswered(g, f, d, "done", k)
        BY <2>4
      <3>2. GraphIsTrue(g, fetched) /\ WaitsAreSeen(g)
        BY <1>1
      <3>3. /\ "done" # "again"
            /\ "done" \in {"work", "join"} => /\ d \in InFlight(g) /\ d # f
                                              /\ g.works[f].kids \subseteq g.works[d].lineage
                                              /\ f \notin WaitsFor(g, d)
        OBVIOUS
      <3> HIDE DEF k, h, b, r
      <3> QED
        BY <1>6, <3>1, <3>2, <3>3, SeenWhenOneIsAnswered
    <2>7. GraphInv(k, fetched)
      BY <1>1, <2>4, <2>5, <2>6 DEF GraphInv
    <2> QED
      BY <2>2, <2>4, <2>7 DEF h, r, b
  <1>5. CASE ~(d \in g.minted \/ g.builds[b].failed)
    <2> DEFINE q == RequestChunk(g, b, d, g.works[f].kids)
               k == AsksFor(g, f, d)
    <2>1. r = q
      BY <1>5 DEF Resumes
    <2>2. GraphTyped(q.graph) /\ f \in InFlight(q.graph) /\ q.graph.works[f].waits = g.works[f].waits
      <3>1. /\ g.works[f].kids \in SUBSET File /\ b \in DOMAIN g.builds /\ d \in File
            /\ \A x \in g.works[f].kids : x \in g.minted \/ Leads(x, d)
        BY <1>1, <1>2, KidsLead, ImportsTyped
      <3>2. Grown(g, q.graph)
        BY <1>1, <3>1, RequestFacts
      <3> QED
        BY <3>2 DEF Grown
    <2>3. h = k
      <3>1. k = WithAnswer(q.graph, f, d, q.wait)
        BY DEF AsksFor
      <3> HIDE DEF r, q, k
      <3> QED
        BY <1>3, <2>1, <2>2, <3>1
    <2>4. /\ GraphIsTrue(k, fetched) /\ f \in InFlight(k) /\ k.minted = g.minted
          /\ k.works[f].stage = g.works[f].stage
          /\ DOMAIN k.works[f].waits = DOMAIN g.works[f].waits \cup {d}
          /\ (\A x \in InFlight(g) \ {f} : AsksForAll(g, x))
               => \A x \in InFlight(k) \ {f} : AsksForAll(k, x)
          /\ WaitsAreSeen(k)
      <3>1. d \in InFlight(g) /\ f \in WaitsFor(g, d) => d \in g.works[f].kids
        BY <1>6
      <3> HIDE DEF r, q, h, b
      <3> QED
        BY <1>1, <1>2, <1>6, <3>1, ChildrenAskedFacts
    <2> HIDE DEF k, h
    <2>5. AsksForAll(k, f)
      BY <1>1, <2>4 DEF AsksForAll
    <2>6. GraphInv(k, fetched)
      BY <1>1, <2>4, <2>5 DEF GraphInv
    <2> QED
      BY <2>3, <2>4, <2>6 DEF h, r
  <1> QED
    BY <1>4, <1>5

(* A build as its root is answered. *)
LEMMA RootAnswered ==
  ASSUME NEW g, NEW fetched, GraphIsTrue(g, fetched), NEW b \in DOMAIN g.builds,
         NEW wait \in Waits, WaitIsTrue(g, fetched, b, g.builds[b].root, wait),
         \A x \in InFlight(g) : AsksForAll(g, x), WaitsAreSeen(g)
  PROVE  LET h == [g EXCEPT !.builds[b].wait = wait]
         IN GraphInv(h, fetched) /\ h.minted = g.minted
  <1> DEFINE c == [g.builds[b] EXCEPT !.wait = wait]
             h == [g EXCEPT !.builds[b].wait = wait]
  <1>1. GraphTyped(g) /\ g.builds[b] \in Build
    BY GraphParts DEF GraphIsTrue
  <1>2. BuildBecomes(g, b, c, h)
    BY <1>1, GraphParts DEF BuildBecomes
  <1>3. /\ c \in Build /\ c.failed = g.builds[b].failed /\ c.from = g.builds[b].from
        /\ c.root = g.builds[b].root /\ c.wait = wait
    BY <1>1 DEF Build
  <1>4. BuildIsTrue(g, fetched, b)
    BY DEF GraphIsTrue
  <1> HIDE DEF c, h
  <1>5. /\ GraphIsTrue(h, fetched) /\ InFlight(h) = InFlight(g) /\ h.minted = g.minted
        /\ h.works = g.works /\ \A x \in InFlight(g) : AsksForAll(g, x) => AsksForAll(h, x)
    BY <1>2, <1>3, <1>4, BuildRewritten DEF BuildIsTrue
  <1>6. WaitsAreSeen(h)
    BY <1>5, SeenWithTheSameWorks
  <1> QED
    BY <1>5, <1>6 DEF GraphInv, h

LEMMA RootResumesFacts ==
  ASSUME NEW g, NEW fetched, GraphInv(g, fetched), NEW b \in DOMAIN g.builds
  PROVE  LET r == Resumes(g, b, g.builds[b].root, g.builds[b].from)
             h == [r.graph EXCEPT !.builds[b].wait = r.wait]
         IN GraphInv(h, fetched) /\ h.minted = g.minted
  <1> DEFINE top == g.builds[b].root
             r == Resumes(g, b, top, g.builds[b].from)
             h == [r.graph EXCEPT !.builds[b].wait = r.wait]
  <1>1. /\ GraphIsTrue(g, fetched) /\ GraphTyped(g) /\ g.builds[b] \in Build /\ WaitsAreSeen(g)
        /\ \A x \in InFlight(g) : AsksForAll(g, x)
    BY GraphParts DEF GraphInv, GraphIsTrue
  <1>2. /\ top \in File /\ g.builds[b].from \in SUBSET File
        /\ \A x \in g.builds[b].from : x \in g.minted \/ Leads(x, top)
    BY <1>1 DEF Build, GraphIsTrue, BuildIsTrue
  <1>3. /\ GraphIsTrue(r.graph, fetched) /\ Grown(g, r.graph)
        /\ r.wait \in Waits /\ WaitIsTrue(r.graph, fetched, b, top, r.wait)
    <2>1. CASE top \in g.minted \/ g.builds[b].failed
      <3>1. r.graph = g /\ r.wait = "done"
        BY <2>1 DEF Resumes
      <3>2. WaitIsTrue(g, fetched, b, top, "done") /\ "done" \in Waits
        BY <2>1 DEF WaitIsTrue, Waits
      <3> HIDE DEF r
      <3> QED
        BY <1>1, <3>1, <3>2, GrownItself
    <2>2. CASE ~(top \in g.minted \/ g.builds[b].failed)
      <3>1. r = RequestChunk(g, b, top, g.builds[b].from)
        BY <2>2 DEF Resumes
      <3> HIDE DEF r, top
      <3> QED
        BY <1>1, <1>2, <3>1, RequestFacts
    <2> QED
      BY <2>1, <2>2
  <1> HIDE DEF r
  <1>4. /\ b \in DOMAIN r.graph.builds /\ r.graph.builds[b].root = top
        /\ r.graph.minted = g.minted
    BY <1>3 DEF Grown
  <1>5. \A x \in InFlight(r.graph) : AsksForAll(r.graph, x)
    <2>1. \A x \in InFlight(g) \ {} : AsksForAll(g, x)
      BY <1>1
    <2>2. \A x \in InFlight(r.graph) \ {} : AsksForAll(r.graph, x)
      BY <1>3, <2>1, GrownAsks
    <2> QED
      BY <2>2
  <1>7. WaitsAreSeen(r.graph)
    BY <1>1, <1>3, SeenWhenGrown
  <1>6. GraphInv(h, fetched) /\ h.minted = r.graph.minted
    BY <1>3, <1>4, <1>5, <1>7, RootAnswered
  <1> HIDE DEF h
  <1> QED
    BY <1>4, <1>6 DEF h, r

(* A build asks for its root under what has been minted. *)
LEMMA OpensFacts ==
  ASSUME NEW g, NEW fetched, GraphInv(g, fetched), NEW top \in File,
         NEW ancestors \in SUBSET g.minted
  PROVE  GraphInv(Opens(g, top, ancestors), fetched) /\ Opens(g, top, ancestors).minted = g.minted
  <1> DEFINE b == Len(g.builds) + 1
             c == [failed |-> FALSE, free |-> Width, line |-> <<>>,
                   root |-> top, from |-> ancestors, wait |-> "none"]
             k == [g EXCEPT !.builds = Append(@, c)]
             r == RequestChunk(k, b, top, ancestors)
             h == [r.graph EXCEPT !.builds[b].wait = r.wait]
  <1>1. /\ GraphIsTrue(g, fetched) /\ GraphTyped(g) /\ WaitsAreSeen(g)
        /\ \A x \in InFlight(g) : AsksForAll(g, x)
        /\ g.minted \in SUBSET File /\ InFlight(g) \in SUBSET File
        /\ g.builds \in Seq(Build) /\ g.works \in [InFlight(g) -> Constructions]
        /\ g = [minted |-> g.minted, works |-> g.works, builds |-> g.builds]
        /\ DOMAIN g.builds = 1..Len(g.builds) /\ Len(g.builds) \in Nat
    BY GraphParts DEF GraphInv, GraphIsTrue
  <1>2. Opens(g, top, ancestors) = h
    BY DEF Opens
  <1>3. c \in Build /\ ancestors \in SUBSET File
    BY <1>1, WidthIsPositive DEF Build, Waits
  <1>4. c.root = top /\ c.from = ancestors /\ c.wait = "none"
    OBVIOUS
  <1> HIDE DEF c
  <1> DEFINE bs == Append(g.builds, c)
  <1>5. /\ bs \in Seq(Build) /\ b \in DOMAIN bs /\ bs[b] = c
        /\ DOMAIN g.builds \subseteq DOMAIN bs
        /\ \A e \in DOMAIN bs : e # b => e \in DOMAIN g.builds /\ bs[e] = g.builds[e]
        /\ \A e \in DOMAIN g.builds : bs[e] = g.builds[e]
    BY <1>1, <1>3
  <1>6. k = [minted |-> g.minted, works |-> g.works, builds |-> bs]
    <2>1. k = [g EXCEPT !.builds = bs]
      OBVIOUS
    <2> HIDE DEF bs, k
    <2>2. [g EXCEPT !.builds = bs] = [minted |-> g.minted, works |-> g.works, builds |-> bs]
      BY <1>1
    <2> QED
      BY <2>1, <2>2
  <1> HIDE DEF k, bs, b
  <1>7. /\ GraphTyped(k) /\ InFlight(k) = InFlight(g)
        /\ k.minted = g.minted /\ k.works = g.works /\ k.builds = bs
    BY <1>1, <1>5, <1>6, GraphOfParts
  <1>8. ASSUME NEW e \in DOMAIN g.builds, NEW d, NEW wait, WaitIsTrue(g, fetched, e, d, wait)
        PROVE  WaitIsTrue(k, fetched, e, d, wait)
    BY <1>5, <1>7, <1>8 DEF WaitIsTrue
  <1>9. ASSUME NEW x \in InFlight(k)  PROVE WorkIsTrue(k, fetched, x) /\ AsksForAll(k, x)
    <2>1. WorkIsTrue(g, fetched, x) /\ AsksForAll(g, x)
      BY <1>1, <1>7 DEF GraphIsTrue
    <2> QED
      BY <1>5, <1>7, <1>8, <2>1 DEF WorkIsTrue, AsksForAll
  <1>10. ASSUME NEW e \in DOMAIN k.builds  PROVE BuildIsTrue(k, fetched, e)
    <2>1. CASE e = b
      <3>1. k.builds[e] = c
        BY <1>5, <1>7, <2>1
      <3> QED
        BY <1>4, <1>7, <3>1 DEF BuildIsTrue, WaitIsTrue
    <2>2. CASE e # b
      <3>1. e \in DOMAIN g.builds /\ k.builds[e] = g.builds[e]
        BY <1>5, <1>7, <2>2
      <3>2. BuildIsTrue(g, fetched, e)
        BY <1>1, <3>1 DEF GraphIsTrue
      <3> QED
        BY <1>7, <1>8, <3>1, <3>2 DEF BuildIsTrue
    <2> QED
      BY <2>1, <2>2
  <1>11. GraphIsTrue(k, fetched) /\ b \in DOMAIN k.builds /\ k.builds[b] = c
    BY <1>5, <1>7, <1>9, <1>10 DEF GraphIsTrue
  <1>12. /\ GraphIsTrue(r.graph, fetched) /\ Grown(k, r.graph)
         /\ r.wait \in Waits /\ WaitIsTrue(r.graph, fetched, b, top, r.wait)
    BY <1>3, <1>7, <1>11, RequestFacts
  <1> HIDE DEF r
  <1>13. /\ b \in DOMAIN r.graph.builds /\ r.graph.builds[b].root = top
         /\ r.graph.minted = g.minted
    BY <1>4, <1>7, <1>11, <1>12 DEF Grown
  <1>14. \A x \in InFlight(r.graph) : AsksForAll(r.graph, x)
    <2>1. \A x \in InFlight(k) \ {} : AsksForAll(k, x)
      BY <1>9
    <2>2. \A x \in InFlight(r.graph) \ {} : AsksForAll(r.graph, x)
      BY <1>12, <2>1, GrownAsks
    <2> QED
      BY <2>2
  <1>16. WaitsAreSeen(r.graph)
    <2>1. WaitsAreSeen(k)
      BY <1>1, <1>7, SeenWithTheSameWorks
    <2> QED
      BY <1>11, <1>12, <2>1, SeenWhenGrown
  <1>15. GraphInv(h, fetched) /\ h.minted = r.graph.minted
    BY <1>12, <1>13, <1>14, <1>16, RootAnswered
  <1> HIDE DEF h
  <1> QED
    BY <1>2, <1>13, <1>15

-----------------------------------------------------------------------------
(* The attempts, their fetches and what the caches hold. *)

Attempts ==
  [stage : {"shared", "chain", "loaded", "failed", "refused"},
   expired : BOOLEAN, ledger : SUBSET CacheEntries, left : SUBSET Nat,
   deps : Partial(Dependencies, Nat), graph : Graphs]

LEMMA AttemptIsTyped ==
  ASSUME NEW att
  PROVE  AttemptTyped(att) /\ GraphTyped(att.graph) <=> att \in Attempts
  <1>1. ASSUME AttemptTyped(att), GraphTyped(att.graph)  PROVE att \in Attempts
    <2>1. att.deps \in Partial(Dependencies, Nat) /\ att.graph \in Graphs
      BY <1>1, PartialFacts, GraphIsTyped DEF AttemptTyped
    <2> QED
      BY <1>1, <2>1 DEF AttemptTyped, Attempts
  <1>2. ASSUME att \in Attempts  PROVE AttemptTyped(att) /\ GraphTyped(att.graph)
    <2>1. att.deps \in Partial(Dependencies, Nat) /\ att.graph \in Graphs
      BY <1>2 DEF Attempts
    <2>2. Maps(att.deps, Dependencies, Nat) /\ GraphTyped(att.graph)
      BY <2>1, PartialFacts, GraphIsTyped
    <2> QED
      BY <1>2, <2>2 DEF AttemptTyped, Attempts
  <1> QED
    BY <1>1, <1>2

LEMMA AttemptFacts ==
  /\ \A a \in LoadAttempt : a[1] \in Wanted /\ a[2] \in DOMAIN attemptsOf[a[1]] /\ a = <<a[1], a[2]>>
  /\ \A x \in Wanted : \A n \in DOMAIN attemptsOf[x] : <<x, n>> \in LoadAttempt
  BY DEF LoadAttempt

(* What is true of the loads, in one piece. *)
LEMMA LoadsParts ==
  ASSUME LoadsTyped, GraphsInv
  PROVE  /\ attemptsOf \in [Wanted -> Seq(Attempts)]
         /\ \A x \in Wanted : DOMAIN attemptsOf[x] = 1..Len(attemptsOf[x]) /\ Len(attemptsOf[x]) \in Nat
         /\ \A a \in LoadAttempt : StateOf(a) \in Attempts
  <1>1. \A a \in LoadAttempt : StateOf(a) \in Attempts
    BY AttemptIsTyped DEF LoadsTyped, GraphsInv, GraphInv, GraphIsTrue, GraphOf
  <1>2. ASSUME NEW x \in Wanted
        PROVE  /\ attemptsOf[x] \in Seq(Attempts)
               /\ DOMAIN attemptsOf[x] = 1..Len(attemptsOf[x]) /\ Len(attemptsOf[x]) \in Nat
    <2>1. attemptsOf[x] \in Seq(ToSet(attemptsOf[x]))
      BY DEF LoadsTyped
    <2>2. DOMAIN attemptsOf[x] = 1..Len(attemptsOf[x]) /\ Len(attemptsOf[x]) \in Nat
      BY <2>1
    <2>3. \A n \in DOMAIN attemptsOf[x] : attemptsOf[x][n] \in Attempts
      <3>1. \A n \in DOMAIN attemptsOf[x] : StateOf(<<x, n>>) \in Attempts
        BY <1>1, AttemptFacts
      <3> QED
        BY <3>1 DEF StateOf
    <2>4. attemptsOf[x] \in [1..Len(attemptsOf[x]) -> ToSet(attemptsOf[x])]
      BY <2>1
    <2>5. attemptsOf[x] \in [1..Len(attemptsOf[x]) -> Attempts]
      BY <2>2, <2>3, <2>4
    <2> QED
      BY <2>2, <2>5
  <1> QED
    BY <1>1, <1>2 DEF LoadsTyped

LEMMA AttemptsOfParts ==
  ASSUME attemptsOf \in [Wanted -> Seq(Attempts)]
  PROVE  /\ attemptsOf \in [Wanted -> {attemptsOf[x] : x \in Wanted}]
         /\ \A x \in Wanted : attemptsOf[x] \in Seq(ToSet(attemptsOf[x]))
         /\ \A x \in Wanted : DOMAIN attemptsOf[x] = 1..Len(attemptsOf[x]) /\ Len(attemptsOf[x]) \in Nat
         /\ \A a \in LoadAttempt : StateOf(a) \in Attempts /\ AttemptTyped(StateOf(a))
  <1>1. ASSUME NEW x \in Wanted
        PROVE  /\ attemptsOf[x] \in Seq(ToSet(attemptsOf[x]))
               /\ DOMAIN attemptsOf[x] = 1..Len(attemptsOf[x]) /\ Len(attemptsOf[x]) \in Nat
               /\ \A n \in DOMAIN attemptsOf[x] : attemptsOf[x][n] \in Attempts
    <2> DEFINE s == attemptsOf[x]
    <2>1. s \in Seq(Attempts)
      OBVIOUS
    <2> HIDE DEF s
    <2>2. DOMAIN s = 1..Len(s) /\ Len(s) \in Nat /\ s \in [1..Len(s) -> Attempts]
      BY <2>1
    <2>3. s \in [1..Len(s) -> ToSet(s)]
      BY <2>2 DEF ToSet
    <2>4. s \in Seq(ToSet(s))
      BY <2>2, <2>3
    <2> QED
      BY <2>2, <2>4 DEF s
  <1>2. \A a \in LoadAttempt : StateOf(a) \in Attempts
    BY <1>1, AttemptFacts DEF StateOf
  <1> QED
    BY <1>1, <1>2, AttemptIsTyped

(* What a step leaves of the fetches: they only are answered, and become more. *)
FetchesGoOn ==
  /\ fetches' \in Seq(FetchRecord) /\ DOMAIN fetches \subseteq DOMAIN fetches'
  /\ \A i \in DOMAIN fetches :
       /\ fetches'[i].url = fetches[i].url /\ fetches'[i].by = fetches[i].by
       /\ fetches[i].status \in {"ok", "failed"} => fetches'[i].status = fetches[i].status

LEMMA FetchesStay ==
  ASSUME LoadsTyped, UNCHANGED fetches
  PROVE  FetchesGoOn
  BY DEF LoadsTyped, FetchesGoOn

LEMMA EntriesStayTrue ==
  ASSUME FetchesGoOn, NEW e, EntryIsTrue(e)
  PROVE  EntryIsTrue(e)'
  BY DEF FetchesGoOn, EntryIsTrue

LEMMA GraphsStayTrue ==
  ASSUME FetchesGoOn, NEW g, GraphInv(g, fetches)
  PROVE  GraphInv(g, fetches')
  <1>1. FetchedOn(fetches, fetches')
    BY DEF FetchesGoOn, FetchedOn
  <1> QED
    BY <1>1, GraphStaysTrue

LEMMA HandlersFacts ==
  ASSUME NEW x \in MfeEntry
  PROVE  /\ Handler[x] \in Handlers /\ Handler[x] # "realm" /\ "realm" \notin Handlers
         /\ Shared[x] \subseteq Dependencies /\ SharedUrls(x) \subseteq Urls /\ File \subseteq Urls
         /\ \A k \in Shared[x] : SharedUrl[x][k] \in SharedUrls(x)
  BY CachesAssumption DEF Handlers, Dependencies, Urls, SharedUrls

LEMMA FoundFacts ==
  ASSUME NEW c, NEW k, Has(c, k)
  PROVE  \E e \in cached : e.cache = c /\ e.key = k /\ Found(c, k) = e.fetch
  BY DEF Has, Found

(* A text is found or fetched. *)
LEMMA FetchesTextFacts ==
  ASSUME LoadsTyped, EntriesAreTrue, NEW h \in Handlers, NEW url \in Urls, FetchesText(h, url)
  PROVE  /\ FetchesGoOn /\ TextOf(h, url) \in DOMAIN fetches'
         /\ fetches'[TextOf(h, url)].url = url /\ fetches'[TextOf(h, url)].by = h
         /\ \A i \in DOMAIN fetches : fetches'[i].status = fetches[i].status
         /\ \/ \E e \in cached : e.cache = h /\ e.key = url /\ e.fetch = TextOf(h, url)
            \/ TextOf(h, url) \notin DOMAIN fetches
  <1>1. fetches \in Seq(FetchRecord) /\ h # "realm"
    BY CachesAssumption DEF LoadsTyped, Handlers
  <1>2. CASE Has(h, url)
    <2>1. PICK e \in cached : e.cache = h /\ e.key = url /\ Found(h, url) = e.fetch
      BY <1>2, FoundFacts
    <2>2. TextOf(h, url) = e.fetch /\ fetches' = fetches
      BY <1>2, <2>1 DEF TextOf, FetchesText
    <2>3. EntryIsTrue(e)
      BY DEF EntriesAreTrue
    <2>4. FetchesGoOn
      BY <2>2, FetchesStay
    <2> QED
      BY <1>1, <2>1, <2>2, <2>3, <2>4 DEF EntryIsTrue
  <1>3. CASE ~Has(h, url)
    <2> DEFINE new == [url |-> url, by |-> h, status |-> "flying"]
               i == Len(fetches) + 1
    <2>1. TextOf(h, url) = i /\ fetches' = Append(fetches, new)
      BY <1>3 DEF TextOf, FetchesText
    <2>2. new \in FetchRecord /\ new.url = url /\ new.by = h
      BY DEF FetchRecord
    <2> HIDE DEF new
    <2>3. /\ fetches' \in Seq(FetchRecord) /\ i \in DOMAIN fetches' /\ fetches'[i] = new
          /\ i \notin DOMAIN fetches /\ DOMAIN fetches \subseteq DOMAIN fetches'
          /\ \A j \in DOMAIN fetches : fetches'[j] = fetches[j]
      BY <1>1, <2>1, <2>2
    <2>4. FetchesGoOn
      BY <2>3 DEF FetchesGoOn
    <2> QED
      BY <2>1, <2>2, <2>3, <2>4
  <1> QED
    BY <1>2, <1>3

(* An attempt becomes another. *)
LEMMA BecomesFacts ==
  ASSUME attemptsOf \in [Wanted -> Seq(Attempts)], NEW a \in LoadAttempt, NEW att \in Attempts,
         Becomes(a, att), Wanted' = Wanted
  PROVE  /\ attemptsOf' \in [Wanted -> Seq(Attempts)]
         /\ \A x \in Wanted : DOMAIN attemptsOf'[x] = DOMAIN attemptsOf[x] /\ Len(attemptsOf'[x]) = Len(attemptsOf[x])
         /\ LoadAttempt' = LoadAttempt
         /\ \A c \in LoadAttempt : StateOf(c)' = IF c = a THEN att ELSE StateOf(c)
         /\ \A x \in Wanted : /\ LatestOf(x)' = LatestOf(x)
                              /\ attemptsOf[x] = <<>> <=> attemptsOf'[x] = <<>>
  <1> DEFINE y == a[1]
             n == a[2]
             s == attemptsOf[y]
             t == [s EXCEPT ![n] = att]
  <1>1. y \in Wanted /\ n \in DOMAIN s /\ a = <<y, n>>
    BY AttemptFacts
  <1>2. s \in Seq(Attempts)
    BY <1>1
  <1>3. attemptsOf' = [attemptsOf EXCEPT ![y] = t]
    BY DEF Becomes
  <1> HIDE DEF s, y, n
  <1>4. /\ t \in Seq(Attempts) /\ DOMAIN t = DOMAIN s /\ Len(t) = Len(s)
        /\ \A m \in DOMAIN s : t[m] = IF m = n THEN att ELSE s[m]
    BY <1>1, <1>2
  <1> HIDE DEF t
  <1>5. attemptsOf' \in [Wanted -> Seq(Attempts)]
    BY <1>1, <1>3, <1>4
  <1>6. \A x \in Wanted : attemptsOf'[x] = IF x = y THEN t ELSE attemptsOf[x]
    BY <1>1, <1>3
  <1>7. \A x \in Wanted : DOMAIN attemptsOf'[x] = DOMAIN attemptsOf[x] /\ Len(attemptsOf'[x]) = Len(attemptsOf[x])
    BY <1>4, <1>6 DEF s
  <1>8. LoadAttempt' = LoadAttempt
    BY <1>7 DEF LoadAttempt
  <1>9. ASSUME NEW c \in LoadAttempt  PROVE StateOf(c)' = IF c = a THEN att ELSE StateOf(c)
    <2>1. c[1] \in Wanted /\ c[2] \in DOMAIN attemptsOf[c[1]] /\ c = <<c[1], c[2]>>
      BY AttemptFacts
    <2>2. StateOf(c)' = attemptsOf'[c[1]][c[2]]
      BY DEF StateOf
    <2>3. CASE c[1] = y
      <3>1. StateOf(c)' = IF c[2] = n THEN att ELSE s[c[2]]
        BY <1>4, <1>6, <2>1, <2>2, <2>3 DEF s
      <3> QED
        BY <1>1, <2>1, <2>3, <3>1 DEF s, StateOf
    <2>4. CASE c[1] # y
      <3>1. StateOf(c)' = StateOf(c)
        BY <1>6, <2>1, <2>2, <2>4 DEF StateOf
      <3> QED
        BY <1>1, <2>4, <3>1
    <2> QED
      BY <2>3, <2>4
  <1>10. ASSUME NEW x \in Wanted
         PROVE  LatestOf(x)' = LatestOf(x) /\ (attemptsOf[x] = <<>> <=> attemptsOf'[x] = <<>>)
    <2>1. attemptsOf[x] \in Seq(Attempts) /\ attemptsOf'[x] \in Seq(Attempts)
      BY <1>5
    <2>2. Len(attemptsOf'[x]) = Len(attemptsOf[x])
      BY <1>7
    <2>3. attemptsOf[x] = <<>> <=> attemptsOf'[x] = <<>>
      BY <2>1, <2>2
    <2> QED
      BY <2>2, <2>3 DEF LatestOf
  <1> QED
    BY <1>5, <1>7, <1>8, <1>9, <1>10

DepsAreAsked(att, x, fetched) ==
  \A k \in DOMAIN att.deps : k \in Shared[x] /\ att.deps[k] \in DOMAIN fetched

(* An attempt that is true of the fetches so far. *)
TrueAttempt(att, x) ==
  /\ \A e \in att.ledger : EntryIsTrue(e)
  /\ att.left \subseteq DOMAIN fetches
  /\ DepsAreAsked(att, x, fetches)
  /\ GraphInv(att.graph, fetches)
  /\ att.stage = "loaded" => Exposed[x] \in att.graph.minted

LEMMA AttemptsAreTrue ==
  ASSUME LoadsInv, NEW a \in LoadAttempt
  PROVE  TrueAttempt(StateOf(a), a[1])
  BY DEF LoadsInv, EntriesAreTrue, GraphsInv, LoadedInv, TrueAttempt, DepsAreAsked, GraphOf

LEMMA AttemptStaysTrue ==
  ASSUME FetchesGoOn, NEW att, NEW x, TrueAttempt(att, x)
  PROVE  TrueAttempt(att, x)'
  <1>1. \A e \in att.ledger : EntryIsTrue(e)'
    BY EntriesStayTrue DEF TrueAttempt
  <1>2. GraphInv(att.graph, fetches')
    BY GraphsStayTrue DEF TrueAttempt
  <1> QED
    BY <1>1, <1>2 DEF TrueAttempt, DepsAreAsked, FetchesGoOn

LoadStages == {"none", "trying", "backoff", "loaded", "failed"}

LatestIsLoaded ==
  \A x \in Wanted : /\ loadOf[x] \in {"trying", "loaded"} => attemptsOf[x] # <<>>
                    /\ loadOf[x] = "loaded" => StateOf(LatestOf(x)).stage = "loaded"

LoadsAreTrue ==
  /\ fetches \in Seq(FetchRecord) /\ cached \subseteq CacheEntries /\ Wanted \subseteq MfeEntry
  /\ loadOf \in [Wanted -> LoadStages] /\ attemptsOf \in [Wanted -> Seq(Attempts)]
  /\ \A e \in cached : EntryIsTrue(e)
  /\ \A a \in LoadAttempt : TrueAttempt(StateOf(a), a[1])
  /\ LatestIsLoaded

LEMMA LoadsFromParts == LoadsAreTrue => LoadsInv
  <1> SUFFICES ASSUME LoadsAreTrue  PROVE LoadsInv
    OBVIOUS
  <1>1. LoadsTyped
    BY AttemptsOfParts DEF LoadsTyped, LoadStages, LoadsAreTrue
  <1>2. EntriesAreTrue
    BY DEF EntriesAreTrue, TrueAttempt, DepsAreAsked, LoadsAreTrue
  <1>3. GraphsInv
    BY DEF GraphsInv, GraphOf, TrueAttempt, LoadsAreTrue
  <1>4. LoadedInv
    BY DEF LoadedInv, GraphOf, TrueAttempt, LatestIsLoaded, LoadsAreTrue
  <1> QED
    BY <1>1, <1>2, <1>3, <1>4 DEF LoadsInv

LEMMA LoadsFromPartsNext == LoadsAreTrue' => LoadsInv'
  BY LoadsFromParts, PTL

LEMMA LoadsInParts ==
  ASSUME LoadsInv
  PROVE  LoadsAreTrue
  <1>1. /\ fetches \in Seq(FetchRecord) /\ cached \subseteq CacheEntries /\ Wanted \subseteq MfeEntry
        /\ loadOf \in [Wanted -> LoadStages] /\ attemptsOf \in [Wanted -> Seq(Attempts)]
    BY LoadsParts DEF LoadsInv, LoadsTyped, LoadStages
  <1>2. /\ \A e \in cached : EntryIsTrue(e)
        /\ \A a \in LoadAttempt : TrueAttempt(StateOf(a), a[1])
        /\ LatestIsLoaded
    BY AttemptsAreTrue DEF LoadsInv, EntriesAreTrue, LoadedInv, LatestIsLoaded
  <1> QED
    BY <1>1, <1>2 DEF LoadsAreTrue

(* A step of one attempt. *)
LEMMA AttemptSteps ==
  ASSUME LoadsInv, FetchesGoOn, cached' \subseteq CacheEntries, \A e \in cached' : EntryIsTrue(e)',
         loadOf' \in [Wanted -> LoadStages],
         \A x \in Wanted : loadOf'[x] \in {"trying", "loaded"} => loadOf'[x] = loadOf[x],
         NEW a \in LoadAttempt, NEW att \in Attempts, Becomes(a, att), TrueAttempt(att, a[1])',
         StateOf(a).stage = "loaded" => att.stage = "loaded"
  PROVE  LoadsInv'
  <1>1. LoadsAreTrue
    BY LoadsInParts
  <1>2. attemptsOf \in [Wanted -> Seq(Attempts)] /\ Wanted' = Wanted
    BY <1>1 DEF LoadsAreTrue, Wanted
  <1>3. /\ attemptsOf' \in [Wanted -> Seq(Attempts)] /\ LoadAttempt' = LoadAttempt
        /\ \A c \in LoadAttempt : StateOf(c)' = IF c = a THEN att ELSE StateOf(c)
        /\ \A x \in Wanted : /\ LatestOf(x)' = LatestOf(x)
                             /\ attemptsOf[x] = <<>> <=> attemptsOf'[x] = <<>>
    BY <1>2, BecomesFacts
  <1>4. ASSUME NEW c \in LoadAttempt'  PROVE TrueAttempt(StateOf(c), c[1])'
    <2>1. CASE c = a
      <3>1. StateOf(c)' = att
        BY <1>3, <2>1
      <3> QED
        BY <2>1, <3>1
    <2>2. CASE c # a
      <3>1. TrueAttempt(StateOf(c), c[1])
        BY <1>1, <1>3 DEF LoadsAreTrue
      <3>2. StateOf(c)' = StateOf(c)
        BY <1>3, <2>2
      <3> QED
        BY <3>1, <3>2, AttemptStaysTrue
    <2> QED
      BY <2>1, <2>2
  <1>5. LatestIsLoaded'
    <2> SUFFICES ASSUME NEW x \in Wanted, loadOf'[x] \in {"trying", "loaded"}
                 PROVE  /\ attemptsOf'[x] # <<>>
                        /\ loadOf'[x] = "loaded" => StateOf(LatestOf(x))'.stage = "loaded"
      BY <1>2 DEF LatestIsLoaded
    <2>1. loadOf[x] = loadOf'[x] /\ attemptsOf[x] # <<>>
      BY <1>1 DEF LoadsAreTrue, LatestIsLoaded
    <2>2. attemptsOf'[x] # <<>>
      BY <1>3, <2>1
    <2>3. LatestOf(x) \in LoadAttempt
      <3>1. attemptsOf[x] \in Seq(Attempts)
        BY <1>2
      <3>2. Len(attemptsOf[x]) \in DOMAIN attemptsOf[x]
        BY <2>1, <3>1
      <3> QED
        BY <3>2, AttemptFacts DEF LatestOf
    <2>4. loadOf'[x] = "loaded" => StateOf(LatestOf(x)).stage = "loaded"
      BY <1>1, <2>1 DEF LoadsAreTrue, LatestIsLoaded
    <2> QED
      BY <1>3, <2>2, <2>3, <2>4
  <1>6. LoadsAreTrue'
    BY <1>1, <1>2, <1>3, <1>4, <1>5 DEF LoadsAreTrue, FetchesGoOn
  <1> QED
    BY <1>6, LoadsFromPartsNext

-----------------------------------------------------------------------------
(* The steps of a load. *)

LEMMA AttemptOfPart ==
  ASSUME LoadsInv, NEW a \in LoadAttempt
  PROVE  /\ StateOf(a) \in Attempts /\ TrueAttempt(StateOf(a), a[1])
         /\ a[1] \in Wanted /\ a[1] \in MfeEntry /\ Handler[a[1]] \in Handlers
         /\ GraphInv(GraphOf(a), fetches) /\ GraphTyped(GraphOf(a))
         /\ StateOf(a).deps \in Partial(Dependencies, Nat)
  <1>1. StateOf(a) \in Attempts /\ TrueAttempt(StateOf(a), a[1])
    BY LoadsParts, AttemptsAreTrue DEF LoadsInv
  <1>2. a[1] \in Wanted /\ a[1] \in MfeEntry
    BY AttemptFacts DEF LoadsInv, LoadsTyped
  <1>3. GraphInv(GraphOf(a), fetches)
    BY DEF LoadsInv, GraphsInv
  <1>4. StateOf(a).deps \in Partial(Dependencies, Nat)
    BY <1>1 DEF Attempts
  <1> QED
    BY <1>1, <1>2, <1>3, <1>4, HandlersFacts DEF GraphInv, GraphIsTrue

(* A step that changes no more than the graph of an attempt. *)
LEMMA GraphSteps ==
  ASSUME LoadsInv, UNCHANGED <<fetches, cached, loadOf>>, NEW a \in LoadAttempt, NEW g, GraphBecomes(a, g),
         GraphInv(g, fetches), GraphOf(a).minted \subseteq g.minted
  PROVE  LoadsInv'
  <1>1. /\ StateOf(a) \in Attempts /\ TrueAttempt(StateOf(a), a[1])
    BY AttemptOfPart
  <1>2. g \in Graphs
    BY GraphIsTyped DEF GraphInv, GraphIsTrue
  <1>3. PICK att \in Attempts : /\ att = [StateOf(a) EXCEPT !.graph = g]
                                /\ att.graph = g /\ att.stage = StateOf(a).stage
                                /\ att.ledger = StateOf(a).ledger /\ att.left = StateOf(a).left
                                /\ att.deps = StateOf(a).deps
    <2> DEFINE b == [StateOf(a) EXCEPT !.graph = g]
    <2>1. b \in Attempts /\ b.graph = g /\ b.stage = StateOf(a).stage
      BY <1>1, <1>2 DEF Attempts
    <2>2. b.ledger = StateOf(a).ledger /\ b.left = StateOf(a).left /\ b.deps = StateOf(a).deps
      BY <1>1 DEF Attempts
    <2> QED
      BY <2>1, <2>2
  <1>4. Becomes(a, att)
    BY <1>3 DEF GraphBecomes
  <1>5. TrueAttempt(att, a[1])
    BY <1>1, <1>3 DEF TrueAttempt, DepsAreAsked, GraphOf
  <1>6. FetchesGoOn
    BY FetchesStay DEF LoadsInv
  <1>7. TrueAttempt(att, a[1])'
    BY <1>5, <1>6, AttemptStaysTrue
  <1>8. LoadsAreTrue
    BY LoadsInParts
  <1>9. cached' \subseteq CacheEntries /\ \A e \in cached' : EntryIsTrue(e)'
    BY <1>6, <1>8, EntriesStayTrue DEF LoadsAreTrue
  <1>10. /\ loadOf' \in [Wanted -> LoadStages]
         /\ \A x \in Wanted : loadOf'[x] \in {"trying", "loaded"} => loadOf'[x] = loadOf[x]
    BY <1>8 DEF LoadsAreTrue
  <1> QED
    BY <1>3, <1>4, <1>6, <1>7, <1>9, <1>10, AttemptSteps

LEMMA FetchArrivesKeeps ==
  ASSUME LoadsInv, NEW a \in LoadAttempt, NEW f \in Works(a), FetchArrives(a, f)
  PROVE  LoadsInv'
  <1> DEFINE i == GraphOf(a).works[f].fetch
             h == SourceArrives(GraphOf(a), f, Came(i))
  <1>1. GraphInv(GraphOf(a), fetches) /\ f \in InFlight(GraphOf(a))
    BY AttemptOfPart DEF Works
  <1>2. i \in DOMAIN fetches /\ fetches[i].url = f /\ ~Flying(i) /\ GraphOf(a).works[f].stage = "fetch"
    BY <1>1 DEF GraphInv, GraphIsTrue, WorkIsTrue, FetchArrives, HasText
  <1>3. Came(i) \in BOOLEAN
    BY DEF Came
  <1>4. ~Came(i) => f \in Broken(fetches)
    <2>1. fetches[i] \in FetchRecord
      BY <1>2 DEF LoadsInv, LoadsTyped
    <2>2. ~Came(i) => fetches[i].status = "failed"
      BY <1>2, <2>1 DEF FetchRecord, Flying, Came
    <2> QED
      BY <1>2, <2>2 DEF Broken
  <1>5. GraphInv(h, fetches) /\ h.minted = GraphOf(a).minted
    <2> DEFINE ok == Came(i)
    <2>1. GraphInv(SourceArrives(GraphOf(a), f, ok), fetches) /\ SourceArrives(GraphOf(a), f, ok).minted = GraphOf(a).minted
      <3> HIDE DEF ok, i
      <3>1. ok \in BOOLEAN /\ (~ok => f \in Broken(fetches))
        BY <1>3, <1>4 DEF ok
      <3> QED
        BY <1>1, <1>2, <3>1, SourceArrivesFacts
    <2> QED
      BY <2>1
  <1>6. UNCHANGED <<fetches, cached, loadOf>> /\ GraphBecomes(a, h)
    BY DEF FetchArrives
  <1> HIDE DEF h
  <1> QED
    BY <1>5, <1>6, GraphSteps

LEMMA ImportsSettleKeeps ==
  ASSUME LoadsInv, NEW a \in LoadAttempt, NEW f \in Works(a), ImportsSettle(a, f)
  PROVE  LoadsInv'
  <1> DEFINE h == Completes(GraphOf(a), f)
  <1>1. GraphInv(GraphOf(a), fetches) /\ f \in InFlight(GraphOf(a))
    BY AttemptOfPart DEF Works
  <1>2. /\ GraphOf(a).works[f].stage = "imports" /\ AllSettled(GraphOf(a), f)
        /\ UNCHANGED <<fetches, cached, loadOf>> /\ GraphBecomes(a, h)
    BY DEF ImportsSettle, HasImports
  <1>3. GraphInv(h, fetches) /\ GraphOf(a).minted \subseteq h.minted
    BY <1>1, <1>2, CompletesFacts
  <1> HIDE DEF h
  <1> QED
    BY <1>2, <1>3, GraphSteps

LEMMA JoinerResumesKeeps ==
  ASSUME LoadsInv, NEW a \in LoadAttempt, NEW f \in Works(a), NEW d \in DOMAIN GraphOf(a).works[f].waits,
         JoinerResumes(a, f, d)
  PROVE  LoadsInv'
  <1> DEFINE g == GraphOf(a)
             r == Resumes(g, g.works[f].build, d, g.works[f].kids)
             h == [r.graph EXCEPT !.works[f].waits[d] = r.wait]
  <1>1. GraphInv(g, fetches) /\ f \in InFlight(g)
    BY AttemptOfPart DEF Works
  <1>2. UNCHANGED <<fetches, cached, loadOf>> /\ GraphBecomes(a, h)
    BY DEF JoinerResumes
  <1>3. GraphInv(h, fetches) /\ h.minted = g.minted
    <2>1. d \in DOMAIN g.works[f].waits /\ g.works[f].waits[d] = "again"
      BY DEF JoinerResumes, AsksAgain
    <2> HIDE DEF g
    <2> QED
      BY <1>1, <2>1, JoinerResumesFacts
  <1> HIDE DEF h
  <1> QED
    BY <1>2, <1>3, GraphSteps

LEMMA RootResumesKeeps ==
  ASSUME LoadsInv, NEW a \in LoadAttempt, NEW b \in DOMAIN GraphOf(a).builds, RootResumes(a, b)
  PROVE  LoadsInv'
  <1> DEFINE g == GraphOf(a)
             r == Resumes(g, b, g.builds[b].root, g.builds[b].from)
             h == [r.graph EXCEPT !.builds[b].wait = r.wait]
  <1>1. GraphInv(g, fetches)
    BY AttemptOfPart
  <1>2. UNCHANGED <<fetches, cached, loadOf>> /\ GraphBecomes(a, h)
    BY DEF RootResumes
  <1>3. GraphInv(h, fetches) /\ h.minted = g.minted
    <2> HIDE DEF g
    <2>1. b \in DOMAIN g.builds
      BY DEF g
    <2> QED
      BY <1>1, <2>1, RootResumesFacts
  <1> HIDE DEF h
  <1> QED
    BY <1>2, <1>3, GraphSteps

(* An attempt of a load. *)
LEMMA LatestFacts ==
  ASSUME LoadsInv, NEW x \in Wanted, attemptsOf[x] # <<>>
  PROVE  LatestOf(x) \in LoadAttempt /\ LatestOf(x)[1] = x
  <1>1. attemptsOf[x] \in Seq(Attempts)
    BY LoadsInParts DEF LoadsAreTrue
  <1>2. Len(attemptsOf[x]) \in DOMAIN attemptsOf[x]
    BY <1>1
  <1> QED
    BY <1>2, AttemptFacts DEF LatestOf

LEMMA AsksLazilyKeeps ==
  ASSUME LoadsInv, NEW x \in Wanted, NEW f \in Lazy[x], AsksLazily(x, f)
  PROVE  LoadsInv'
  <1> DEFINE a == LatestOf(x)
             g == GraphOf(a)
             h == Opens(g, f, {Exposed[x]})
  <1>1. /\ loadOf[x] = "loaded" /\ UNCHANGED <<fetches, cached, loadOf>> /\ GraphBecomes(a, h)
    BY DEF AsksLazily
  <1>2. attemptsOf[x] # <<>> /\ StateOf(a).stage = "loaded"
    BY <1>1 DEF LoadsInv, LoadedInv
  <1>3. a \in LoadAttempt /\ a[1] = x
    BY <1>2, LatestFacts
  <1>4. Exposed[x] \in g.minted /\ f \in File
    BY <1>2, <1>3, LoadsAssumption DEF LoadsInv, LoadedInv, LoadsTyped
  <1>5. GraphInv(g, fetches) /\ {Exposed[x]} \in SUBSET g.minted
    BY <1>3, <1>4, AttemptOfPart
  <1>6. GraphInv(h, fetches) /\ h.minted = g.minted
    <2> HIDE DEF g
    <2> QED
      BY <1>4, <1>5, OpensFacts
  <1> HIDE DEF h, a
  <1> QED
    BY <1>1, <1>3, <1>6, GraphSteps

(* A step of an attempt that leaves the fetches, the caches and the loads. *)
LEMMA LocalSteps ==
  ASSUME LoadsInv, UNCHANGED <<fetches, cached, loadOf>>, NEW a \in LoadAttempt, NEW att \in Attempts,
         Becomes(a, att), TrueAttempt(att, a[1]), StateOf(a).stage = "loaded" => att.stage = "loaded"
  PROVE  LoadsInv'
  <1>1. FetchesGoOn
    BY FetchesStay DEF LoadsInv
  <1>2. TrueAttempt(att, a[1])'
    BY <1>1, AttemptStaysTrue
  <1>3. LoadsAreTrue
    BY LoadsInParts
  <1>4. cached' \subseteq CacheEntries /\ \A e \in cached' : EntryIsTrue(e)'
    BY <1>1, <1>3, EntriesStayTrue DEF LoadsAreTrue
  <1>5. /\ loadOf' \in [Wanted -> LoadStages]
        /\ \A x \in Wanted : loadOf'[x] \in {"trying", "loaded"} => loadOf'[x] = loadOf[x]
    BY <1>3 DEF LoadsAreTrue
  <1> QED
    BY <1>1, <1>2, <1>4, <1>5, AttemptSteps

LEMMA ChainEndsKeeps ==
  ASSUME LoadsInv, NEW a \in LoadAttempt, ChainEnds(a)
  PROVE  LoadsInv'
  <1> DEFINE end == CASE GraphOf(a).builds[1].wait = "cycle"  -> "refused"
                      [] GraphOf(a).builds[1].wait = "failed" -> "failed"
                      [] Exposed[a[1]] \in GraphOf(a).minted  -> "loaded"
                      [] OTHER                                -> "failed"
             b == [StateOf(a) EXCEPT !.stage = end]
  <1>1. StateOf(a) \in Attempts /\ TrueAttempt(StateOf(a), a[1]) /\ StateOf(a).stage = "chain"
    BY AttemptOfPart DEF ChainEnds, ChainSettled
  <1>2. UNCHANGED <<fetches, cached, loadOf>> /\ Becomes(a, b)
    BY DEF ChainEnds
  <1>3. /\ end \in {"loaded", "failed", "refused"}
        /\ end = "loaded" => Exposed[a[1]] \in GraphOf(a).minted
    <2>1. CASE GraphOf(a).builds[1].wait = "cycle"
      BY <2>1
    <2>2. CASE GraphOf(a).builds[1].wait = "failed"
      BY <2>2
    <2>3. CASE GraphOf(a).builds[1].wait \notin {"cycle", "failed"}
      BY <2>3
    <2> QED
      BY <2>1, <2>2, <2>3
  <1> HIDE DEF end
  <1>4. /\ b \in Attempts /\ b.stage = end /\ b.graph = StateOf(a).graph
        /\ b.ledger = StateOf(a).ledger /\ b.left = StateOf(a).left /\ b.deps = StateOf(a).deps
    BY <1>1, <1>3 DEF Attempts
  <1> HIDE DEF b
  <1>5. TrueAttempt(b, a[1])
    BY <1>1, <1>3, <1>4 DEF TrueAttempt, DepsAreAsked, GraphOf
  <1> QED
    BY <1>1, <1>2, <1>4, <1>5, LocalSteps

LEMMA SharedArrivesKeeps ==
  ASSUME LoadsInv, NEW a \in LoadAttempt, SharedArrives(a)
  PROVE  LoadsInv'
  <1> DEFINE g == Opens(GraphOf(a), Exposed[a[1]], {})
             b == [StateOf(a) EXCEPT !.stage = "chain", !.graph = g]
             c == [StateOf(a) EXCEPT !.stage = "failed"]
  <1>1. /\ StateOf(a) \in Attempts /\ TrueAttempt(StateOf(a), a[1]) /\ StateOf(a).stage = "shared"
        /\ GraphInv(GraphOf(a), fetches) /\ a[1] \in MfeEntry
    BY AttemptOfPart DEF SharedArrives, SharedSettled
  <1>2. UNCHANGED <<fetches, cached, loadOf>> /\ (Becomes(a, b) \/ Becomes(a, c))
    BY DEF SharedArrives, GraphOf
  <1>3. CASE Becomes(a, b)
    <2>1. Exposed[a[1]] \in File /\ {} \in SUBSET GraphOf(a).minted
      BY <1>1, LoadsAssumption
    <2>2. GraphInv(g, fetches)
      BY <1>1, <2>1, OpensFacts
    <2> HIDE DEF g
    <2>3. g \in Graphs
      BY <2>2, GraphIsTyped DEF GraphInv, GraphIsTrue
    <2>4. /\ b \in Attempts /\ b.stage = "chain" /\ b.graph = g
          /\ b.ledger = StateOf(a).ledger /\ b.left = StateOf(a).left /\ b.deps = StateOf(a).deps
      BY <1>1, <2>3 DEF Attempts
    <2> HIDE DEF b
    <2>5. TrueAttempt(b, a[1])
      BY <1>1, <2>2, <2>4 DEF TrueAttempt, DepsAreAsked
    <2> QED
      BY <1>1, <1>2, <1>3, <2>4, <2>5, LocalSteps
  <1>4. CASE Becomes(a, c)
    <2>4. /\ c \in Attempts /\ c.stage = "failed" /\ c.graph = StateOf(a).graph
          /\ c.ledger = StateOf(a).ledger /\ c.left = StateOf(a).left /\ c.deps = StateOf(a).deps
      BY <1>1 DEF Attempts
    <2> HIDE DEF c
    <2>5. TrueAttempt(c, a[1])
      BY <1>1, <2>4 DEF TrueAttempt, DepsAreAsked
    <2> QED
      BY <1>1, <1>2, <1>4, <2>4, <2>5, LocalSteps
  <1> QED
    BY <1>2, <1>3, <1>4

LEMMA RecordsFacts ==
  ASSUME NEW att \in Attempts, NEW used \in SUBSET CacheEntries
  PROVE  LET r == Records(att, used)
         IN /\ r \in Attempts /\ r.stage = att.stage /\ r.graph = att.graph
            /\ r.left = att.left /\ r.deps = att.deps /\ r.expired = att.expired
            /\ r.ledger \subseteq att.ledger \cup used
            /\ ~att.expired => r.ledger = att.ledger \cup used
            /\ att.expired => r.ledger = att.ledger
  <1>1. CASE att.expired
    BY <1>1 DEF Records
  <1>2. CASE ~att.expired
    BY <1>2 DEF Records, Attempts
  <1> QED
    BY <1>1, <1>2

(* A text is asked for and recorded: the fetches go on, the caches take it in. *)
LEMMA UsedIsTrue ==
  ASSUME LoadsInv, FetchesGoOn, NEW used \in SUBSET CacheEntries, \A e \in used : EntryIsTrue(e)',
         cached' = cached \cup used
  PROVE  cached' \subseteq CacheEntries /\ \A e \in cached' : EntryIsTrue(e)'
  <1>1. LoadsAreTrue
    BY LoadsInParts
  <1> QED
    BY <1>1, EntriesStayTrue DEF LoadsAreTrue

LEMMA AskedStays ==
  ASSUME LoadsInv, FetchesGoOn, NEW used \in SUBSET CacheEntries, \A e \in used : EntryIsTrue(e)',
         cached' = cached \cup used, UNCHANGED loadOf, NEW a \in LoadAttempt, NEW att \in Attempts,
         att.ledger \subseteq StateOf(a).ledger \cup used, att.left = StateOf(a).left,
         att.stage = StateOf(a).stage, GraphInv(att.graph, fetches'),
         GraphOf(a).minted \subseteq att.graph.minted,
         DepsAreAsked(att, a[1], fetches'), Becomes(a, att)
  PROVE  LoadsInv'
  <1>2. TrueAttempt(StateOf(a), a[1])
    BY AttemptOfPart
  <1>3. \A e \in att.ledger : EntryIsTrue(e)'
    BY <1>2, EntriesStayTrue DEF TrueAttempt
  <1>4. att.left \subseteq DOMAIN fetches'
    BY <1>2 DEF TrueAttempt, FetchesGoOn
  <1>5. att.stage = "loaded" => Exposed[a[1]] \in att.graph.minted
    BY <1>2 DEF TrueAttempt, GraphOf
  <1>6. TrueAttempt(att, a[1])'
    BY <1>3, <1>4, <1>5 DEF TrueAttempt, DepsAreAsked
  <1>7. cached' \subseteq CacheEntries /\ \A e \in cached' : EntryIsTrue(e)'
    BY UsedIsTrue
  <1>8. LoadsAreTrue
    BY LoadsInParts
  <1>9. /\ loadOf' \in [Wanted -> LoadStages]
        /\ \A x \in Wanted : loadOf'[x] \in {"trying", "loaded"} => loadOf'[x] = loadOf[x]
    BY <1>8 DEF LoadsAreTrue
  <1> QED
    BY <1>6, <1>7, <1>9, AttemptSteps

(* An attempt asks for a text: the caches take in the entries it uses, and its ledger *)
(* while it is not given up on.                                                       *)
TextAsked(a, used, att) ==
  /\ FetchesGoOn /\ \A i \in DOMAIN fetches : fetches'[i].status = fetches[i].status
  /\ used \in SUBSET CacheEntries /\ cached' = cached \cup used /\ UNCHANGED loadOf
  /\ \A e \in used : EntryIsTrue(e)' /\ Uses(a[1], e)
  /\ att \in Attempts /\ Becomes(a, att)
  /\ att.stage = StateOf(a).stage /\ att.expired = StateOf(a).expired /\ att.left = StateOf(a).left
  /\ att.ledger = IF StateOf(a).expired THEN StateOf(a).ledger ELSE StateOf(a).ledger \cup used
  /\ GraphInv(att.graph, fetches') /\ GraphOf(a).minted \subseteq att.graph.minted
  /\ DepsAreAsked(att, a[1], fetches')

LEMMA TextAskedKeeps ==
  ASSUME LoadsInv, NEW a \in LoadAttempt, NEW used, NEW att, TextAsked(a, used, att)
  PROVE  LoadsInv'
  <1>1. /\ FetchesGoOn /\ used \in SUBSET CacheEntries /\ \A e \in used : EntryIsTrue(e)'
        /\ cached' = cached \cup used /\ UNCHANGED loadOf /\ att \in Attempts
        /\ att.ledger \subseteq StateOf(a).ledger \cup used /\ att.left = StateOf(a).left
        /\ att.stage = StateOf(a).stage /\ GraphInv(att.graph, fetches')
        /\ GraphOf(a).minted \subseteq att.graph.minted
        /\ DepsAreAsked(att, a[1], fetches') /\ Becomes(a, att)
    BY DEF TextAsked
  <1> QED
    BY <1>1, AskedStays

(* The source of a chunk is asked for. *)
LEMMA BeginsFetchFacts ==
  ASSUME LoadsInv, NEW a \in LoadAttempt, NEW f \in Works(a), BeginsFetch(a, f)
  PROVE  \E used, att :
           /\ TextAsked(a, used, att) /\ att.deps = StateOf(a).deps
           /\ \A e \in used : /\ fetches'[e.fetch].url \in File
                              /\ e \in cached \/ e.fetch \notin DOMAIN fetches
  <1> DEFINE g == GraphOf(a)
             h == Handler[a[1]]
             i == TextOf(h, f)
             u == IF BuildOf(g, f).failed THEN {} ELSE {CacheEntry(h, f, i)}
             k == SourceBegins(g, f, i)
             b == [Records(StateOf(a), u) EXCEPT !.graph = k]
  <1>1. /\ StateOf(a) \in Attempts /\ TrueAttempt(StateOf(a), a[1]) /\ h \in Handlers /\ h # "realm"
        /\ GraphInv(g, fetches) /\ f \in InFlight(g) /\ f \in File /\ f \in Urls
    <2>1. f \in InFlight(g) /\ InFlight(g) \subseteq File
      BY AttemptOfPart, GraphParts DEF Works
    <2> QED
      BY <2>1, AttemptOfPart, HandlersFacts
  <1>2. /\ IF u = {} THEN UNCHANGED fetches ELSE FetchesText(h, f)
        /\ cached' = cached \cup u /\ UNCHANGED loadOf /\ AsksAgainFor(g, f) = {}
    BY DEF BeginsFetch
  <1>3. Becomes(a, b)
    <2>1. Records(StateOf(a), u).graph = g
      BY DEF Records, GraphOf
    <2> HIDE DEF u
    <2>2. Becomes(a, [Records(StateOf(a), u) EXCEPT !.graph = SourceBegins(@, f, i)])
      BY DEF BeginsFetch, u
    <2> QED
      BY <2>1, <2>2
  <1>4. /\ FetchesGoOn /\ i \in Nat
        /\ \A j \in DOMAIN fetches : fetches'[j].status = fetches[j].status
        /\ ~BuildOf(g, f).failed =>
             /\ i \in DOMAIN fetches' /\ fetches'[i].url = f /\ fetches'[i].by = h
             /\ \/ \E e \in cached : e.cache = h /\ e.key = f /\ e.fetch = i
                \/ i \notin DOMAIN fetches
    <2>1. CASE BuildOf(g, f).failed
      <3>1. FetchesGoOn /\ UNCHANGED fetches
        BY <1>2, <2>1, FetchesStay DEF LoadsInv
      <3>2. i \in Nat
        <4>1. CASE Has(h, f)
          <5>1. PICK e \in cached : i = e.fetch
            BY <4>1, FoundFacts DEF TextOf
          <5> QED
            BY <5>1 DEF LoadsInv, LoadsTyped, CacheEntries
        <4>2. CASE ~Has(h, f)
          BY <4>2 DEF TextOf, LoadsInv, LoadsTyped
        <4> QED
          BY <4>1, <4>2
      <3> QED
        BY <2>1, <3>1, <3>2
    <2>2. CASE ~BuildOf(g, f).failed
      <3>1. FetchesText(h, f)
        BY <1>2, <2>2
      <3> HIDE DEF h, i
      <3>2. /\ FetchesGoOn /\ i \in DOMAIN fetches' /\ fetches'[i].url = f /\ fetches'[i].by = h
            /\ \A j \in DOMAIN fetches : fetches'[j].status = fetches[j].status
            /\ \/ \E e \in cached : e.cache = h /\ e.key = f /\ e.fetch = i
               \/ i \notin DOMAIN fetches
        BY <1>1, <3>1, FetchesTextFacts DEF LoadsInv, i
      <3>3. i \in Nat
        BY <3>2 DEF FetchesGoOn
      <3> QED
        BY <3>2, <3>3
    <2> QED
      BY <2>1, <2>2
  <1> HIDE DEF i, h
  <1>5. GraphInv(g, fetches')
    BY <1>1, <1>4, GraphsStayTrue
  <1>6. GraphInv(k, fetches') /\ k.minted = g.minted
    <2> DEFINE later == fetches'
    <2> HIDE DEF g, later
    <2>1. /\ GraphInv(g, later) /\ f \in InFlight(g)
          /\ ~BuildOf(g, f).failed => i \in DOMAIN later /\ later[i].url = f
          /\ AsksAgainFor(g, f) = {}
      BY <1>1, <1>2, <1>4, <1>5 DEF later
    <2>2. GraphInv(k, later) /\ k.minted = g.minted
      BY <1>4, <2>1, BeginsFacts
    <2> QED
      BY <2>2 DEF later
  <1>7. u \in SUBSET CacheEntries
    BY <1>1, <1>4 DEF CacheEntry, CacheEntries
  <1>8. ASSUME NEW e \in u
        PROVE  /\ EntryIsTrue(e)' /\ Uses(a[1], e) /\ fetches'[e.fetch].url \in File
               /\ e \in cached \/ e.fetch \notin DOMAIN fetches
    <2>1. /\ e = CacheEntry(h, f, i) /\ i \in DOMAIN fetches' /\ fetches'[i].url = f /\ fetches'[i].by = h
          /\ \/ \E c \in cached : c.cache = h /\ c.key = f /\ c.fetch = i
             \/ i \notin DOMAIN fetches
      BY <1>4
    <2>2. e.cache = h /\ e.key = f /\ e.fetch = i
      BY <2>1 DEF CacheEntry
    <2>3. \A c \in cached : c.cache = h /\ c.key = f /\ c.fetch = i => c = e
      BY <2>1 DEF LoadsInv, LoadsTyped, CacheEntries, CacheEntry
    <2>4. EntryIsTrue(e)'
      BY <1>1, <2>1, <2>2 DEF EntryIsTrue
    <2>5. Uses(a[1], e)
      BY <1>1, <2>2 DEF Uses, h
    <2> QED
      BY <1>1, <2>1, <2>2, <2>3, <2>4, <2>5
  <1> HIDE DEF u, k
  <1> DEFINE r == Records(StateOf(a), u)
  <1>9. /\ r \in Attempts /\ r.stage = StateOf(a).stage /\ r.graph = g
        /\ r.left = StateOf(a).left /\ r.deps = StateOf(a).deps /\ r.expired = StateOf(a).expired
        /\ r.ledger = IF StateOf(a).expired THEN StateOf(a).ledger ELSE StateOf(a).ledger \cup u
    BY <1>1, <1>7, RecordsFacts DEF GraphOf
  <1>10. k \in Graphs
    BY <1>6, GraphIsTyped DEF GraphInv, GraphIsTrue
  <1> HIDE DEF r
  <1> DEFINE att == [r EXCEPT !.graph = k]
  <1>11. /\ att \in Attempts /\ att.stage = StateOf(a).stage /\ att.graph = k
         /\ att.left = StateOf(a).left /\ att.deps = StateOf(a).deps /\ att.expired = StateOf(a).expired
         /\ att.ledger = IF StateOf(a).expired THEN StateOf(a).ledger ELSE StateOf(a).ledger \cup u
    <2>1. /\ att \in Attempts /\ att.stage = r.stage /\ att.graph = k /\ att.expired = r.expired
          /\ att.left = r.left /\ att.deps = r.deps /\ att.ledger = r.ledger
      BY <1>9, <1>10 DEF Attempts
    <2> HIDE DEF att
    <2> QED
      BY <1>9, <2>1
  <1>12. Becomes(a, att)
    BY <1>3, <1>11 DEF r
  <1> HIDE DEF att
  <1>13. DepsAreAsked(att, a[1], fetches')
    BY <1>1, <1>4, <1>11 DEF TrueAttempt, DepsAreAsked, FetchesGoOn
  <1>14. GraphOf(a).minted \subseteq att.graph.minted /\ GraphInv(att.graph, fetches')
    BY <1>6, <1>11
  <1>15. TextAsked(a, u, att)
    BY <1>2, <1>4, <1>7, <1>8, <1>11, <1>12, <1>13, <1>14 DEF TextAsked
  <1> QED
    BY <1>8, <1>11, <1>15

(* The entries a shared dependency is asked for by. *)
SharedUses(x, k, i) == {CacheEntry("realm", k, i), CacheEntry(Handler[x], SharedUrl[x][k], i)}

(* A shared dependency is asked for: it is on offer, or its text is found or fetched. *)
LEMMA AsksSharedFacts ==
  ASSUME LoadsInv, NEW a \in LoadAttempt, NEW k, AsksShared(a, k)
  PROVE  \E used, att, i :
           /\ TextAsked(a, used, att)
           /\ StateOf(a).stage = "shared" /\ k \in Shared[a[1]] \ DOMAIN StateOf(a).deps
           /\ DOMAIN att.deps = DOMAIN StateOf(a).deps \cup {k} /\ att.deps[k] = i
           /\ \A l \in DOMAIN StateOf(a).deps : att.deps[l] = StateOf(a).deps[l]
           /\ \A e \in used : e.fetch = i
           /\ \/ used \subseteq cached
              \/ /\ used = SharedUses(a[1], k, i)
                 /\ fetches'[i].by = Handler[a[1]] /\ fetches'[i].url = SharedUrl[a[1]][k]
                 /\ i \notin DOMAIN fetches \/ \E e \in cached : e.fetch = i
  <1> DEFINE x   == a[1]
             url == SharedUrl[x][k]
             h   == Handler[x]
             hit == Has("realm", k)
             i   == IF hit THEN Found("realm", k) ELSE TextOf(h, url)
             u   == {CacheEntry("realm", k, i)} \cup IF hit THEN {} ELSE {CacheEntry(h, url, i)}
             Answered ==
               /\ FetchesGoOn /\ i \in DOMAIN fetches'
               /\ \A j \in DOMAIN fetches : fetches'[j].status = fetches[j].status
               /\ u \in SUBSET CacheEntries
               /\ \A c \in u : EntryIsTrue(c)' /\ Uses(x, c) /\ c.fetch = i
               /\ \/ u \subseteq cached
                  \/ /\ u = SharedUses(x, k, i) /\ fetches'[i].by = h /\ fetches'[i].url = url
                     /\ i \notin DOMAIN fetches \/ \E e \in cached : e.fetch = i
             deps == Put(StateOf(a).deps, k, i)
             b   == [Records(StateOf(a), u) EXCEPT !.deps = deps]
  <1>1. /\ StateOf(a) \in Attempts /\ TrueAttempt(StateOf(a), x) /\ h \in Handlers /\ h # "realm"
        /\ x \in MfeEntry /\ StateOf(a).deps \in Partial(Dependencies, Nat)
        /\ GraphInv(GraphOf(a), fetches)
    BY AttemptOfPart, HandlersFacts
  <1>2. /\ StateOf(a).stage = "shared" /\ k \in Shared[x] \ DOMAIN StateOf(a).deps
        /\ IF hit THEN UNCHANGED fetches ELSE FetchesText(h, url)
        /\ cached' = cached \cup u /\ UNCHANGED loadOf
    BY DEF AsksShared, SharedToAsk
  <1>3. k \in Dependencies /\ url \in SharedUrls(x) /\ url \in Urls
    BY <1>1, <1>2, HandlersFacts
  <1>4. Becomes(a, b)
    <2>1. Records(StateOf(a), u).deps = StateOf(a).deps
      BY DEF Records
    <2> HIDE DEF u, i
    <2>2. Becomes(a, [Records(StateOf(a), u) EXCEPT !.deps = Put(@, k, i)])
      BY DEF AsksShared, u, i
    <2> QED
      BY <2>1, <2>2
  <1>5. ASSUME hit  PROVE Answered
    <2>1. PICK e \in cached : e.cache = "realm" /\ e.key = k /\ Found("realm", k) = e.fetch
      BY <1>5, FoundFacts
    <2>2. i = e.fetch /\ u = {CacheEntry("realm", k, i)} /\ UNCHANGED fetches
      BY <1>2, <1>5, <2>1
    <2>3. e = CacheEntry("realm", k, i) /\ e \in CacheEntries
      BY <2>1, <2>2 DEF LoadsInv, LoadsTyped, CacheEntries, CacheEntry
    <2>4. FetchesGoOn
      BY <2>2, FetchesStay DEF LoadsInv
    <2>5. EntryIsTrue(e)
      BY DEF LoadsInv, EntriesAreTrue
    <2>6. u = {e}
      BY <2>2, <2>3
    <2>7. i \in DOMAIN fetches'
      BY <2>2, <2>5 DEF EntryIsTrue
    <2>8. Uses(x, e)
      BY <1>2, <2>1 DEF Uses
    <2>9. /\ FetchesGoOn /\ i \in DOMAIN fetches'
          /\ \A j \in DOMAIN fetches : fetches'[j].status = fetches[j].status
          /\ u \in SUBSET CacheEntries
          /\ \A c \in u : EntryIsTrue(c)' /\ Uses(x, c) /\ c.fetch = i
          /\ u \subseteq cached
      <3> HIDE DEF i, u
      <3>1. EntryIsTrue(e)'
        BY <2>4, <2>5, EntriesStayTrue
      <3> QED
        BY <2>2, <2>3, <2>4, <2>6, <2>7, <2>8, <3>1
    <2> QED
      BY <2>9
  <1>6. ASSUME ~hit  PROVE Answered
    <2>1. i = TextOf(h, url) /\ u = SharedUses(x, k, i) /\ FetchesText(h, url)
      BY <1>2, <1>6 DEF SharedUses
    <2> HIDE DEF i
    <2>2. /\ FetchesGoOn /\ i \in DOMAIN fetches' /\ fetches'[i].url = url /\ fetches'[i].by = h
          /\ \A j \in DOMAIN fetches : fetches'[j].status = fetches[j].status
          /\ \/ \E e \in cached : e.cache = h /\ e.key = url /\ e.fetch = i
             \/ i \notin DOMAIN fetches
      BY <1>1, <1>3, <2>1, FetchesTextFacts DEF LoadsInv
    <2>3. i \in Nat
      BY <2>2 DEF FetchesGoOn
    <2>4. ASSUME NEW c \in u
          PROVE  c \in CacheEntries /\ EntryIsTrue(c)' /\ Uses(x, c) /\ c.fetch = i
      <3>1. CASE c = CacheEntry("realm", k, i)
        <4>1. c.cache = "realm" /\ c.key = k /\ c.fetch = i /\ c \in CacheEntries
          BY <1>3, <2>3, <3>1 DEF CacheEntry, CacheEntries
        <4>2. EntryIsTrue(c)'
          BY <1>1, <1>2, <2>2, <4>1 DEF EntryIsTrue
        <4> QED
          BY <1>2, <4>1, <4>2 DEF Uses
      <3>2. CASE c = CacheEntry(h, url, i)
        <4>1. c.cache = h /\ c.key = url /\ c.fetch = i /\ c \in CacheEntries
          BY <1>1, <1>3, <2>3, <3>2 DEF CacheEntry, CacheEntries
        <4>2. EntryIsTrue(c)'
          BY <1>1, <2>2, <4>1 DEF EntryIsTrue
        <4> QED
          BY <1>3, <4>1, <4>2 DEF Uses
      <3> QED
        BY <2>1, <3>1, <3>2 DEF SharedUses
    <2>5. /\ u \in SUBSET CacheEntries
          /\ i \notin DOMAIN fetches \/ \E e \in cached : e.fetch = i
      <3> HIDE DEF u
      <3> QED
        BY <2>2, <2>4
    <2> QED
      BY <2>1, <2>2, <2>4, <2>5
  <1>7. Answered
    <2> HIDE DEF Answered
    <2> QED
      BY <1>5, <1>6
  <1> HIDE DEF u, i
  <1>8. i \in Nat
    BY <1>7 DEF FetchesGoOn
  <1>9. /\ deps \in Partial(Dependencies, Nat)
        /\ DOMAIN deps = DOMAIN StateOf(a).deps \cup {k} /\ deps[k] = i
        /\ \A l \in DOMAIN StateOf(a).deps : deps[l] = StateOf(a).deps[l]
    <2> DEFINE m == StateOf(a).deps
    <2>1. Maps(m, Dependencies, Nat) /\ k \notin DOMAIN m
      BY <1>1, <1>2, PartialFacts
    <2> HIDE DEF m
    <2>2. /\ Maps(Put(m, k, i), Dependencies, Nat)
          /\ DOMAIN Put(m, k, i) = DOMAIN m \cup {k} /\ Put(m, k, i)[k] = i
          /\ \A l \in DOMAIN m : Put(m, k, i)[l] = m[l]
      BY <1>3, <1>8, <2>1 DEF Maps, Put
    <2> QED
      BY <2>2, PartialFacts DEF m
  <1> DEFINE r == Records(StateOf(a), u)
  <1>10. /\ r \in Attempts /\ r.stage = StateOf(a).stage /\ r.graph = GraphOf(a)
         /\ r.left = StateOf(a).left /\ r.expired = StateOf(a).expired
         /\ r.ledger = IF StateOf(a).expired THEN StateOf(a).ledger ELSE StateOf(a).ledger \cup u
    BY <1>1, <1>7, RecordsFacts DEF GraphOf
  <1> HIDE DEF r, deps
  <1> DEFINE att == [r EXCEPT !.deps = deps]
  <1>11. /\ att \in Attempts /\ att.stage = StateOf(a).stage /\ att.graph = GraphOf(a)
         /\ att.left = StateOf(a).left /\ att.deps = deps /\ att.expired = StateOf(a).expired
         /\ att.ledger = IF StateOf(a).expired THEN StateOf(a).ledger ELSE StateOf(a).ledger \cup u
    <2>1. /\ att \in Attempts /\ att.stage = r.stage /\ att.graph = r.graph /\ att.expired = r.expired
          /\ att.left = r.left /\ att.deps = deps /\ att.ledger = r.ledger
      BY <1>9, <1>10 DEF Attempts
    <2> HIDE DEF att
    <2> QED
      BY <1>10, <2>1
  <1>12. Becomes(a, att)
    BY <1>4 DEF r
  <1> HIDE DEF att
  <1>13. DepsAreAsked(att, x, fetches')
    BY <1>1, <1>2, <1>7, <1>9, <1>11 DEF TrueAttempt, DepsAreAsked, FetchesGoOn
  <1>14. GraphInv(att.graph, fetches') /\ GraphOf(a).minted \subseteq att.graph.minted
    BY <1>1, <1>7, <1>11, GraphsStayTrue
  <1>15. TextAsked(a, u, att)
    BY <1>2, <1>7, <1>11, <1>12, <1>13, <1>14 DEF TextAsked
  <1> QED
    BY <1>2, <1>7, <1>9, <1>11, <1>15

(* The loads alone change, and none of them is under way that was not. *)
LEMMA LoadHearsKeeps ==
  ASSUME LoadsInv, NEW x \in Wanted, LoadHears(x)
  PROVE  LoadsInv'
  <1> DEFINE to == IF StateOf(LatestOf(x)).stage = "loaded" THEN "loaded"
                   ELSE AfterFailure(x, StateOf(LatestOf(x)).stage = "refused")
  <1>1. LoadsAreTrue
    BY LoadsInParts
  <1>2. /\ loadOf[x] = "trying" /\ loadOf' = [loadOf EXCEPT ![x] = to]
        /\ UNCHANGED <<fetches, cached, attemptsOf>>
    BY DEF LoadHears, Outcome
  <1>3. to \in {"loaded", "backoff", "failed"} /\ (to = "loaded" => StateOf(LatestOf(x)).stage = "loaded")
    BY DEF AfterFailure
  <1> HIDE DEF to
  <1>4. /\ Wanted' = Wanted /\ loadOf' \in [Wanted -> LoadStages]
        /\ \A y \in Wanted : loadOf'[y] = IF y = x THEN to ELSE loadOf[y]
    BY <1>1, <1>2, <1>3 DEF LoadsAreTrue, LoadStages, Wanted
  <1>5. FetchesGoOn
    BY <1>2, FetchesStay DEF LoadsInv
  <1>6. LoadAttempt' = LoadAttempt /\ \A a \in LoadAttempt : StateOf(a)' = StateOf(a)
    BY <1>2, <1>4 DEF LoadAttempt, StateOf
  <1>7. \A a \in LoadAttempt' : TrueAttempt(StateOf(a), a[1])'
    <2> SUFFICES ASSUME NEW a \in LoadAttempt  PROVE TrueAttempt(StateOf(a), a[1])'
      BY <1>6
    <2>1. PICK att : att = StateOf(a) /\ att = StateOf(a)'
      BY <1>6
    <2>2. TrueAttempt(att, a[1])
      BY <1>1, <2>1 DEF LoadsAreTrue
    <2>3. TrueAttempt(att, a[1])'
      BY <1>5, <2>2, AttemptStaysTrue
    <2> QED
      BY <2>1, <2>3
  <1>8. \A e \in cached' : EntryIsTrue(e)'
    BY <1>1, <1>2, <1>5, EntriesStayTrue DEF LoadsAreTrue
  <1>9. \A y \in Wanted : LatestOf(y)' = LatestOf(y) /\ StateOf(LatestOf(y))' = StateOf(LatestOf(y))
    BY <1>2 DEF LatestOf, StateOf
  <1>10. LatestIsLoaded'
    <2> SUFFICES ASSUME NEW y \in Wanted
                 PROVE  /\ loadOf'[y] \in {"trying", "loaded"} => attemptsOf'[y] # <<>>
                        /\ loadOf'[y] = "loaded" => StateOf(LatestOf(y))'.stage = "loaded"
      BY <1>4 DEF LatestIsLoaded
    <2> QED
      BY <1>1, <1>2, <1>3, <1>4, <1>9 DEF LoadsAreTrue, LatestIsLoaded
  <1>11. LoadsAreTrue'
    BY <1>1, <1>2, <1>4, <1>7, <1>8, <1>10 DEF LoadsAreTrue
  <1> QED
    BY <1>11, LoadsFromPartsNext

(* A fetch is answered: what stays in the caches was there. *)
LEMMA FetchSettlesFacts ==
  ASSUME LoadsInv, NEW i \in DOMAIN fetches, NEW answer \in {"ok", "failed"}, FetchSettles(i, answer)
  PROVE  /\ FetchesGoOn /\ DOMAIN fetches' = DOMAIN fetches
         /\ \A j \in DOMAIN fetches : fetches'[j].status = IF j = i THEN answer ELSE fetches[j].status
         /\ cached' \subseteq cached /\ UNCHANGED <<loadOf, attemptsOf>>
         /\ \A e \in cached \ cached' : e.fetch = i \/ e.cache = fetches[i].by
  <1>1. /\ fetches \in Seq(FetchRecord) /\ Flying(i)
        /\ fetches' = [fetches EXCEPT ![i].status = answer]
        /\ cached' = IF answer = "ok" THEN cached
                     ELSE {e \in cached : /\ e.fetch # i
                                          /\ <<e.cache, e.key>> # <<fetches[i].by, fetches[i].url>>}
        /\ UNCHANGED <<loadOf, attemptsOf>>
    BY DEF LoadsInv, LoadsTyped, FetchSettles
  <1> DEFINE new == [fetches[i] EXCEPT !.status = answer]
  <1>2. fetches[i] \in FetchRecord
    BY <1>1
  <1>3. new \in FetchRecord /\ new.url = fetches[i].url /\ new.by = fetches[i].by /\ new.status = answer
    BY <1>2 DEF FetchRecord
  <1>4. fetches' = [fetches EXCEPT ![i] = new]
    BY <1>1
  <1> HIDE DEF new
  <1>5. /\ fetches' \in Seq(FetchRecord) /\ DOMAIN fetches' = DOMAIN fetches
        /\ \A j \in DOMAIN fetches : fetches'[j] = IF j = i THEN new ELSE fetches[j]
    BY <1>1, <1>3, <1>4
  <1>6. FetchesGoOn
    BY <1>1, <1>3, <1>5 DEF FetchesGoOn, Flying
  <1>7. cached' \subseteq cached /\ \A e \in cached \ cached' : e.fetch = i \/ e.cache = fetches[i].by
    BY <1>1
  <1> QED
    BY <1>1, <1>3, <1>5, <1>6, <1>7

LEMMA FetchSettlesKeeps ==
  ASSUME LoadsInv, NEW i \in DOMAIN fetches, NEW answer \in {"ok", "failed"}, FetchSettles(i, answer)
  PROVE  LoadsInv'
  <1>1. LoadsAreTrue
    BY LoadsInParts
  <1>2. FetchesGoOn /\ cached' \subseteq cached /\ UNCHANGED <<loadOf, attemptsOf>>
    BY FetchSettlesFacts
  <1>3. Wanted' = Wanted /\ LoadAttempt' = LoadAttempt /\ \A a \in LoadAttempt : StateOf(a)' = StateOf(a)
    BY <1>2 DEF Wanted, LoadAttempt, StateOf
  <1>4. \A a \in LoadAttempt' : TrueAttempt(StateOf(a), a[1])'
    <2> SUFFICES ASSUME NEW a \in LoadAttempt  PROVE TrueAttempt(StateOf(a), a[1])'
      BY <1>3
    <2>1. PICK att : att = StateOf(a) /\ att = StateOf(a)'
      BY <1>3
    <2>2. TrueAttempt(att, a[1])
      BY <1>1, <2>1 DEF LoadsAreTrue
    <2>3. TrueAttempt(att, a[1])'
      BY <1>2, <2>2, AttemptStaysTrue
    <2> QED
      BY <2>1, <2>3
  <1>5. \A e \in cached' : EntryIsTrue(e)'
    BY <1>1, <1>2, EntriesStayTrue DEF LoadsAreTrue
  <1>6. LatestIsLoaded'
    BY <1>1, <1>2 DEF LoadsAreTrue, LatestIsLoaded, LatestOf, StateOf, Wanted
  <1>7. LoadsAreTrue'
    BY <1>1, <1>2, <1>3, <1>4, <1>5, <1>6 DEF LoadsAreTrue, FetchesGoOn
  <1> QED
    BY <1>7, LoadsFromPartsNext

(* An attempt is given up on. *)
LEMMA ExpiresFacts ==
  ASSUME LoadsInv, NEW x \in Wanted, Expires(x)
  PROVE  /\ LatestOf(x) \in LoadAttempt /\ LatestOf(x)[1] = x /\ loadOf[x] = "trying"
         /\ UNCHANGED fetches /\ FetchesGoOn /\ cached' = cached \ AwaitedBy(LatestOf(x))
         /\ loadOf' \in [Wanted -> LoadStages] /\ loadOf'[x] \in {"backoff", "failed"}
         /\ \A y \in Wanted \ {x} : loadOf'[y] = loadOf[y]
         /\ \E att \in Attempts :
              /\ Becomes(LatestOf(x), att) /\ att.stage = StateOf(LatestOf(x)).stage /\ att.expired
              /\ att.ledger = StateOf(LatestOf(x)).ledger /\ att.deps = StateOf(LatestOf(x)).deps
              /\ att.graph = StateOf(LatestOf(x)).graph
              /\ att.left = {e.fetch : e \in AwaitedBy(LatestOf(x))}
  <1> DEFINE a == LatestOf(x)
             left == {e.fetch : e \in AwaitedBy(a)}
             att == [StateOf(a) EXCEPT !.expired = TRUE, !.left = left]
             to == AfterFailure(x, FALSE)
  <1>1. LoadsAreTrue
    BY LoadsInParts
  <1>2. /\ loadOf[x] = "trying" /\ UNCHANGED fetches /\ cached' = cached \ AwaitedBy(a)
        /\ Becomes(a, att) /\ loadOf' = [loadOf EXCEPT ![x] = to]
    BY DEF Expires, Releases
  <1>3. a \in LoadAttempt /\ a[1] = x
    <2>1. attemptsOf[x] # <<>>
      BY <1>1, <1>2 DEF LoadsAreTrue, LatestIsLoaded
    <2> QED
      BY <2>1, LatestFacts
  <1>4. StateOf(a) \in Attempts
    BY <1>3, AttemptOfPart
  <1>5. left \in SUBSET Nat
    BY <1>4 DEF Attempts, AwaitedBy, CacheEntries
  <1>6. to \in {"backoff", "failed"}
    BY DEF AfterFailure
  <1>7. FetchesGoOn
    BY <1>2, FetchesStay DEF LoadsInv
  <1> HIDE DEF to, a, left
  <1>8. /\ att \in Attempts /\ att.stage = StateOf(a).stage /\ att.expired /\ att.left = left
        /\ att.ledger = StateOf(a).ledger /\ att.deps = StateOf(a).deps
        /\ att.graph = StateOf(a).graph
    BY <1>4, <1>5 DEF Attempts
  <1>9. /\ loadOf' \in [Wanted -> LoadStages] /\ loadOf'[x] = to
        /\ \A y \in Wanted \ {x} : loadOf'[y] = loadOf[y]
    BY <1>1, <1>2, <1>6 DEF LoadsAreTrue, LoadStages
  <1> HIDE DEF att
  <1> QED
    BY <1>2, <1>3, <1>6, <1>7, <1>8, <1>9 DEF a, left

LEMMA ExpiresKeeps ==
  ASSUME LoadsInv, NEW x \in Wanted, Expires(x)
  PROVE  LoadsInv'
  <1>0. PICK a \in LoadAttempt : a = LatestOf(x) /\ a[1] = x
    BY ExpiresFacts
  <1>1. /\ a \in LoadAttempt /\ a[1] = x
        /\ UNCHANGED fetches /\ FetchesGoOn /\ cached' = cached \ AwaitedBy(a)
        /\ loadOf' \in [Wanted -> LoadStages] /\ loadOf'[x] \in {"backoff", "failed"}
        /\ \A y \in Wanted \ {x} : loadOf'[y] = loadOf[y]
    BY <1>0, ExpiresFacts
  <1>2. PICK att \in Attempts :
          /\ Becomes(a, att) /\ att.stage = StateOf(a).stage /\ att.expired
          /\ att.ledger = StateOf(a).ledger /\ att.deps = StateOf(a).deps
          /\ att.graph = StateOf(a).graph
          /\ att.left = {e.fetch : e \in AwaitedBy(a)}
    BY <1>0, ExpiresFacts
  <1>3. TrueAttempt(StateOf(a), a[1])
    BY <1>1, AttemptOfPart
  <1>4. att.left \subseteq DOMAIN fetches
    BY <1>2, <1>3 DEF TrueAttempt, AwaitedBy, EntryIsTrue
  <1>5. TrueAttempt(att, a[1])
    BY <1>2, <1>3, <1>4 DEF TrueAttempt, DepsAreAsked
  <1>6. TrueAttempt(att, a[1])'
    BY <1>1, <1>5, AttemptStaysTrue
  <1>7. LoadsAreTrue
    BY LoadsInParts
  <1>8. cached' \subseteq CacheEntries /\ \A e \in cached' : EntryIsTrue(e)'
    BY <1>1, <1>7, EntriesStayTrue DEF LoadsAreTrue
  <1>9. \A y \in Wanted : loadOf'[y] \in {"trying", "loaded"} => loadOf'[y] = loadOf[y]
    BY <1>1
  <1> QED
    BY <1>1, <1>2, <1>6, <1>8, <1>9, AttemptSteps

LEMMA BeginsFetchKeeps ==
  ASSUME LoadsInv, NEW a \in LoadAttempt, NEW f \in Works(a), BeginsFetch(a, f)
  PROVE  LoadsInv'
  <1>1. PICK used, att : TextAsked(a, used, att)
    BY BeginsFetchFacts
  <1> QED
    BY <1>1, TextAskedKeeps

LEMMA AsksSharedKeeps ==
  ASSUME LoadsInv, NEW a \in LoadAttempt, NEW k, AsksShared(a, k)
  PROVE  LoadsInv'
  <1>1. PICK used, att, i : TextAsked(a, used, att)
    BY AsksSharedFacts
  <1> QED
    BY <1>1, TextAskedKeeps

LEMMA FirstIsTrue ==
  ASSUME NEW x
  PROVE  FirstOf(x) \in Attempts /\ TrueAttempt(FirstOf(x), x)
  <1>1. GraphInv(NoGraph, fetches)
    BY NoGraphFacts
  <1>2. NoGraph \in Graphs
    BY <1>1, GraphIsTyped DEF GraphInv, GraphIsTrue
  <1>3. <<>> \in [{} -> Nat]
    OBVIOUS
  <1>4. <<>> \in Partial(Dependencies, Nat)
    BY <1>3 DEF Partial
  <1> QED
    BY <1>1, <1>2, <1>4 DEF FirstOf, Attempts, TrueAttempt, DepsAreAsked

LEMMA AppendedOne ==
  ASSUME NEW S, NEW s \in Seq(S), NEW new \in S
  PROVE  LET t == Append(s, new)
         IN /\ t \in Seq(S) /\ t # <<>> /\ Len(t) = Len(s) + 1 /\ DOMAIN t = DOMAIN s \cup {Len(s) + 1}
            /\ t[Len(s) + 1] = new /\ \A n \in DOMAIN s : t[n] = s[n]
            /\ Len(s) \in Nat /\ DOMAIN s = 1..Len(s)
  <1>1. /\ Append(s, new) \in Seq(S) /\ Append(s, new) # <<>> /\ Len(Append(s, new)) = Len(s) + 1
        /\ Len(s) \in Nat /\ DOMAIN s = 1..Len(s)
        /\ Append(s, new)[Len(s) + 1] = new /\ \A n \in DOMAIN s : Append(s, new)[n] = s[n]
    OBVIOUS
  <1>2. DOMAIN Append(s, new) = DOMAIN s \cup {Len(s) + 1}
    OBVIOUS
  <1> QED
    BY <1>1, <1>2

(* A load begins an attempt, after those it has made. *)
LEMMA TriesFacts ==
  ASSUME LoadsInv, NEW x \in Wanted, Tries(x)
  PROVE  /\ Quiet /\ loadOf[x] \in {"none", "backoff"} /\ UNCHANGED <<fetches, cached>> /\ FetchesGoOn
         /\ loadOf' \in [Wanted -> LoadStages] /\ loadOf'[x] = "trying"
         /\ \A y \in Wanted \ {x} : loadOf'[y] = loadOf[y] /\ attemptsOf'[y] = attemptsOf[y]
         /\ attemptsOf' \in [Wanted -> Seq(Attempts)] /\ attemptsOf'[x] # <<>>
         /\ \E c : /\ c = <<x, Len(attemptsOf[x]) + 1>> /\ LoadAttempt' = LoadAttempt \cup {c} /\ c \notin LoadAttempt
                   /\ StateOf(c)' = FirstOf(x) /\ LatestOf(x)' = c
                   /\ \A a \in LoadAttempt : StateOf(a)' = StateOf(a)
                   /\ \A a \in LoadAttempt : a[1] = x => a[2] \in 1..Len(attemptsOf[x])
  <1> DEFINE s == attemptsOf[x]
             t == Append(s, FirstOf(x))
  <1>0. PICK c : c = <<x, Len(s) + 1>>
    OBVIOUS
  <1>1. LoadsAreTrue
    BY LoadsInParts
  <1>2. /\ Quiet /\ loadOf[x] \in {"none", "backoff"} /\ UNCHANGED <<fetches, cached>>
        /\ loadOf' = [loadOf EXCEPT ![x] = "trying"] /\ attemptsOf' = [attemptsOf EXCEPT ![x] = t]
    BY DEF Tries
  <1>3. /\ loadOf' \in [Wanted -> LoadStages] /\ loadOf'[x] = "trying"
        /\ \A y \in Wanted \ {x} : loadOf'[y] = loadOf[y]
    BY <1>1, <1>2 DEF LoadsAreTrue, LoadStages
  <1>4. s \in Seq(Attempts) /\ attemptsOf \in [Wanted -> Seq(Attempts)]
    BY <1>1 DEF LoadsAreTrue
  <1> HIDE DEF s
  <1>5. FirstOf(x) \in Attempts
    BY FirstIsTrue
  <1> DEFINE new == FirstOf(x)
  <1>6. /\ t \in Seq(Attempts) /\ t # <<>> /\ Len(t) = Len(s) + 1 /\ DOMAIN t = DOMAIN s \cup {Len(s) + 1}
        /\ t[Len(s) + 1] = new /\ \A n \in DOMAIN s : t[n] = s[n]
        /\ Len(s) \in Nat /\ DOMAIN s = 1..Len(s)
    <2> HIDE DEF new
    <2> QED
      BY <1>4, <1>5, AppendedOne DEF new
  <1> HIDE DEF t, new
  <1>7. /\ attemptsOf' \in [Wanted -> Seq(Attempts)] /\ attemptsOf'[x] = t
        /\ \A y \in Wanted \ {x} : attemptsOf'[y] = attemptsOf[y]
    BY <1>2, <1>4, <1>6
  <1>8. Wanted' = Wanted
    BY <1>2 DEF Wanted
  <1>9. LoadAttempt' = LoadAttempt \cup {c}
    <2>1. \A y \in Wanted : DOMAIN attemptsOf'[y] = IF y = x THEN DOMAIN s \cup {Len(s) + 1} ELSE DOMAIN attemptsOf[y]
      BY <1>6, <1>7
    <2>2. DOMAIN attemptsOf[x] = DOMAIN s
      BY DEF s
    <2>3. ASSUME NEW d  PROVE d \in LoadAttempt' <=> \E y \in Wanted : \E n \in DOMAIN attemptsOf'[y] : d = <<y, n>>
      BY <1>8 DEF LoadAttempt
    <2>4. ASSUME NEW d  PROVE d \in LoadAttempt <=> \E y \in Wanted : \E n \in DOMAIN attemptsOf[y] : d = <<y, n>>
      BY DEF LoadAttempt
    <2>5. ASSUME NEW d \in LoadAttempt'  PROVE d \in LoadAttempt \cup {c}
      BY <1>0, <2>1, <2>2, <2>3, <2>4
    <2>6. ASSUME NEW d \in LoadAttempt \cup {c}  PROVE d \in LoadAttempt'
      BY <1>0, <2>1, <2>2, <2>3, <2>4
    <2> QED
      BY <2>5, <2>6
  <1>10. c \notin LoadAttempt /\ \A a \in LoadAttempt : a[1] = x => a[2] \in 1..Len(s)
    <2>1. \A a \in LoadAttempt : a[1] = x => a[2] \in DOMAIN s
      BY AttemptFacts DEF s
    <2>2. Len(s) + 1 \notin DOMAIN s
      BY <1>6
    <2> QED
      BY <1>0, <1>6, <2>1, <2>2
  <1>11. StateOf(c)' = new
    BY <1>0, <1>6, <1>7 DEF StateOf
  <1>12. LatestOf(x)' = c
    BY <1>0, <1>6, <1>7 DEF LatestOf
  <1>13. ASSUME NEW a \in LoadAttempt  PROVE StateOf(a)' = StateOf(a)
    <2>1. a[1] \in Wanted /\ a[2] \in DOMAIN attemptsOf[a[1]]
      BY AttemptFacts
    <2>2. CASE a[1] = x
      BY <1>6, <1>7, <2>1, <2>2 DEF StateOf, s
    <2>3. CASE a[1] # x
      BY <1>7, <2>1, <2>3 DEF StateOf
    <2> QED
      BY <2>2, <2>3
  <1>14. FetchesGoOn
    BY <1>2, FetchesStay DEF LoadsInv
  <1> QED
    BY <1>0, <1>2, <1>3, <1>6, <1>7, <1>9, <1>10, <1>11, <1>12, <1>13, <1>14 DEF new, s

LEMMA TriesKeeps ==
  ASSUME LoadsInv, NEW x \in Wanted, Tries(x)
  PROVE  LoadsInv'
  <1>1. LoadsAreTrue
    BY LoadsInParts
  <1>2. /\ loadOf[x] \in {"none", "backoff"} /\ UNCHANGED <<fetches, cached>> /\ FetchesGoOn
        /\ loadOf' \in [Wanted -> LoadStages] /\ loadOf'[x] = "trying"
        /\ \A y \in Wanted \ {x} : loadOf'[y] = loadOf[y] /\ attemptsOf'[y] = attemptsOf[y]
        /\ attemptsOf' \in [Wanted -> Seq(Attempts)] /\ attemptsOf'[x] # <<>>
    BY TriesFacts
  <1>3. PICK c : /\ c = <<x, Len(attemptsOf[x]) + 1>> /\ LoadAttempt' = LoadAttempt \cup {c} /\ c \notin LoadAttempt
                 /\ StateOf(c)' = FirstOf(x)
                 /\ \A a \in LoadAttempt : StateOf(a)' = StateOf(a)
    BY TriesFacts
  <1>4. Wanted' = Wanted
    BY <1>2 DEF Wanted
  <1>5. ASSUME NEW a \in LoadAttempt'  PROVE TrueAttempt(StateOf(a), a[1])'
    <2>1. PICK att : att = StateOf(a)' /\ TrueAttempt(att, a[1])
      <3>1. CASE a = c
        BY <1>3, <3>1, FirstIsTrue
      <3>2. CASE a # c
        BY <1>1, <1>3, <3>2 DEF LoadsAreTrue
      <3> QED
        BY <3>1, <3>2
    <2>2. TrueAttempt(att, a[1])'
      BY <1>2, <2>1, AttemptStaysTrue
    <2> QED
      BY <2>1, <2>2
  <1>6. cached' \subseteq CacheEntries /\ \A e \in cached' : EntryIsTrue(e)'
    BY <1>1, <1>2, EntriesStayTrue DEF LoadsAreTrue
  <1>7. LatestIsLoaded'
    <2> SUFFICES ASSUME NEW y \in Wanted
                 PROVE  /\ loadOf'[y] \in {"trying", "loaded"} => attemptsOf'[y] # <<>>
                        /\ loadOf'[y] = "loaded" => StateOf(LatestOf(y))'.stage = "loaded"
      BY <1>4 DEF LatestIsLoaded
    <2>1. CASE y = x
      BY <1>2, <2>1
    <2>2. CASE y # x
      <3>1. loadOf'[y] = loadOf[y] /\ attemptsOf'[y] = attemptsOf[y]
        BY <1>2, <2>2
      <3>2. LatestOf(y)' = LatestOf(y) /\ StateOf(LatestOf(y))' = StateOf(LatestOf(y))
        BY <3>1 DEF LatestOf, StateOf
      <3> QED
        BY <1>1, <3>1, <3>2 DEF LoadsAreTrue, LatestIsLoaded
    <2> QED
      BY <2>1, <2>2
  <1>8. LoadsAreTrue'
    BY <1>1, <1>2, <1>4, <1>5, <1>6, <1>7 DEF LoadsAreTrue
  <1> QED
    BY <1>8, LoadsFromPartsNext

LEMMA LoadsBegin == LoadsInit => LoadsInv
  <1> SUFFICES ASSUME LoadsInit  PROVE LoadsInv
    OBVIOUS
  <1>1. PICK group \in Together : loadOf = [x \in group |-> "none"] /\ attemptsOf = [x \in group |-> <<>>]
    BY DEF LoadsInit
  <1>2. fetches = <<>> /\ cached = {} /\ Wanted = group /\ group \subseteq MfeEntry
    BY <1>1, LoadsAssumption DEF LoadsInit, Wanted
  <1>3. \A x \in Wanted : attemptsOf[x] = <<>> /\ loadOf[x] = "none"
    BY <1>1, <1>2
  <1>4. LoadAttempt = {}
    BY <1>3 DEF LoadAttempt
  <1>5. attemptsOf \in [Wanted -> Seq(Attempts)] /\ loadOf \in [Wanted -> LoadStages]
    BY <1>1, <1>2 DEF LoadStages
  <1>6. LatestIsLoaded
    BY <1>3 DEF LatestIsLoaded
  <1>7. fetches \in Seq(FetchRecord)
    BY <1>2
  <1> QED
    BY <1>2, <1>4, <1>5, <1>6, <1>7, LoadsFromParts DEF LoadsAreTrue

LEMMA LoadsStay ==
  ASSUME LoadsInv, UNCHANGED loadsVars
  PROVE  LoadsInv'
  BY DEF loadsVars, LoadsInv, LoadsTyped, EntriesAreTrue, GraphsInv, LoadedInv, Wanted, LoadAttempt,
         StateOf, GraphOf, LatestOf, EntryIsTrue

LEMMA LoadsStep == LoadsInv /\ [LoadsNext]_loadsVars => LoadsInv'
  <1> SUFFICES ASSUME LoadsInv, [LoadsNext]_loadsVars  PROVE LoadsInv'
    OBVIOUS
  <1>1. ASSUME NEW a \in LoadAttempt, NEW k \in Shared[a[1]], AsksShared(a, k)  PROVE LoadsInv'
    BY <1>1, AsksSharedKeeps
  <1>2. ASSUME NEW a \in LoadAttempt, SharedArrives(a)  PROVE LoadsInv'
    BY <1>2, SharedArrivesKeeps
  <1>3. ASSUME NEW a \in LoadAttempt, NEW f \in Works(a), BeginsFetch(a, f)  PROVE LoadsInv'
    BY <1>3, BeginsFetchKeeps
  <1>4. ASSUME NEW a \in LoadAttempt, NEW f \in Works(a), FetchArrives(a, f)  PROVE LoadsInv'
    BY <1>4, FetchArrivesKeeps
  <1>5. ASSUME NEW a \in LoadAttempt, NEW f \in Works(a), ImportsSettle(a, f)  PROVE LoadsInv'
    BY <1>5, ImportsSettleKeeps
  <1>6. ASSUME NEW a \in LoadAttempt, NEW f \in Works(a), NEW d \in DOMAIN GraphOf(a).works[f].waits,
               JoinerResumes(a, f, d)
        PROVE  LoadsInv'
    BY <1>6, JoinerResumesKeeps
  <1>7. ASSUME NEW a \in LoadAttempt, NEW b \in DOMAIN GraphOf(a).builds, RootResumes(a, b)  PROVE LoadsInv'
    BY <1>7, RootResumesKeeps
  <1>8. ASSUME NEW a \in LoadAttempt, ChainEnds(a)  PROVE LoadsInv'
    BY <1>8, ChainEndsKeeps
  <1>9. ASSUME NEW x \in Wanted, LoadHears(x)  PROVE LoadsInv'
    BY <1>9, LoadHearsKeeps
  <1>10. CASE Continuation
    BY <1>1, <1>2, <1>3, <1>4, <1>5, <1>6, <1>7, <1>8, <1>9, <1>10 DEF Continuation
  <1>11. ASSUME NEW x \in Wanted, Tries(x)  PROVE LoadsInv'
    BY <1>11, TriesKeeps
  <1>12. ASSUME NEW x \in Wanted, Expires(x)  PROVE LoadsInv'
    BY <1>12, ExpiresKeeps
  <1>13. ASSUME NEW x \in Wanted, NEW f \in Lazy[x], AsksLazily(x, f)  PROVE LoadsInv'
    BY <1>13, AsksLazilyKeeps
  <1>14. ASSUME NEW i \in DOMAIN fetches, NEW answer \in {"ok", "failed"}, FetchSettles(i, answer)
         PROVE  LoadsInv'
    BY <1>14, FetchSettlesKeeps
  <1>15. CASE UNCHANGED loadsVars
    BY <1>15, LoadsStay
  <1> QED
    BY <1>10, <1>11, <1>12, <1>13, <1>14, <1>15 DEF LoadsNext

(* The inductive invariant of the loads, for every import graph, every set of extensions,  *)
(* handlers and shared dependencies, any number of slots, retries, attempts and fetches:   *)
(* what an attempt knows of a chunk is what the chunk has come to, a lineage has in it     *)
(* what needs the chunk or is minted, and a cached text is the one its key stands for.     *)
THEOREM LoadsInvariance == LoadsSpec => []LoadsInv
  BY LoadsBegin, LoadsStep, PTL DEF LoadsSpec

LEMMA FailuresAreItsOwn == LoadsInv => FailsForItsOwnReason
  <1> SUFFICES ASSUME LoadsInv, NEW a \in LoadAttempt, NEW b \in DOMAIN GraphOf(a).builds
               PROVE  LET build == GraphOf(a).builds[b]
                      IN /\ build.wait = "cycle" => Circular(build.root)
                         /\ build.wait = "failed" =>
                              \E i \in DOMAIN fetches :
                                fetches[i].status = "failed" /\ fetches[i].url \in Reach[build.root]
    BY DEF FailsForItsOwnReason
  <1> DEFINE build == GraphOf(a).builds[b]
  <1>1. WaitIsTrue(GraphOf(a), fetches, b, build.root, build.wait)
    BY AttemptOfPart DEF GraphInv, GraphIsTrue, BuildIsTrue
  <1> HIDE DEF build
  <1>2. build.wait = "cycle" => Circular(build.root)
    BY <1>1 DEF WaitIsTrue
  <1>3. build.wait = "failed" => Reach[build.root] \cap Broken(fetches) # {}
    BY <1>1 DEF WaitIsTrue
  <1>4. build.wait = "failed" =>
          \E i \in DOMAIN fetches : fetches[i].status = "failed" /\ fetches[i].url \in Reach[build.root]
    BY <1>3 DEF Broken
  <1> QED
    BY <1>2, <1>4 DEF build

(* A build of a load fails because a chunk its root needs could not be fetched, and is     *)
(* refused because the chunks its root needs import one another in a circle; that another  *)
(* build of the attempt, which it shares constructions with, has failed is no reason.      *)
THEOREM LoadsFailForTheirReasons == LoadsSpec => []FailsForItsOwnReason
  BY LoadsInvariance, FailuresAreItsOwn, PTL

-----------------------------------------------------------------------------
(* The texts that an attempt gives up. *)

TextsParts == LedgerInv /\ AskedInv /\ RestInv /\ OfferInv /\ LeftInv

(* A step that asks for no text and gives up on none: an attempt may get past its *)
(* shared dependencies once they have come, fetches are answered, and entries go. *)
CarriesOn ==
  /\ Wanted' = Wanted /\ LoadAttempt' = LoadAttempt
  /\ \A x \in Wanted : /\ LatestOf(x)' = LatestOf(x) /\ DOMAIN attemptsOf'[x] = DOMAIN attemptsOf[x]
                       /\ attemptsOf'[x] = <<>> <=> attemptsOf[x] = <<>>
                       /\ loadOf'[x] # "trying" =>
                            loadOf[x] # "trying" \/ StateOf(LatestOf(x)).stage # "shared"
  /\ \A c \in LoadAttempt :
       /\ StateOf(c)'.ledger = StateOf(c).ledger /\ StateOf(c)'.left = StateOf(c).left
       /\ StateOf(c)'.deps = StateOf(c).deps /\ StateOf(c)'.expired = StateOf(c).expired
       /\ \/ StateOf(c)'.stage = StateOf(c).stage
          \/ /\ StateOf(c)'.stage # "shared" /\ DOMAIN StateOf(c).deps = Shared[c[1]]
             /\ StateOf(c).stage = "shared" =>
                  \A k \in DOMAIN StateOf(c).deps : ~Flying(StateOf(c).deps[k])
  /\ FetchesGoOn /\ \A i \in DOMAIN fetches : Flying(i)' => Flying(i)
  /\ cached' \subseteq cached

LEMMA EntriesAreFetched ==
  ASSUME LoadsInv
  PROVE  /\ \A e \in cached : e.fetch \in DOMAIN fetches
         /\ \A a \in LoadAttempt : /\ \A e \in StateOf(a).ledger : e.fetch \in DOMAIN fetches
                                   /\ StateOf(a).left \subseteq DOMAIN fetches
  BY DEF LoadsInv, EntriesAreTrue, EntryIsTrue

LEMMA TextsGoOn ==
  ASSUME LoadsInv, TextsParts, CarriesOn
  PROVE  TextsParts'
  <1>1. LedgerInv'
    <2>1. \A c \in LoadAttempt : LoadAttempt' = LoadAttempt /\ StateOf(c)'.ledger = StateOf(c).ledger
      BY DEF CarriesOn
    <2> QED
      BY <2>1 DEF LedgerInv, TextsParts, CarriesOn, Uses
  <1>2. AskedInv'
    <2> SUFFICES ASSUME NEW c \in LoadAttempt, DOMAIN StateOf(c)'.deps # Shared[c[1]]
                 PROVE  /\ StateOf(c)'.stage = "shared" /\ ~StateOf(c)'.expired
                        /\ c = LatestOf(c[1])'
      BY DEF AskedInv, CarriesOn
    <2>1. /\ StateOf(c)'.deps = StateOf(c).deps /\ StateOf(c)'.expired = StateOf(c).expired
          /\ StateOf(c)'.stage = StateOf(c).stage \/ DOMAIN StateOf(c).deps = Shared[c[1]]
      BY DEF CarriesOn
    <2>2. StateOf(c).stage = "shared" /\ ~StateOf(c).expired /\ c = LatestOf(c[1])
      BY <2>1 DEF TextsParts, AskedInv
    <2>3. LatestOf(c[1])' = LatestOf(c[1])
      BY AttemptFacts DEF CarriesOn
    <2> QED
      BY <2>1, <2>2, <2>3
  <1>3. RestInv'
    <2> SUFFICES ASSUME NEW x \in Wanted, loadOf'[x] # "trying", attemptsOf'[x] # <<>>
                 PROVE  StateOf(LatestOf(x))'.expired \/ StateOf(LatestOf(x))'.stage # "shared"
      BY DEF RestInv, CarriesOn
    <2>1. /\ attemptsOf[x] # <<>> /\ LatestOf(x)' = LatestOf(x)
          /\ loadOf[x] # "trying" \/ StateOf(LatestOf(x)).stage # "shared"
      BY DEF CarriesOn
    <2>2. LatestOf(x) \in LoadAttempt
      BY <2>1, LatestFacts
    <2>3. StateOf(LatestOf(x)).expired \/ StateOf(LatestOf(x)).stage # "shared"
      BY <2>1 DEF TextsParts, RestInv
    <2> QED
      BY <2>1, <2>2, <2>3 DEF CarriesOn
  <1>4. OfferInv'
    <2> SUFFICES ASSUME NEW x \in MfeEntry, NEW k \in Shared[x], NEW e \in cached',
                        Serves(e.fetch, x, k)', Flying(e.fetch)'
                 PROVE  /\ x \in Wanted' /\ attemptsOf'[x] # <<>>
                        /\ StateOf(LatestOf(x))'.stage = "shared" /\ ~StateOf(LatestOf(x))'.expired
                        /\ k \in DOMAIN StateOf(LatestOf(x))'.deps
                        /\ StateOf(LatestOf(x))'.deps[k] = e.fetch
                        /\ {CacheEntry("realm", k, e.fetch),
                            CacheEntry(Handler[x], SharedUrl[x][k], e.fetch)}
                              \subseteq StateOf(LatestOf(x))'.ledger
      BY DEF OfferInv
    <2>1. e \in cached /\ e.fetch \in DOMAIN fetches
      BY EntriesAreFetched DEF CarriesOn
    <2>2. Serves(e.fetch, x, k) /\ Flying(e.fetch)
      BY <2>1 DEF CarriesOn, FetchesGoOn, Serves
    <2>3. /\ x \in Wanted /\ attemptsOf[x] # <<>>
          /\ StateOf(LatestOf(x)).stage = "shared" /\ ~StateOf(LatestOf(x)).expired
          /\ k \in DOMAIN StateOf(LatestOf(x)).deps
          /\ StateOf(LatestOf(x)).deps[k] = e.fetch
          /\ {CacheEntry("realm", k, e.fetch),
              CacheEntry(Handler[x], SharedUrl[x][k], e.fetch)} \subseteq StateOf(LatestOf(x)).ledger
      BY <2>1, <2>2 DEF TextsParts, OfferInv
    <2>4. PICK c \in LoadAttempt : c = LatestOf(x) /\ c = LatestOf(x)'
      BY <2>3, LatestFacts DEF CarriesOn
    <2>5. /\ StateOf(c)'.ledger = StateOf(c).ledger /\ StateOf(c)'.deps = StateOf(c).deps
          /\ StateOf(c)'.expired = StateOf(c).expired /\ StateOf(c)'.stage = StateOf(c).stage
      BY <2>2, <2>3, <2>4 DEF CarriesOn
    <2>6. Wanted' = Wanted /\ attemptsOf'[x] # <<>>
      BY <2>3 DEF CarriesOn
    <2>7. StateOf(LatestOf(x))' = StateOf(c)'
      BY <2>4
    <2> QED
      BY <2>3, <2>4, <2>5, <2>6, <2>7
  <1>5. LeftInv'
    <2> SUFFICES ASSUME NEW c \in LoadAttempt, NEW i \in StateOf(c)'.left, Flying(i)'
                 PROVE  /\ \A e \in cached' : Uses(c[1], e) => e.fetch # i
                        /\ \A n \in DOMAIN attemptsOf'[c[1]] :
                             n > c[2] => \A e \in StateOf(<<c[1], n>>)'.ledger : e.fetch # i
      BY DEF LeftInv, CarriesOn, Uses
    <2>1. i \in StateOf(c).left /\ i \in DOMAIN fetches
      BY EntriesAreFetched DEF CarriesOn
    <2>2. Flying(i)
      BY <2>1 DEF CarriesOn
    <2>3. /\ \A e \in cached : Uses(c[1], e) => e.fetch # i
          /\ \A n \in DOMAIN attemptsOf[c[1]] :
               n > c[2] => \A e \in StateOf(<<c[1], n>>).ledger : e.fetch # i
      BY <2>1, <2>2 DEF TextsParts, LeftInv
    <2>4. c[1] \in Wanted /\ DOMAIN attemptsOf'[c[1]] = DOMAIN attemptsOf[c[1]]
      BY AttemptFacts DEF CarriesOn
    <2>5. \A n \in DOMAIN attemptsOf[c[1]] : <<c[1], n>> \in LoadAttempt
      BY <2>4, AttemptFacts
    <2>6. \A n \in DOMAIN attemptsOf[c[1]] : StateOf(<<c[1], n>>)'.ledger = StateOf(<<c[1], n>>).ledger
      BY <2>5 DEF CarriesOn
    <2> QED
      BY <2>3, <2>4, <2>6 DEF CarriesOn
  <1> QED
    BY <1>1, <1>2, <1>3, <1>4, <1>5 DEF TextsParts

LEMMA LoadsToParts == LoadsInv => LoadsAreTrue
  BY LoadsInParts

LEMMA LoadsToPartsNext == LoadsInv' => LoadsAreTrue'
  BY LoadsToParts, PTL

(* A step of one attempt, whose state it leaves typed. *)
LEMMA StepsOfOne ==
  ASSUME LoadsInv, LoadsInv', UNCHANGED loadOf, NEW a \in LoadAttempt, NEW att, Becomes(a, att)
  PROVE  /\ att \in Attempts /\ Wanted' = Wanted /\ LoadAttempt' = LoadAttempt
         /\ \A c \in LoadAttempt : StateOf(c)' = IF c = a THEN att ELSE StateOf(c)
         /\ \A x \in Wanted : /\ LatestOf(x)' = LatestOf(x) /\ DOMAIN attemptsOf'[x] = DOMAIN attemptsOf[x]
                              /\ attemptsOf'[x] = <<>> <=> attemptsOf[x] = <<>>
  <1>1. attemptsOf \in [Wanted -> Seq(Attempts)]
    BY LoadsInParts DEF LoadsAreTrue
  <1>2. attemptsOf' \in [Wanted' -> Seq(Attempts)]
    BY LoadsToPartsNext DEF LoadsAreTrue
  <1>3. Wanted' = Wanted
    BY DEF Wanted
  <1>4. PICK y, n : a = <<y, n>> /\ y \in Wanted /\ n \in DOMAIN attemptsOf[y]
    BY AttemptFacts
  <1>5. attemptsOf' = [attemptsOf EXCEPT ![y] = [attemptsOf[y] EXCEPT ![n] = att]]
    BY <1>4 DEF Becomes
  <1>6. attemptsOf'[y] = [attemptsOf[y] EXCEPT ![n] = att]
    BY <1>1, <1>4, <1>5
  <1>7. DOMAIN attemptsOf'[y] = DOMAIN attemptsOf[y] /\ attemptsOf'[y][n] = att
    BY <1>4, <1>6
  <1>8. attemptsOf'[y] \in Seq(Attempts)
    BY <1>2, <1>3, <1>4
  <1>9. att \in Attempts
    BY <1>4, <1>7, <1>8
  <1> QED
    BY <1>1, <1>3, <1>9, BecomesFacts

LEMMA OneGoesOn ==
  ASSUME LoadsInv, LoadsInv', UNCHANGED <<fetches, cached, loadOf>>, NEW a \in LoadAttempt, NEW att,
         Becomes(a, att), att.ledger = StateOf(a).ledger, att.left = StateOf(a).left,
         att.deps = StateOf(a).deps, att.expired = StateOf(a).expired,
         \/ att.stage = StateOf(a).stage
         \/ /\ att.stage # "shared" /\ DOMAIN StateOf(a).deps = Shared[a[1]]
            /\ StateOf(a).stage = "shared" =>
                 \A k \in DOMAIN StateOf(a).deps : ~Flying(StateOf(a).deps[k])
  PROVE  CarriesOn
  <1>1. /\ Wanted' = Wanted /\ LoadAttempt' = LoadAttempt
        /\ \A c \in LoadAttempt : StateOf(c)' = IF c = a THEN att ELSE StateOf(c)
        /\ \A x \in Wanted : /\ LatestOf(x)' = LatestOf(x) /\ DOMAIN attemptsOf'[x] = DOMAIN attemptsOf[x]
                             /\ attemptsOf'[x] = <<>> <=> attemptsOf[x] = <<>>
    BY StepsOfOne
  <1>2. FetchesGoOn
    BY FetchesStay DEF LoadsInv
  <1>3. \A i \in DOMAIN fetches : Flying(i)' => Flying(i)
    BY DEF Flying
  <1>4. \A c \in LoadAttempt :
          /\ StateOf(c)'.ledger = StateOf(c).ledger /\ StateOf(c)'.left = StateOf(c).left
          /\ StateOf(c)'.deps = StateOf(c).deps /\ StateOf(c)'.expired = StateOf(c).expired
          /\ \/ StateOf(c)'.stage = StateOf(c).stage
             \/ /\ StateOf(c)'.stage # "shared" /\ DOMAIN StateOf(c).deps = Shared[c[1]]
                /\ StateOf(c).stage = "shared" =>
                     \A k \in DOMAIN StateOf(c).deps : ~Flying(StateOf(c).deps[k])
    BY <1>1
  <1>5. \A x \in Wanted : loadOf'[x] # "trying" => loadOf[x] # "trying"
    OBVIOUS
  <1> QED
    BY <1>1, <1>2, <1>3, <1>4, <1>5 DEF CarriesOn

LEMMA GraphGoesOn ==
  ASSUME LoadsInv, LoadsInv', UNCHANGED <<fetches, cached, loadOf>>, NEW a \in LoadAttempt, NEW g,
         GraphBecomes(a, g)
  PROVE  CarriesOn
  <1>1. StateOf(a) \in Attempts
    BY AttemptOfPart
  <1>2. PICK att : /\ Becomes(a, att) /\ att.ledger = StateOf(a).ledger /\ att.left = StateOf(a).left
                   /\ att.deps = StateOf(a).deps /\ att.expired = StateOf(a).expired
                   /\ att.stage = StateOf(a).stage
    <2> DEFINE b == [StateOf(a) EXCEPT !.graph = g]
    <2>1. /\ b.ledger = StateOf(a).ledger /\ b.left = StateOf(a).left
          /\ b.deps = StateOf(a).deps /\ b.expired = StateOf(a).expired
          /\ b.stage = StateOf(a).stage
      BY <1>1 DEF Attempts
    <2>2. Becomes(a, b)
      BY DEF GraphBecomes
    <2> QED
      BY <2>1, <2>2
  <1> QED
    BY <1>2, OneGoesOn

LEMMA SharedArrivesGoesOn ==
  ASSUME LoadsInv, LoadsInv', NEW a \in LoadAttempt, SharedArrives(a)
  PROVE  CarriesOn
  <1> DEFINE g == Opens(GraphOf(a), Exposed[a[1]], {})
             b == [StateOf(a) EXCEPT !.stage = "chain", !.graph = g]
             c == [StateOf(a) EXCEPT !.stage = "failed"]
  <1>1. /\ StateOf(a) \in Attempts /\ DOMAIN StateOf(a).deps = Shared[a[1]]
        /\ \A k \in DOMAIN StateOf(a).deps : ~Flying(StateOf(a).deps[k])
    BY AttemptOfPart DEF SharedArrives, SharedSettled
  <1>2. UNCHANGED <<fetches, cached, loadOf>> /\ (Becomes(a, b) \/ Becomes(a, c))
    BY DEF SharedArrives, GraphOf
  <1>3. \A d \in {b, c} : /\ d.ledger = StateOf(a).ledger /\ d.left = StateOf(a).left
                          /\ d.deps = StateOf(a).deps /\ d.expired = StateOf(a).expired
                          /\ d.stage # "shared"
    BY <1>1 DEF Attempts
  <1>4. PICK att : /\ Becomes(a, att) /\ att.ledger = StateOf(a).ledger /\ att.left = StateOf(a).left
                   /\ att.deps = StateOf(a).deps /\ att.expired = StateOf(a).expired
                   /\ att.stage # "shared"
    <2> HIDE DEF b, c
    <2> QED
      BY <1>2, <1>3
  <1> QED
    BY <1>1, <1>2, <1>4, OneGoesOn

LEMMA ChainEndsGoesOn ==
  ASSUME LoadsInv, LoadsInv', TextsParts, NEW a \in LoadAttempt, ChainEnds(a)
  PROVE  CarriesOn
  <1> DEFINE end == CASE GraphOf(a).builds[1].wait = "cycle"  -> "refused"
                      [] GraphOf(a).builds[1].wait = "failed" -> "failed"
                      [] Exposed[a[1]] \in GraphOf(a).minted  -> "loaded"
                      [] OTHER                                -> "failed"
             b == [StateOf(a) EXCEPT !.stage = end]
  <1>1. StateOf(a) \in Attempts /\ StateOf(a).stage = "chain"
    BY AttemptOfPart DEF ChainEnds, ChainSettled
  <1>2. UNCHANGED <<fetches, cached, loadOf>> /\ Becomes(a, b)
    BY DEF ChainEnds
  <1>3. end # "shared"
    <2>1. CASE GraphOf(a).builds[1].wait = "cycle"
      BY <2>1
    <2>2. CASE GraphOf(a).builds[1].wait = "failed"
      BY <2>2
    <2>3. CASE GraphOf(a).builds[1].wait \notin {"cycle", "failed"}
      BY <2>3
    <2> QED
      BY <2>1, <2>2, <2>3
  <1> HIDE DEF end
  <1>4. /\ b.ledger = StateOf(a).ledger /\ b.left = StateOf(a).left
        /\ b.deps = StateOf(a).deps /\ b.expired = StateOf(a).expired /\ b.stage # "shared"
    BY <1>1, <1>3 DEF Attempts
  <1>5. DOMAIN StateOf(a).deps = Shared[a[1]]
    BY <1>1 DEF TextsParts, AskedInv
  <1>6. PICK att : Becomes(a, att) /\ att = b
    BY <1>2
  <1> HIDE DEF b
  <1> QED
    BY <1>1, <1>2, <1>4, <1>5, <1>6, OneGoesOn

LEMMA LoadHearsGoesOn ==
  ASSUME LoadsInv, NEW x \in Wanted, LoadHears(x)
  PROVE  CarriesOn
  <1>1. /\ StateOf(LatestOf(x)).stage # "shared" /\ UNCHANGED <<fetches, cached, attemptsOf>>
    BY DEF LoadHears, Outcome
  <1>2. Wanted' = Wanted /\ \A y \in Wanted \ {x} : loadOf'[y] = loadOf[y]
    <2>1. loadOf \in [Wanted -> LoadStages]
      BY LoadsInParts DEF LoadsAreTrue
    <2> QED
      BY <2>1 DEF LoadHears, Wanted
  <1>3. FetchesGoOn
    BY <1>1, FetchesStay DEF LoadsInv
  <1> QED
    BY <1>1, <1>2, <1>3 DEF CarriesOn, LoadAttempt, StateOf, LatestOf, Flying

LEMMA FetchSettlesGoesOn ==
  ASSUME LoadsInv, NEW i \in DOMAIN fetches, NEW answer \in {"ok", "failed"}, FetchSettles(i, answer)
  PROVE  CarriesOn
  <1>1. /\ FetchesGoOn /\ cached' \subseteq cached /\ UNCHANGED <<loadOf, attemptsOf>>
        /\ \A j \in DOMAIN fetches : fetches'[j].status = IF j = i THEN answer ELSE fetches[j].status
    BY FetchSettlesFacts
  <1>2. \A j \in DOMAIN fetches : Flying(j)' => Flying(j)
    BY <1>1 DEF Flying
  <1> QED
    BY <1>1, <1>2 DEF CarriesOn, LoadAttempt, StateOf, LatestOf, Wanted

LEMMA AsksLazilyGoesOn ==
  ASSUME LoadsInv, LoadsInv', NEW x \in Wanted, NEW f \in Lazy[x], AsksLazily(x, f)
  PROVE  CarriesOn
  <1>1. loadOf[x] = "loaded" /\ UNCHANGED <<fetches, cached, loadOf>>
    BY DEF AsksLazily
  <1>2. PICK a, g : a = LatestOf(x) /\ GraphBecomes(a, g)
    BY DEF AsksLazily
  <1>3. a \in LoadAttempt
    BY <1>1, <1>2, LatestFacts DEF LoadsInv, LoadedInv
  <1> QED
    BY <1>1, <1>2, <1>3, GraphGoesOn

LEMMA StutterGoesOn ==
  ASSUME LoadsInv, UNCHANGED loadsVars
  PROVE  CarriesOn
  <1>1. FetchesGoOn
    BY FetchesStay DEF LoadsInv, loadsVars
  <1> QED
    BY <1>1 DEF CarriesOn, LoadAttempt, StateOf, LatestOf, Wanted, Flying, loadsVars

(* What is asked for is on offer already, is fetched afresh, or has been answered; a fresh *)
(* text that serves a shared dependency is waited for, and recorded, by who asks for it.   *)
AsksAfresh(a, used, att) ==
  /\ att.deps = StateOf(a).deps \/ DOMAIN StateOf(a).deps # Shared[a[1]]
  /\ \A l \in DOMAIN StateOf(a).deps : l \in DOMAIN att.deps /\ att.deps[l] = StateOf(a).deps[l]
  /\ \A e \in used : e \in cached \/ e.fetch \notin DOMAIN fetches \/ ~Flying(e.fetch)
  /\ \A e \in used : \A x \in MfeEntry : \A k \in Shared[x] :
       e.fetch \notin DOMAIN fetches /\ Serves(e.fetch, x, k)' =>
         /\ x = a[1] /\ a = LatestOf(x) /\ att.stage = "shared" /\ ~att.expired
         /\ k \in DOMAIN att.deps /\ att.deps[k] = e.fetch
         /\ SharedUses(x, k, e.fetch) \subseteq used

LEMMA AskingKeepsTexts ==
  ASSUME LoadsInv, LoadsInv', TextsParts, NEW a \in LoadAttempt, NEW used, NEW att,
         TextAsked(a, used, att), AsksAfresh(a, used, att)
  PROVE  TextsParts'
  <1>1. /\ FetchesGoOn /\ \A i \in DOMAIN fetches : fetches'[i].status = fetches[i].status
        /\ used \in SUBSET CacheEntries /\ cached' = cached \cup used /\ UNCHANGED loadOf
        /\ \A e \in used : Uses(a[1], e)
        /\ Becomes(a, att)
        /\ att.stage = StateOf(a).stage /\ att.expired = StateOf(a).expired /\ att.left = StateOf(a).left
        /\ att.ledger = IF StateOf(a).expired THEN StateOf(a).ledger ELSE StateOf(a).ledger \cup used
    BY DEF TextAsked
  <1>2. /\ Wanted' = Wanted /\ LoadAttempt' = LoadAttempt
        /\ \A c \in LoadAttempt : StateOf(c)' = IF c = a THEN att ELSE StateOf(c)
        /\ \A x \in Wanted : /\ LatestOf(x)' = LatestOf(x) /\ DOMAIN attemptsOf'[x] = DOMAIN attemptsOf[x]
                             /\ attemptsOf'[x] = <<>> <=> attemptsOf[x] = <<>>
    BY <1>1, StepsOfOne
  <1>3. \A i \in DOMAIN fetches : Flying(i)' <=> Flying(i)
    BY <1>1 DEF Flying
  <1>4. \A c \in LoadAttempt : /\ StateOf(c)'.stage = StateOf(c).stage
                               /\ StateOf(c)'.expired = StateOf(c).expired
                               /\ StateOf(c)'.left = StateOf(c).left
                               /\ StateOf(c).ledger \subseteq StateOf(c)'.ledger
                               /\ \A e \in StateOf(c)'.ledger : e \in StateOf(c).ledger \/ (c = a /\ e \in used)
    BY <1>1, <1>2
  <1>5. LedgerInv'
    <2> SUFFICES ASSUME NEW c \in LoadAttempt, NEW e \in StateOf(c)'.ledger  PROVE Uses(c[1], e)
      BY <1>2 DEF LedgerInv, Uses
    <2> QED
      BY <1>1, <1>4 DEF LedgerInv, TextsParts
  <1>6. AskedInv'
    <2> SUFFICES ASSUME NEW c \in LoadAttempt, DOMAIN StateOf(c)'.deps # Shared[c[1]]
                 PROVE  /\ StateOf(c)'.stage = "shared" /\ ~StateOf(c)'.expired
                        /\ c = LatestOf(c[1])'
      BY <1>2 DEF AskedInv
    <2>1. DOMAIN StateOf(c).deps # Shared[c[1]]
      BY <1>2 DEF AsksAfresh
    <2>2. StateOf(c).stage = "shared" /\ ~StateOf(c).expired /\ c = LatestOf(c[1])
      BY <2>1 DEF TextsParts, AskedInv
    <2>3. LatestOf(c[1])' = LatestOf(c[1])
      BY <1>2, AttemptFacts
    <2> QED
      BY <1>4, <2>2, <2>3
  <1>7. RestInv'
    <2> SUFFICES ASSUME NEW x \in Wanted, loadOf'[x] # "trying", attemptsOf'[x] # <<>>
                 PROVE  StateOf(LatestOf(x))'.expired \/ StateOf(LatestOf(x))'.stage # "shared"
      BY <1>2 DEF RestInv
    <2>1. attemptsOf[x] # <<>> /\ LatestOf(x)' = LatestOf(x) /\ loadOf[x] # "trying"
      BY <1>1, <1>2
    <2>2. LatestOf(x) \in LoadAttempt
      BY <2>1, LatestFacts
    <2>3. StateOf(LatestOf(x)).expired \/ StateOf(LatestOf(x)).stage # "shared"
      BY <2>1 DEF TextsParts, RestInv
    <2> QED
      BY <1>4, <2>1, <2>2, <2>3
  <1>8. OfferInv'
    <2> SUFFICES ASSUME NEW x \in MfeEntry, NEW k \in Shared[x], NEW e \in cached',
                        Serves(e.fetch, x, k)', Flying(e.fetch)'
                 PROVE  /\ x \in Wanted' /\ attemptsOf'[x] # <<>>
                        /\ StateOf(LatestOf(x))'.stage = "shared" /\ ~StateOf(LatestOf(x))'.expired
                        /\ k \in DOMAIN StateOf(LatestOf(x))'.deps
                        /\ StateOf(LatestOf(x))'.deps[k] = e.fetch
                        /\ {CacheEntry("realm", k, e.fetch),
                            CacheEntry(Handler[x], SharedUrl[x][k], e.fetch)}
                              \subseteq StateOf(LatestOf(x))'.ledger
      BY DEF OfferInv
    <2>1. CASE e \in cached
      <3>1. e.fetch \in DOMAIN fetches
        BY <2>1, EntriesAreFetched
      <3>2. Serves(e.fetch, x, k) /\ Flying(e.fetch)
        BY <1>1, <1>3, <3>1 DEF FetchesGoOn, Serves
      <3>3. /\ x \in Wanted /\ attemptsOf[x] # <<>>
            /\ StateOf(LatestOf(x)).stage = "shared" /\ ~StateOf(LatestOf(x)).expired
            /\ k \in DOMAIN StateOf(LatestOf(x)).deps
            /\ StateOf(LatestOf(x)).deps[k] = e.fetch
            /\ {CacheEntry("realm", k, e.fetch),
                CacheEntry(Handler[x], SharedUrl[x][k], e.fetch)} \subseteq StateOf(LatestOf(x)).ledger
        BY <2>1, <3>2 DEF TextsParts, OfferInv
      <3>4. PICK c \in LoadAttempt : c = LatestOf(x) /\ c = LatestOf(x)'
        BY <1>2, <3>3, LatestFacts
      <3>5. k \in DOMAIN StateOf(c)'.deps /\ StateOf(c)'.deps[k] = StateOf(c).deps[k]
        BY <1>2, <3>3, <3>4 DEF AsksAfresh
      <3>6. StateOf(LatestOf(x))' = StateOf(c)'
        BY <3>4
      <3>7. StateOf(c)'.stage = "shared" /\ ~StateOf(c)'.expired /\ StateOf(c).ledger \subseteq StateOf(c)'.ledger
        BY <1>4, <3>3, <3>4
      <3> QED
        BY <1>2, <3>3, <3>4, <3>5, <3>6, <3>7
    <2>2. CASE e \notin cached
      <3>1. e \in used /\ e.fetch \notin DOMAIN fetches
        BY <1>1, <1>3, <2>2 DEF AsksAfresh
      <3>2. /\ x = a[1] /\ a = LatestOf(x) /\ att.stage = "shared" /\ ~att.expired
            /\ k \in DOMAIN att.deps /\ att.deps[k] = e.fetch
            /\ SharedUses(x, k, e.fetch) \subseteq used
        BY <3>1 DEF AsksAfresh
      <3>3. x \in Wanted /\ LatestOf(x)' = a /\ attemptsOf'[x] # <<>>
        BY <1>2, <3>2, AttemptFacts
      <3>4. used \subseteq att.ledger
        BY <1>1, <3>2
      <3>5. StateOf(LatestOf(x))' = att
        BY <1>2, <3>3
      <3> QED
        BY <1>2, <3>2, <3>3, <3>4, <3>5 DEF SharedUses
    <2> QED
      BY <2>1, <2>2
  <1>9. LeftInv'
    <2> SUFFICES ASSUME NEW c \in LoadAttempt, NEW i \in StateOf(c)'.left, Flying(i)'
                 PROVE  /\ \A e \in cached' : Uses(c[1], e) => e.fetch # i
                        /\ \A n \in DOMAIN attemptsOf'[c[1]] :
                             n > c[2] => \A e \in StateOf(<<c[1], n>>)'.ledger : e.fetch # i
      BY <1>2 DEF LeftInv, Uses
    <2>1. i \in StateOf(c).left /\ i \in DOMAIN fetches
      BY <1>4, EntriesAreFetched
    <2>2. Flying(i)
      BY <1>3, <2>1
    <2>3. /\ \A e \in cached : Uses(c[1], e) => e.fetch # i
          /\ \A n \in DOMAIN attemptsOf[c[1]] :
               n > c[2] => \A e \in StateOf(<<c[1], n>>).ledger : e.fetch # i
      BY <2>1, <2>2 DEF TextsParts, LeftInv
    <2>4. \A e \in used : Uses(c[1], e) => e.fetch # i
      BY <2>1, <2>2, <2>3 DEF AsksAfresh
    <2>5. c[1] \in Wanted /\ DOMAIN attemptsOf'[c[1]] = DOMAIN attemptsOf[c[1]]
      BY <1>2, AttemptFacts
    <2>6. ASSUME NEW n \in DOMAIN attemptsOf[c[1]], n > c[2], NEW e \in StateOf(<<c[1], n>>)'.ledger
          PROVE  e.fetch # i
      <3>1. PICK d \in LoadAttempt : d = <<c[1], n>>
        BY <2>5, AttemptFacts
      <3>2. e \in StateOf(d).ledger \/ (d = a /\ e \in used)
        BY <1>4, <3>1
      <3>3. CASE e \in StateOf(d).ledger
        BY <2>3, <2>6, <3>1, <3>3
      <3>4. CASE d = a /\ e \in used
        BY <1>1, <2>4, <3>1, <3>4
      <3> QED
        BY <3>2, <3>3, <3>4
    <2> QED
      BY <1>1, <2>3, <2>4, <2>5, <2>6
  <1> QED
    BY <1>5, <1>6, <1>7, <1>8, <1>9 DEF TextsParts

LEMMA BeginsFetchKeepsTexts ==
  ASSUME OwnBuilds, LoadsInv, LoadsInv', TextsParts, NEW a \in LoadAttempt, NEW f \in Works(a), BeginsFetch(a, f)
  PROVE  TextsParts'
  <1>1. PICK used, att : /\ TextAsked(a, used, att) /\ att.deps = StateOf(a).deps
                         /\ \A e \in used : /\ fetches'[e.fetch].url \in File
                                            /\ e \in cached \/ e.fetch \notin DOMAIN fetches
    BY BeginsFetchFacts
  <1>2. AsksAfresh(a, used, att)
    BY <1>1 DEF AsksAfresh, OwnBuilds, Serves
  <1> QED
    BY <1>1, <1>2, AskingKeepsTexts

LEMMA AsksSharedKeepsTexts ==
  ASSUME OwnBuilds, LoadsInv, LoadsInv', TextsParts, NEW a \in LoadAttempt, NEW k, AsksShared(a, k)
  PROVE  TextsParts'
  <1>1. PICK used, att, i :
           /\ TextAsked(a, used, att)
           /\ StateOf(a).stage = "shared" /\ k \in Shared[a[1]] \ DOMAIN StateOf(a).deps
           /\ DOMAIN att.deps = DOMAIN StateOf(a).deps \cup {k} /\ att.deps[k] = i
           /\ \A l \in DOMAIN StateOf(a).deps : att.deps[l] = StateOf(a).deps[l]
           /\ \A e \in used : e.fetch = i
           /\ \/ used \subseteq cached
              \/ /\ used = SharedUses(a[1], k, i)
                 /\ fetches'[i].by = Handler[a[1]] /\ fetches'[i].url = SharedUrl[a[1]][k]
                 /\ i \notin DOMAIN fetches \/ \E e \in cached : e.fetch = i
    BY AsksSharedFacts
  <1>2. DOMAIN StateOf(a).deps # Shared[a[1]]
    BY <1>1
  <1>3. ~StateOf(a).expired /\ a = LatestOf(a[1])
    BY <1>2 DEF TextsParts, AskedInv
  <1>4. FetchesGoOn /\ att.stage = StateOf(a).stage /\ att.expired = StateOf(a).expired
    BY <1>1 DEF TextAsked
  <1>5. a[1] \in MfeEntry
    BY AttemptOfPart
  <1>6. ASSUME NEW e \in used  PROVE e \in cached \/ e.fetch \notin DOMAIN fetches \/ ~Flying(e.fetch)
    <2>1. SUFFICES ASSUME e \notin cached, i \in DOMAIN fetches, Flying(i)  PROVE FALSE
      BY <1>1
    <2>2. PICK c \in cached : c.fetch = i
      BY <1>1, <1>6, <2>1
    <2>3. Serves(i, a[1], k)
      BY <1>1, <1>4, <1>6, <2>1 DEF Serves, FetchesGoOn
    <2>4. k \in DOMAIN StateOf(LatestOf(a[1])).deps
      BY <1>1, <1>5, <2>1, <2>2, <2>3 DEF TextsParts, OfferInv
    <2> QED
      BY <1>1, <1>3, <2>4
  <1>7. ASSUME NEW e \in used, NEW x \in MfeEntry, NEW l \in Shared[x], e.fetch \notin DOMAIN fetches,
               Serves(e.fetch, x, l)'
        PROVE  /\ x = a[1] /\ a = LatestOf(x) /\ att.stage = "shared" /\ ~att.expired
               /\ l \in DOMAIN att.deps /\ att.deps[l] = e.fetch
               /\ SharedUses(x, l, e.fetch) \subseteq used
    <2>1. e \notin cached
      BY <1>7, EntriesAreFetched
    <2>2. /\ used = SharedUses(a[1], k, i) /\ e.fetch = i
          /\ fetches'[i].by = Handler[a[1]] /\ fetches'[i].url = SharedUrl[a[1]][k]
      BY <1>1, <1>7, <2>1
    <2>3. Handler[x] = Handler[a[1]] /\ SharedUrl[x][l] = SharedUrl[a[1]][k]
      BY <1>7, <2>2 DEF Serves
    <2>4. x = a[1] /\ l = k
      BY <1>1, <1>5, <2>3 DEF OwnBuilds
    <2> QED
      BY <1>1, <1>3, <1>4, <2>2, <2>4
  <1>8. AsksAfresh(a, used, att)
    BY <1>1, <1>2, <1>6, <1>7 DEF AsksAfresh
  <1> QED
    BY <1>1, <1>8, AskingKeepsTexts

LEMMA TriesKeepsTexts ==
  ASSUME LoadsInv, TextsParts, NEW x \in Wanted, Tries(x)
  PROVE  TextsParts'
  <1>1. /\ loadOf[x] \in {"none", "backoff"} /\ UNCHANGED <<fetches, cached>>
        /\ loadOf'[x] = "trying"
        /\ \A y \in Wanted \ {x} : loadOf'[y] = loadOf[y] /\ attemptsOf'[y] = attemptsOf[y]
        /\ attemptsOf \in [Wanted -> Seq(Attempts)] /\ attemptsOf' \in [Wanted -> Seq(Attempts)]
    BY TriesFacts, LoadsInParts DEF LoadsAreTrue
  <1>2. PICK c : /\ c = <<x, Len(attemptsOf[x]) + 1>> /\ LoadAttempt' = LoadAttempt \cup {c} /\ c \notin LoadAttempt
                 /\ StateOf(c)' = FirstOf(x) /\ LatestOf(x)' = c
                 /\ \A a \in LoadAttempt : StateOf(a)' = StateOf(a)
                 /\ \A a \in LoadAttempt : a[1] = x => a[2] \in 1..Len(attemptsOf[x])
    BY TriesFacts
  <1>3. /\ FirstOf(x).stage = "shared" /\ ~FirstOf(x).expired /\ FirstOf(x).ledger = {}
        /\ FirstOf(x).left = {}
    BY DEF FirstOf
  <1>4. Wanted' = Wanted /\ \A y \in Wanted \ {x} : LatestOf(y)' = LatestOf(y)
    BY <1>1 DEF LatestOf, Wanted, Tries
  <1>5. \A i \in DOMAIN fetches : Flying(i)' <=> Flying(i)
    BY <1>1 DEF Flying
  <1>6. attemptsOf[x] # <<>> => LatestOf(x) \in LoadAttempt /\ (StateOf(LatestOf(x)).expired \/ StateOf(LatestOf(x)).stage # "shared")
    BY <1>1, LatestFacts DEF TextsParts, RestInv
  <1>7. LedgerInv'
    <2> SUFFICES ASSUME NEW a \in LoadAttempt', NEW e \in StateOf(a)'.ledger  PROVE Uses(a[1], e)
      BY DEF LedgerInv, Uses
    <2> QED
      BY <1>2, <1>3 DEF LedgerInv, TextsParts
  <1>8. AskedInv'
    <2> SUFFICES ASSUME NEW a \in LoadAttempt', DOMAIN StateOf(a)'.deps # Shared[a[1]]
                 PROVE  StateOf(a)'.stage = "shared" /\ ~StateOf(a)'.expired /\ a = LatestOf(a[1])'
      BY DEF AskedInv
    <2>1. CASE a = c
      BY <1>2, <1>3, <2>1
    <2>2. CASE a \in LoadAttempt
      <3>1. StateOf(a)' = StateOf(a) /\ a[1] \in Wanted /\ a[2] \in DOMAIN attemptsOf[a[1]]
        BY <1>2, <2>2, AttemptFacts
      <3>2. StateOf(a).stage = "shared" /\ ~StateOf(a).expired /\ a = LatestOf(a[1])
        BY <2>2, <3>1 DEF TextsParts, AskedInv
      <3>3. a[1] # x
        <4>1. SUFFICES ASSUME a[1] = x  PROVE FALSE
          OBVIOUS
        <4>2. attemptsOf[x] # <<>>
          BY <3>1, <4>1
        <4> QED
          BY <1>6, <3>2, <4>1, <4>2
      <3> QED
        BY <1>4, <3>1, <3>2, <3>3
    <2> QED
      BY <1>2, <2>1, <2>2
  <1>9. RestInv'
    <2> SUFFICES ASSUME NEW y \in Wanted, loadOf'[y] # "trying", attemptsOf'[y] # <<>>
                 PROVE  StateOf(LatestOf(y))'.expired \/ StateOf(LatestOf(y))'.stage # "shared"
      BY <1>4 DEF RestInv
    <2>1. y # x
      BY <1>1
    <2>2. loadOf[y] # "trying" /\ attemptsOf[y] # <<>> /\ LatestOf(y)' = LatestOf(y)
      BY <1>1, <1>4, <2>1
    <2>3. LatestOf(y) \in LoadAttempt /\ (StateOf(LatestOf(y)).expired \/ StateOf(LatestOf(y)).stage # "shared")
      BY <2>2, LatestFacts DEF TextsParts, RestInv
    <2> QED
      BY <1>2, <2>2, <2>3
  <1>10. OfferInv'
    <2> SUFFICES ASSUME NEW y \in MfeEntry, NEW k \in Shared[y], NEW e \in cached',
                        Serves(e.fetch, y, k)', Flying(e.fetch)'
                 PROVE  /\ y \in Wanted' /\ attemptsOf'[y] # <<>>
                        /\ StateOf(LatestOf(y))'.stage = "shared" /\ ~StateOf(LatestOf(y))'.expired
                        /\ k \in DOMAIN StateOf(LatestOf(y))'.deps
                        /\ StateOf(LatestOf(y))'.deps[k] = e.fetch
                        /\ {CacheEntry("realm", k, e.fetch),
                            CacheEntry(Handler[y], SharedUrl[y][k], e.fetch)}
                              \subseteq StateOf(LatestOf(y))'.ledger
      BY DEF OfferInv
    <2>1. e \in cached /\ e.fetch \in DOMAIN fetches
      BY <1>1, EntriesAreFetched
    <2>2. Serves(e.fetch, y, k) /\ Flying(e.fetch)
      BY <1>1, <1>5, <2>1 DEF Serves
    <2>3. /\ y \in Wanted /\ attemptsOf[y] # <<>>
          /\ StateOf(LatestOf(y)).stage = "shared" /\ ~StateOf(LatestOf(y)).expired
          /\ k \in DOMAIN StateOf(LatestOf(y)).deps
          /\ StateOf(LatestOf(y)).deps[k] = e.fetch
          /\ {CacheEntry("realm", k, e.fetch),
              CacheEntry(Handler[y], SharedUrl[y][k], e.fetch)} \subseteq StateOf(LatestOf(y)).ledger
      BY <2>1, <2>2 DEF TextsParts, OfferInv
    <2>4. y # x
      BY <1>6, <2>3
    <2>5. attemptsOf'[y] = attemptsOf[y]
      BY <1>1, <2>3, <2>4
    <2>6. PICK d \in LoadAttempt : d = LatestOf(y) /\ d = LatestOf(y)'
      BY <1>4, <2>3, <2>4, LatestFacts
    <2>7. StateOf(LatestOf(y))' = StateOf(LatestOf(y))
      BY <1>2, <2>6
    <2> QED
      BY <1>4, <2>3, <2>5, <2>7
  <1>11. LeftInv'
    <2> SUFFICES ASSUME NEW a \in LoadAttempt', NEW i \in StateOf(a)'.left, Flying(i)'
                 PROVE  /\ \A e \in cached' : Uses(a[1], e) => e.fetch # i
                        /\ \A n \in DOMAIN attemptsOf'[a[1]] :
                             n > a[2] => \A e \in StateOf(<<a[1], n>>)'.ledger : e.fetch # i
      BY DEF LeftInv, Uses
    <2>1. a \in LoadAttempt /\ i \in StateOf(a).left /\ a[1] \in Wanted
      BY <1>2, <1>3, AttemptFacts
    <2>2. Flying(i)
      BY <1>5, <2>1, EntriesAreFetched
    <2>3. /\ \A e \in cached : Uses(a[1], e) => e.fetch # i
          /\ \A n \in DOMAIN attemptsOf[a[1]] :
               n > a[2] => \A e \in StateOf(<<a[1], n>>).ledger : e.fetch # i
      BY <2>1, <2>2 DEF TextsParts, LeftInv
    <2>4. ASSUME NEW n \in DOMAIN attemptsOf'[a[1]], n > a[2], NEW e \in StateOf(<<a[1], n>>)'.ledger
          PROVE  e.fetch # i
      <3>1. PICK d : d = <<a[1], n>>
        OBVIOUS
      <3>2. d \in LoadAttempt'
        <4>1. <<a[1], n>> \in LoadAttempt'
          BY <1>4, <2>1 DEF LoadAttempt
        <4> QED
          BY <3>1, <4>1
      <3>3. d \in LoadAttempt /\ StateOf(d)' = StateOf(d)
        BY <1>2, <1>3, <2>4, <3>1, <3>2
      <3>4. n \in DOMAIN attemptsOf[a[1]]
        BY <3>1, <3>3, AttemptFacts
      <3> QED
        BY <2>3, <2>4, <3>1, <3>3, <3>4
    <2> QED
      BY <1>1, <2>3, <2>4
  <1> QED
    BY <1>7, <1>8, <1>9, <1>10, <1>11 DEF TextsParts

(* What stands for a shared dependency of an extension stands for no other. *)
LEMMA KnownByService ==
  ASSUME OwnBuilds, NEW e \in CacheEntries, EntryIsTrue(e), NEW x \in MfeEntry, NEW k \in Shared[x],
         Serves(e.fetch, x, k)
  PROVE  e \in SharedUses(x, k, e.fetch)
  <1>1. e = CacheEntry(e.cache, e.key, e.fetch)
    BY DEF CacheEntry, CacheEntries
  <1>2. CASE e.cache = "realm"
    BY <1>1, <1>2 DEF EntryIsTrue, Serves, OwnBuilds, SharedUses
  <1>3. CASE e.cache # "realm"
    BY <1>1, <1>3 DEF EntryIsTrue, Serves, SharedUses
  <1> QED
    BY <1>2, <1>3

(* Two entries of one fetch that an extension may be given it by are one, or are those of *)
(* a shared dependency.                                                                   *)
LEMMA KnownByUse ==
  ASSUME OwnBuilds, NEW e \in CacheEntries, NEW w \in CacheEntries, EntryIsTrue(e), EntryIsTrue(w),
         e.fetch = w.fetch, NEW x \in MfeEntry, Uses(x, e), Uses(x, w)
  PROVE  e = w \/ \E k \in Shared[x] : Serves(e.fetch, x, k)
  <1>1. e.cache = w.cache /\ e.key = w.key => e = w
    BY DEF CacheEntries
  <1>2. ASSUME NEW c \in CacheEntries, EntryIsTrue(c), c.fetch = e.fetch, c.cache = "realm",
               NEW d \in CacheEntries, EntryIsTrue(d), d.fetch = e.fetch, d.cache # "realm", Uses(x, d)
        PROVE  \E k \in Shared[x] : Serves(e.fetch, x, k)
    <2>1. PICK z \in MfeEntry : /\ c.key \in Shared[z] /\ fetches[e.fetch].by = Handler[z]
                                /\ fetches[e.fetch].url = SharedUrl[z][c.key]
      BY <1>2 DEF EntryIsTrue
    <2>2. fetches[e.fetch].by = d.cache /\ fetches[e.fetch].url = d.key /\ d.cache = Handler[x]
      BY <1>2 DEF EntryIsTrue, Uses
    <2>3. d.key \in SharedUrls(x)
      BY <1>2, <2>1, <2>2 DEF Uses, OwnBuilds
    <2>4. PICK k \in Shared[x] : d.key = SharedUrl[x][k]
      BY <2>3 DEF SharedUrls
    <2> QED
      BY <2>2, <2>4 DEF Serves
  <1>3. CASE e.cache = "realm" /\ w.cache = "realm"
    <2>1. e.key = w.key
      BY <1>3 DEF EntryIsTrue, OwnBuilds
    <2> QED
      BY <1>1, <1>3, <2>1
  <1>4. CASE e.cache = "realm" /\ w.cache # "realm"
    BY <1>2, <1>4
  <1>5. CASE e.cache # "realm" /\ w.cache = "realm"
    BY <1>2, <1>5
  <1>6. CASE e.cache # "realm" /\ w.cache # "realm"
    BY <1>1, <1>6 DEF EntryIsTrue
  <1> QED
    BY <1>3, <1>4, <1>5, <1>6

(* While dependencies are left to ask for, there is a worker to ask for one. *)
LEMMA AskedAtOnce ==
  ASSUME SharedFitThePool, LoadsInv, NEW a \in LoadAttempt, DOMAIN StateOf(a).deps # Shared[a[1]]
  PROVE  SharedToAsk(a) # {}
  <1> DEFINE D == DOMAIN StateOf(a).deps
             S == Shared[a[1]]
             F == {k \in D : Flying(StateOf(a).deps[k])}
  <1>1. D \subseteq S
    BY DEF LoadsInv, EntriesAreTrue
  <1>2. IsFiniteSet(S) /\ Cardinality(S) <= Width
    BY AttemptOfPart DEF SharedFitThePool
  <1>3. S \ D # {} /\ F \subseteq S /\ F # S
    BY <1>1
  <1> HIDE DEF F, S, D
  <1>4. Cardinality(F) < Cardinality(S) /\ Cardinality(F) \in Nat /\ Cardinality(S) \in Nat
    BY <1>2, <1>3, FS_Subset, FS_CardinalityType
  <1>5. Cardinality(F) < Width
    BY <1>2, <1>4, WidthIsPositive
  <1> USE DEF F, S, D
  <1> QED
    BY <1>3, <1>5 DEF SharedToAsk, WorkerFree

LEMMA ExpiresKeepsTexts ==
  ASSUME OwnBuilds, SharedFitThePool, LoadsInv, LoadsInv', TextsParts, NEW x \in Wanted, Expires(x)
  PROVE  TextsParts'
  <1>1. PICK a \in LoadAttempt : a = LatestOf(x) /\ a[1] = x
    BY ExpiresFacts
  <1>2. /\ UNCHANGED fetches /\ cached' = cached \ AwaitedBy(a)
        /\ loadOf' \in [Wanted -> LoadStages]
        /\ \A y \in Wanted \ {x} : loadOf'[y] = loadOf[y]
    BY <1>1, ExpiresFacts
  <1>3. PICK att \in Attempts :
          /\ Becomes(a, att) /\ att.stage = StateOf(a).stage /\ att.expired
          /\ att.ledger = StateOf(a).ledger /\ att.deps = StateOf(a).deps
          /\ att.left = {e.fetch : e \in AwaitedBy(a)}
    BY <1>1, ExpiresFacts
  <1>4. Quiet /\ x \in MfeEntry
    BY DEF Expires, LoadsInv, LoadsTyped
  <1>5. attemptsOf \in [Wanted -> Seq(Attempts)] /\ Wanted' = Wanted
    BY <1>2, LoadsInParts DEF LoadsAreTrue, Wanted
  <1>6. /\ LoadAttempt' = LoadAttempt
        /\ \A c \in LoadAttempt : StateOf(c)' = IF c = a THEN att ELSE StateOf(c)
        /\ \A y \in Wanted : /\ LatestOf(y)' = LatestOf(y)
                             /\ DOMAIN attemptsOf'[y] = DOMAIN attemptsOf[y]
                             /\ attemptsOf[y] = <<>> <=> attemptsOf'[y] = <<>>
    BY <1>3, <1>5, BecomesFacts
  <1>7. \A i \in DOMAIN fetches : Flying(i)' <=> Flying(i)
    BY <1>2 DEF Flying
  <1>8. \A c \in LoadAttempt : /\ StateOf(c)'.stage = StateOf(c).stage /\ StateOf(c)'.deps = StateOf(c).deps
                               /\ StateOf(c)'.ledger = StateOf(c).ledger
                               /\ c # a => StateOf(c)' = StateOf(c)
    BY <1>3, <1>6
  <1>9. LedgerInv'
    <2> SUFFICES ASSUME NEW c \in LoadAttempt, NEW e \in StateOf(c)'.ledger  PROVE Uses(c[1], e)
      BY <1>6 DEF LedgerInv, Uses
    <2> QED
      BY <1>8 DEF LedgerInv, TextsParts
  <1>10. AskedInv'
    <2> SUFFICES ASSUME NEW c \in LoadAttempt, DOMAIN StateOf(c)'.deps # Shared[c[1]]
                 PROVE  StateOf(c)'.stage = "shared" /\ ~StateOf(c)'.expired /\ c = LatestOf(c[1])'
      BY <1>6 DEF AskedInv
    <2>1. DOMAIN StateOf(c).deps # Shared[c[1]]
      BY <1>8
    <2>2. StateOf(c).stage = "shared" /\ ~StateOf(c).expired /\ c = LatestOf(c[1])
      BY <2>1 DEF TextsParts, AskedInv
    <2>3. c # a
      BY <1>4, <2>1, <2>2, AskedAtOnce DEF Quiet, ContinuationDue
    <2> QED
      BY <1>6, <1>8, <2>2, <2>3, AttemptFacts
  <1>11. RestInv'
    <2> SUFFICES ASSUME NEW y \in Wanted, loadOf'[y] # "trying", attemptsOf'[y] # <<>>
                 PROVE  StateOf(LatestOf(y))'.expired \/ StateOf(LatestOf(y))'.stage # "shared"
      BY <1>5 DEF RestInv
    <2>1. PICK c : c = LatestOf(y) /\ c = LatestOf(y)'
      BY <1>6
    <2>2. c \in LoadAttempt
      BY <1>6, <2>1, LatestFacts
    <2>3. StateOf(LatestOf(y))' = StateOf(c)'
      BY <2>1
    <2>4. CASE y = x
      BY <1>1, <1>3, <1>6, <2>1, <2>3, <2>4
    <2>5. CASE y # x
      <3>1. StateOf(c).expired \/ StateOf(c).stage # "shared"
        BY <1>2, <1>6, <2>1, <2>5 DEF TextsParts, RestInv
      <3>2. c # a
        BY <1>1, <2>1, <2>5 DEF LatestOf
      <3> QED
        BY <1>8, <2>2, <2>3, <3>1, <3>2
    <2> QED
      BY <2>4, <2>5
  <1>12. OfferInv'
    <2> SUFFICES ASSUME NEW y \in MfeEntry, NEW k \in Shared[y], NEW e \in cached',
                        Serves(e.fetch, y, k)', Flying(e.fetch)'
                 PROVE  /\ y \in Wanted' /\ attemptsOf'[y] # <<>>
                        /\ StateOf(LatestOf(y))'.stage = "shared" /\ ~StateOf(LatestOf(y))'.expired
                        /\ k \in DOMAIN StateOf(LatestOf(y))'.deps
                        /\ StateOf(LatestOf(y))'.deps[k] = e.fetch
                        /\ {CacheEntry("realm", k, e.fetch),
                            CacheEntry(Handler[y], SharedUrl[y][k], e.fetch)}
                              \subseteq StateOf(LatestOf(y))'.ledger
      BY DEF OfferInv
    <2>1. e \in cached /\ e \notin AwaitedBy(a) /\ e.fetch \in DOMAIN fetches
      BY <1>2, EntriesAreFetched
    <2>2. Serves(e.fetch, y, k) /\ Flying(e.fetch)
      BY <1>2, <1>7, <2>1 DEF Serves
    <2>3. /\ y \in Wanted /\ attemptsOf[y] # <<>>
          /\ StateOf(LatestOf(y)).stage = "shared" /\ ~StateOf(LatestOf(y)).expired
          /\ k \in DOMAIN StateOf(LatestOf(y)).deps
          /\ StateOf(LatestOf(y)).deps[k] = e.fetch
          /\ SharedUses(y, k, e.fetch) \subseteq StateOf(LatestOf(y)).ledger
      BY <2>1, <2>2 DEF TextsParts, OfferInv, SharedUses
    <2>4. e \in SharedUses(y, k, e.fetch)
      BY <2>1, <2>2, KnownByService DEF LoadsInv, LoadsTyped, EntriesAreTrue
    <2>5. y # x
      BY <1>1, <2>1, <2>2, <2>3, <2>4 DEF AwaitedBy
    <2>6. PICK c \in LoadAttempt : c = LatestOf(y) /\ c = LatestOf(y)' /\ c # a
      BY <1>1, <1>6, <2>3, <2>5, LatestFacts
    <2>7. StateOf(LatestOf(y))' = StateOf(LatestOf(y))
      BY <1>8, <2>6
    <2> QED
      BY <1>5, <1>6, <2>3, <2>7 DEF SharedUses
  <1>13. LeftInv'
    <2> SUFFICES ASSUME NEW c \in LoadAttempt, NEW i \in StateOf(c)'.left, Flying(i)'
                 PROVE  /\ \A e \in cached' : Uses(c[1], e) => e.fetch # i
                        /\ \A n \in DOMAIN attemptsOf'[c[1]] :
                             n > c[2] => \A e \in StateOf(<<c[1], n>>)'.ledger : e.fetch # i
      BY <1>6 DEF LeftInv, Uses
    <2>1. /\ c[1] \in Wanted /\ DOMAIN attemptsOf'[c[1]] = DOMAIN attemptsOf[c[1]]
          /\ \A n \in DOMAIN attemptsOf[c[1]] : <<c[1], n>> \in LoadAttempt
      BY <1>6, AttemptFacts
    <2>2. CASE c # a
      <3>1. i \in StateOf(c).left /\ i \in DOMAIN fetches
        BY <1>8, <2>2, EntriesAreFetched
      <3>2. /\ \A e \in cached : Uses(c[1], e) => e.fetch # i
            /\ \A n \in DOMAIN attemptsOf[c[1]] :
                 n > c[2] => \A e \in StateOf(<<c[1], n>>).ledger : e.fetch # i
        BY <1>7, <3>1 DEF TextsParts, LeftInv
      <3>3. \A n \in DOMAIN attemptsOf[c[1]] : StateOf(<<c[1], n>>)'.ledger = StateOf(<<c[1], n>>).ledger
        BY <1>8, <2>1
      <3> QED
        BY <1>2, <2>1, <3>2, <3>3
    <2>3. CASE c = a
      <3>1. PICK w \in AwaitedBy(a) : i = w.fetch
        BY <1>3, <1>6, <2>3
      <3>2. w \in StateOf(a).ledger /\ Flying(i) /\ w \in CacheEntries /\ EntryIsTrue(w) /\ Uses(x, w)
        BY <1>1, <3>1, AttemptOfPart DEF AwaitedBy, Attempts, TrueAttempt, TextsParts, LedgerInv
      <3>3. ASSUME NEW e \in cached', Uses(x, e), e.fetch = i  PROVE FALSE
        <4>1. e \in cached /\ e \notin AwaitedBy(a) /\ e \in CacheEntries /\ EntryIsTrue(e)
          BY <1>2 DEF LoadsInv, LoadsTyped, EntriesAreTrue
        <4>2. e # w
          BY <3>1, <4>1
        <4>3. PICK k \in Shared[x] : Serves(e.fetch, x, k)
          BY <1>4, <3>1, <3>2, <3>3, <4>1, <4>2, KnownByUse
        <4>4. e \in SharedUses(x, k, e.fetch)
          BY <1>4, <4>1, <4>3, KnownByService
        <4>5. SharedUses(x, k, e.fetch) \subseteq StateOf(a).ledger
          BY <1>1, <1>4, <3>2, <3>3, <4>1, <4>3 DEF TextsParts, OfferInv, SharedUses
        <4> QED
          BY <3>2, <3>3, <4>1, <4>4, <4>5 DEF AwaitedBy
      <3>4. \A n \in DOMAIN attemptsOf[x] : ~(n > a[2])
        <4>1. attemptsOf[x] \in Seq(Attempts) /\ a[2] = Len(attemptsOf[x])
          BY <1>1, <1>5 DEF LatestOf
        <4> QED
          BY <4>1
      <3> QED
        BY <1>1, <2>1, <2>3, <3>3, <3>4
    <2> QED
      BY <2>2, <2>3
  <1> QED
    BY <1>9, <1>10, <1>11, <1>12, <1>13 DEF TextsParts

LEMMA TextsBegin == LoadsInit => TextsParts
  <1> SUFFICES ASSUME LoadsInit  PROVE TextsParts
    OBVIOUS
  <1>1. cached = {} /\ \A x \in Wanted : attemptsOf[x] = <<>>
    BY DEF LoadsInit, Wanted
  <1>2. LoadAttempt = {}
    BY <1>1 DEF LoadAttempt
  <1> QED
    BY <1>1, <1>2 DEF TextsParts, LedgerInv, AskedInv, RestInv, OfferInv, LeftInv

LEMMA TextsStep ==
  ASSUME OwnBuilds, SharedFitThePool, LoadsInv, LoadsInv', TextsParts, [LoadsNext]_loadsVars
  PROVE  TextsParts'
  <1>1. ASSUME NEW a \in LoadAttempt, NEW k \in Shared[a[1]], AsksShared(a, k)  PROVE TextsParts'
    BY <1>1, AsksSharedKeepsTexts
  <1>2. ASSUME NEW a \in LoadAttempt, SharedArrives(a)  PROVE TextsParts'
    BY <1>2, SharedArrivesGoesOn, TextsGoOn
  <1>3. ASSUME NEW a \in LoadAttempt, NEW f \in Works(a), BeginsFetch(a, f)  PROVE TextsParts'
    BY <1>3, BeginsFetchKeepsTexts
  <1>4. ASSUME NEW a \in LoadAttempt, NEW f \in Works(a), FetchArrives(a, f)  PROVE TextsParts'
    BY <1>4, GraphGoesOn, TextsGoOn DEF FetchArrives
  <1>5. ASSUME NEW a \in LoadAttempt, NEW f \in Works(a), ImportsSettle(a, f)  PROVE TextsParts'
    BY <1>5, GraphGoesOn, TextsGoOn DEF ImportsSettle
  <1>6. ASSUME NEW a \in LoadAttempt, NEW f \in Works(a), NEW d \in DOMAIN GraphOf(a).works[f].waits,
               JoinerResumes(a, f, d)
        PROVE  TextsParts'
    BY <1>6, GraphGoesOn, TextsGoOn DEF JoinerResumes
  <1>7. ASSUME NEW a \in LoadAttempt, NEW b \in DOMAIN GraphOf(a).builds, RootResumes(a, b)  PROVE TextsParts'
    BY <1>7, GraphGoesOn, TextsGoOn DEF RootResumes
  <1>8. ASSUME NEW a \in LoadAttempt, ChainEnds(a)  PROVE TextsParts'
    BY <1>8, ChainEndsGoesOn, TextsGoOn
  <1>9. ASSUME NEW x \in Wanted, LoadHears(x)  PROVE TextsParts'
    BY <1>9, LoadHearsGoesOn, TextsGoOn
  <1>10. CASE Continuation
    BY <1>1, <1>2, <1>3, <1>4, <1>5, <1>6, <1>7, <1>8, <1>9, <1>10 DEF Continuation
  <1>11. ASSUME NEW x \in Wanted, Tries(x)  PROVE TextsParts'
    BY <1>11, TriesKeepsTexts
  <1>12. ASSUME NEW x \in Wanted, Expires(x)  PROVE TextsParts'
    BY <1>12, ExpiresKeepsTexts
  <1>13. ASSUME NEW x \in Wanted, NEW f \in Lazy[x], AsksLazily(x, f)  PROVE TextsParts'
    BY <1>13, AsksLazilyGoesOn, TextsGoOn
  <1>14. ASSUME NEW i \in DOMAIN fetches, NEW answer \in {"ok", "failed"}, FetchSettles(i, answer)
         PROVE  TextsParts'
    BY <1>14, FetchSettlesGoesOn, TextsGoOn
  <1>15. CASE UNCHANGED loadsVars
    BY <1>15, StutterGoesOn, TextsGoOn
  <1> QED
    BY <1>10, <1>11, <1>12, <1>13, <1>14, <1>15 DEF LoadsNext

(* The inductive invariant of the texts the attempts share, when every extension is built  *)
(* by itself and declares no more shared dependencies than are asked for at once: a shared dependency is on offer, while its text is under way, only as long   *)
(* as the attempt that asked for it waits for it and has it in its ledger.                 *)
THEOREM TextsInvariance == ASSUME OwnBuilds, SharedFitThePool PROVE LoadsSpec => []TextsInv
  <1>1. LoadsInit => LoadsInv /\ TextsParts
    BY LoadsBegin, TextsBegin
  <1>2. LoadsInv /\ TextsParts /\ [LoadsNext]_loadsVars => (LoadsInv /\ TextsParts)'
    BY LoadsStep, TextsStep
  <1>3. LoadsInv /\ TextsParts => TextsInv
    BY DEF TextsInv, TextsParts
  <1> QED
    BY <1>1, <1>2, <1>3, PTL DEF LoadsSpec

LEMMA RetriesFetchAfresh == TextsInv => RetryFetchesAfresh
  <1> SUFFICES ASSUME TextsInv, NEW a \in LoadAttempt, a[2] > 1, NEW e \in AwaitedBy(a),
                      e.fetch \in StateOf(<<a[1], a[2] - 1>>).left
               PROVE  FALSE
    BY DEF RetryFetchesAfresh
  <1>1. a[1] \in Wanted /\ a[2] \in DOMAIN attemptsOf[a[1]] /\ a = <<a[1], a[2]>>
    BY AttemptFacts
  <1>2. attemptsOf[a[1]] \in Seq(Attempts)
    BY <1>1, LoadsInParts DEF LoadsAreTrue, TextsInv
  <1>3. a[2] - 1 \in DOMAIN attemptsOf[a[1]] /\ a[2] > a[2] - 1
    BY <1>1, <1>2
  <1>4. PICK b \in LoadAttempt : b = <<a[1], a[2] - 1>>
    BY <1>1, <1>3, AttemptFacts
  <1>5. e.fetch \in StateOf(b).left /\ Flying(e.fetch) /\ e \in StateOf(<<a[1], a[2]>>).ledger
    BY <1>1, <1>4 DEF AwaitedBy
  <1>6. b[1] = a[1] /\ b[2] = a[2] - 1
    BY <1>4
  <1> QED
    BY <1>1, <1>3, <1>5, <1>6 DEF TextsInv, LeftInv

LEMMA RetriesFetchAfreshNext == TextsInv' => RetryFetchesAfresh'
  BY RetriesFetchAfresh, PTL

LEMMA KeptTexts ==
  ASSUME LoadsInv, [LoadsNext]_loadsVars
  PROVE  KeptUntilGivenUp
  <1> SUFFICES ASSUME NEW e \in cached, e \notin cached', e.cache = "realm", Flying(e.fetch),
                      fetches'[e.fetch].status = "flying"
               PROVE  \E x \in Wanted : Expires(x) /\ e \in AwaitedBy(LatestOf(x))
    BY DEF KeptUntilGivenUp
  <1>1. ASSUME NEW a \in LoadAttempt, NEW k \in Shared[a[1]], AsksShared(a, k)  PROVE FALSE
    BY <1>1 DEF AsksShared
  <1>2. ASSUME NEW a \in LoadAttempt, NEW f \in Works(a), BeginsFetch(a, f)  PROVE FALSE
    BY <1>2 DEF BeginsFetch
  <1>3. ~Continuation
    BY <1>1, <1>2 DEF Continuation, SharedArrives, FetchArrives, ImportsSettle, JoinerResumes,
                      RootResumes, ChainEnds, LoadHears
  <1>4. ASSUME NEW i \in DOMAIN fetches, NEW answer \in {"ok", "failed"}, FetchSettles(i, answer)
        PROVE  FALSE
    <2>1. e.fetch = i \/ e.cache = fetches[i].by
      BY <1>4, FetchSettlesFacts
    <2>2. e.fetch \in DOMAIN fetches
      BY EntriesAreFetched
    <2>3. e.fetch # i
      BY <1>4, <2>2, FetchSettlesFacts
    <2>4. fetches[i].by # "realm"
      <3>1. fetches[i] \in FetchRecord
        BY DEF LoadsInv, LoadsTyped
      <3> QED
        BY <3>1, CachesAssumption DEF FetchRecord, Handlers
    <2> QED
      BY <2>1, <2>3, <2>4
  <1>5. ASSUME NEW x \in Wanted, Expires(x)  PROVE e \in AwaitedBy(LatestOf(x))
    BY <1>5, ExpiresFacts
  <1>6. ASSUME NEW x \in Wanted, Tries(x) \/ \E f \in Lazy[x] : AsksLazily(x, f)  PROVE FALSE
    BY <1>6 DEF Tries, AsksLazily
  <1>7. ~UNCHANGED loadsVars
    BY DEF loadsVars
  <1> QED
    BY <1>3, <1>4, <1>5, <1>6, <1>7 DEF LoadsNext

(* An attempt never waits for what the one before it was given up waiting for, and a text  *)
(* under way leaves the realm's cache only with the attempt that was waiting for it.       *)
THEOREM GivenUpTextsGo == ASSUME OwnBuilds, SharedFitThePool PROVE LoadsSpec => ReleasedWithItsAttempt
  <1>1. TextsInv => LoadsInv
    BY DEF TextsInv
  <1>2. LoadsInv /\ [LoadsNext]_loadsVars => KeptUntilGivenUp
    BY KeptTexts
  <1>3. TextsInv /\ TextsInv' /\ [LoadsNext]_loadsVars => RetryFetchesAfresh' /\ KeptUntilGivenUp
    BY <1>1, <1>2, RetriesFetchAfreshNext
  <1> QED
    BY <1>3, TextsInvariance, PTL DEF LoadsSpec, ReleasedWithItsAttempt

-----------------------------------------------------------------------------
(* Waiting in circles. *)

(* How much a chunk needs. *)
Needs(f) == Cardinality(Reach[f])

LEMMA NeedsCounted == ASSUME NEW f \in File  PROVE IsFiniteSet(Reach[f]) /\ Needs(f) \in Nat
  <1>1. IsFiniteSet(Reach[f])
    BY ReachFacts, FilesAreFinite, FS_Subset
  <1> QED
    BY <1>1, FS_CardinalityType DEF Needs

(* Among chunks there is one that needs least. *)
LEMMA LeastNeeding ==
  ASSUME NEW ring \in SUBSET File, ring # {}
  PROVE  \E f \in ring : \A x \in ring : Needs(f) <= Needs(x)
  <1> DEFINE T == {Needs(x) : x \in ring}
  <1>1. T \subseteq Nat /\ T # {}
    BY NeedsCounted
  <1>2. PICK n \in T : \A m \in T : n <= m
    <2> HIDE DEF T
    <2> QED
      BY <1>1, LeastNumber
  <1> QED
    BY <1>2

(* What imports a chunk that needs no less than itself needs what it needs. *)
LEMMA NoLessNeeded ==
  ASSUME NEW f \in File, NEW d \in ToSet(Imports[f]), d \in File, Needs(f) <= Needs(d)
  PROVE  Reach[d] = Reach[f]
  <1>1. Reach[d] \subseteq Reach[f]
    BY LeadsAtOnce, ReachFacts
  <1>2. IsFiniteSet(Reach[f]) /\ Needs(f) \in Nat /\ Needs(d) \in Nat
    BY NeedsCounted
  <1>3. Needs(d) <= Needs(f) /\ (Needs(d) = Needs(f) => Reach[d] = Reach[f])
    BY <1>1, <1>2, FS_Subset DEF Needs
  <1> QED
    BY <1>2, <1>3

(* Three chunks are three. *)
LEMMA ThreeChunks ==
  ASSUME NEW f, NEW d, NEW e, f # d, d # e, f # e
  PROVE  ~(Cardinality({f, d, e}) < 3)
  <1>1. IsFiniteSet({f}) /\ Cardinality({f}) = 1
    BY FS_Singleton
  <1>2. IsFiniteSet({f} \cup {d}) /\ Cardinality({f} \cup {d}) = 2
    BY <1>1, FS_AddElement
  <1>3. Cardinality(({f} \cup {d}) \cup {e}) = 3
    BY <1>2, FS_AddElement
  <1>4. ({f} \cup {d}) \cup {e} = {f, d, e}
    OBVIOUS
  <1> QED
    BY <1>3, <1>4

(* A ring of constructions that wait for one another, in which none is waited for by what  *)
(* it waits for, goes through three chunks that need one another.                          *)
LEMMA RingsAreLong ==
  ASSUME NEW ring \in SUBSET File, ring # {}, NEW For,
         \A f \in ring : For[f] \subseteq ToSet(Imports[f]) /\ For[f] \cap ring # {},
         \A f \in ring : \A d \in For[f] \cap ring : f \notin For[d]
  PROVE  ~OnlyShortCircles
  <1>1. PICK f \in ring : \A x \in ring : Needs(f) <= Needs(x)
    BY LeastNeeding
  <1>2. PICK d \in ring : d \in For[f]
    OBVIOUS
  <1>3. Reach[d] = Reach[f]
    BY <1>1, <1>2, NoLessNeeded
  <1>4. PICK e \in ring : e \in For[d]
    OBVIOUS
  <1>5. Needs(d) <= Needs(e)
    BY <1>1, <1>3 DEF Needs
  <1>6. Reach[e] = Reach[d]
    BY <1>4, <1>5, NoLessNeeded
  <1>7. f # d /\ d # e /\ f # e
    BY <1>2, <1>4
  <1>8. f \in Reach[f] /\ d \in Reach[d] /\ e \in Reach[e]
    BY ReachFacts
  <1>9. NeedEachOther(f, d) /\ NeedEachOther(d, e)
    BY <1>3, <1>6, <1>8 DEF NeedEachOther
  <1>10. ~(Cardinality({f, d, e}) < 3)
    BY <1>7, ThreeChunks
  <1> QED
    BY <1>9, <1>10 DEF OnlyShortCircles

LEMMA NobodyWaits ==
  ASSUME OnlyShortCircles, LoadsInv
  PROVE  NobodyWaitsForever
  <1> DEFINE For(a, f) == WaitsFor(GraphOf(a), f)
  <1>1. ASSUME NEW a \in LoadAttempt, NEW f \in Works(a)
        PROVE  /\ f \in File /\ For(a, f) \subseteq Works(a) /\ For(a, f) \subseteq ToSet(Imports[f])
               /\ \A d \in For(a, f) : f \notin For(a, d)
    <2>1. /\ GraphIsTrue(GraphOf(a), fetches) /\ WaitsAreSeen(GraphOf(a))
          /\ f \in InFlight(GraphOf(a)) /\ f \in File
      BY AttemptOfPart, GraphParts DEF Works, GraphInv
    <2>2. WorkIsTrue(GraphOf(a), fetches, f)
      BY <2>1 DEF GraphIsTrue
    <2>3. \A d \in For(a, f) : f \notin For(a, d)
      BY <2>1 DEF WaitsAreSeen
    <2> QED
      BY <2>1, <2>2, <2>3 DEF WorkIsTrue, WaitIsTrue, WaitsFor, Works
  <1>2. ASSUME NEW a \in LoadAttempt,
               NEW ring \in (SUBSET {f \in Works(a) : For(a, f) # {}}) \ {{}},
               \A f \in ring : For(a, f) \cap ring # {}
        PROVE  FALSE
    <2>1. ring \in SUBSET File /\ ring # {}
      BY <1>1
    <2>2. /\ \A f \in ring : For(a, f) \subseteq ToSet(Imports[f]) /\ For(a, f) \cap ring # {}
          /\ \A f \in ring : \A d \in For(a, f) \cap ring : f \notin For(a, d)
      BY <1>1, <1>2
    <2> DEFINE waits == [f \in ring |-> For(a, f)]
    <2> HIDE DEF For
    <2>3. /\ \A f \in ring : waits[f] \subseteq ToSet(Imports[f]) /\ waits[f] \cap ring # {}
          /\ \A f \in ring : \A d \in waits[f] \cap ring : f \notin waits[d]
      BY <2>2
    <2> HIDE DEF waits
    <2> QED
      BY <2>1, <2>3, RingsAreLong
  <1> QED
    BY <1>1, <1>2 DEF NobodyWaitsForever

(* Where no three chunks need one another, no construction of an attempt waits, through    *)
(* others, for itself, and each waits for constructions there are, whatever joins          *)
(* whatever, in whatever order sources come and constructions fail.  Chunks that import    *)
(* each other are among them: two branches that reach such a pair from its two ends never  *)
(* come to wait for each other.                                                            *)
THEOREM ChunksNeverDeadlock == ASSUME OnlyShortCircles PROVE LoadsSpec => []NobodyWaitsForever
  <1>1. LoadsInv => NobodyWaitsForever
    BY NobodyWaits
  <1> QED
    BY <1>1, LoadsInvariance, PTL

-----------------------------------------------------------------------------
(* The shared fetch cache *)

USE BoundsAssumption, StaleTimeAssumption

(* An empty cache. *)
LEMMA InitIInv == Init => IInv
  <1> SUFFICES ASSUME Init PROVE IInv
    OBVIOUS
  <1>1. TypeOK
    BY DEF Init, TypeOK, Call, NoEntry, NoData, NoCall
  <1>2. NumberingInv /\ InFlightInv /\ AliasInv
    BY DEF Init, NumberingInv, InFlightInv, AliasInv, NoEntry
  <1> QED
    BY <1>1, <1>2 DEF IInv

(* The types of the cache, those of what callers asked for, and how callers    *)
(* are counted.                                                                *)
CacheTypes ==
  /\ called \in 0 .. MaxCalls /\ entries \in [Key -> 0 .. MaxCalls]
  /\ age \in [Key -> -1 .. MaxAge] /\ versions \in [Key -> Nat] /\ version \in [Call -> Nat]
  /\ pending \in SUBSET Call /\ kept \in SUBSET Call /\ aborted \in SUBSET Call
  /\ servedBy \in [Call -> 0 .. MaxCalls]

AskedTypes ==
  /\ aliases \in SUBSET (Key \X Alias)
  /\ asked \in [Call -> [key : Key, aliases : SUBSET Alias] \cup {NoCall}]

Counted ==
  /\ attached \in [Call -> SUBSET Call]
  /\ status \in [Call -> {"idle", "waiting", "settled"}]
  /\ \A c \in Call : c > called <=> status[c] = "idle"
  /\ \A e \in Call : attached[e] = {c \in Call : servedBy[c] = e /\ status[c] = "waiting"}

LEMMA TypesApart == TypeOK <=> CacheTypes /\ AskedTypes /\ Counted
  BY DEF TypeOK, CacheTypes, AskedTypes, Counted

LEMMA Unpacked ==
  ASSUME IInv
  PROVE  /\ CacheTypes /\ AskedTypes /\ Counted
         /\ NumberingInv /\ InFlightInv /\ AliasInv
  BY TypesApart DEF IInv

(* The calls so far, and what they name. *)
LEMMA InRange ==
  ASSUME CacheTypes, NumberingInv
  PROVE  /\ 1 .. called \subseteq Call
         /\ \A k \in Key : entries[k] # NoEntry =>
              entries[k] \in 1 .. called /\ entries[k] \in Call /\ asked[entries[k]].key = k
         /\ \A e \in pending \cup aborted : e \in 1 .. called
         /\ NoEntry \notin Call
  <1>1. 1 .. called \subseteq Call /\ NoEntry \notin Call
    BY DEF CacheTypes, Call, NoEntry
  <1>2. ASSUME NEW k \in Key, entries[k] # NoEntry
        PROVE  entries[k] \in 1 .. called /\ asked[entries[k]].key = k
    BY <1>2 DEF CacheTypes, NumberingInv, NoEntry
  <1>3. ASSUME NEW e \in pending \cup aborted  PROVE e \in 1 .. called
    BY DEF CacheTypes, NumberingInv, Call
  <1> QED
    BY <1>1, <1>2, <1>3

(* What is current under a key is an entry created for it by an earlier call. *)
LEMMA CurrentFacts ==
  ASSUME CacheTypes, NumberingInv, NEW k \in Key
  PROVE  /\ Current(k) # NoEntry =>
              /\ Current(k) = entries[k] /\ entries[k] \in 1 .. called /\ entries[k] \in Call
              /\ asked[entries[k]].key = k
         /\ IsPending(k) => Current(k) # NoEntry
  <1>1. NoEntry \notin pending
    BY InRange DEF CacheTypes
  <1> QED
    BY <1>1, InRange DEF Current, IsPending

(* A call that joins nothing finds no fetch in flight under its key, except    *)
(* those that were cancelled.                                                  *)
LEMMA NothingInFlight ==
  ASSUME InFlightInv, NEW k, ~IsPending(k), NEW e \in pending \ aborted
  PROVE  asked[e].key # k
  BY DEF InFlightInv, IsPending

(* What a call of getOrFetch records. *)
Called(c, k, A) ==
  /\ c \in Call /\ c = called + 1 /\ called' = c
  /\ c \notin 1 .. called /\ 1 .. called' = (1 .. called) \cup {c}
  /\ asked' \in [Call -> [key : Key, aliases : SUBSET Alias] \cup {NoCall}]
  /\ asked'[c].key = k /\ asked'[c].aliases = A
  /\ \A d \in Call : d # c => asked'[d] = asked[d]
  /\ aliases' = Registers(k, A) /\ aliases' \in SUBSET (Key \X Alias)
  /\ UNCHANGED <<versions, aborted>>

LEMMA CallFacts ==
  ASSUME CacheTypes, AskedTypes, NEW k \in Key, NEW s, NEW A \in SUBSET Alias,
         NEW c, c = called + 1, GetOrFetch(c, k, s, A)
  PROVE  Called(c, k, A)
  <1>1. c \notin 1 .. called /\ 1 .. called' = (1 .. called) \cup {c}
    BY DEF CacheTypes, GetOrFetch
  <1>2. /\ asked' \in [Call -> [key : Key, aliases : SUBSET Alias] \cup {NoCall}]
        /\ asked'[c].key = k /\ asked'[c].aliases = A
        /\ \A d \in Call : d # c => asked'[d] = asked[d]
    BY DEF AskedTypes, GetOrFetch
  <1>3. aliases' = Registers(k, A) /\ aliases' \in SUBSET (Key \X Alias)
    BY DEF AskedTypes, GetOrFetch, Registers
  <1> QED
    BY <1>1, <1>2, <1>3 DEF Called, GetOrFetch

(* A caller that is given an entry of its own key, or its own, keeps the       *)
(* numbering and the aliases, whether it waits for it or not.                  *)
LEMMA GivenKeeps ==
  ASSUME IInv, NEW k \in Key, NEW A \in SUBSET Alias, NEW c, Called(c, k, A),
         NEW e \in Call, e = c \/ e = entries[k],
         servedBy' = [servedBy EXCEPT ![c] = e], entries' = [entries EXCEPT ![k] = e],
         pending' \subseteq pending \cup {c}
  PROVE  NumberingInv' /\ AliasInv'
  <1>0. CacheTypes /\ NumberingInv /\ AliasInv
    BY Unpacked
  <1>1. /\ 1 .. called \subseteq Call /\ c \in Call /\ c \notin 1 .. called
        /\ 1 .. called' = (1 .. called) \cup {c}
        /\ \A d \in 1 .. called : d # c /\ asked'[d] = asked[d] /\ servedBy'[d] = servedBy[d]
        /\ asked'[c].key = k /\ servedBy'[c] = e
        /\ \A l \in Key : entries'[l] = IF l = k THEN e ELSE entries[l]
    BY <1>0, InRange DEF Called, CacheTypes
  <1>2. e \in 1 .. called' /\ asked'[e].key = k
    BY <1>0, <1>1, InRange
  <1>3. \A d \in 1 .. called' : d \in Nat /\ d <= called'
    BY <1>0 DEF Called, CacheTypes, Call
  <1>4. NumberingInv'
    <2>1. \A d \in pending' \cup aborted' : d \in 1 .. called'
      BY <1>0, <1>1, InRange DEF Called
    <2>2. \A l \in Key : entries'[l] # NoEntry =>
            entries'[l] \in 1 .. called' /\ asked'[entries'[l]].key = l
      BY <1>0, <1>1, <1>2, InRange
    <2>3. \A d \in 1 .. called' :
            /\ asked'[d].key \in Key /\ servedBy'[d] \in 1 .. called'
            /\ asked'[servedBy'[d]].key = asked'[d].key
      BY <1>0, <1>1, <1>2 DEF NumberingInv
    <2> QED
      BY <1>3, <2>1, <2>2, <2>3 DEF NumberingInv
  <1>5. AliasInv'
    <2> SUFFICES ASSUME NEW d \in 1 .. called', entries'[asked'[d].key] = servedBy'[d],
                        NEW a \in asked'[d].aliases
                 PROVE  <<asked'[d].key, a>> \in aliases'
      BY DEF AliasInv
    <2>1. CASE d = c
      BY <2>1 DEF Called, Registers
    <2>2. CASE d # c
      <3>1. d \in 1 .. called /\ asked'[d] = asked[d] /\ servedBy'[d] = servedBy[d]
        BY <1>1, <2>2
      <3>2. servedBy[d] # c /\ asked[d].key \in Key
        BY <1>0, <1>1, <3>1 DEF NumberingInv
      <3>3. entries[asked[d].key] = servedBy[d]
        BY <1>1, <3>1, <3>2
      <3> QED
        BY <1>0, <3>1, <3>3 DEF AliasInv, Called, Registers
    <2> QED
      BY <2>1, <2>2
  <1> QED
    BY <1>4, <1>5

(* The caller that hits, joins or fetches is a consumer of what it was given   *)
(* just when it waits.                                                         *)
LEMMA ConsumersCounted ==
  ASSUME CacheTypes, Counted, NEW c \in Call, c = called + 1, called' = c, NEW e \in Call,
         servedBy' = [servedBy EXCEPT ![c] = e],
         \/ status' = [status EXCEPT ![c] = "settled"] /\ attached' = attached
         \/ status' = [status EXCEPT ![c] = "waiting"]
            /\ attached' = [attached EXCEPT ![e] = @ \cup {c}]
  PROVE  Counted' /\ servedBy' \in [Call -> 0 .. MaxCalls]
  <1>1. servedBy' \in [Call -> 0 .. MaxCalls]
    BY DEF CacheTypes, Call
  <1>2. /\ status' \in [Call -> {"idle", "waiting", "settled"}]
        /\ attached' \in [Call -> SUBSET Call]
    BY DEF Counted
  <1>3. status[c] = "idle"
    BY DEF CacheTypes, Counted
  <1>4. \A d \in Call : d > called' <=> status'[d] = "idle"
    <2> TAKE d \in Call
    <2>1. CASE d = c
      BY <2>1 DEF Counted, Call
    <2>2. CASE d # c
      BY <2>2 DEF CacheTypes, Counted, Call
    <2> QED
      BY <2>1, <2>2
  <1>5. ASSUME NEW f \in Call
        PROVE  attached'[f] = {d \in Call : servedBy'[d] = f /\ status'[d] = "waiting"}
    <2>1. attached[f] = {d \in Call : servedBy[d] = f /\ status[d] = "waiting"}
      BY DEF Counted
    <2>2. attached'[f] = IF status'[c] = "waiting" /\ f = e
                           THEN attached[f] \cup {c} ELSE attached[f]
      BY DEF Counted
    <2>3. \A d \in Call :
            (servedBy'[d] = f /\ status'[d] = "waiting") <=>
            IF d = c THEN f = e /\ status'[c] = "waiting"
                     ELSE servedBy[d] = f /\ status[d] = "waiting"
      BY DEF CacheTypes, Counted
    <2> QED
      BY <1>3, <2>1, <2>2, <2>3
  <1> QED
    BY <1>1, <1>2, <1>4, <1>5 DEF Counted

(* Data that is hit, a fetch that is joined and a fetch that is started.       *)
LEMMA GetIInv ==
  ASSUME IInv, NEW k \in Key, NEW s \in StaleTime, NEW A \in SUBSET Alias,
         NEW c, c = called + 1, GetOrFetch(c, k, s, A)
  PROVE  IInv'
  <1>0. CacheTypes /\ AskedTypes /\ Counted /\ NumberingInv /\ InFlightInv
    BY Unpacked
  <1>1. Called(c, k, A)
    BY <1>0, CallFacts
  <1>2. c \in Call /\ c = called + 1 /\ called' = c /\ c \notin pending \cup aborted
    BY <1>0, <1>1, InRange DEF Called
  <1>3. CASE Hit(c, k, s)
    <2>1. PICK e \in Call : e = entries[k]
      BY <1>0, <1>3, CurrentFacts DEF Hit
    <2>2. /\ entries' = [entries EXCEPT ![k] = e]
          /\ servedBy' = [servedBy EXCEPT ![c] = e]
          /\ status' = [status EXCEPT ![c] = "settled"]
          /\ UNCHANGED <<entries, age, version, pending, kept, attached>>
      BY <1>0, <1>3, <2>1 DEF Hit, CacheTypes
    <2>3. NumberingInv' /\ AliasInv'
      BY <1>1, <2>1, <2>2, GivenKeeps
    <2>4. TypeOK'
      <3>1. Counted' /\ servedBy' \in [Call -> 0 .. MaxCalls]
        BY <1>0, <1>2, <2>2, ConsumersCounted
      <3>2. CacheTypes'
        <4>1. UNCHANGED <<entries, age, versions, version, pending, kept, aborted>>
          BY <1>1, <2>2 DEF Called
        <4>2. called' \in 0 .. MaxCalls
          BY <1>2 DEF Call
        <4> QED
          BY <1>0, <3>1, <4>1, <4>2 DEF CacheTypes
      <3>3. AskedTypes'
        BY <1>1 DEF AskedTypes, Called
      <3> QED
        BY <3>1, <3>2, <3>3 DEF TypeOK, CacheTypes, AskedTypes, Counted
    <2>5. InFlightInv'
      <3> SUFFICES ASSUME NEW f \in pending', f \notin aborted'
                   PROVE  Current(asked[f].key)' = f /\ attached'[f] # {}
        BY DEF InFlightInv
      <3>1. f \in pending \ aborted /\ f \in Call /\ asked'[f] = asked[f]
        BY <1>0, <1>1, <1>2, <2>2 DEF Called, CacheTypes
      <3>2. Current(asked[f].key) = f /\ attached[f] # {}
        BY <1>0, <3>1 DEF InFlightInv
      <3>3. entries' = entries
        BY <2>2
      <3> QED
        BY <1>0, <1>1, <2>2, <3>1, <3>2, <3>3 DEF Current, Called, Counted
    <2> QED
      BY <2>3, <2>4, <2>5 DEF IInv
  <1>4. CASE Join(c, k, s)
    <2>1. PICK e \in Call : e = entries[k]
      BY <1>0, <1>4, CurrentFacts DEF Join
    <2>2. /\ entries' = [entries EXCEPT ![k] = e]
          /\ UNCHANGED <<entries, age, version, pending>>
          /\ attached' = [attached EXCEPT ![e] = @ \cup {c}]
          /\ servedBy' = [servedBy EXCEPT ![c] = e]
          /\ status' = [status EXCEPT ![c] = "waiting"]
          /\ kept' \in {kept, kept \cup {e}}
      BY <1>0, <1>4, <2>1 DEF Join, Attaches, CacheTypes
    <2>3. NumberingInv' /\ AliasInv'
      BY <1>1, <2>1, <2>2, GivenKeeps
    <2>4. TypeOK'
      <3>1. Counted' /\ servedBy' \in [Call -> 0 .. MaxCalls]
        BY <1>0, <1>2, <2>2, ConsumersCounted
      <3>2. CacheTypes'
        BY SMTT(30), <1>0, <1>1, <1>2, <2>1, <2>2, <3>1 DEF CacheTypes, Called, Call
      <3>3. AskedTypes'
        BY <1>1 DEF AskedTypes, Called
      <3> QED
        BY <3>1, <3>2, <3>3 DEF TypeOK, CacheTypes, AskedTypes, Counted
    <2>5. InFlightInv'
      <3> SUFFICES ASSUME NEW f \in pending', f \notin aborted'
                   PROVE  Current(asked[f].key)' = f /\ attached'[f] # {}
        BY DEF InFlightInv
      <3>1. f \in pending \ aborted /\ f \in Call /\ asked'[f] = asked[f]
        BY <1>0, <1>1, <1>2, <2>2 DEF Called, CacheTypes
      <3>2. Current(asked[f].key) = f /\ attached[f] # {}
        BY <1>0, <3>1 DEF InFlightInv
      <3>3. entries' = entries
        BY <2>2
      <3> QED
        BY <1>0, <1>1, <2>2, <3>1, <3>2, <3>3 DEF Current, Called, Counted
    <2> QED
      BY <2>3, <2>4, <2>5 DEF IInv
  <1>5. CASE Fetch(c, k, s)
    <2>1. /\ ~IsPending(k) /\ entries' = [entries EXCEPT ![k] = c]
          /\ age' = [age EXCEPT ![k] = NoData]
          /\ version' = [version EXCEPT ![c] = versions[k]]
          /\ pending' = pending \cup {c}
          /\ attached' = [attached EXCEPT ![c] = @ \cup {c}]
          /\ servedBy' = [servedBy EXCEPT ![c] = c]
          /\ status' = [status EXCEPT ![c] = "waiting"]
          /\ kept' \in {kept, kept \cup {c}}
      BY <1>5 DEF Fetch, Attaches
    <2>2. NumberingInv' /\ AliasInv'
      BY <1>1, <1>2, <2>1, GivenKeeps
    <2>3. TypeOK'
      <3>1. Counted' /\ servedBy' \in [Call -> 0 .. MaxCalls]
        BY <1>0, <1>2, <2>1, ConsumersCounted
      <3>2. CacheTypes' /\ AskedTypes'
        BY <1>0, <1>1, <1>2, <2>1, <3>1 DEF CacheTypes, AskedTypes, Called, Call, NoData
      <3> QED
        BY <3>1, <3>2 DEF TypeOK, CacheTypes, AskedTypes, Counted
    <2>4. InFlightInv'
      <3> SUFFICES ASSUME NEW e \in pending', e \notin aborted'
                   PROVE  Current(asked[e].key)' = e /\ attached'[e] # {}
        BY DEF InFlightInv
      <3>1. CASE e = c
        BY <1>0, <1>1, <1>2, <2>1, <3>1 DEF CacheTypes, Counted, Current, Called, Call, NoEntry
      <3>2. CASE e # c
        <4>1. e \in pending \ aborted /\ e \in Call /\ asked'[e] = asked[e] /\ asked[e].key # k
          BY <1>0, <1>1, <2>1, <3>2, NothingInFlight DEF Called, CacheTypes
        <4>2. Current(asked[e].key) = e /\ attached[e] # {}
          BY <1>0, <4>1 DEF InFlightInv
        <4>3. asked[e].key \in Key /\ entries[asked[e].key] = e
          BY <1>0, <4>1, <4>2, InRange DEF NumberingInv, Current
        <4> QED
          BY <1>0, <1>1, <2>1, <3>2, <4>1, <4>2, <4>3 DEF CacheTypes, Counted, Current, Called
      <3> QED
        BY <3>1, <3>2
    <2> QED
      BY <2>2, <2>3, <2>4 DEF IInv
  <1> QED
    BY <1>3, <1>4, <1>5 DEF GetOrFetch

-----------------------------------------------------------------------------
(* What dropping the entries under K leaves, whoever does it: each key in K    *)
(* has neither entry, data nor aliases, and the others have what they had.     *)
Evicted(K) ==
  /\ entries' \in [Key -> 0 .. MaxCalls] /\ age' \in [Key -> -1 .. MaxAge]
  /\ aliases' \in SUBSET (Key \X Alias)
  /\ \A k \in Key : k \in K => entries'[k] = NoEntry
  /\ \A k \in Key : k \notin K => entries'[k] = entries[k]
  /\ \A k \in Key : \A a : k \notin K /\ <<k, a>> \in aliases => <<k, a>> \in aliases'

LEMMA EvictFacts ==
  ASSUME CacheTypes, AskedTypes, NEW K, Evict(K)
  PROVE  Evicted(K)
  <1>1. entries' \in [Key -> 0 .. MaxCalls] /\ age' \in [Key -> -1 .. MaxAge]
    BY DEF CacheTypes, Evict, NoEntry, NoData
  <1>2. /\ aliases' \in SUBSET (Key \X Alias)
        /\ \A k \in Key : \A a : k \notin K /\ <<k, a>> \in aliases => <<k, a>> \in aliases'
    BY DEF AskedTypes, Evict, WithoutAliases
  <1>3. /\ \A k \in Key : k \in K => entries'[k] = NoEntry
        /\ \A k \in Key : k \notin K => entries'[k] = entries[k]
    BY DEF Evict
  <1> QED
    BY <1>1, <1>2, <1>3 DEF Evicted

(* Evicting keys, or none, disturbs neither the numbering nor the aliases.     *)
LEMMA EvictKeeps ==
  ASSUME CacheTypes, NumberingInv, AliasInv, NEW K, Evicted(K),
         UNCHANGED <<called, asked, servedBy>>,
         \A e \in pending' \cup aborted' : e \in 1 .. called
  PROVE  NumberingInv' /\ AliasInv'
  <1>1. NumberingInv'
    <2>1. \A d \in 1 .. called : d <= called
      OBVIOUS
    <2>2. ASSUME NEW k \in Key, entries'[k] # NoEntry
          PROVE  entries'[k] <= called' /\ asked'[entries'[k]].key = k
      BY <2>1, <2>2, InRange DEF Evicted
    <2> QED
      BY <2>1, <2>2 DEF NumberingInv
  <1>2. AliasInv'
    <2> SUFFICES ASSUME NEW c \in 1 .. called, entries'[asked[c].key] = servedBy[c],
                        NEW a \in asked[c].aliases
                 PROVE  <<asked[c].key, a>> \in aliases'
      BY DEF AliasInv
    <2>1. asked[c].key \in Key /\ servedBy[c] # NoEntry
      BY InRange DEF NumberingInv
    <2>2. asked[c].key \notin K /\ entries[asked[c].key] = servedBy[c]
      BY <2>1 DEF Evicted
    <2>3. <<asked[c].key, a>> \in aliases
      BY <2>2 DEF AliasInv
    <2> QED
      BY <2>1, <2>2, <2>3 DEF Evicted
  <1> QED
    BY <1>1, <1>2

(* A fetch that settles, its entry evicted or not: K holds no other key than   *)
(* its own, and that one only while the entry under it is the one that settles. *)
LEMMA SettledIInv ==
  ASSUME IInv, NEW e \in pending, NEW K, Evicted(K), Settles(e),
         \A k \in K : k = asked[e].key /\ Holds(e)
  PROVE  IInv'
  <1>0. CacheTypes /\ AskedTypes /\ Counted /\ NumberingInv /\ InFlightInv /\ AliasInv
    BY Unpacked
  <1>1. /\ pending' = pending \ {e}
        /\ UNCHANGED <<called, asked, servedBy, status, version, kept, aborted, attached>>
    BY DEF Settles, callers
  <1>2. /\ versions' \in [Key -> Nat]
        /\ \A k \in Key : versions'[k] = versions[k] \/ (k = asked[e].key /\ entries'[k] = NoEntry)
    BY <1>0 DEF Settles, CleanupVersion, CacheTypes
  <1>3. NumberingInv' /\ AliasInv'
    BY <1>0, <1>1, EvictKeeps, InRange
  <1>4. TypeOK'
    <2>1. CacheTypes'
      BY <1>0, <1>1, <1>2 DEF CacheTypes, Evicted
    <2>2. AskedTypes' /\ Counted'
      BY <1>0, <1>1 DEF AskedTypes, Counted, Evicted
    <2> QED
      BY <2>1, <2>2 DEF TypeOK, CacheTypes, AskedTypes, Counted
  <1>5. InFlightInv'
    <2> SUFFICES ASSUME NEW f \in pending', f \notin aborted'
                 PROVE  Current(asked[f].key)' = f /\ attached'[f] # {}
      BY DEF InFlightInv
    <2>1. f \in pending \ aborted /\ f # e /\ f \in Call /\ f # NoEntry
      BY <1>0, <1>1, InRange DEF CacheTypes
    <2>2. Current(asked[f].key) = f /\ attached[f] # {}
      BY <1>0, <2>1 DEF InFlightInv
    <2>3. /\ asked[f].key \in Key /\ entries[asked[f].key] = f
          /\ version[f] = versions[asked[f].key]
      BY <1>0, <2>1, <2>2, InRange DEF NumberingInv, Current
    <2>4. asked[f].key \notin K
      BY <2>1, <2>3 DEF Holds
    <2>5. entries'[asked[f].key] = f /\ versions'[asked[f].key] = versions[asked[f].key]
      BY <1>2, <2>1, <2>3, <2>4 DEF Evicted
    <2> QED
      BY <1>1, <2>1, <2>2, <2>3, <2>5 DEF Current
  <1> QED
    BY <1>3, <1>4, <1>5 DEF IInv

(* A fetch that resolves stores its data, or evicts its entry, or finds that    *)
(* nobody wants it.                                                             *)
LEMMA ResolvesIInv ==
  ASSUME IInv, NEW e \in Call, FetchResolves(e)  PROVE IInv'
  <1>0. CacheTypes /\ AskedTypes /\ e \in pending /\ Settles(e)
    BY Unpacked DEF FetchResolves
  <1>1. ASSUME UNCHANGED <<entries, aliases>>, age' \in [Key -> -1 .. MaxAge]  PROVE Evicted({})
    BY <1>0, <1>1 DEF CacheTypes, AskedTypes, Evicted
  <1>2. CASE Holds(e) /\ age' = [age EXCEPT ![asked[e].key] = 0] /\ UNCHANGED <<entries, aliases>>
    <2>1. age' \in [Key -> -1 .. MaxAge]
      <3>1. 0 \in -1 .. MaxAge
        OBVIOUS
      <3> QED
        BY <1>0, <1>2, <3>1 DEF CacheTypes
    <2> QED
      BY <1>0, <1>1, <1>2, <2>1, SettledIInv
  <1>3. CASE Holds(e) /\ Evict({asked[e].key})
    <2>1. Evicted({asked[e].key})
      BY <1>0, <1>3, EvictFacts
    <2> QED
      BY <1>0, <1>3, <2>1, SettledIInv
  <1>4. CASE UNCHANGED <<entries, age, aliases>>
    <2>1. age' \in [Key -> -1 .. MaxAge]
      BY <1>0, <1>4 DEF CacheTypes
    <2> QED
      BY <1>0, <1>1, <1>4, <2>1, SettledIInv
  <1> QED
    BY <1>2, <1>3, <1>4 DEF FetchResolves

(* A fetch that fails evicts its own entry.                                     *)
LEMMA RejectsIInv ==
  ASSUME IInv, NEW e \in Call, FetchRejects(e)  PROVE IInv'
  <1>0. CacheTypes /\ AskedTypes /\ e \in pending /\ Settles(e)
    BY Unpacked DEF FetchRejects
  <1>1. CASE Holds(e)
    <2>1. Evicted({asked[e].key})
      BY <1>0, <1>1, EvictFacts DEF FetchRejects
    <2> QED
      BY <1>0, <1>1, <2>1, SettledIInv
  <1>2. CASE ~Holds(e)
    <2>1. Evicted({})
      BY <1>0, <1>2 DEF FetchRejects, CacheTypes, AskedTypes, Evicted
    <2> QED
      BY <1>0, <2>1, SettledIInv
  <1> QED
    BY <1>1, <1>2

(* A consumer that leaves aborts the fetch it was the last to wait for.         *)
LEMMA ReleaseIInv ==
  ASSUME IInv, NEW c \in Call, Release(c)  PROVE IInv'
  <1>0. CacheTypes /\ AskedTypes /\ Counted /\ NumberingInv /\ InFlightInv /\ AliasInv
    BY Unpacked
  <1>1. c \in 1 .. called /\ status[c] = "waiting"
    BY <1>0 DEF Release, CacheTypes, Counted, Call
  <1>2. PICK e \in Call : e = servedBy[c]
    BY <1>0, <1>1, InRange DEF NumberingInv
  <1>3. /\ attached' = [attached EXCEPT ![e] = @ \ {c}]
        /\ aborted' = IF e \in pending /\ attached'[e] = {} THEN aborted \cup {e} ELSE aborted
        /\ status' = [status EXCEPT ![c] = "settled"]
        /\ UNCHANGED <<called, asked, servedBy, entries, age, versions, aliases, version,
                       pending, kept>>
    BY <1>2 DEF Release, AbortsUnwanted, cache
  <1>4. NumberingInv' /\ AliasInv'
    BY <1>0, <1>1, <1>2, <1>3 DEF NumberingInv, AliasInv
  <1>5. TypeOK'
    <2>1. CacheTypes' /\ AskedTypes'
      BY <1>0, <1>3 DEF CacheTypes, AskedTypes
    <2>2. /\ attached' \in [Call -> SUBSET Call]
          /\ status' \in [Call -> {"idle", "waiting", "settled"}]
          /\ \A d \in Call : d > called' <=> status'[d] = "idle"
      BY <1>0, <1>1, <1>3 DEF Counted
    <2>3. ASSUME NEW f \in Call
          PROVE  attached'[f] = {d \in Call : servedBy'[d] = f /\ status'[d] = "waiting"}
      <3>1. attached[f] = {d \in Call : servedBy[d] = f /\ status[d] = "waiting"}
        BY <1>0 DEF Counted
      <3>2. attached'[f] = IF f = e THEN attached[f] \ {c} ELSE attached[f]
        BY <1>0, <1>3 DEF Counted
      <3>3. \A d \in Call : status'[d] = IF d = c THEN "settled" ELSE status[d]
        BY <1>0, <1>3 DEF Counted
      <3> QED
        BY <1>2, <1>3, <3>1, <3>2, <3>3
    <2> QED
      BY <2>1, <2>2, <2>3 DEF TypeOK, CacheTypes, AskedTypes
  <1>6. InFlightInv'
    BY <1>0, <1>3 DEF InFlightInv, Current, CacheTypes, Counted
  <1> QED
    BY <1>4, <1>5, <1>6 DEF IInv

(* Dropping the entries under K cancels every fetch that was current there, and *)
(* only the versions of those keys may change with it.                          *)
LEMMA DropIInv ==
  ASSUME IInv, NEW K \in SUBSET Key, Drop(K), versions' \in [Key -> Nat],
         \A k \in Key : k \notin K => versions'[k] = versions[k]
  PROVE  IInv'
  <1>0. CacheTypes /\ AskedTypes /\ Counted /\ NumberingInv /\ InFlightInv /\ AliasInv
    BY Unpacked
  <1>1. /\ aborted' = aborted \cup (pending \cap {entries[k] : k \in K})
        /\ UNCHANGED <<called, asked, servedBy, status, version, pending, kept, attached>>
    BY DEF Drop, callers
  <1>2. Evicted(K)
    BY <1>0, EvictFacts DEF Drop
  <1>3. NumberingInv' /\ AliasInv'
    <2>1. \A e \in pending' \cup aborted' : e \in 1 .. called
      BY <1>0, <1>1, InRange
    <2> QED
      BY <1>0, <1>1, <1>2, <2>1, EvictKeeps
  <1>4. TypeOK'
    <2>1. CacheTypes'
      BY <1>0, <1>1, <1>2 DEF CacheTypes, Evicted
    <2>2. AskedTypes' /\ Counted'
      BY <1>0, <1>1, <1>2 DEF AskedTypes, Counted, Evicted
    <2> QED
      BY <2>1, <2>2 DEF TypeOK, CacheTypes, AskedTypes, Counted
  <1>5. InFlightInv'
    <2> SUFFICES ASSUME NEW f \in pending', f \notin aborted'
                 PROVE  Current(asked[f].key)' = f /\ attached'[f] # {}
      BY DEF InFlightInv
    <2>1. f \in pending \ aborted /\ f \in Call /\ f # NoEntry
      BY <1>0, <1>1, InRange DEF CacheTypes
    <2>2. Current(asked[f].key) = f /\ attached[f] # {}
      BY <1>0, <2>1 DEF InFlightInv
    <2>3. /\ asked[f].key \in Key /\ entries[asked[f].key] = f
          /\ version[f] = versions[asked[f].key]
      BY <1>0, <2>1, <2>2, InRange DEF NumberingInv, Current
    <2>4. asked[f].key \notin K
      BY <1>1, <2>1, <2>3
    <2> QED
      BY <1>1, <1>2, <2>1, <2>2, <2>3, <2>4 DEF Current, Evicted
  <1> QED
    BY <1>3, <1>4, <1>5 DEF IInv

LEMMA InvalidateIInv ==
  ASSUME IInv, NEW filter, Invalidate(filter)  PROVE IInv'
  <1>1. CacheTypes
    BY Unpacked
  <1>2. Matches(filter) \in SUBSET Key /\ Drop(Matches(filter))
    BY DEF Matches, Invalidate
  <1>3. versions' \in [Key -> Nat]
    BY <1>1 DEF Invalidate, CacheTypes
  <1>4. \A k \in Key : k \notin Matches(filter) => versions'[k] = versions[k]
    BY DEF Invalidate
  <1> QED
    BY <1>2, <1>3, <1>4, DropIInv

LEMMA ClearIInv ==
  ASSUME IInv, Clear  PROVE IInv'
  BY DropIInv DEF Clear

(* Time only ages data. *)
LEMMA TickIInv ==
  ASSUME IInv, Tick  PROVE IInv'
  <1>0. CacheTypes /\ AskedTypes /\ Counted /\ NumberingInv /\ InFlightInv /\ AliasInv
    BY Unpacked
  <1>1. UNCHANGED <<called, asked, servedBy, status, entries, versions, aliases, version,
                    pending, kept, aborted, attached>>
    BY DEF Tick, callers
  <1>2. age' \in [Key -> -1 .. MaxAge]
    BY <1>0 DEF Tick, CacheTypes
  <1>3. CacheTypes' /\ AskedTypes' /\ Counted'
    BY <1>0, <1>1, <1>2 DEF CacheTypes, AskedTypes, Counted
  <1>4. NumberingInv' /\ InFlightInv' /\ AliasInv'
    BY <1>0, <1>1 DEF NumberingInv, InFlightInv, AliasInv, Current
  <1> QED
    BY <1>3, <1>4 DEF IInv, TypeOK, CacheTypes, AskedTypes, Counted

-----------------------------------------------------------------------------
(* Every step of the cache preserves the invariant. *)
LEMMA NextIInv == IInv /\ [Next]_vars => IInv'
  <1> SUFFICES ASSUME IInv, [Next]_vars  PROVE IInv'
    OBVIOUS
  <1>1. CASE \E k \in Key, s \in StaleTime, A \in SUBSET Alias : GetOrFetch(called + 1, k, s, A)
    <2>1. PICK k \in Key, s \in StaleTime, A \in SUBSET Alias, c \in {called + 1} :
            GetOrFetch(c, k, s, A)
      BY <1>1
    <2> QED
      BY <2>1, GetIInv
  <1>2. CASE \E e \in Call : FetchResolves(e) \/ FetchRejects(e)
    BY <1>2, ResolvesIInv, RejectsIInv
  <1>3. CASE \E c \in Call : Delivered(c) \/ ConsumerAborts(c)
    BY <1>3, ReleaseIInv DEF Delivered, ConsumerAborts
  <1>4. CASE \E filter \in SUBSET (Key \cup Alias) : Invalidate(filter)
    BY <1>4, InvalidateIInv
  <1>5. CASE Clear
    BY <1>5, ClearIInv
  <1>6. CASE Tick
    BY <1>6, TickIInv
  <1>7. CASE UNCHANGED vars
    <2>1. UNCHANGED <<called, asked, servedBy, status, entries, age, versions, aliases,
                      version, pending, kept, aborted, attached>>
      BY <1>7 DEF vars, callers, cache
    <2> QED
      BY <2>1 DEF IInv, TypeOK, NumberingInv, InFlightInv, AliasInv, Current
  <1> QED
    BY <1>1, <1>2, <1>3, <1>4, <1>5, <1>6, <1>7 DEF Next

(* The types, the numbering, the fetches in flight and the aliases agree in     *)
(* every state the cache can reach.                                             *)
THEOREM Invariance == Spec => []IInv
  BY InitIInv, NextIInv, PTL DEF Spec

(* Every variable keeps its type, and an entry counts as consumers exactly the  *)
(* callers that wait for it.                                                    *)
THEOREM TypeCorrect == Spec => []TypeOK
  <1>1. IInv => TypeOK
    BY DEF IInv
  <1> QED
    BY <1>1, Invariance, PTL

(* A fetch that nobody has cancelled can be found and joined: late settlements  *)
(* and invalidations never hide it, however they interleave.                    *)
THEOREM FetchesAreShared == Spec => []FetchInFlightIsShared
  <1>1. IInv => FetchInFlightIsShared
    BY DEF IInv, InFlightInv, FetchInFlightIsShared
  <1> QED
    BY <1>1, Invariance, PTL

(* invalidateMany finds what is stored by the key and by every alias of every   *)
(* caller it was given to.                                                      *)
THEOREM AliasesSuffice == Spec => []AliasesReachTheirEntry
  <1>1. IInv => AliasesReachTheirEntry
    <2> SUFFICES ASSUME IInv, NEW c \in 1 .. called, entries[asked[c].key] = servedBy[c]
                 PROVE  /\ asked[c].key \in Matches({asked[c].key})
                        /\ \A a \in asked[c].aliases : asked[c].key \in Matches({a})
      BY DEF AliasesReachTheirEntry
    <2>1. asked[c].key \in Key /\ entries[asked[c].key] # NoEntry
      BY Unpacked, InRange DEF NumberingInv
    <2>2. \A a \in asked[c].aliases : <<asked[c].key, a>> \in aliases
      BY Unpacked DEF AliasInv
    <2> QED
      BY <2>1, <2>2 DEF Matches
  <1> QED
    BY <1>1, Invariance, PTL

(* What a step newly aborts has either lost its last consumer or its place in   *)
(* the cache.                                                                   *)
LEMMA AbortedForAReason ==
  ASSUME IInv, Next, NEW e \in pending, e \notin aborted, e \in aborted'
  PROVE  attached'[e] = {} \/ ~Holds(e)'
  <1>0. CacheTypes /\ AskedTypes /\ NumberingInv /\ e \in Call /\ e # NoEntry
    BY Unpacked, InRange DEF CacheTypes
  <1>1. ASSUME NEW c \in Call, Release(c)  PROVE attached'[e] = {}
    BY <1>1 DEF Release, AbortsUnwanted
  <1>2. ASSUME NEW K \in SUBSET Key, Drop(K)  PROVE ~Holds(e)'
    <2>1. PICK k \in K : entries[k] = e
      BY <1>2 DEF Drop
    <2>2. asked'[e].key = k
      BY <1>0, <1>2, <2>1, InRange DEF Drop, callers
    <2>3. entries'[k] = NoEntry
      BY <1>2 DEF Drop, Evict
    <2> QED
      BY <1>0, <2>2, <2>3 DEF Holds
  <1>3. ASSUME aborted' = aborted  PROVE FALSE
    BY <1>3
  <1>4. CASE \E k \in Key, s \in StaleTime, A \in SUBSET Alias : GetOrFetch(called + 1, k, s, A)
    BY <1>3, <1>4 DEF GetOrFetch
  <1>5. CASE \E f \in Call : FetchResolves(f) \/ FetchRejects(f)
    BY <1>3, <1>5 DEF FetchResolves, FetchRejects, Settles
  <1>6. CASE \E c \in Call : Delivered(c) \/ ConsumerAborts(c)
    BY <1>1, <1>6 DEF Delivered, ConsumerAborts
  <1>7. CASE \E filter \in SUBSET (Key \cup Alias) : Invalidate(filter)
    <2>1. \A filter : Matches(filter) \in SUBSET Key
      BY DEF Matches
    <2> QED
      BY <1>2, <1>7, <2>1 DEF Invalidate
  <1>8. CASE Clear
    BY <1>2, <1>8 DEF Clear
  <1>9. CASE Tick
    BY <1>3, <1>9 DEF Tick
  <1> QED
    BY <1>4, <1>5, <1>6, <1>7, <1>8, <1>9 DEF Next

(* A fetch in flight is cancelled when its last consumer leaves or it is taken  *)
(* out of the cache, in the same step, and never otherwise.                     *)
THEOREM CancelledInTime == Spec => CancelledWithTheLastConsumer
  <1>1. IInv /\ IInv' /\ [Next]_vars =>
          [\A e \in pending \cap pending' : e \notin aborted =>
             (e \in aborted' <=> attached'[e] = {} \/ ~Holds(e)')]_vars
    <2> SUFFICES ASSUME IInv, IInv', Next, NEW e \in pending, e \in pending', e \notin aborted
                 PROVE  e \in aborted' <=> attached'[e] = {} \/ ~Holds(e)'
      OBVIOUS
    <2>1. ASSUME e \notin aborted'  PROVE attached'[e] # {} /\ Holds(e)'
      <3>1. Current(asked[e].key)' = e /\ attached'[e] # {}
        BY <2>1 DEF IInv, InFlightInv
      <3>2. e # NoEntry
        BY Unpacked DEF CacheTypes, Call, NoEntry
      <3> QED
        BY <3>1, <3>2 DEF Current, Holds
    <2> QED
      BY <2>1, AbortedForAReason
  <1> QED
    BY <1>1, Invariance, PTL DEF Spec, CancelledWithTheLastConsumer

-----------------------------------------------------------------------------
(* A request of the protocol *)

USE RestAssumption

-----------------------------------------------------------------------------
(* The stack of attempts *)

LEMMA LatestTyped ==
  ASSUME attempts \in Seq(Attempt), attempts # <<>>
  PROVE  /\ Top \in Nat /\ Top # 0 /\ Latest \in Attempt
         /\ Latest.chain \in Seq(Plugin) /\ Latest.recovered \in BOOLEAN
  <1>1. Len(attempts) \in Nat /\ Len(attempts) # 0
    OBVIOUS
  <1>2. attempts[Len(attempts)] \in Attempt
    BY <1>1
  <1> QED
    BY <1>1, <1>2 DEF Top, Latest, Attempt

LEMMA GoesFacts ==
  ASSUME attempts \in Seq(Attempt), attempts # <<>>, NEW a \in Attempt, Goes(a)
  PROVE  /\ attempts' \in Seq(Attempt) /\ attempts' # <<>> /\ Top' = Top /\ Latest' = a
         /\ Stacked => Stacked'
  <1>1. PICK n \in Nat : n = Len(attempts) /\ n # 0
    BY LatestTyped DEF Top
  <1>2. attempts' = [attempts EXCEPT ![n] = a]
    BY <1>1 DEF Goes, Top
  <1>3. /\ attempts' \in Seq(Attempt) /\ Len(attempts') = n /\ attempts'[n] = a
        /\ \A i \in 1 .. n - 1 : attempts'[i] = attempts[i]
    BY <1>1, <1>2
  <1>4. Stacked => Stacked'
    BY <1>1, <1>3 DEF Stacked, Top
  <1> QED
    BY <1>1, <1>3, <1>4 DEF Top, Latest

(* The attempt that waited for the retry is the latest again. *)
Returns(stage) == attempts' = [Front(attempts) EXCEPT ![Top - 1].at = stage]

LEMMA FrontFacts ==
  ASSUME attempts \in Seq(Attempt), attempts # <<>>, Top # 1, Stacked,
         NEW stage \in {"answered", "refused"}, Returns(stage)
  PROVE  /\ attempts' \in Seq(Attempt) /\ attempts' # <<>> /\ Top' = Top - 1
         /\ Latest'.at = stage /\ Stacked'
  <1>0. Len(attempts) \in Nat /\ Len(attempts) # 0 /\ Len(attempts) # 1
    BY LatestTyped DEF Top
  <1>1. PICK n \in Nat : n = Len(attempts) - 1 /\ n # 0
    <2>1. PICK k \in Nat : k = Len(attempts) /\ k # 0 /\ k # 1
      BY <1>0
    <2>2. k - 1 \in Nat /\ k - 1 # 0
      BY <2>1
    <2> QED
      BY <2>1, <2>2
  <1>2. PICK f : f = Front(attempts)
    OBVIOUS
  <1>3. /\ f \in Seq(Attempt) /\ Len(f) = n /\ n \in 1 .. n /\ f[n] \in Attempt
        /\ \A i \in 1 .. n : f[i].at = "retrying"
    <2>1. f = SubSeq(attempts, 1, n)
      BY <1>1, <1>2 DEF Front
    <2>2. n \in 1 .. n /\ n \in 1 .. Len(attempts)
      BY <1>0, <1>1
    <2>3. f \in Seq(Attempt) /\ Len(f) = n /\ \A i \in 1 .. n : f[i] = attempts[i]
      BY <1>0, <1>1, <2>1, <2>2
    <2>4. \A i \in 1 .. n : f[i].at = "retrying"
      BY <1>1, <2>3 DEF Stacked, Top
    <2> QED
      BY <2>2, <2>3, <2>4
  <1>4. PICK a : a = [f[n] EXCEPT !.at = stage]
    OBVIOUS
  <1>5. a \in Attempt /\ a.at = stage
    BY <1>3, <1>4 DEF Attempt
  <1>6. attempts' = [f EXCEPT ![n] = a]
    BY <1>1, <1>2, <1>4 DEF Top, Returns
  <1>7. /\ attempts' \in Seq(Attempt) /\ Len(attempts') = n /\ attempts'[n] = a
        /\ \A i \in 1 .. n - 1 : attempts'[i] = f[i]
    BY <1>1, <1>3, <1>5, <1>6
  <1>8. Stacked'
    <2>1. \A i \in 1 .. n - 1 : attempts'[i].at = "retrying"
      BY <1>1, <1>3, <1>7
    <2> QED
      BY <1>7, <2>1 DEF Stacked, Top
  <1> QED
    BY <1>1, <1>5, <1>7, <1>8 DEF Top, Latest

-----------------------------------------------------------------------------
(* The plugins *)

LEMMA OrderFacts ==
  ASSUME PluginsInv
  PROVE  /\ InOrder \in Seq(Plugin) /\ ToSet(InOrder) = ToSet(globals) \cup ToSet(own)
         /\ ToSet(own) \subseteq Own /\ ToSet(globals) \subseteq Plugin
  <1>1. ToSet(own) \subseteq Own /\ ToSet(globals) \subseteq Plugin
    BY ElementsTyped DEF PluginsInv
  <1>2. own \in Seq(Plugin)
    BY DEF PluginsInv
  <1> QED
    BY <1>1, <1>2, ConcatFacts DEF PluginsInv, InOrder

LEMMA InReverseFacts ==
  ASSUME PluginsInv, attempts \in Seq(Attempt), attempts # <<>>,
         NEW stage \in {"response", "error"}
  PROVE  /\ InReverse(stage) \in Attempt /\ InReverse(stage).at = stage
         /\ ToSet(InReverse(stage).chain) = ToSet(InOrder)
  <1>1. PICK c : c = Reverse(InOrder)
    OBVIOUS
  <1>2. c \in Seq(Plugin) /\ ToSet(c) = ToSet(InOrder)
    BY <1>1, OrderFacts, ReverseFacts
  <1>3. Latest \in Attempt
    BY LatestTyped
  <1>4. InReverse(stage) = [Latest EXCEPT !.at = stage, !.chain = c]
    BY <1>1 DEF InReverse
  <1> QED
    BY <1>2, <1>3, <1>4 DEF Attempt

LEMMA TailOfChain ==
  ASSUME attempts \in Seq(Attempt), attempts # <<>>, Latest.chain # <<>>,
         NEW stage \in {"request", "response", "error"}
  PROVE  /\ [NextPlugin EXCEPT !.at = stage] \in Attempt
         /\ [NextPlugin EXCEPT !.at = stage].at = stage
         /\ Latest.at = stage => NextPlugin = [NextPlugin EXCEPT !.at = stage]
         /\ Head(Latest.chain) \in Plugin
         /\ ToSet(Latest.chain) = ToSet(NextPlugin.chain) \cup {Head(Latest.chain)}
  <1>1. Latest \in Attempt /\ Latest.chain \in Seq(Plugin)
    BY LatestTyped
  <1>2. PICK c : c = Tail(Latest.chain)
    OBVIOUS
  <1>3. /\ c \in Seq(Plugin) /\ Head(Latest.chain) \in Plugin
        /\ ToSet(Latest.chain) = ToSet(c) \cup {Head(Latest.chain)}
    BY <1>1, <1>2, TailFacts
  <1>4. NextPlugin = [Latest EXCEPT !.chain = c]
    BY <1>2 DEF NextPlugin
  <1> QED
    BY <1>1, <1>3, <1>4 DEF Attempt

LEMMA NextPluginFacts ==
  ASSUME attempts \in Seq(Attempt), attempts # <<>>, Latest.chain # <<>>,
         Latest.at \in {"request", "response", "error"}
  PROVE  /\ NextPlugin \in Attempt /\ NextPlugin.at = Latest.at
         /\ Head(Latest.chain) \in Plugin
         /\ ToSet(Latest.chain) = ToSet(NextPlugin.chain) \cup {Head(Latest.chain)}
  BY TailOfChain

-----------------------------------------------------------------------------
(* What a step of the request leaves behind: an attempt that goes on, or the    *)
(* end of the request.                                                          *)
GoesOn ==
  /\ attempts' \in Seq(Attempt) /\ attempts' # <<>> /\ Top' \in 1 .. MaxRetryDepth
  /\ Stacked' /\ outcome' = outcome
  /\ Latest'.at = "response" => stayed \subseteq ToSet(Latest'.chain) \cup passed'
  /\ cancelled' => Latest'.at = "refused"

Ends ==
  /\ attempts' = <<>> /\ outcome' \in {"data", "error", "cancelled"}
  /\ outcome' = "data" => stayed \subseteq passed'
  /\ cancelled' => outcome' = "cancelled"

LEMMA RestUnpacked ==
  ASSUME RestIInv
  PROVE  /\ RestTypeOK /\ PluginsInv /\ Stacked /\ StillOpen /\ YetToProcess
         /\ DataIsProcessed /\ CancellationPasses
         /\ attempts \in Seq(Attempt) /\ Top \in Nat /\ Top <= MaxRetryDepth
         /\ stayed \subseteq ToSet(InOrder)
  BY DEF RestIInv, RestTypeOK, Top

LEMMA StepKeeps ==
  ASSUME RestIInv, UNCHANGED <<registry, viaCache, signalled, stayed>>,
         GoesOn \/ Ends,
         attempts # <<>>, passed' \subseteq Plugin, cancelled' \in BOOLEAN
  PROVE  RestIInv'
  <1>1. UNCHANGED <<globals, own, ready, changes, viaCache, signalled, stayed>>
    BY DEF registry
  <1>2. RestTypeOK /\ PluginsInv /\ StillOpen
    BY RestUnpacked
  <1>3. PluginsInv' /\ InOrder' = InOrder
    BY <1>1, <1>2 DEF PluginsInv, InOrder
  <1>4. CASE GoesOn
    <2>1. RestTypeOK'
      BY <1>1, <1>2, <1>3, <1>4 DEF RestTypeOK, GoesOn, Top
    <2>2. StillOpen' /\ DataIsProcessed' /\ Stacked'
      BY <1>2, <1>4 DEF GoesOn, StillOpen, DataIsProcessed
    <2>3. YetToProcess' /\ CancellationPasses'
      BY <1>1, <1>4 DEF GoesOn, YetToProcess, CancellationPasses, At
    <2> QED
      BY <1>3, <2>1, <2>2, <2>3 DEF RestIInv
  <1>5. CASE Ends
    <2>1. Top' = 0 /\ attempts' \in Seq(Attempt)
      BY <1>5 DEF Ends, Top
    <2>2. RestTypeOK'
      BY <1>1, <1>2, <1>3, <1>5, <2>1 DEF RestTypeOK, Ends
    <2>3. StillOpen' /\ DataIsProcessed'
      BY <1>1, <1>5 DEF Ends, StillOpen, DataIsProcessed
    <2>4. YetToProcess' /\ CancellationPasses'
      BY <1>5 DEF Ends, YetToProcess, CancellationPasses, At
    <2>5. Stacked'
      BY <2>1 DEF Stacked
    <2> QED
      BY <1>3, <2>2, <2>3, <2>4, <2>5 DEF RestIInv
  <1> QED
    BY <1>4, <1>5

(* The ways an attempt has of going on and of settling. *)
LEMMA GoesLeads ==
  ASSUME RestIInv, attempts # <<>>, NEW a \in Attempt, Goes(a), outcome' = outcome,
         a.at = "response" => stayed \subseteq ToSet(a.chain) \cup passed',
         cancelled' => a.at = "refused"
  PROVE  GoesOn
  <1>1. /\ attempts' \in Seq(Attempt) /\ attempts' # <<>> /\ Top' = Top /\ Latest' = a
        /\ Stacked'
    BY RestUnpacked, GoesFacts
  <1>2. Top \in 1 .. MaxRetryDepth
    BY RestUnpacked, LatestTyped
  <1> QED
    BY <1>1, <1>2 DEF GoesOn

LEMMA ReturnsLeads ==
  ASSUME RestIInv, attempts # <<>>, Top # 1, outcome' = outcome,
         NEW stage \in {"answered", "refused"}, Returns(stage), cancelled' => stage = "refused"
  PROVE  GoesOn
  <1>1. /\ attempts' \in Seq(Attempt) /\ attempts' # <<>> /\ Top' = Top - 1
        /\ Latest'.at = stage /\ Stacked'
    BY RestUnpacked, FrontFacts
  <1>2. Top - 1 \in 1 .. MaxRetryDepth
    <2>1. PICK n \in Nat : n = Top /\ n # 0 /\ n # 1 /\ n <= MaxRetryDepth
      BY RestUnpacked, LatestTyped
    <2> QED
      BY <2>1
  <1> QED
    BY <1>1, <1>2 DEF GoesOn

LEMMA RejectsLeads ==
  ASSUME RestIInv, attempts # <<>>, NEW result \in {"error", "cancelled"}, Rejects(result),
         cancelled' => result = "cancelled"
  PROVE  GoesOn \/ Ends
  <1>1. CASE Top = 1
    <2>1. attempts' = <<>> /\ outcome' = IF outcome = "none" THEN result ELSE outcome
      BY <1>1 DEF Rejects, Consumer
    <2>2. outcome \in {"none", "cancelled"}
      BY RestUnpacked DEF StillOpen
    <2> QED
      BY <2>1, <2>2 DEF Ends
  <1>2. CASE Top # 1
    <2>1. Returns("refused") /\ outcome' = outcome
      BY <1>2 DEF Rejects, Returns
    <2> QED
      BY <1>2, <2>1, ReturnsLeads
  <1> QED
    BY <1>1, <1>2

LEMMA ResolvesLeads ==
  ASSUME RestIInv, attempts # <<>>, Resolves, stayed \subseteq passed', ~cancelled'
  PROVE  GoesOn \/ Ends
  <1>1. CASE Top = 1
    <2>1. attempts' = <<>> /\ outcome' = IF outcome = "none" THEN "data" ELSE outcome
      BY <1>1 DEF Resolves, Consumer
    <2>2. outcome \in {"none", "cancelled"}
      BY RestUnpacked DEF StillOpen
    <2> QED
      BY <2>1, <2>2 DEF Ends
  <1>2. CASE Top # 1
    <2>1. Returns("answered") /\ outcome' = outcome
      BY <1>2 DEF Resolves, Returns
    <2> QED
      BY <1>2, <2>1, ReturnsLeads
  <1> QED
    BY <1>1, <1>2

LEMMA ContinuesLeads ==
  ASSUME RestIInv, attempts # <<>>, NEW a \in Attempt, Continues(a), outcome' = outcome,
         a.at = "response" => stayed \subseteq ToSet(a.chain) \cup passed', ~cancelled'
  PROVE  GoesOn \/ Ends
  <1>1. CASE Abandoned
    <2>1. attempts' = <<>> /\ outcome # "none"
      BY <1>1 DEF Continues, Abandoned
    <2>2. outcome = "cancelled"
      BY <2>1, RestUnpacked DEF StillOpen
    <2> QED
      BY <2>1, <2>2 DEF Ends
  <1>2. CASE ~Abandoned
    BY <1>2, GoesLeads DEF Continues
  <1> QED
    BY <1>1, <1>2

LEMMA OffersLeads ==
  ASSUME RestIInv, attempts # <<>>, Offers, ~cancelled'
  PROVE  GoesOn
  <1>1. InReverse("error") \in Attempt /\ InReverse("error").at = "error"
    BY RestUnpacked, InReverseFacts
  <1> QED
    BY <1>1, GoesLeads DEF Offers

LEMMA ThrowsLeads ==
  ASSUME RestIInv, attempts # <<>>, NEW caught, Throws(caught)
  PROVE  (GoesOn \/ Ends) /\ cancelled' \in BOOLEAN /\ passed' = passed
  <1>1. CASE (IF caught THEN Offers ELSE Rejects("error")) /\ cancelled' = FALSE
    <2>1. CASE caught
      BY <1>1, <2>1, OffersLeads DEF Throws
    <2>2. CASE ~caught
      BY <1>1, <2>2, RejectsLeads DEF Throws
    <2> QED
      BY <2>1, <2>2
  <1>2. CASE Rejects("cancelled") /\ cancelled' = TRUE
    BY <1>2, RejectsLeads DEF Throws
  <1> QED
    BY <1>1, <1>2 DEF Throws, Cancels

LEMMA RespondsLeads ==
  ASSUME RestIInv, attempts # <<>>, Responds, ~cancelled'
  PROVE  (GoesOn \/ Ends) /\ passed' = {}
  <1>1. PICK a \in Attempt : a = InReverse("response")
    BY RestUnpacked, InReverseFacts
  <1>2. ToSet(a.chain) = ToSet(InOrder) /\ stayed \subseteq ToSet(InOrder)
    BY <1>1, RestUnpacked, InReverseFacts
  <1> QED
    BY <1>1, <1>2, ContinuesLeads DEF Responds

LEMMA RecoversLeads ==
  ASSUME RestIInv, attempts # <<>>, Recovers, ~cancelled'
  PROVE  (GoesOn \/ Ends) /\ passed' = {}
  <1>1. PICK b \in Attempt : b = InReverse("response")
    BY RestUnpacked, InReverseFacts
  <1>2. ToSet(b.chain) = ToSet(InOrder) /\ stayed \subseteq ToSet(InOrder)
    BY <1>1, RestUnpacked, InReverseFacts
  <1>3. PICK a : a = [b EXCEPT !.recovered = TRUE]
    OBVIOUS
  <1>4. a \in Attempt /\ a.chain = b.chain
    BY <1>3 DEF Attempt
  <1>5. Continues(a) /\ outcome' = outcome /\ passed' = {}
    BY <1>1, <1>3 DEF Recovers
  <1> QED
    BY <1>2, <1>4, <1>5, ContinuesLeads

LEMMA AtFacts ==
  ASSUME RestIInv, NEW stage, At(stage)
  PROVE  /\ attempts # <<>> /\ Latest.at = stage /\ outcome \in {"none", "cancelled"}
         /\ stage # "refused" => ~cancelled
         /\ cancelled \in BOOLEAN /\ passed \subseteq Plugin
  BY RestUnpacked DEF At, StillOpen, CancellationPasses, RestTypeOK

-----------------------------------------------------------------------------
(* The steps *)

LEMMA RequestHookIInv == ASSUME RestIInv, RequestHook PROVE RestIInv'
  <1>1. /\ At("request") /\ Latest.chain # <<>>
        /\ UNCHANGED <<registry, viaCache, signalled, stayed>>
    BY DEF RequestHook
  <1>2. /\ attempts # <<>> /\ Latest.at = "request" /\ ~cancelled
        /\ passed \subseteq Plugin /\ cancelled \in BOOLEAN
    BY <1>1, AtFacts
  <1>3. CASE Goes(NextPlugin) /\ UNCHANGED <<outcome, passed, cancelled>>
    <2>1. NextPlugin \in Attempt /\ NextPlugin.at = "request"
      BY <1>1, <1>2, RestUnpacked, NextPluginFacts
    <2>2. GoesOn
      BY <1>2, <1>3, <2>1, GoesLeads
    <2> QED
      BY <1>1, <1>2, <1>3, <2>2, StepKeeps
  <1>4. CASE Responds /\ UNCHANGED cancelled
    BY <1>1, <1>2, <1>4, RespondsLeads, StepKeeps
  <1>5. CASE Throws(Caught)
    BY <1>1, <1>2, <1>5, ThrowsLeads, StepKeeps
  <1> QED
    BY <1>3, <1>4, <1>5 DEF RequestHook

LEMMA SendsIInv == ASSUME RestIInv, Sends PROVE RestIInv'
  <1>1. /\ At("request")
        /\ UNCHANGED <<registry, passed, cancelled, viaCache, signalled, stayed>>
    BY DEF Sends
  <1>2. /\ attempts # <<>> /\ Latest.at = "request" /\ ~cancelled /\ ~cancelled'
        /\ passed' \subseteq Plugin /\ cancelled \in BOOLEAN
    BY <1>1, AtFacts
  <1>3. CASE ready \/ Abandoned
    <2>1. PICK a : a = [Latest EXCEPT !.at = "transport"]
      OBVIOUS
    <2>2. a \in Attempt /\ a.at = "transport"
      BY <1>2, <2>1, RestUnpacked, LatestTyped DEF Attempt
    <2>3. Continues(a) /\ outcome' = outcome
      BY <1>3, <2>1 DEF Sends
    <2>4. GoesOn \/ Ends
      BY <1>2, <2>2, <2>3, ContinuesLeads
    <2> QED
      BY <1>1, <1>2, <2>4, StepKeeps
  <1>4. CASE ~(ready \/ Abandoned)
    <2>1. Offers
      BY <1>4 DEF Sends
    <2> QED
      BY <1>1, <1>2, <2>1, OffersLeads, StepKeeps
  <1> QED
    BY <1>3, <1>4

(* Nothing of the request sees the cancellation before its consumer or a hook    *)
(* that retried.                                                                *)
LEMMA TransportIInv == ASSUME RestIInv, Transport PROVE RestIInv'
  <1>1. At("transport") /\ UNCHANGED <<registry, viaCache, signalled, stayed>>
    BY DEF Transport
  <1>2. /\ attempts # <<>> /\ Latest.at = "transport" /\ ~cancelled
        /\ passed \subseteq Plugin /\ cancelled \in BOOLEAN
    BY <1>1, AtFacts
  <1>3. CASE signalled
    <2>1. Rejects("cancelled") /\ cancelled' = TRUE /\ passed' = passed
      BY <1>3 DEF Transport, Cancels
    <2>2. GoesOn \/ Ends
      BY <1>2, <2>1, RejectsLeads
    <2> QED
      BY <1>1, <1>2, <2>1, <2>2, StepKeeps
  <1>4. CASE ~signalled
    <2>1. (Responds \/ (Offers /\ UNCHANGED passed)) /\ cancelled' = cancelled
      BY <1>4 DEF Transport
    <2>2. CASE Responds
      BY <1>1, <1>2, <2>1, <2>2, RespondsLeads, StepKeeps
    <2>3. CASE Offers /\ UNCHANGED passed
      BY <1>1, <1>2, <2>1, <2>3, OffersLeads, StepKeeps
    <2> QED
      BY <2>1, <2>2, <2>3
  <1> QED
    BY <1>3, <1>4

(* The hook that runs is taken off the chain and counted among those passed.     *)
LEMMA ResponseHookIInv == ASSUME RestIInv, ResponseHook PROVE RestIInv'
  <1>1. /\ At("response") /\ Latest.chain # <<>>
        /\ UNCHANGED <<registry, viaCache, signalled, stayed>>
    BY DEF ResponseHook
  <1>2. /\ attempts # <<>> /\ Latest.at = "response" /\ ~cancelled
        /\ passed \subseteq Plugin /\ cancelled \in BOOLEAN
    BY <1>1, AtFacts
  <1>3. CASE /\ Goes(NextPlugin) /\ UNCHANGED <<outcome, cancelled>>
             /\ passed' = passed \cup {Head(Latest.chain)}
    <2>1. /\ NextPlugin \in Attempt /\ NextPlugin.at = "response" /\ Head(Latest.chain) \in Plugin
          /\ ToSet(Latest.chain) = ToSet(NextPlugin.chain) \cup {Head(Latest.chain)}
      BY <1>1, <1>2, RestUnpacked, NextPluginFacts
    <2>2. stayed \subseteq ToSet(Latest.chain) \cup passed
      BY <1>1, RestUnpacked DEF YetToProcess
    <2>3. stayed \subseteq ToSet(NextPlugin.chain) \cup passed'
      BY <1>3, <2>1, <2>2
    <2>4. GoesOn
      BY <1>2, <1>3, <2>1, <2>3, GoesLeads
    <2> QED
      BY <1>1, <1>2, <1>3, <2>1, <2>4, StepKeeps
  <1>4. CASE Throws(Caught)
    BY <1>1, <1>2, <1>4, ThrowsLeads, StepKeeps
  <1> QED
    BY <1>3, <1>4 DEF ResponseHook

LEMMA DeliversIInv == ASSUME RestIInv, Delivers PROVE RestIInv'
  <1>1. /\ At("response") /\ Latest.chain = <<>> /\ Resolves
        /\ UNCHANGED <<registry, passed, cancelled, viaCache, signalled, stayed>>
    BY DEF Delivers
  <1>2. /\ attempts # <<>> /\ ~cancelled /\ ~cancelled' /\ passed' \subseteq Plugin /\ cancelled \in BOOLEAN
    BY <1>1, AtFacts
  <1>3. stayed \subseteq passed'
    <2>1. stayed \subseteq ToSet(Latest.chain) \cup passed
      BY <1>1, RestUnpacked DEF YetToProcess
    <2>2. ToSet(Latest.chain) = {}
      BY <1>1 DEF ToSet
    <2> QED
      BY <1>1, <2>1, <2>2
  <1> QED
    BY <1>1, <1>2, <1>3, ResolvesLeads, StepKeeps

(* A retry is one attempt more, below the limit. *)
LEMMA RetriesLeads ==
  ASSUME RestIInv, attempts # <<>>, Latest.chain # <<>>, Retries, ~cancelled'
  PROVE  GoesOn
  <1>0. outcome' = outcome
    BY DEF Retries
  <1>1. CASE ready /\ Top < MaxRetryDepth
    <2>1. PICK n \in Nat : n = Len(attempts) /\ n # 0 /\ n < MaxRetryDepth
      BY <1>1, RestUnpacked, LatestTyped DEF Top
    <2>2. attempts[n] \in Attempt /\ attempts[n].chain # <<>>
      BY <2>1, RestUnpacked, LatestTyped DEF Latest, Top
    <2>3. PICK a : a = [attempts[n] EXCEPT !.at = "retrying"]
      OBVIOUS
    <2>4. a \in Attempt /\ a.at = "retrying"
      BY <2>2, <2>3 DEF Attempt
    <2>5. PICK t : t = [attempts EXCEPT ![n] = a]
      OBVIOUS
    <2>6. /\ t \in Seq(Attempt) /\ Len(t) = n /\ t[n] = a
          /\ \A i \in 1 .. n - 1 : t[i] = attempts[i]
      BY <2>1, <2>4, <2>5, RestUnpacked
    <2>7. NewAttempt \in Attempt /\ NewAttempt.at = "request"
      BY RestUnpacked, OrderFacts DEF NewAttempt, Attempt
    <2>8. attempts' = Append(t, NewAttempt)
      BY <1>1, <2>1, <2>3, <2>5 DEF Retries, Top
    <2>9. /\ attempts' \in Seq(Attempt) /\ Len(attempts') = n + 1
          /\ attempts'[n + 1] = NewAttempt /\ \A i \in 1 .. n : attempts'[i] = t[i]
      BY <2>1, <2>6, <2>7, <2>8
    <2>10. Top' \in 1 .. MaxRetryDepth /\ Latest' = NewAttempt /\ attempts' # <<>>
      BY <2>1, <2>9 DEF Top, Latest
    <2>11. Stacked'
      <3>1. ASSUME NEW i \in 1 .. n  PROVE t[i].at = "retrying"
        <4>1. CASE i = n
          BY <2>4, <2>6, <4>1
        <4>2. CASE i # n
          <5>1. i \in 1 .. n - 1
            BY <2>1, <4>2
          <5>2. attempts[i].at = "retrying"
            BY <2>1, <5>1, RestUnpacked DEF Stacked, Top
          <5> QED
            BY <2>6, <5>1, <5>2
        <4> QED
          BY <4>1, <4>2
      <3>2. \A i \in 1 .. n : attempts'[i].at = "retrying"
        BY <2>9, <3>1
      <3>3. Top' - 1 = n
        BY <2>1, <2>9 DEF Top
      <3> QED
        BY <3>2, <3>3 DEF Stacked
    <2> QED
      BY <1>0, <2>7, <2>9, <2>10, <2>11 DEF GoesOn
  <1>2. CASE ~(ready /\ Top < MaxRetryDepth)
    <2>1. PICK a : a = [Latest EXCEPT !.at = "refused"]
      OBVIOUS
    <2>2. a \in Attempt /\ a.at = "refused"
      BY <2>1, RestUnpacked, LatestTyped DEF Attempt
    <2>3. Goes(a)
      BY <1>2, <2>1 DEF Retries
    <2> QED
      BY <1>0, <2>2, <2>3, GoesLeads
  <1> QED
    BY <1>1, <1>2

LEMMA ErrorHookIInv == ASSUME RestIInv, ErrorHook PROVE RestIInv'
  <1>1. /\ At("error") /\ Latest.chain # <<>>
        /\ UNCHANGED <<registry, viaCache, signalled, stayed>>
    BY DEF ErrorHook
  <1>2. /\ attempts # <<>> /\ Latest.at = "error" /\ ~cancelled
        /\ passed \subseteq Plugin /\ cancelled \in BOOLEAN
    BY <1>1, AtFacts
  <1>3. CASE Goes(NextPlugin) /\ UNCHANGED <<outcome, passed, cancelled>>
    <2>1. NextPlugin \in Attempt /\ NextPlugin.at = "error"
      BY <1>1, <1>2, RestUnpacked, NextPluginFacts
    <2>2. GoesOn
      BY <1>2, <1>3, <2>1, GoesLeads
    <2> QED
      BY <1>1, <1>2, <1>3, <2>2, StepKeeps
  <1>4. CASE Throws(FALSE)
    BY <1>1, <1>2, <1>4, ThrowsLeads, StepKeeps
  <1>5. CASE Recovers /\ UNCHANGED cancelled
    BY <1>1, <1>2, <1>5, RecoversLeads, StepKeeps
  <1>6. CASE Retries /\ UNCHANGED <<passed, cancelled>>
    BY <1>1, <1>2, <1>6, RetriesLeads, StepKeeps
  <1> QED
    BY <1>3, <1>4, <1>5, <1>6 DEF ErrorHook

(* The hook that retried is still the first of its chain, and takes it up again. *)
LEMMA HookReturnsError ==
  ASSUME RestIInv, attempts # <<>>, Latest.at \in {"answered", "refused"},
         Goes([NextPlugin EXCEPT !.at = "error"]), outcome' = outcome, ~cancelled'
  PROVE  GoesOn
  <1>1. Latest.chain # <<>>
    BY RestUnpacked, LatestTyped DEF Attempt
  <1>2. PICK a \in Attempt : a = [NextPlugin EXCEPT !.at = "error"] /\ a.at = "error"
    BY <1>1, RestUnpacked, TailOfChain
  <1>3. Goes(a)
    BY <1>2
  <1> QED
    BY <1>2, <1>3, GoesLeads

LEMMA RetryAnsweredIInv == ASSUME RestIInv, RetryAnswered PROVE RestIInv'
  <1>1. At("answered") /\ UNCHANGED <<registry, viaCache, signalled, stayed>>
    BY DEF RetryAnswered
  <1>2. /\ attempts # <<>> /\ Latest.at = "answered" /\ ~cancelled
        /\ passed \subseteq Plugin /\ cancelled \in BOOLEAN
    BY <1>1, AtFacts
  <1>3. CASE Recovers /\ UNCHANGED cancelled
    BY <1>1, <1>2, <1>3, RecoversLeads, StepKeeps
  <1>4. CASE Goes([NextPlugin EXCEPT !.at = "error"]) /\ UNCHANGED <<outcome, passed, cancelled>>
    BY <1>1, <1>2, <1>4, HookReturnsError, StepKeeps
  <1>5. CASE Throws(FALSE)
    BY <1>1, <1>2, <1>5, ThrowsLeads, StepKeeps
  <1> QED
    BY <1>3, <1>4, <1>5 DEF RetryAnswered

(* Only the hook whose retry was cancelled can catch the cancellation. *)
LEMMA RetryRefusedIInv == ASSUME RestIInv, RetryRefused PROVE RestIInv'
  <1>1. At("refused") /\ UNCHANGED <<registry, viaCache, signalled, stayed>>
    BY DEF RetryRefused
  <1>2. /\ attempts # <<>> /\ Latest.at = "refused"
        /\ passed \subseteq Plugin /\ cancelled \in BOOLEAN
    BY <1>1, AtFacts
  <1>3. CASE /\ Rejects(IF cancelled THEN "cancelled" ELSE "error")
             /\ UNCHANGED <<passed, cancelled>>
    <2>1. PICK result \in {"error", "cancelled"} :
            result = (IF cancelled THEN "cancelled" ELSE "error")
      OBVIOUS
    <2>2. Rejects(result) /\ (cancelled' => result = "cancelled")
      BY <1>3, <2>1
    <2>3. GoesOn \/ Ends
      BY <1>2, <2>2, RejectsLeads
    <2> QED
      BY <1>1, <1>2, <1>3, <2>3, StepKeeps
  <1>4. CASE /\ Goes([NextPlugin EXCEPT !.at = "error"]) /\ cancelled' = FALSE
             /\ UNCHANGED <<outcome, passed>>
    BY <1>1, <1>2, <1>4, HookReturnsError, StepKeeps
  <1>5. CASE Recovers /\ cancelled' = FALSE
    BY <1>1, <1>2, <1>5, RecoversLeads, StepKeeps
  <1>6. CASE Throws(FALSE)
    BY <1>1, <1>2, <1>6, ThrowsLeads, StepKeeps
  <1> QED
    BY <1>3, <1>4, <1>5, <1>6 DEF RetryRefused

LEMMA GivesUpIInv == ASSUME RestIInv, GivesUp PROVE RestIInv'
  <1>1. /\ At("error") /\ Rejects("error")
        /\ UNCHANGED <<registry, passed, cancelled, viaCache, signalled, stayed>>
    BY DEF GivesUp
  <1>2. /\ attempts # <<>> /\ ~cancelled /\ ~cancelled'
        /\ passed \subseteq Plugin /\ cancelled \in BOOLEAN
    BY <1>1, AtFacts
  <1> QED
    BY <1>1, <1>2, RejectsLeads, StepKeeps

-----------------------------------------------------------------------------
(* The consumer and the registry of plugins *)

LEMMA RequestIInv ==
  ASSUME RestIInv, NEW byCache \in BOOLEAN, Request(byCache)
  PROVE  RestIInv'
  <1>1. /\ attempts = <<>> /\ outcome = "none" /\ attempts' = <<NewAttempt>>
        /\ viaCache' = byCache /\ stayed' = ToSet(InOrder)
        /\ UNCHANGED <<globals, own, ready, changes, outcome, passed, cancelled, signalled>>
    BY DEF Request, registry
  <1>2. RestTypeOK /\ PluginsInv /\ ~cancelled /\ cancelled \in BOOLEAN
    <2>1. CancellationPasses /\ RestTypeOK /\ PluginsInv
      BY RestUnpacked
    <2>2. ~At("refused") /\ outcome # "cancelled"
      BY <1>1 DEF At
    <2> QED
      BY <2>1, <2>2 DEF CancellationPasses, RestTypeOK
  <1>3. PluginsInv' /\ InOrder' = InOrder
    BY <1>1, <1>2 DEF PluginsInv, InOrder
  <1>4. NewAttempt \in Attempt /\ NewAttempt.at = "request"
    BY <1>2, OrderFacts DEF NewAttempt, Attempt
  <1>5. /\ attempts' \in Seq(Attempt) /\ attempts' # <<>> /\ Len(attempts') = 1
        /\ attempts'[1] = NewAttempt
    BY <1>1, <1>4
  <1>6. Top' = 1 /\ Latest' = NewAttempt
    BY <1>5 DEF Top, Latest
  <1>7. RestTypeOK'
    BY <1>1, <1>2, <1>3, <1>5, <1>6 DEF RestTypeOK
  <1>8. Stacked' /\ StillOpen' /\ DataIsProcessed'
    BY <1>1, <1>6 DEF Stacked, StillOpen, DataIsProcessed
  <1>9. YetToProcess' /\ CancellationPasses'
    BY <1>1, <1>2, <1>4, <1>6 DEF YetToProcess, CancellationPasses, At
  <1> QED
    BY <1>3, <1>7, <1>8, <1>9 DEF RestIInv

(* The cache answers the consumer at once; what goes on behind it is not         *)
(* delivered any more.                                                          *)
LEMMA AbortsIInv == ASSUME RestIInv, Aborts PROVE RestIInv'
  <1>1. /\ attempts # <<>> /\ signalled' = TRUE
        /\ UNCHANGED <<globals, own, ready, changes, attempts, passed, cancelled, viaCache, stayed>>
        /\ outcome' \in {outcome, IF outcome = "none" THEN "cancelled" ELSE outcome}
    BY DEF Aborts, registry, Consumer
  <1>2. /\ RestTypeOK /\ PluginsInv /\ Stacked /\ StillOpen /\ YetToProcess
        /\ CancellationPasses /\ outcome \in {"none", "cancelled"}
    BY <1>1, RestUnpacked DEF StillOpen
  <1>3. outcome' \in {"none", "cancelled"}
    BY <1>1, <1>2
  <1>4. PluginsInv' /\ InOrder' = InOrder /\ Top' = Top /\ Latest' = Latest
    BY <1>1, <1>2 DEF PluginsInv, InOrder, Top, Latest
  <1>5. RestTypeOK'
    BY <1>1, <1>2, <1>3, <1>4 DEF RestTypeOK
  <1>6. Stacked' /\ StillOpen' /\ DataIsProcessed'
    BY <1>1, <1>2, <1>3, <1>4 DEF Stacked, StillOpen, DataIsProcessed
  <1>7. YetToProcess' /\ CancellationPasses'
    BY <1>1, <1>2, <1>4 DEF YetToProcess, CancellationPasses, At
  <1> QED
    BY <1>4, <1>5, <1>6, <1>7 DEF RestIInv

(* Plugins come and go, and nobody joins those there all along.                  *)
LEMMA ChangeKeeps ==
  ASSUME RestIInv, PluginsInv', changes' \in 0 .. MaxChanges, ready' \in BOOLEAN,
         stayed' \subseteq stayed, stayed' \subseteq ToSet(globals') \cup ToSet(own'),
         UNCHANGED <<progress, viaCache, signalled>>
  PROVE  RestIInv'
  <1>1. UNCHANGED <<attempts, outcome, passed, cancelled, viaCache, signalled>>
    BY DEF progress
  <1>2. /\ RestTypeOK /\ Stacked /\ StillOpen /\ YetToProcess /\ DataIsProcessed
        /\ CancellationPasses
    BY RestUnpacked
  <1>3. ToSet(InOrder') = ToSet(globals') \cup ToSet(own') /\ ToSet(InOrder') \subseteq Plugin
    <2>1. ToSet(own') \subseteq Own /\ ToSet(globals') \subseteq Plugin
      BY ElementsTyped DEF PluginsInv
    <2>2. own' \in Seq(Plugin) /\ globals' \in Seq(Plugin)
      BY DEF PluginsInv
    <2> QED
      BY <2>1, <2>2, ConcatFacts DEF InOrder
  <1>4. Top' = Top /\ Latest' = Latest
    BY <1>1 DEF Top, Latest
  <1>5. RestTypeOK'
    BY <1>1, <1>2, <1>3, <1>4 DEF RestTypeOK
  <1>6. Stacked' /\ StillOpen' /\ DataIsProcessed'
    BY <1>1, <1>2, <1>4 DEF Stacked, StillOpen, DataIsProcessed
  <1>7. YetToProcess' /\ CancellationPasses'
    BY <1>1, <1>2, <1>4 DEF YetToProcess, CancellationPasses, At
  <1> QED
    BY <1>5, <1>6, <1>7 DEF RestIInv

LEMMA ChangesTyped ==
  ASSUME RestIInv, changes < MaxChanges
  PROVE  /\ changes + 1 \in 0 .. MaxChanges /\ ready \in BOOLEAN /\ PluginsInv
         /\ stayed \subseteq ToSet(globals) \cup ToSet(own)
         /\ ToSet(InOrder) = ToSet(globals) \cup ToSet(own) /\ ToSet(own) \subseteq Own
  BY RestUnpacked, OrderFacts DEF RestTypeOK

LEMMA AddsIInv == ASSUME RestIInv, NEW p \in Plugin, Adds(p) PROVE RestIInv'
  <1>1. /\ changes < MaxChanges /\ p \notin ToSet(InOrder) /\ changes' = changes + 1
        /\ UNCHANGED <<ready, progress, viaCache, signalled, stayed>>
        /\ IF p \in Own THEN own' = Append(own, p) /\ UNCHANGED globals
                        ELSE globals' = Append(globals, p) /\ UNCHANGED own
    BY DEF Adds
  <1>2. /\ changes + 1 \in 0 .. MaxChanges /\ ready \in BOOLEAN /\ PluginsInv
        /\ stayed \subseteq ToSet(globals) \cup ToSet(own)
        /\ p \notin ToSet(globals) /\ p \notin ToSet(own)
    BY <1>1, ChangesTyped
  <1>3. CASE p \in Own
    <2>1. /\ own' \in Seq(Own) /\ IsInjective(own') /\ ToSet(own') = ToSet(own) \cup {p}
          /\ globals' = globals
      <3>1. own' = Append(own, p) /\ globals' = globals
        BY <1>1, <1>3
      <3>2. own \in Seq(Own) /\ IsInjective(own)
        BY <1>2 DEF PluginsInv
      <3> QED
        BY <1>2, <1>3, <3>1, <3>2, AppendFacts
    <2> QED
      BY <1>1, <1>2, <2>1, ChangeKeeps DEF PluginsInv
  <1>4. CASE p \notin Own
    <2>1. /\ globals' \in Seq(Plugin) /\ IsInjective(globals')
          /\ ToSet(globals') = ToSet(globals) \cup {p} /\ own' = own
      <3>1. globals' = Append(globals, p) /\ own' = own
        BY <1>1, <1>4
      <3>2. globals \in Seq(Plugin) /\ IsInjective(globals)
        BY <1>2 DEF PluginsInv
      <3> QED
        BY <1>2, <3>1, <3>2, AppendFacts
    <2> QED
      BY <1>1, <1>2, <2>1, ChangeKeeps DEF PluginsInv
  <1> QED
    BY <1>3, <1>4

LEMMA RemovesIInv == ASSUME RestIInv, NEW p \in Plugin, Removes(p) PROVE RestIInv'
  <1>1. /\ changes < MaxChanges /\ changes' = changes + 1 /\ stayed' = stayed \ {p}
        /\ globals' = RemoveFirst(globals, p) /\ own' = RemoveFirst(own, p)
        /\ UNCHANGED <<ready, progress, viaCache, signalled>>
    BY DEF Removes
  <1>2. /\ changes + 1 \in 0 .. MaxChanges /\ ready \in BOOLEAN /\ PluginsInv
        /\ stayed \subseteq ToSet(globals) \cup ToSet(own)
    BY <1>1, ChangesTyped
  <1>3. /\ globals' \in Seq(Plugin) /\ IsInjective(globals') /\ ToSet(globals') = ToSet(globals) \ {p}
        /\ own' \in Seq(Own) /\ IsInjective(own') /\ ToSet(own') = ToSet(own) \ {p}
    BY <1>1, <1>2, RemoveFirstFacts DEF PluginsInv
  <1> QED
    BY <1>1, <1>2, <1>3, ChangeKeeps DEF PluginsInv

LEMMA CleansUpIInv == ASSUME RestIInv, CleansUp PROVE RestIInv'
  <1>1. /\ changes < MaxChanges /\ changes' = changes + 1 /\ stayed' = stayed \ Own
        /\ ready' = FALSE /\ own' = <<>> /\ globals' = globals
        /\ UNCHANGED <<progress, viaCache, signalled>>
    BY DEF CleansUp
  <1>2. /\ changes + 1 \in 0 .. MaxChanges /\ PluginsInv
        /\ stayed \subseteq ToSet(globals) \cup ToSet(own) /\ ToSet(own) \subseteq Own
    BY <1>1, ChangesTyped
  <1>3. own' \in Seq(Own) /\ IsInjective(own') /\ ToSet(own') = {}
    BY <1>1 DEF ToSet, IsInjective
  <1> QED
    BY <1>1, <1>2, <1>3, ChangeKeeps DEF PluginsInv

-----------------------------------------------------------------------------
(* The plugins there are at first, in some order. *)
LEMMA InSomeOrder ==
  ASSUME NEW S, IsFiniteSet(S)
  PROVE  SetToSeq(S) \in Seq(S) /\ IsInjective(SetToSeq(S))
  <1>1. PICK n \in Nat : n = Cardinality(S) /\ ExistsBijection(1 .. n, S)
    BY FS_CardinalityType
  <1>2. \E f \in [1 .. n -> S] : IsInjective(f)
    BY <1>1 DEF ExistsBijection, Bijection, Injection, IsInjective
  <1>3. SetToSeq(S) \in [1 .. n -> S] /\ IsInjective(SetToSeq(S))
    BY <1>1, <1>2 DEF SetToSeq
  <1> QED
    BY <1>1, <1>3

LEMMA RestInitIInv == RestInit => RestIInv
  <1> SUFFICES ASSUME RestInit PROVE RestIInv
    OBVIOUS
  <1>1. IsFiniteSet(Own) /\ IsFiniteSet(Plugin \ Own)
    BY FS_Subset, FS_Difference
  <1>2. PluginsInv
    <2>1. globals \in Seq(Plugin \ Own) /\ IsInjective(globals)
      BY <1>1, InSomeOrder DEF RestInit
    <2>2. own \in Seq(Own) /\ IsInjective(own)
      BY <1>1, InSomeOrder DEF RestInit
    <2>3. globals \in Seq(Plugin)
      BY <2>1
    <2> QED
      BY <2>1, <2>2, <2>3 DEF PluginsInv
  <1>3. ToSet(InOrder) \subseteq Plugin
    BY <1>2, OrderFacts
  <1>4. Top = 0 /\ attempts \in Seq(Attempt)
    BY DEF RestInit, Top
  <1>5. RestTypeOK
    <2>1. /\ ready = TRUE /\ changes = 0 /\ viaCache = FALSE /\ signalled = FALSE
          /\ outcome = "none" /\ passed = {} /\ stayed = {} /\ cancelled = FALSE
      BY DEF RestInit
    <2>2. 0 \in 0 .. MaxChanges /\ 0 <= MaxRetryDepth
      OBVIOUS
    <2> QED
      BY <1>3, <1>4, <2>1, <2>2 DEF RestTypeOK
  <1>6. Stacked /\ StillOpen /\ YetToProcess /\ DataIsProcessed /\ CancellationPasses
    BY <1>4 DEF RestInit, Stacked, StillOpen, YetToProcess, DataIsProcessed,
                CancellationPasses, At
  <1> QED
    BY <1>2, <1>5, <1>6 DEF RestIInv

LEMMA RestStutter == ASSUME RestIInv, UNCHANGED rvars PROVE RestIInv'
  <1>1. /\ UNCHANGED <<globals, own, ready, changes>> /\ UNCHANGED <<progress, viaCache, signalled>>
        /\ stayed' = stayed
    BY DEF rvars, registry
  <1>2. /\ changes \in 0 .. MaxChanges /\ ready \in BOOLEAN /\ PluginsInv
        /\ stayed \subseteq ToSet(globals) \cup ToSet(own)
    BY RestUnpacked, OrderFacts DEF RestTypeOK
  <1> QED
    BY <1>1, <1>2, ChangeKeeps DEF PluginsInv

LEMMA RestNextIInv == ASSUME RestIInv, [RestNext]_rvars PROVE RestIInv'
  <1>1. CASE Proceeds
    BY <1>1, RequestHookIInv, SendsIInv, TransportIInv, ResponseHookIInv, DeliversIInv,
       ErrorHookIInv, RetryAnsweredIInv, RetryRefusedIInv, GivesUpIInv DEF Proceeds
  <1>2. CASE \E byCache \in BOOLEAN : Request(byCache)
    BY <1>2, RequestIInv
  <1>3. CASE Aborts \/ CleansUp
    BY <1>3, AbortsIInv, CleansUpIInv
  <1>4. CASE \E p \in Plugin : Adds(p) \/ Removes(p)
    BY <1>4, AddsIInv, RemovesIInv
  <1>5. CASE UNCHANGED rvars
    BY <1>5, RestStutter
  <1> QED
    BY <1>1, <1>2, <1>3, <1>4, <1>5 DEF RestNext

(* The invariant holds of a request whatever its hooks do, however deep they     *)
(* retry and whichever plugins come and go meanwhile.                           *)
THEOREM RestInvariance == RestSpec => []RestIInv
  <1>1. RestInit => RestIInv
    BY RestInitIInv
  <1>2. RestIInv /\ [RestNext]_rvars => RestIInv'
    BY RestNextIInv
  <1> QED
    BY <1>1, <1>2, PTL DEF RestSpec

(* Every variable keeps to its type; retries stay within the limit.             *)
THEOREM RestTypeCorrect == RestSpec => []RestTypeOK
  <1>1. RestIInv => RestTypeOK
    BY RestUnpacked
  <1> QED
    BY <1>1, RestInvariance, PTL

(* What the consumer gets as data went through the response hook of every       *)
(* plugin that was there all along.                                             *)
THEOREM EveryPluginProcesses == RestSpec => []DataIsProcessed
  <1>1. RestIInv => DataIsProcessed
    BY RestUnpacked
  <1> QED
    BY <1>1, RestInvariance, PTL

(* A cancellation passes by every error hook, through any number of retries that *)
(* wait for one another.                                                        *)
THEOREM CancellationIsNotOffered == RestSpec => []CancellationPasses
  <1>1. RestIInv => CancellationPasses
    BY RestUnpacked
  <1> QED
    BY <1>1, RestInvariance, PTL

-----------------------------------------------------------------------------
(* The loads of the data grid *)

LoadRecord == [at : {"context", "fetch", "stored", "loaded", "failed"},
               page : 0 .. Pages, aborted : BOOLEAN]

(* Refreshes, and runs of the first load, when n loads and m refreshes have begun *)
(* and o runs.                                                                   *)
RefreshRecord(n) == [load : 0 .. n, resets : BOOLEAN]
RunRecord(n, m, o) ==
  [at : {"hooks", "load", "follows", "ended"}, load : 0 .. n, followed : 0 .. m, owner : 1 .. o]

(* The two kinds of what can change, apart: what is on screen, and who loads.    *)
ShownTyped ==
  /\ mounted \in BOOLEAN /\ mounts \in 0 .. MaxMounts
  /\ core \in {"blank", "loading", "loaded", "error"} /\ owner \in Nat
  /\ page \in 1 .. Pages /\ shown \in 0 .. Pages
  /\ typing \in BOOLEAN /\ byHand \in BOOLEAN

LoadingTyped ==
  /\ loads \in Seq(LoadRecord)
  /\ refreshes \in Seq(RefreshRecord(Len(loads)))
  /\ runs \in Seq(RunRecord(Len(loads), Len(refreshes), owner))

LEMMA GridTypesApart == GridTypeOK <=> ShownTyped /\ LoadingTyped
  BY DEF GridTypeOK, ShownTyped, LoadingTyped, LoadRecord, RefreshRecord, RunRecord

LEMMA GridUnpacked ==
  GridIInv <=> ShownTyped /\ LoadingTyped /\ OwnerInv /\ RowsInv /\ CutOffInv /\ LoadedHasRows
  BY GridTypesApart DEF GridIInv

LEMMA GridRepacked ==
  ASSUME ShownTyped', LoadingTyped', OwnerInv', RowsInv', CutOffInv', LoadedHasRows'
  PROVE  GridIInv'
  BY DEF GridIInv, GridTypeOK, ShownTyped, LoadingTyped, LoadRecord, RefreshRecord, RunRecord

LEMMA GridInitIInv == GridInit => GridIInv
  <1> SUFFICES ASSUME GridInit PROVE GridIInv
    OBVIOUS
  <1>1. ShownTyped
    <2>1. 1 \in 1 .. Pages /\ 0 \in 0 .. Pages /\ 0 \in 0 .. MaxMounts
      BY GridAssumption
    <2> QED
      BY <2>1 DEF GridInit, ShownTyped, NoPage
  <1>2. LoadingTyped
    BY DEF GridInit, LoadingTyped
  <1>3. OwnerInv /\ RowsInv /\ CutOffInv /\ LoadedHasRows
    BY DEF GridInit, OwnerInv, RowsInv, CutOffInv, LoadedHasRows
  <1> QED
    BY <1>1, <1>2, <1>3, GridUnpacked

(* What replaces or follows the elements of a sequence.                          *)
LEMMA Replaced ==
  ASSUME NEW S, NEW s \in Seq(S), NEW k \in DOMAIN s, NEW x \in S,
         NEW r, r = [s EXCEPT ![k] = x]
  PROVE  /\ r \in Seq(S) /\ Len(r) = Len(s) /\ DOMAIN r = DOMAIN s /\ r[k] = x
         /\ \A j \in DOMAIN s : j # k => r[j] = s[j]
  OBVIOUS

LEMMA Appended ==
  ASSUME NEW S, NEW s \in Seq(S), NEW x \in S, NEW r, r = Append(s, x)
  PROVE  /\ r \in Seq(S) /\ Len(r) = Len(s) + 1
         /\ DOMAIN s = 1 .. Len(s) /\ DOMAIN r = (DOMAIN s) \cup {Len(s) + 1}
         /\ \A j \in DOMAIN s : r[j] = s[j]
         /\ r[Len(s) + 1] = x
  OBVIOUS

(* A sequence and its elements.                                                  *)
LEMMA Indexed ==
  ASSUME NEW S, NEW s \in Seq(S)
  PROVE  /\ Len(s) \in Nat /\ DOMAIN s = 1 .. Len(s)
         /\ \A j \in DOMAIN s : s[j] \in S
  OBVIOUS

(* What the parts of the invariant say of one run, in plain terms.               *)
LEMMA RunFacts ==
  ASSUME LoadingTyped, OwnerInv, ShownTyped, NEW i \in DOMAIN runs
  PROVE  /\ runs[i] \in RunRecord(Len(loads), Len(refreshes), owner)
         /\ runs[i].load \in 0 .. Len(loads) /\ runs[i].followed \in 0 .. Len(refreshes)
         /\ runs[i].owner \in 1 .. owner
         /\ runs[i].at \in {"hooks", "load", "follows", "ended"}
         /\ runs[i].at = "load" => runs[i].load \in DOMAIN loads
         /\ runs[i].at = "follows" => runs[i].followed \in DOMAIN refreshes
         /\ DOMAIN loads = 1 .. Len(loads) /\ DOMAIN refreshes = 1 .. Len(refreshes)
         /\ Len(loads) \in Nat /\ Len(refreshes) \in Nat
  <1>1. /\ runs[i] \in RunRecord(Len(loads), Len(refreshes), owner)
        /\ Len(loads) \in Nat /\ Len(refreshes) \in Nat
        /\ DOMAIN loads = 1 .. Len(loads) /\ DOMAIN refreshes = 1 .. Len(refreshes)
    BY Indexed DEF LoadingTyped
  <1>2. /\ runs[i].load \in 0 .. Len(loads) /\ runs[i].followed \in 0 .. Len(refreshes)
        /\ runs[i].owner \in 1 .. owner
        /\ runs[i].at \in {"hooks", "load", "follows", "ended"}
    BY <1>1 DEF RunRecord
  <1>3. /\ runs[i].at = "load" => runs[i].load # 0
        /\ runs[i].at = "follows" => runs[i].followed # 0
    BY DEF OwnerInv, NoLoad
  <1> QED
    BY <1>1, <1>2, <1>3

LEMMA RefreshFacts ==
  ASSUME LoadingTyped, NEW r \in DOMAIN refreshes
  PROVE  /\ refreshes[r] \in RefreshRecord(Len(loads))
         /\ refreshes[r].load \in 0 .. Len(loads) /\ refreshes[r].resets \in BOOLEAN
         /\ refreshes[r].load # NoLoad => refreshes[r].load \in DOMAIN loads
  <1>1. refreshes[r] \in RefreshRecord(Len(loads)) /\ Len(loads) \in Nat
        /\ DOMAIN loads = 1 .. Len(loads)
    BY Indexed DEF LoadingTyped
  <1> QED
    BY <1>1 DEF RefreshRecord, NoLoad

LEMMA LoadFacts ==
  ASSUME LoadingTyped, NEW l \in DOMAIN loads
  PROVE  /\ loads[l] \in LoadRecord /\ loads[l].page \in 0 .. Pages
         /\ loads[l].aborted \in BOOLEAN
         /\ loads[l].at \in {"context", "fetch", "stored", "loaded", "failed"}
  <1>1. loads[l] \in LoadRecord
    BY Indexed DEF LoadingTyped
  <1> QED
    BY <1>1 DEF LoadRecord

(* The new load.                                                                 *)
LEMMA NewLoadFacts ==
  /\ NewLoad \in LoadRecord /\ NewLoad.at = "context" /\ ~NewLoad.aborted
  /\ NewLoad.page = NoPage
  BY GridAssumption DEF NewLoad, LoadRecord, NoPage

(* The parts of the invariant where the runs stay as they are and nothing is     *)
(* forgotten of loads and refreshes.                                             *)
LEMMA LoadingKept ==
  ASSUME GridIInv, runs' = runs, owner' \in Nat, owner <= owner',
         loads' \in Seq(LoadRecord), Len(loads) <= Len(loads'),
         refreshes' \in Seq(RefreshRecord(Len(loads'))), Len(refreshes) <= Len(refreshes')
  PROVE  LoadingTyped'
  <1>1. /\ Len(loads) \in Nat /\ Len(loads') \in Nat /\ owner \in Nat
        /\ Len(refreshes) \in Nat /\ Len(refreshes') \in Nat
        /\ runs \in Seq(RunRecord(Len(loads), Len(refreshes), owner))
    BY GridUnpacked, Indexed DEF LoadingTyped, ShownTyped
  <1>2. RunRecord(Len(loads), Len(refreshes), owner)
          \subseteq RunRecord(Len(loads'), Len(refreshes'), owner')
    <2>1. ASSUME NEW n \in Nat, NEW m \in Nat, NEW o \in Nat,
                 Len(loads) <= n, Len(refreshes) <= m, owner <= o
          PROVE  RunRecord(Len(loads), Len(refreshes), owner) \subseteq RunRecord(n, m, o)
      <3>1. /\ 0 .. Len(loads) \subseteq 0 .. n /\ 0 .. Len(refreshes) \subseteq 0 .. m
            /\ 1 .. owner \subseteq 1 .. o
        BY <1>1, <2>1
      <3> QED
        BY <3>1 DEF RunRecord
    <2> QED
      BY <1>1, <2>1
  <1>3. runs' \in Seq(RunRecord(Len(loads'), Len(refreshes'), owner'))
    BY <1>1, <1>2, SeqWidens
  <1> QED
    BY <1>3 DEF LoadingTyped

LEMMA OwnerKept ==
  ASSUME OwnerInv, runs' = runs, owner' = owner, core' = core
  PROVE  OwnerInv'
  BY DEF OwnerInv

LEMMA RowsKept ==
  ASSUME GridIInv, DOMAIN loads \subseteq DOMAIN loads', shown # NoPage => shown' # NoPage,
         \A l \in DOMAIN loads : loads'[l].at = loads[l].at /\ loads'[l].page = loads[l].page,
         \A l \in DOMAIN loads' : l \notin DOMAIN loads => loads'[l] = NewLoad
  PROVE  RowsInv'
  BY GridUnpacked, NewLoadFacts DEF RowsInv

(* A step that aborts nothing leaves whoever waits waiting for the same.         *)
LEMMA CutOffKept ==
  ASSUME GridIInv, runs' = runs, owner' = owner, byHand => byHand',
         Len(refreshes') = Len(refreshes),
         \A l \in DOMAIN loads : loads'[l].aborted => loads[l].aborted,
         \A r \in DOMAIN refreshes :
           \/ refreshes'[r].load = refreshes[r].load
           \/ ~loads'[refreshes'[r].load].aborted
  PROVE  CutOffInv'
  <1>1. ShownTyped /\ LoadingTyped /\ OwnerInv /\ CutOffInv
    BY GridUnpacked
  <1> SUFFICES ASSUME NEW i \in DOMAIN runs, runs[i].owner = owner,
                      runs[i].at \in {"load", "follows"}, ~byHand'
               PROVE  /\ ~( /\ runs[i].at = "load" /\ runs[i].followed = Len(refreshes)
                            /\ loads'[runs[i].load].aborted)
                      /\ ~( /\ runs[i].at = "follows" \/ runs[i].followed < Len(refreshes)
                            /\ refreshes'[Len(refreshes)].load # NoLoad
                            /\ loads'[refreshes'[Len(refreshes)].load].aborted)
    BY DEF CutOffInv
  <1> DEFINE n == Len(refreshes)
  <1>2. /\ runs[i].at = "load" /\ runs[i].followed = n => ~loads[runs[i].load].aborted
        /\ /\ runs[i].at = "follows" \/ runs[i].followed < n
           /\ refreshes[n].load # NoLoad
           => ~loads[refreshes[n].load].aborted
    BY <1>1 DEF CutOffInv
  <1>3. runs[i].at = "load" => runs[i].load \in DOMAIN loads
    BY <1>1, RunFacts
  <1>4. runs[i].at = "follows" \/ runs[i].followed < n => n \in DOMAIN refreshes
    BY <1>1, RunFacts
  <1>5. n \in DOMAIN refreshes /\ refreshes[n].load # NoLoad
          => refreshes[n].load \in DOMAIN loads
    BY <1>1, RefreshFacts
  <1> QED
    BY <1>2, <1>3, <1>4, <1>5

(* A refresh that has not begun its load supersedes all that is aborted with it. *)
LEMMA CutOffSuperseded ==
  ASSUME GridIInv, runs' = runs, refreshes' \in Seq(RefreshRecord(Len(loads'))),
         Len(refreshes') = Len(refreshes) + 1, refreshes'[Len(refreshes')].load = NoLoad
  PROVE  CutOffInv'
  <1>1. ASSUME NEW i \in DOMAIN runs  PROVE runs[i].followed # Len(refreshes')
    BY GridUnpacked, RunFacts
  <1> QED
    BY <1>1 DEF CutOffInv

(* Aborting.                                                                     *)
LEMMA AbortedFacts ==
  ASSUME LoadingTyped, NEW a, a = Aborted
  PROVE  /\ a \in Seq(LoadRecord) /\ Len(a) = Len(loads) /\ DOMAIN a = DOMAIN loads
         /\ \A l \in DOMAIN loads :
              /\ a[l].at = loads[l].at /\ a[l].page = loads[l].page
              /\ l \notin Instances => a[l].aborted = loads[l].aborted
  <1>1. /\ loads \in Seq(LoadRecord) /\ DOMAIN loads = 1 .. Len(loads) /\ Len(loads) \in Nat
        /\ \A l \in DOMAIN loads : loads[l] \in LoadRecord
    BY Indexed DEF LoadingTyped
  <1>2. a = [l \in DOMAIN loads |-> [loads[l] EXCEPT !.aborted = @ \/ l \in Instances]]
    BY DEF Aborted
  <1>3. ASSUME NEW l \in DOMAIN loads
        PROVE  /\ a[l] \in LoadRecord /\ a[l].at = loads[l].at /\ a[l].page = loads[l].page
               /\ l \notin Instances => a[l].aborted = loads[l].aborted
    <2>1. /\ a[l] = [loads[l] EXCEPT !.aborted = loads[l].aborted \/ l \in Instances]
          /\ loads[l] \in LoadRecord
      BY <1>1, <1>2
    <2> QED
      BY <2>1, Zenon DEF LoadRecord
  <1>4. a \in Seq(LoadRecord) /\ Len(a) = Len(loads) /\ DOMAIN a = DOMAIN loads
    <2>1. a \in [1 .. Len(loads) -> LoadRecord]
      BY <1>1, <1>2, <1>3
    <2> QED
      BY <1>1, <2>1
  <1> QED
    BY <1>3, <1>4

(* The loads begun.                                                              *)
LEMMA TriggeredFacts ==
  ASSUME LoadingTyped, NEW a, a = Triggered
  PROVE  /\ a \in Seq(LoadRecord) /\ Len(a) = Len(loads) + 1
         /\ DOMAIN a = (DOMAIN loads) \cup {Len(loads) + 1} /\ DOMAIN loads = 1 .. Len(loads)
         /\ \A l \in DOMAIN loads : a[l] = loads[l]
         /\ a[Len(loads) + 1] = NewLoad
  BY Appended, NewLoadFacts DEF LoadingTyped, Triggered

LEMMA RefreshedFacts ==
  ASSUME LoadingTyped, NEW b \in BOOLEAN, NEW a, a = Refreshed(b)
  PROVE  /\ a \in Seq(RefreshRecord(Len(loads))) /\ Len(a) = Len(refreshes) + 1
         /\ a[Len(a)].load = NoLoad
  <1>1. Len(loads) \in Nat /\ refreshes \in Seq(RefreshRecord(Len(loads)))
    BY DEF LoadingTyped
  <1>2. [load |-> NoLoad, resets |-> b] \in RefreshRecord(Len(loads))
    BY <1>1 DEF RefreshRecord, NoLoad
  <1> QED
    BY <1>1, <1>2, Appended DEF Refreshed

(* A load goes on.                                                               *)
LEMMA LoadChanges ==
  ASSUME GridIInv, NEW l \in DOMAIN loads, NEW x \in LoadRecord,
         loads' = [loads EXCEPT ![l] = x],
         x.aborted => loads[l].aborted, x.at = "fetch" => x.page # NoPage,
         x.at \in {"stored", "loaded"} => shown' # NoPage,
         shown' \in 0 .. Pages, shown # NoPage => shown' # NoPage,
         mounted' = mounted, mounts' = mounts, core' = core, owner' = owner, runs' = runs,
         refreshes' = refreshes, page' = page, typing' = typing, byHand' = byHand
  PROVE  GridIInv'
  <1>1. ShownTyped /\ LoadingTyped /\ OwnerInv /\ RowsInv /\ LoadedHasRows
    BY GridUnpacked
  <1>2. /\ loads' \in Seq(LoadRecord) /\ Len(loads') = Len(loads) /\ DOMAIN loads' = DOMAIN loads
        /\ loads'[l] = x /\ \A j \in DOMAIN loads : j # l => loads'[j] = loads[j]
        /\ Len(loads) \in Nat /\ Len(refreshes) \in Nat
    BY <1>1, Replaced, Indexed DEF LoadingTyped
  <1>3. ShownTyped'
    BY <1>1 DEF ShownTyped
  <1>4. LoadingTyped'
    <2>1. refreshes' \in Seq(RefreshRecord(Len(loads'))) /\ owner' \in Nat /\ owner <= owner'
      BY <1>1, <1>2 DEF LoadingTyped, ShownTyped
    <2> QED
      BY <1>2, <2>1, LoadingKept
  <1>5. OwnerInv'
    BY <1>1, OwnerKept
  <1>6. RowsInv'
    BY <1>1, <1>2 DEF RowsInv
  <1>7. CutOffInv'
    <2>1. \A j \in DOMAIN loads : loads'[j].aborted => loads[j].aborted
      BY <1>2
    <2> QED
      BY <2>1, CutOffKept
  <1>8. LoadedHasRows'
    BY <1>1 DEF LoadedHasRows
  <1> QED
    BY <1>3, <1>4, <1>5, <1>6, <1>7, <1>8, GridRepacked

LEMMA LoadGoesOnIInv ==
  ASSUME GridIInv, NEW l \in DOMAIN loads, LoadGoesOn(l)
  PROVE  GridIInv'
  <1>1. ShownTyped /\ LoadingTyped /\ RowsInv
    BY GridUnpacked
  <1>2. /\ loads[l] \in LoadRecord /\ loads[l].page \in 0 .. Pages /\ loads[l].aborted \in BOOLEAN
        /\ page \in 1 .. Pages /\ shown \in 0 .. Pages
    BY <1>1, LoadFacts DEF ShownTyped
  <1>8. page \in 0 .. Pages /\ page # 0
    BY <1>2
  <1>3. CASE CollectsContext(l)
    <2>1. PICK x : x = [[loads[l] EXCEPT !.at = "fetch"] EXCEPT !.page = page]
      OBVIOUS
    <2>2. x \in LoadRecord /\ x.at = "fetch" /\ x.page = page /\ x.aborted = loads[l].aborted
      BY <1>2, <1>8, <2>1 DEF LoadRecord
    <2>3. loads' = [loads EXCEPT ![l] = x]
      BY <1>3, <2>1 DEF CollectsContext
    <2>4. /\ mounted' = mounted /\ mounts' = mounts /\ core' = core /\ owner' = owner
          /\ runs' = runs /\ refreshes' = refreshes /\ page' = page /\ shown' = shown
          /\ typing' = typing /\ byHand' = byHand
      BY <1>3 DEF CollectsContext
    <2>5. page # NoPage
      BY <1>8 DEF NoPage
    <2> QED
      BY <1>2, <2>2, <2>3, <2>4, <2>5, LoadChanges
  <1>4. CASE Stores(l)
    <2>1. PICK x : x = [loads[l] EXCEPT !.at = "stored"]
      OBVIOUS
    <2>2. x \in LoadRecord /\ x.at = "stored" /\ x.aborted = loads[l].aborted
      BY <1>2, <2>1 DEF LoadRecord
    <2>3. loads' = [loads EXCEPT ![l] = x]
      BY <1>4, <2>1 DEF Stores
    <2>4. /\ mounted' = mounted /\ mounts' = mounts /\ core' = core /\ owner' = owner
          /\ runs' = runs /\ refreshes' = refreshes /\ page' = page
          /\ typing' = typing /\ byHand' = byHand /\ shown' = loads[l].page
      BY <1>4 DEF Stores
    <2>5. loads[l].page # NoPage
      BY <1>1, <1>4 DEF Stores, RowsInv
    <2> QED
      BY <1>2, <2>2, <2>3, <2>4, <2>5, LoadChanges
  <1>5. ASSUME NEW x \in LoadRecord, x.aborted => loads[l].aborted, LoadSettles(l, x),
               x.at \in {"loaded", "failed"}, x.at = "loaded" => shown # NoPage
        PROVE  GridIInv'
    <2>1. /\ mounted' = mounted /\ mounts' = mounts /\ core' = core /\ owner' = owner
          /\ runs' = runs /\ refreshes' = refreshes /\ page' = page /\ shown' = shown
          /\ typing' = typing /\ byHand' = byHand /\ loads' = [loads EXCEPT ![l] = x]
      BY <1>5 DEF LoadSettles
    <2> QED
      BY <1>2, <1>5, <2>1, LoadChanges
  <1>6. CASE Succeeds(l)
    <2>1. PICK x : x = [NewLoad EXCEPT !.at = "loaded"]
      OBVIOUS
    <2>2. x \in LoadRecord /\ x.at = "loaded" /\ ~x.aborted
      BY <2>1, NewLoadFacts DEF LoadRecord
    <2>3. LoadSettles(l, x) /\ shown # NoPage
      BY <1>1, <1>6, <2>1 DEF Succeeds, RowsInv
    <2> QED
      BY <1>5, <2>2, <2>3
  <1>7. CASE Fails(l)
    <2>1. PICK x : x = [[NewLoad EXCEPT !.at = "failed"] EXCEPT !.aborted = loads[l].aborted]
      OBVIOUS
    <2>2. x \in LoadRecord /\ x.at = "failed" /\ x.aborted = loads[l].aborted
      BY <1>2, <2>1, NewLoadFacts DEF LoadRecord
    <2>3. LoadSettles(l, x)
      BY <1>7, <2>1 DEF Fails
    <2> QED
      BY <1>5, <2>2, <2>3
  <1> QED
    BY <1>3, <1>4, <1>6, <1>7 DEF LoadGoesOn

(* A refresh comes, of itself, by a search, or as an unmount flushes one; what is in *)
(* flight is aborted.                                                            *)
LEMMA RefreshedKeeps ==
  ASSUME GridIInv, NEW b \in BOOLEAN, refreshes' = Refreshed(b), loads' = Aborted, runs' = runs
  PROVE  /\ owner' \in Nat /\ owner <= owner' => LoadingTyped'
         /\ CutOffInv'
         /\ shown' = shown => RowsInv'
  <1>1. ShownTyped /\ LoadingTyped
    BY GridUnpacked
  <1>2. PICK a : a = Aborted
    OBVIOUS
  <1>3. PICK c : c = Refreshed(b)
    OBVIOUS
  <1>4. /\ loads' = a /\ a \in Seq(LoadRecord) /\ Len(a) = Len(loads) /\ DOMAIN a = DOMAIN loads
        /\ \A l \in DOMAIN loads : a[l].at = loads[l].at /\ a[l].page = loads[l].page
        /\ Len(loads) \in Nat /\ Len(refreshes) \in Nat
    BY <1>1, <1>2, AbortedFacts, Indexed DEF LoadingTyped
  <1>5. /\ refreshes' = c /\ c \in Seq(RefreshRecord(Len(loads))) /\ Len(c) = Len(refreshes) + 1
        /\ c[Len(c)].load = NoLoad
    BY <1>1, <1>3, RefreshedFacts
  <1>6. ASSUME owner' \in Nat, owner <= owner' PROVE LoadingTyped'
    BY <1>4, <1>5, <1>6, LoadingKept
  <1>7. CutOffInv'
    BY <1>4, <1>5, CutOffSuperseded
  <1>8. ASSUME shown' = shown PROVE RowsInv'
    BY <1>4, <1>8, RowsKept
  <1> QED
    BY <1>6, <1>7, <1>8

LEMMA RefreshIInv ==
  ASSUME GridIInv, NEW b \in BOOLEAN, refreshes' = Refreshed(b), loads' = Aborted,
         mounted' = mounted, mounts' = mounts, core' = core, owner' = owner, runs' = runs,
         page' = page, shown' = shown, typing' \in BOOLEAN, byHand' = byHand
  PROVE  GridIInv'
  <1>1. ShownTyped /\ OwnerInv /\ LoadedHasRows
    BY GridUnpacked
  <1>2. ShownTyped' /\ owner' \in Nat /\ owner <= owner'
    BY <1>1 DEF ShownTyped
  <1>3. LoadingTyped' /\ CutOffInv' /\ RowsInv'
    BY <1>2, RefreshedKeeps
  <1>4. OwnerInv' /\ LoadedHasRows'
    BY <1>1, OwnerKept DEF LoadedHasRows
  <1> QED
    BY <1>2, <1>3, <1>4, GridRepacked

(* The grid leaves the screen: a first load it cuts off is no longer the present one. *)
LEMMA UnmountIInv == ASSUME GridIInv, Unmount PROVE GridIInv'
  <1>1. ShownTyped /\ LoadingTyped /\ OwnerInv /\ RowsInv /\ LoadedHasRows
    BY GridUnpacked
  <1>2. /\ mounted' = FALSE /\ typing' = FALSE /\ loads' = Aborted /\ mounts' = mounts
        /\ runs' = runs /\ page' = page /\ shown' = shown /\ byHand' = byHand
        /\ refreshes' = IF typing THEN Refreshed(FALSE) ELSE refreshes
        /\ Reset(core = "loading" /\ Instances # {})
    BY DEF Unmount
  <1>3. PICK a : a = Aborted
    OBVIOUS
  <1>4. /\ loads' = a /\ a \in Seq(LoadRecord) /\ Len(a) = Len(loads) /\ DOMAIN a = DOMAIN loads
        /\ \A l \in DOMAIN loads :
             /\ a[l].at = loads[l].at /\ a[l].page = loads[l].page
             /\ l \notin Instances => a[l].aborted = loads[l].aborted
        /\ Len(loads) \in Nat /\ Len(refreshes) \in Nat
        /\ refreshes \in Seq(RefreshRecord(Len(loads)))
    BY <1>1, <1>2, <1>3, AbortedFacts, Indexed DEF LoadingTyped
  <1>5. \/ core = "loading" /\ Instances # {} /\ core' = "blank" /\ owner' = owner + 1
        \/ ~(core = "loading" /\ Instances # {}) /\ core' = core /\ owner' = owner
    BY <1>2 DEF Reset
  <1>6. owner \in Nat /\ owner' \in Nat /\ owner <= owner' /\ ShownTyped'
    <2>1. owner \in Nat /\ owner' \in Nat /\ owner <= owner'
      BY <1>1, <1>5 DEF ShownTyped
    <2>2. core' \in {"blank", "loading", "loaded", "error"}
      BY <1>1, <1>5 DEF ShownTyped
    <2> QED
      BY <1>1, <1>2, <2>1, <2>2 DEF ShownTyped
  <1>7. RowsInv'
    BY <1>2, <1>4, RowsKept
  <1>8. LoadingTyped'
    <2>1. CASE typing
      BY <1>2, <1>6, <2>1, RefreshedKeeps
    <2>2. CASE ~typing
      BY <1>2, <1>4, <1>6, <2>2, LoadingKept
    <2> QED
      BY <2>1, <2>2
  <1>9. LoadedHasRows'
    BY <1>1, <1>2, <1>5 DEF LoadedHasRows
  <1>10. CASE core = "loading" /\ Instances # {}
    <2>1. \A i \in DOMAIN runs : runs[i].owner # owner'
      <3>1. \A i \in DOMAIN runs : runs[i].owner \in 1 .. owner
        BY <1>1, RunFacts
      <3> QED
        BY <1>5, <1>6, <1>10, <3>1
    <2>2. OwnerInv' /\ CutOffInv'
      BY <1>1, <1>2, <2>1 DEF OwnerInv, CutOffInv
    <2> QED
      BY <1>6, <1>7, <1>8, <1>9, <2>2, GridRepacked
  <1>11. CASE ~(core = "loading" /\ Instances # {})
    <2>1. OwnerInv'
      BY <1>1, <1>2, <1>5, <1>11, OwnerKept
    <2>2. CutOffInv'
      <3>1. CASE typing
        BY <1>2, <3>1, RefreshedKeeps
      <3>2. CASE Instances = {} /\ ~typing
        <4>1. \A l \in DOMAIN loads : loads'[l].aborted => loads[l].aborted
          BY <1>4, <3>2
        <4> QED
          BY <1>2, <1>5, <1>11, <3>2, <4>1, CutOffKept
      <3>3. CASE core # "loading"
        <4>1. \A i \in DOMAIN runs : runs[i].owner = owner => runs[i].at = "ended"
          BY <1>1, <3>3 DEF OwnerInv
        <4> QED
          BY <1>2, <1>5, <1>11, <4>1 DEF CutOffInv
      <3> QED
        BY <1>11, <3>1, <3>2, <3>3
    <2> QED
      BY <1>6, <1>7, <1>8, <1>9, <2>1, <2>2, GridRepacked
  <1> QED
    BY <1>10, <1>11

(* The consumer aborts.                                                          *)
LEMMA AbortsByHandIInv == ASSUME GridIInv, AbortsByHand PROVE GridIInv'
  <1>1. ShownTyped /\ LoadingTyped /\ OwnerInv
    BY GridUnpacked
  <1>2. /\ loads' = Aborted /\ byHand' = TRUE
        /\ mounted' = mounted /\ mounts' = mounts /\ core' = core /\ owner' = owner
        /\ runs' = runs /\ refreshes' = refreshes /\ page' = page /\ shown' = shown
        /\ typing' = typing
    BY DEF AbortsByHand
  <1>3. PICK a : a = Aborted
    OBVIOUS
  <1>4. /\ loads' = a /\ a \in Seq(LoadRecord) /\ Len(a) = Len(loads) /\ DOMAIN a = DOMAIN loads
        /\ \A l \in DOMAIN loads : a[l].at = loads[l].at /\ a[l].page = loads[l].page
        /\ Len(loads) \in Nat /\ Len(refreshes) \in Nat
        /\ refreshes \in Seq(RefreshRecord(Len(loads)))
    BY <1>1, <1>2, <1>3, AbortedFacts, Indexed DEF LoadingTyped
  <1>5. ShownTyped' /\ owner' \in Nat /\ owner <= owner'
    BY <1>1, <1>2 DEF ShownTyped
  <1>6. LoadingTyped'
    BY <1>2, <1>4, <1>5, LoadingKept
  <1>7. OwnerInv' /\ RowsInv'
    BY <1>1, <1>2, <1>4, OwnerKept, RowsKept
  <1>8. CutOffInv' /\ LoadedHasRows'
    BY <1>2 DEF CutOffInv, LoadedHasRows
  <1> QED
    BY <1>5, <1>6, <1>7, <1>8, GridRepacked

(* The grid comes on screen; a first load that begins is the present one.        *)
LEMMA BeginsKeeps ==
  ASSUME GridIInv, Begins, loads' = loads, refreshes' = refreshes, shown' = shown
  PROVE  /\ LoadingTyped' /\ OwnerInv' /\ RowsInv' /\ CutOffInv' /\ LoadedHasRows'
         /\ core' = "loading" /\ owner' = owner + 1
  <1>1. ShownTyped /\ LoadingTyped /\ OwnerInv /\ RowsInv
    BY GridUnpacked
  <1>2. core' = "loading" /\ owner' = owner + 1 /\ owner \in Nat
    BY <1>1 DEF Begins, ShownTyped
  <1>3. PICK x : x = [at |-> "hooks", load |-> NoLoad, followed |-> 0, owner |-> owner + 1]
    OBVIOUS
  <1>4. /\ Len(loads) \in Nat /\ Len(refreshes) \in Nat
        /\ runs \in Seq(RunRecord(Len(loads), Len(refreshes), owner + 1))
        /\ loads \in Seq(LoadRecord) /\ refreshes \in Seq(RefreshRecord(Len(loads)))
    <2>1. RunRecord(Len(loads), Len(refreshes), owner)
            \subseteq RunRecord(Len(loads), Len(refreshes), owner + 1)
      BY <1>2 DEF RunRecord
    <2> QED
      BY <1>1, <2>1, SeqWidens DEF LoadingTyped
  <1>5. x \in RunRecord(Len(loads), Len(refreshes), owner + 1)
    BY <1>2, <1>3, <1>4 DEF RunRecord, NoLoad
  <1>6. runs' = Append(runs, x)
    BY <1>3 DEF Begins
  <1>7. /\ runs' \in Seq(RunRecord(Len(loads), Len(refreshes), owner + 1))
        /\ DOMAIN runs' = (DOMAIN runs) \cup {Len(runs) + 1} /\ DOMAIN runs = 1 .. Len(runs)
        /\ \A j \in DOMAIN runs : runs'[j] = runs[j]
        /\ runs'[Len(runs) + 1] = x
    BY <1>4, <1>5, <1>6, Appended
  <1>8. \A j \in DOMAIN runs : runs[j].owner \in 1 .. owner
    BY <1>1, RunFacts
  <1>9. x.at = "hooks" /\ x.owner = owner + 1
    BY <1>3
  <1>10. \A j \in DOMAIN runs : runs[j].owner # owner + 1
    BY <1>2, <1>8
  <1>11. LoadingTyped'
    BY <1>2, <1>4, <1>7 DEF LoadingTyped
  <1>12. OwnerInv'
    BY <1>1, <1>2, <1>7, <1>9, <1>10 DEF OwnerInv
  <1>13. CutOffInv'
    BY <1>2, <1>7, <1>9, <1>10 DEF CutOffInv
  <1>14. RowsInv' /\ LoadedHasRows'
    BY <1>1, <1>2 DEF RowsInv, LoadedHasRows
  <1> QED
    BY <1>2, <1>11, <1>12, <1>13, <1>14

LEMMA MountIInv == ASSUME GridIInv, Mount PROVE GridIInv'
  <1>1. ShownTyped /\ LoadingTyped /\ OwnerInv /\ RowsInv /\ CutOffInv /\ LoadedHasRows
    BY GridUnpacked
  <1>2. /\ mounts < MaxMounts /\ mounted' = TRUE /\ mounts' = mounts + 1
        /\ refreshes' = refreshes /\ loads' = loads /\ page' = page /\ shown' = shown
        /\ typing' = typing /\ byHand' = byHand
        /\ Begins \/ (core' = core /\ owner' = owner /\ runs' = runs)
    BY DEF Mount
  <1>3. mounts' \in 0 .. MaxMounts
    BY <1>1, <1>2, GridAssumption DEF ShownTyped
  <1>4. CASE Begins
    <2>1. /\ LoadingTyped' /\ OwnerInv' /\ RowsInv' /\ CutOffInv' /\ LoadedHasRows'
          /\ core' = "loading" /\ owner' = owner + 1
      BY <1>2, <1>4, BeginsKeeps
    <2>2. ShownTyped'
      BY <1>1, <1>2, <1>3, <2>1 DEF ShownTyped
    <2> QED
      BY <2>1, <2>2, GridRepacked
  <1>5. CASE core' = core /\ owner' = owner /\ runs' = runs
    <2>1. ShownTyped'
      BY <1>1, <1>2, <1>3, <1>5 DEF ShownTyped
    <2>2. LoadingTyped' /\ OwnerInv' /\ RowsInv' /\ CutOffInv' /\ LoadedHasRows'
      BY <1>1, <1>2, <1>5 DEF LoadingTyped, OwnerInv, RowsInv, CutOffInv, LoadedHasRows
    <2> QED
      BY <2>1, <2>2, GridRepacked
  <1> QED
    BY <1>2, <1>4, <1>5

(* What only changes what is on screen.                                          *)
LEMMA TypesIInv ==
  ASSUME GridIInv, ShownTyped', loads' = loads, refreshes' = refreshes, runs' = runs,
         core' = core, owner' = owner, shown' = shown, byHand' = byHand
  PROVE  GridIInv'
  <1>1. LoadingTyped' /\ OwnerInv' /\ RowsInv' /\ CutOffInv' /\ LoadedHasRows'
    BY GridUnpacked DEF LoadingTyped, OwnerInv, RowsInv, CutOffInv, LoadedHasRows
  <1> QED
    BY <1>1, GridRepacked

(* Loads begin, with whoever waits waiting for the same.                         *)
LEMMA BegunIInv ==
  ASSUME GridIInv, NEW a \in Seq(LoadRecord), loads' = a,
         DOMAIN loads \subseteq DOMAIN a, \A l \in DOMAIN loads : a[l] = loads[l],
         \A l \in DOMAIN a : l \notin DOMAIN loads => a[l] = NewLoad,
         page' \in 1 .. Pages, refreshes' = refreshes, runs' = runs,
         mounted' = mounted, mounts' = mounts, core' = core, owner' = owner,
         shown' = shown, typing' = typing, byHand' = byHand
  PROVE  GridIInv'
  <1>1. ShownTyped /\ LoadingTyped /\ OwnerInv /\ LoadedHasRows
    BY GridUnpacked
  <1>2. /\ Len(loads) \in Nat /\ Len(a) \in Nat /\ Len(refreshes) \in Nat
        /\ DOMAIN loads = 1 .. Len(loads) /\ DOMAIN a = 1 .. Len(a)
        /\ refreshes \in Seq(RefreshRecord(Len(loads)))
    BY <1>1, Indexed DEF LoadingTyped
  <1>3. Len(loads) <= Len(a)
    BY <1>2
  <1>4. refreshes \in Seq(RefreshRecord(Len(a)))
    <2>1. RefreshRecord(Len(loads)) \subseteq RefreshRecord(Len(a))
      BY <1>2, <1>3 DEF RefreshRecord
    <2> QED
      BY <1>2, <2>1, SeqWidens
  <1>5. ShownTyped' /\ owner' \in Nat /\ owner <= owner'
    BY <1>1 DEF ShownTyped
  <1>6. LoadingTyped'
    BY <1>2, <1>3, <1>4, <1>5, LoadingKept
  <1>7. RowsInv' /\ OwnerInv' /\ LoadedHasRows'
    BY <1>1, RowsKept, OwnerKept DEF LoadedHasRows
  <1>8. CutOffInv'
    BY CutOffKept
  <1> QED
    BY <1>5, <1>6, <1>7, <1>8, GridRepacked

LEMMA SetPageIInv == ASSUME GridIInv, NEW p \in 1 .. Pages, SetPage(p) PROVE GridIInv'
  <1>1. PICK a : a = Triggered
    OBVIOUS
  <1>2. /\ a \in Seq(LoadRecord) /\ Len(a) = Len(loads) + 1
        /\ DOMAIN a = (DOMAIN loads) \cup {Len(loads) + 1}
        /\ \A l \in DOMAIN loads : a[l] = loads[l]
        /\ a[Len(loads) + 1] = NewLoad
    BY <1>1, GridUnpacked, TriggeredFacts
  <1>3. /\ loads' = a /\ page' = p /\ refreshes' = refreshes /\ runs' = runs
        /\ mounted' = mounted /\ mounts' = mounts /\ core' = core /\ owner' = owner
        /\ shown' = shown /\ typing' = typing /\ byHand' = byHand
    BY <1>1 DEF SetPage
  <1> QED
    BY <1>2, <1>3, BegunIInv

LEMMA SetLimitIInv == ASSUME GridIInv, SetLimit PROVE GridIInv'
  <1>1. PICK a : a = Triggered
    OBVIOUS
  <1>2. PICK c : c = Append(a, NewLoad)
    OBVIOUS
  <1>3. /\ a \in Seq(LoadRecord) /\ Len(a) = Len(loads) + 1
        /\ DOMAIN a = (DOMAIN loads) \cup {Len(loads) + 1}
        /\ \A l \in DOMAIN loads : a[l] = loads[l]
        /\ a[Len(loads) + 1] = NewLoad
    BY <1>1, GridUnpacked, TriggeredFacts
  <1>4. /\ c \in Seq(LoadRecord) /\ DOMAIN c = (DOMAIN a) \cup {Len(a) + 1}
        /\ \A l \in DOMAIN a : c[l] = a[l]
        /\ c[Len(a) + 1] = NewLoad
    <2>1. NewLoad \in LoadRecord
      BY NewLoadFacts
    <2>2. a \in Seq(LoadRecord)
      BY <1>3
    <2> QED
      BY <1>2, <2>1, <2>2, Appended
  <1>5. /\ loads' = a \/ loads' = c
        /\ page' = 1 /\ refreshes' = refreshes /\ runs' = runs
        /\ mounted' = mounted /\ mounts' = mounts /\ core' = core /\ owner' = owner
        /\ shown' = shown /\ typing' = typing /\ byHand' = byHand
    BY <1>1, <1>2 DEF SetLimit
  <1>6. page' \in 1 .. Pages
    BY <1>5, GridAssumption
  <1>7. CASE loads' = a
    BY <1>3, <1>5, <1>6, <1>7, BegunIInv
  <1>8. CASE loads' = c
    BY <1>3, <1>4, <1>5, <1>6, <1>8, BegunIInv
  <1> QED
    BY <1>5, <1>7, <1>8

(* What a user, or the consumer, does.                                           *)
LEMMA UserIInv == ASSUME GridIInv, User PROVE GridIInv'
  <1>1. CASE Types
    <2>1. ShownTyped
      BY GridUnpacked
    <2>2. /\ mounted' = mounted /\ mounts' = mounts /\ core' = core /\ owner' = owner
          /\ runs' = runs /\ refreshes' = refreshes /\ loads' = loads /\ page' = page
          /\ shown' = shown /\ byHand' = byHand /\ typing' = TRUE
      BY <1>1 DEF Types
    <2>3. ShownTyped'
      BY <2>1, <2>2 DEF ShownTyped
    <2> QED
      BY <2>2, <2>3, TypesIInv
  <1>2. CASE Searches
    <2>1. /\ refreshes' = Refreshed(FALSE) /\ loads' = Aborted /\ typing' \in BOOLEAN
          /\ mounted' = mounted /\ mounts' = mounts /\ core' = core /\ owner' = owner
          /\ runs' = runs /\ page' = page /\ shown' = shown /\ byHand' = byHand
      BY <1>2 DEF Searches
    <2> QED
      BY <2>1, RefreshIInv
  <1>3. ASSUME NEW b \in BOOLEAN, Refresh(b) PROVE GridIInv'
    <2>1. /\ refreshes' = Refreshed(b) /\ loads' = Aborted /\ typing' \in BOOLEAN
          /\ mounted' = mounted /\ mounts' = mounts /\ core' = core /\ owner' = owner
          /\ runs' = runs /\ page' = page /\ shown' = shown /\ byHand' = byHand
      BY <1>3, GridUnpacked DEF Refresh, ShownTyped
    <2> QED
      BY <2>1, RefreshIInv
  <1> QED
    BY <1>1, <1>2, <1>3, MountIInv, UnmountIInv, SetLimitIInv, SetPageIInv, AbortsByHandIInv
    DEF User

(* The load of a refresh begins.                                                 *)
LEMMA RefreshLoadsIInv ==
  ASSUME GridIInv, NEW r \in DOMAIN refreshes, RefreshLoads(r)
  PROVE  GridIInv'
  <1>1. ShownTyped /\ LoadingTyped /\ OwnerInv /\ LoadedHasRows
    BY GridUnpacked
  <1>2. PICK a : a = Triggered
    OBVIOUS
  <1>3. /\ a \in Seq(LoadRecord) /\ Len(a) = Len(loads) + 1
        /\ DOMAIN a = (DOMAIN loads) \cup {Len(loads) + 1}
        /\ \A l \in DOMAIN loads : a[l] = loads[l]
        /\ a[Len(loads) + 1] = NewLoad
    BY <1>1, <1>2, TriggeredFacts
  <1>4. PICK x : x = [refreshes[r] EXCEPT !.load = Len(loads) + 1]
    OBVIOUS
  <1>5. /\ loads' = a /\ refreshes' = [refreshes EXCEPT ![r] = x]
        /\ page' = 1 /\ typing' = (typing /\ ~refreshes[r].resets)
        /\ mounted' = mounted /\ mounts' = mounts /\ core' = core /\ owner' = owner
        /\ runs' = runs /\ shown' = shown /\ byHand' = byHand
    BY <1>2, <1>4 DEF RefreshLoads
  <1>6. /\ Len(loads) \in Nat /\ Len(refreshes) \in Nat
        /\ refreshes \in Seq(RefreshRecord(Len(loads)))
    BY <1>1, Indexed DEF LoadingTyped
  <1>7. refreshes \in Seq(RefreshRecord(Len(a)))
    <2>1. RefreshRecord(Len(loads)) \subseteq RefreshRecord(Len(a))
      BY <1>3, <1>6 DEF RefreshRecord
    <2> QED
      BY <1>6, <2>1, SeqWidens
  <1>8. x \in RefreshRecord(Len(a)) /\ x.load = Len(loads) + 1
    <2>1. refreshes[r] \in RefreshRecord(Len(loads))
      BY <1>1, RefreshFacts
    <2> QED
      BY <1>3, <1>4, <1>6, <2>1 DEF RefreshRecord
  <1>9. /\ refreshes' \in Seq(RefreshRecord(Len(a))) /\ Len(refreshes') = Len(refreshes)
        /\ refreshes'[r] = x /\ \A q \in DOMAIN refreshes : q # r => refreshes'[q] = refreshes[q]
    BY <1>5, <1>7, <1>8, Replaced
  <1>10. ShownTyped' /\ owner' \in Nat /\ owner <= owner'
    <2>1. 1 \in 1 .. Pages /\ (typing /\ ~refreshes[r].resets) \in BOOLEAN
      BY GridAssumption
    <2> QED
      BY <1>1, <1>5, <2>1 DEF ShownTyped
  <1>11. LoadingTyped'
    BY <1>3, <1>5, <1>6, <1>9, <1>10, LoadingKept
  <1>12. RowsInv' /\ OwnerInv' /\ LoadedHasRows'
    BY <1>1, <1>3, <1>5, RowsKept, OwnerKept DEF LoadedHasRows
  <1>13. CutOffInv'
    <2>1. ASSUME NEW q \in DOMAIN refreshes
          PROVE  \/ refreshes'[q].load = refreshes[q].load
                 \/ ~loads'[refreshes'[q].load].aborted
      BY <1>3, <1>5, <1>8, <1>9, NewLoadFacts
    <2>2. \A l \in DOMAIN loads : loads'[l].aborted => loads[l].aborted
      BY <1>3, <1>5
    <2> QED
      BY <1>5, <1>9, <2>1, <2>2, CutOffKept
  <1> QED
    BY <1>10, <1>11, <1>12, <1>13, GridRepacked

(* A run of the first load goes on; it stays the present one if it was.          *)
LEMMA RunChanges ==
  ASSUME GridIInv, NEW i \in DOMAIN runs,
         NEW x \in RunRecord(Len(loads), Len(refreshes), owner),
         runs' = [runs EXCEPT ![i] = x], x.owner = runs[i].owner,
         x.at # "load", x.at = "follows" => x.followed # 0,
         core' \in {"blank", "loading", "loaded", "error"},
         x.at = "ended" \/ core' = core, runs[i].at # "ended",
         runs[i].owner # owner => core' = core,
         core' = "loaded" /\ core # "loaded" /\ ~byHand => shown # NoPage,
         x.at = "follows" /\ runs[i].owner = owner
           => ( /\ runs[i].at = "follows" \/ runs[i].followed < Len(refreshes)
                /\ runs[i].at \in {"load", "follows"}),
         mounted' = mounted, mounts' = mounts, owner' = owner, refreshes' = refreshes,
         loads' = loads, page' = page, shown' = shown, typing' = typing, byHand' = byHand
  PROVE  GridIInv'
  <1>1. ShownTyped /\ LoadingTyped /\ OwnerInv /\ RowsInv /\ CutOffInv /\ LoadedHasRows
    BY GridUnpacked
  <1>2. /\ runs' \in Seq(RunRecord(Len(loads), Len(refreshes), owner))
        /\ DOMAIN runs' = DOMAIN runs /\ runs'[i] = x
        /\ \A j \in DOMAIN runs : j # i => runs'[j] = runs[j]
    BY <1>1, Replaced DEF LoadingTyped
  <1>3. ShownTyped'
    BY <1>1 DEF ShownTyped
  <1>4. LoadingTyped'
    BY <1>1, <1>2 DEF LoadingTyped
  <1>5. /\ \A j \in DOMAIN runs : runs[j].owner = runs[i].owner => j = i
        /\ x.at # "ended" => (runs[i].owner = owner => core = "loading")
    BY <1>1 DEF OwnerInv
  <1>6. OwnerInv'
    <2>1. ASSUME NEW j \in DOMAIN runs
          PROVE  /\ runs'[j].at = "load" => runs'[j].load # NoLoad
                 /\ runs'[j].at = "follows" => runs'[j].followed # 0
                 /\ runs'[j].owner = owner /\ runs'[j].at # "ended" => core' = "loading"
                 /\ runs'[j].owner = runs[j].owner
      <3>1. CASE j = i
        BY <1>2, <1>5, <3>1
      <3>2. CASE j # i
        <4>1. runs'[j] = runs[j] /\ (runs[j].owner = owner => core' = core)
          BY <1>2, <1>5, <3>2
        <4> QED
          BY <1>1, <4>1 DEF OwnerInv
      <3> QED
        BY <3>1, <3>2
    <2>2. \A j, k \in DOMAIN runs : runs[j].owner = runs[k].owner => j = k
      BY <1>1 DEF OwnerInv
    <2> QED
      BY <1>2, <2>1, <2>2 DEF OwnerInv
  <1>7. CutOffInv'
    BY <1>1, <1>2 DEF CutOffInv
  <1>8. RowsInv' /\ LoadedHasRows'
    BY <1>1 DEF RowsInv, LoadedHasRows
  <1> QED
    BY <1>3, <1>4, <1>6, <1>7, <1>8, GridRepacked

(* The promise of a run settles.                                                 *)
LEMMA EndsIInv ==
  ASSUME GridIInv, NEW i \in DOMAIN runs, NEW state \in {"loaded", "error"},
         RunEnds(i, state), runs[i].at # "ended",
         state = "loaded" /\ runs[i].owner = owner /\ ~byHand => shown # NoPage,
         mounted' = mounted, mounts' = mounts, owner' = owner, refreshes' = refreshes,
         loads' = loads, page' = page, shown' = shown, typing' = typing, byHand' = byHand
  PROVE  GridIInv'
  <1>1. ShownTyped /\ LoadingTyped /\ OwnerInv
    BY GridUnpacked
  <1>2. PICK x : x = [runs[i] EXCEPT !.at = "ended"]
    OBVIOUS
  <1>3. /\ x \in RunRecord(Len(loads), Len(refreshes), owner) /\ x.at = "ended"
        /\ x.owner = runs[i].owner
    BY <1>1, <1>2, RunFacts DEF RunRecord
  <1>4. /\ runs' = [runs EXCEPT ![i] = x]
        /\ core' = IF runs[i].owner = owner THEN state ELSE core
    BY <1>2 DEF RunEnds
  <1>5. core \in {"blank", "loading", "loaded", "error"}
    BY <1>1 DEF ShownTyped
  <1> QED
    BY <1>3, <1>4, <1>5, RunChanges

(* A run that was cut off follows the latest refresh, or has followed it to its end. *)
LEMMA FollowsIInv ==
  ASSUME GridIInv, NEW i \in DOMAIN runs, Follows(i), runs[i].at \in {"load", "follows"},
         runs[i].followed = Len(refreshes) /\ runs[i].owner = owner /\ ~byHand
           => shown # NoPage,
         mounted' = mounted, mounts' = mounts, owner' = owner, refreshes' = refreshes,
         loads' = loads, page' = page, shown' = shown, typing' = typing, byHand' = byHand
  PROVE  GridIInv'
  <1>1. ShownTyped /\ LoadingTyped /\ OwnerInv
    BY GridUnpacked
  <1>2. CASE runs[i].followed = Len(refreshes)
    <2>1. RunEnds(i, "loaded")
      BY <1>2 DEF Follows
    <2> QED
      BY <1>2, <2>1, EndsIInv
  <1>3. CASE runs[i].followed # Len(refreshes)
    <2>1. /\ runs[i] \in RunRecord(Len(loads), Len(refreshes), owner)
          /\ runs[i].followed \in 0 .. Len(refreshes) /\ Len(refreshes) \in Nat
      BY <1>1, RunFacts
    <2>2. PICK x : x = [[runs[i] EXCEPT !.at = "follows"] EXCEPT !.followed = Len(refreshes)]
      OBVIOUS
    <2>3. /\ x \in RunRecord(Len(loads), Len(refreshes), owner) /\ x.at = "follows"
          /\ x.owner = runs[i].owner /\ x.followed = Len(refreshes)
      <3>1. Len(refreshes) \in 0 .. Len(refreshes)
        BY <2>1
      <3> QED
        BY <2>1, <2>2, <3>1 DEF RunRecord
    <2>4. runs' = [runs EXCEPT ![i] = x] /\ core' = core
      BY <1>3, <2>2 DEF Follows
    <2>5. x.followed # 0 /\ runs[i].followed < Len(refreshes)
      BY <1>3, <2>1, <2>3
    <2>6. core \in {"blank", "loading", "loaded", "error"}
      BY <1>1 DEF ShownTyped
    <2> QED
      BY <2>3, <2>4, <2>5, <2>6, RunChanges
  <1> QED
    BY <1>2, <1>3

(* What ends a run, or cuts it off, is what it waits for.                        *)
LEMMA SucceededHasRows ==
  ASSUME GridIInv, NEW l \in DOMAIN loads, Succeeded(l) PROVE shown # NoPage
  BY GridUnpacked DEF RowsInv, Succeeded

LEMMA FollowedHasRows ==
  ASSUME GridIInv, NEW i \in DOMAIN runs, runs[i].at = "follows", Landed(runs[i].followed),
         runs[i].followed = Len(refreshes), runs[i].owner = owner, ~byHand
  PROVE  shown # NoPage
  <1>1. ShownTyped /\ LoadingTyped /\ OwnerInv /\ RowsInv /\ CutOffInv
    BY GridUnpacked
  <1> DEFINE n == Len(refreshes)
             l == refreshes[n].load
  <1>2. n \in DOMAIN refreshes
    BY <1>1, RunFacts
  <1>3. l # NoLoad /\ l \notin Instances /\ ~LoadThrows(l)
    BY <1>2 DEF Landed, Waiting
  <1>4. l \in DOMAIN loads
    BY <1>1, <1>2, <1>3, RefreshFacts
  <1>5. ~loads[l].aborted
    BY <1>1, <1>3 DEF CutOffInv
  <1>6. loads[l].at = "loaded"
    BY <1>3, <1>4, <1>5 DEF Instances, LoadThrows, CutOff
  <1> QED
    BY <1>1, <1>4, <1>6 DEF RowsInv

LEMMA RunGoesOnIInv ==
  ASSUME GridIInv, NEW i \in DOMAIN runs, RunGoesOn(i)
  PROVE  GridIInv' /\ AbortsAreSilent
  <1>1. ShownTyped /\ LoadingTyped /\ OwnerInv /\ CutOffInv
    BY GridUnpacked
  <1>2. /\ mounted' = mounted /\ mounts' = mounts /\ owner' = owner /\ refreshes' = refreshes
        /\ loads' = loads /\ page' = page /\ shown' = shown /\ typing' = typing
        /\ byHand' = byHand
    BY DEF RunGoesOn
  <1>3. /\ runs[i].at = "load" => runs[i].load \in DOMAIN loads
        /\ runs[i].at = "follows" => runs[i].followed \in DOMAIN refreshes
        /\ DOMAIN loads = 1 .. Len(loads) /\ DOMAIN refreshes = 1 .. Len(refreshes)
    BY <1>1, RunFacts
  <1>4. ASSUME core' # "error" \/ core = "error" PROVE AbortsAreSilent
    BY <1>4 DEF AbortsAreSilent
  <1>5. ASSUME RunEnds(i, "loaded") \/ Follows(i) PROVE AbortsAreSilent
    BY <1>4, <1>5 DEF Follows, RunEnds
  <1>6. ASSUME RunEnds(i, "error"), NEW l \in Awaited(i) \ {NoLoad}, LoadThrows(l)
        PROVE  AbortsAreSilent
    <2>1. loads[l].at = "failed" /\ ~loads[l].aborted
      BY <1>6 DEF LoadThrows, CutOff
    <2>2. CASE runs[i].owner = owner
      BY <1>6, <2>1, <2>2 DEF AbortsAreSilent
    <2>3. CASE runs[i].owner # owner
      BY <1>4, <1>6, <2>3 DEF RunEnds
    <2> QED
      BY <2>2, <2>3
  <1>7. CASE runs[i].at = "load" /\ Succeeded(runs[i].load) /\ RunEnds(i, "loaded")
    <2>1. shown # NoPage
      BY <1>3, <1>7, SucceededHasRows
    <2> QED
      BY <1>2, <1>5, <1>7, <2>1, EndsIInv
  <1>8. CASE runs[i].at = "load" /\ CutOff(runs[i].load) /\ Follows(i)
    <2>1. ~(runs[i].followed = Len(refreshes) /\ runs[i].owner = owner /\ ~byHand)
      BY <1>1, <1>8 DEF CutOffInv, CutOff
    <2> QED
      BY <1>2, <1>5, <1>8, <2>1, FollowsIInv
  <1>9. CASE runs[i].at = "load" /\ LoadThrows(runs[i].load) /\ RunEnds(i, "error")
    <2>1. runs[i].load \in Awaited(i) \ {NoLoad}
      BY <1>3, <1>9 DEF Awaited, NoLoad
    <2> QED
      BY <1>2, <1>6, <1>9, <2>1, EndsIInv
  <1>10. CASE runs[i].at = "follows" /\ Landed(runs[i].followed) /\ Follows(i)
    <2>1. runs[i].followed = Len(refreshes) /\ runs[i].owner = owner /\ ~byHand => shown # NoPage
      BY <1>10, FollowedHasRows
    <2> QED
      BY <1>2, <1>5, <1>10, <2>1, FollowsIInv
  <1>11. CASE runs[i].at = "follows" /\ Threw(runs[i].followed) /\ RunEnds(i, "error")
    <2>1. refreshes[runs[i].followed].load \in Awaited(i) \ {NoLoad}
      BY <1>3, <1>11 DEF Awaited, Threw, Waiting
    <2>2. LoadThrows(refreshes[runs[i].followed].load)
      BY <1>11 DEF Threw
    <2> QED
      BY <1>2, <1>6, <1>11, <2>1, <2>2, EndsIInv
  <1> QED
    BY <1>7, <1>8, <1>9, <1>10, <1>11 DEF RunGoesOn

(* The load of the first load begins.                                            *)
LEMMA RunLoadsIInv ==
  ASSUME GridIInv, NEW i \in DOMAIN runs, RunLoads(i)
  PROVE  GridIInv'
  <1>1. ShownTyped /\ LoadingTyped /\ OwnerInv /\ CutOffInv /\ LoadedHasRows
    BY GridUnpacked
  <1>2. PICK a : a = Triggered
    OBVIOUS
  <1>3. /\ a \in Seq(LoadRecord) /\ Len(a) = Len(loads) + 1
        /\ DOMAIN a = (DOMAIN loads) \cup {Len(loads) + 1}
        /\ \A l \in DOMAIN loads : a[l] = loads[l]
        /\ a[Len(loads) + 1] = NewLoad
    BY <1>1, <1>2, TriggeredFacts
  <1>4. PICK x : x = [[[runs[i] EXCEPT !.at = "load"] EXCEPT !.load = Len(loads) + 1]
                        EXCEPT !.followed = Len(refreshes)]
    OBVIOUS
  <1>5. /\ loads' = a /\ runs' = [runs EXCEPT ![i] = x] /\ runs[i].at = "hooks"
        /\ mounted' = mounted /\ mounts' = mounts /\ core' = core /\ owner' = owner
        /\ refreshes' = refreshes /\ page' = page /\ shown' = shown
        /\ typing' = typing /\ byHand' = byHand
    BY <1>2, <1>4 DEF RunLoads, Due
  <1>6. /\ Len(loads) \in Nat /\ Len(refreshes) \in Nat /\ Len(a) \in Nat
        /\ refreshes \in Seq(RefreshRecord(Len(loads)))
        /\ runs \in Seq(RunRecord(Len(loads), Len(refreshes), owner))
    BY <1>1, <1>3, Indexed DEF LoadingTyped
  <1>7. /\ refreshes \in Seq(RefreshRecord(Len(a)))
        /\ runs \in Seq(RunRecord(Len(a), Len(refreshes), owner))
    <2>1. 0 .. Len(loads) \subseteq 0 .. Len(a)
      BY <1>3, <1>6
    <2>2. /\ RefreshRecord(Len(loads)) \subseteq RefreshRecord(Len(a))
          /\ RunRecord(Len(loads), Len(refreshes), owner)
               \subseteq RunRecord(Len(a), Len(refreshes), owner)
      BY <2>1 DEF RefreshRecord, RunRecord
    <2> QED
      BY <1>6, <2>2, SeqWidens
  <1>8. /\ x \in RunRecord(Len(a), Len(refreshes), owner)
        /\ x.at = "load" /\ x.load = Len(loads) + 1 /\ x.followed = Len(refreshes)
        /\ x.owner = runs[i].owner
    <2>1. runs[i] \in RunRecord(Len(loads), Len(refreshes), owner)
      BY <1>1, RunFacts
    <2>2. Len(loads) + 1 \in 0 .. Len(a) /\ Len(refreshes) \in 0 .. Len(refreshes)
      BY <1>3, <1>6
    <2> QED
      BY <1>4, <2>1, <2>2 DEF RunRecord
  <1>9. /\ runs' \in Seq(RunRecord(Len(a), Len(refreshes), owner))
        /\ DOMAIN runs' = DOMAIN runs /\ runs'[i] = x
        /\ \A j \in DOMAIN runs : j # i => runs'[j] = runs[j]
    BY <1>5, <1>7, <1>8, Replaced
  <1>10. ShownTyped'
    BY <1>1, <1>5 DEF ShownTyped
  <1>11. LoadingTyped'
    BY <1>3, <1>5, <1>7, <1>9 DEF LoadingTyped
  <1>12. OwnerInv'
    <2>1. \A j \in DOMAIN runs : runs'[j].owner = runs[j].owner
      BY <1>8, <1>9
    <2>2. x.load # NoLoad /\ (runs[i].owner = owner => core = "loading")
      BY <1>1, <1>5, <1>6, <1>8 DEF OwnerInv, NoLoad
    <2> QED
      BY <1>1, <1>5, <1>8, <1>9, <2>1, <2>2 DEF OwnerInv
  <1>13. RowsInv' /\ LoadedHasRows'
    BY <1>1, <1>3, <1>5, RowsKept DEF LoadedHasRows
  <1>14. CutOffInv'
    <2>1. ASSUME NEW j \in DOMAIN runs, j # i, runs[j].owner = owner,
                 runs[j].at \in {"load", "follows"}, ~byHand
          PROVE  /\ ~( /\ runs[j].at = "load" /\ runs[j].followed = Len(refreshes)
                       /\ a[runs[j].load].aborted)
                 /\ ~( /\ runs[j].at = "follows" \/ runs[j].followed < Len(refreshes)
                       /\ refreshes[Len(refreshes)].load # NoLoad
                       /\ a[refreshes[Len(refreshes)].load].aborted)
      <3> DEFINE n == Len(refreshes)
      <3>1. /\ runs[j].at = "load" /\ runs[j].followed = n => ~loads[runs[j].load].aborted
            /\ /\ runs[j].at = "follows" \/ runs[j].followed < n
               /\ refreshes[n].load # NoLoad
               => ~loads[refreshes[n].load].aborted
        BY <1>1, <2>1 DEF CutOffInv
      <3>2. /\ runs[j].at = "load" => runs[j].load \in DOMAIN loads
            /\ runs[j].at = "follows" \/ runs[j].followed < n => n \in DOMAIN refreshes
        BY <1>1, RunFacts
      <3>3. n \in DOMAIN refreshes /\ refreshes[n].load # NoLoad
              => refreshes[n].load \in DOMAIN loads
        BY <1>1, RefreshFacts
      <3> QED
        BY <1>3, <3>1, <3>2, <3>3
    <2>2. ~a[x.load].aborted /\ x.followed = Len(refreshes) /\ x.at = "load"
      BY <1>3, <1>8, NewLoadFacts
    <2>3. ASSUME NEW j \in DOMAIN runs, runs'[j].owner = owner,
                 runs'[j].at \in {"load", "follows"}, ~byHand
          PROVE  /\ ~( /\ runs'[j].at = "load" /\ runs'[j].followed = Len(refreshes)
                       /\ a[runs'[j].load].aborted)
                 /\ ~( /\ runs'[j].at = "follows" \/ runs'[j].followed < Len(refreshes)
                       /\ refreshes[Len(refreshes)].load # NoLoad
                       /\ a[refreshes[Len(refreshes)].load].aborted)
      <3>1. CASE j = i
        BY <1>6, <1>9, <2>2, <3>1
      <3>2. CASE j # i
        <4>1. runs'[j] = runs[j]
          BY <1>9, <3>2
        <4> QED
          BY <2>1, <2>3, <3>2, <4>1
      <3> QED
        BY <3>1, <3>2
    <2> QED
      BY <1>5, <1>9, <2>3 DEF CutOffInv
  <1> QED
    BY <1>10, <1>11, <1>12, <1>13, <1>14, GridRepacked

(* The error view comes up with the end of a run only.                           *)
LEMMA OthersAreSilent ==
  ASSUME core' # "error" \/ core' = core PROVE AbortsAreSilent
  BY DEF AbortsAreSilent

LEMMA GridNextIInv ==
  ASSUME GridIInv, [GridNext]_gvars
  PROVE  GridIInv' /\ AbortsAreSilent
  <1>1. CASE User
    <2>1. core' # "error" \/ core' = core
      BY <1>1 DEF User, Mount, Begins, Unmount, Reset, SetLimit, SetPage, Types, Searches,
                  AbortsByHand, Refresh
    <2> QED
      BY <1>1, <2>1, UserIInv, OthersAreSilent
  <1>2. ASSUME NEW l \in DOMAIN loads, LoadGoesOn(l) PROVE GridIInv' /\ AbortsAreSilent
    <2>1. core' = core
      BY <1>2 DEF LoadGoesOn, CollectsContext, Stores, Succeeds, Fails, LoadSettles
    <2> QED
      BY <1>2, <2>1, LoadGoesOnIInv, OthersAreSilent
  <1>3. ASSUME NEW r \in DOMAIN refreshes, RefreshLoads(r) PROVE GridIInv' /\ AbortsAreSilent
    BY <1>3, RefreshLoadsIInv, OthersAreSilent DEF RefreshLoads
  <1>4. ASSUME NEW i \in DOMAIN runs, RunLoads(i) PROVE GridIInv' /\ AbortsAreSilent
    BY <1>4, RunLoadsIInv, OthersAreSilent DEF RunLoads
  <1>5. ASSUME NEW i \in DOMAIN runs, RunGoesOn(i) PROVE GridIInv' /\ AbortsAreSilent
    BY <1>5, RunGoesOnIInv
  <1>6. CASE UNCHANGED gvars
    <2>1. /\ loads' = loads /\ refreshes' = refreshes /\ runs' = runs /\ core' = core
          /\ owner' = owner /\ shown' = shown /\ byHand' = byHand /\ mounted' = mounted
          /\ mounts' = mounts /\ page' = page /\ typing' = typing
      BY <1>6 DEF gvars
    <2>2. ShownTyped'
      BY <2>1, GridUnpacked DEF ShownTyped
    <2> QED
      BY <2>1, <2>2, TypesIInv, OthersAreSilent
  <1> QED
    BY <1>1, <1>2, <1>3, <1>4, <1>5, <1>6 DEF GridNext

(* The invariant holds of a grid through every mount, refresh, page change and   *)
(* abort, whenever and however its loads settle.                                 *)
THEOREM GridInvariance == GridSpec => []GridIInv
  <1>1. GridInit => GridIInv
    BY GridInitIInv
  <1>2. GridIInv /\ [GridNext]_gvars => GridIInv'
    BY GridNextIInv
  <1> QED
    BY <1>1, <1>2, PTL DEF GridSpec

(* A grid that says it is loaded has had rows, unless the consumer aborted; one  *)
(* that comes to show its error view has a load that failed of itself.           *)
THEOREM CoreIsRight == GridSpec => CoreSaysWhatIsSo
  <1>1. GridIInv => LoadedHasRows
    BY GridUnpacked
  <1>2. GridIInv /\ [GridNext]_gvars => AbortsAreSilent
    BY GridNextIInv
  <1>3. GridIInv' => LoadedHasRows'
    BY <1>1, PTL
  <1>4. GridIInv /\ GridIInv' /\ [GridNext]_gvars => [LoadedHasRows' /\ AbortsAreSilent]_gvars
    BY <1>2, <1>3
  <1> QED
    BY <1>4, GridInvariance, PTL DEF GridSpec, CoreSaysWhatIsSo
=============================================================================
