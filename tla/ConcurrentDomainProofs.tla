------------------------- MODULE ConcurrentDomainProofs -------------------------
(***************************************************************************)
(* Theorems about one Concurrent domain, its runs, its record and its      *)
(* mounter together, for every set of extensions and any number of         *)
(* requests.  The mounter keeps its own invariant, as                      *)
(* ExtensionMounterProofs shows, once every step of the domain is shown to *)
(* be one of the mounter's.                                                *)
(***************************************************************************)
EXTENDS ConcurrentDomain, OrderedSets, TLAPS

MP == INSTANCE ExtensionMounterProofs

-----------------------------------------------------------------------------
(* The mounter of the domain is the one the other module proves about.         *)
LEMMA SameRest == ASSUME NEW x PROVE M!Rest(x) = MP!Rest(x) /\ M!Rest(x) = RemoveFirst(mountSet, x)
  BY DEF M!Rest, MP!Rest, M!RemoveFirst, MP!RemoveFirst, RemoveFirst, M!RemoveAt, MP!RemoveAt,
         RemoveAt, M!SelectInSeq, MP!SelectInSeq, SelectInSeq, M!Min, MP!Min, Min

LEMMA SameOccupants == M!Occupants = MP!Occupants /\ M!Occupants = ToSet(mountSet)
  BY DEF M!Occupants, MP!Occupants, M!ToSet, MP!ToSet, ToSet

LEMMA SameMounterInv ==
  /\ M!Init <=> MP!Init
  /\ M!IInv <=> MP!IInv
  /\ M!MountedInv <=> MP!MountedInv
  BY SameOccupants
     DEF M!Init, MP!Init, M!MountedInv, MP!MountedInv, M!IInv, MP!IInv, M!TypeOK, MP!TypeOK,
         M!SlotInv, MP!SlotInv, M!OccupantsInv, MP!OccupantsInv, M!AttemptsInv, MP!AttemptsInv,
         M!StayingInv, MP!StayingInv, M!NoOrphanAfterDetach, MP!NoOrphanAfterDetach,
         M!IsInjective, MP!IsInjective, M!ToSet, MP!ToSet, M!Overtaken, MP!Overtaken

LEMMA SameMounterNext == [M!Next]_physical <=> [MP!Next]_(MP!mvars)
  <1>1. M!Next <=> MP!Next
    BY SameRest, SameOccupants
       DEF M!Next, MP!Next, M!AsksToMount, MP!AsksToMount, M!AsksToRelease, MP!AsksToRelease,
           M!Progress, MP!Progress, M!Release, MP!Release, M!StartsRelease, MP!StartsRelease,
           M!Unmounts, MP!Unmounts, M!LifecycleUnmounted, MP!LifecycleUnmounted,
           M!LeavesMountSet, MP!LeavesMountSet, M!TakesDestroy, MP!TakesDestroy,
           M!ReleaseOutcomes, MP!ReleaseOutcomes, M!WaitsFor, MP!WaitsFor, M!ReleaseSettles,
           MP!ReleaseSettles, M!MissesDestroy, MP!MissesDestroy, M!MountBegins, MP!MountBegins, M!SetsState, MP!SetsState,
           M!AttemptEnds, MP!AttemptEnds, M!DestroysContainer, MP!DestroysContainer,
           M!LifecycleMounted, MP!LifecycleMounted, M!LifecycleMountFails,
           MP!LifecycleMountFails, M!RootHolds, MP!RootHolds, M!Places, MP!Places,
           M!UndoesMount, MP!UndoesMount, M!MountUndone, MP!MountUndone, M!NothingToUndo,
           MP!NothingToUndo, M!MountGoesOn, MP!MountGoesOn, M!MountFails, MP!MountFails,
           M!Attach, MP!Attach, M!Detach, MP!Detach, M!DetachGoesOn, MP!DetachGoesOn,
           M!Forget, MP!Forget, M!Unregister, MP!Unregister, M!UnregisterEnds,
           MP!UnregisterEnds, M!Register, MP!Register
  <1> QED
    BY <1>1 DEF physical, MP!mvars

(* Whatever step the mounter takes keeps its invariants. *)
LEMMA MounterKeeps ==
  ASSUME M!IInv, M!MountedInv, [M!Next]_physical
  PROVE  M!IInv' /\ M!MountedInv'
  <1>1. MP!IInv /\ MP!MountedInv /\ [MP!Next]_(MP!mvars)
    BY SameMounterInv, SameMounterNext
  <1>2. MP!IInv' /\ MP!MountedInv'
    BY <1>1, MP!NextIInv, MP!NextMountedInv, DomainAssumption DEF MP!RemovableAssumption
  <1>3. (M!IInv' <=> MP!IInv') /\ (M!MountedInv' <=> MP!MountedInv')
    BY SameMounterInv, PTL
  <1> QED
    BY <1>2, <1>3

-----------------------------------------------------------------------------
(* The parts of the invariant, and what the mounter's say of single extensions. *)
LEMMA Facts ==
  ASSUME IInv
  PROVE  /\ M!IInv /\ M!MountedInv /\ TypeOK /\ RunOwnsTheMount /\ RunsAreAwaited
         /\ RecordsTheLatest /\ UrlShowsTheOccupants
         /\ \A c \in uncommanded : where[c] \in Settled
         /\ M!TypeOK /\ M!OccupantsInv /\ M!AttemptsInv
         /\ attempt \in [Subject -> {"none", "mounting", "placing", "undoing"}]
         /\ runs \in [Subject -> {"none", "waiting", "resumed", "mounting", "succeeded", "failed"}]
  BY DEF IInv, M!IInv, M!TypeOK, TypeOK, Settled

(* The requests so far, and those of them that are still open. *)
LEMMA CallFacts ==
  ASSUME IInv
  PROVE  /\ submitted \in Nat /\ submitted <= MaxCallers
         /\ request \in [1 .. submitted -> Request]
         /\ where \in [1 .. submitted -> {"run", "mount", "release", "succeeded", "failed"}]
         /\ record \in Seq(1 .. submitted) /\ accepted \in SUBSET (1 .. submitted)
         /\ uncommanded \in SUBSET (1 .. submitted)
         /\ Open \in SUBSET (1 .. submitted)
         /\ \A x : \A c \in At("run", x) \cup At("release", x) \cup At("mount", x) : c \in Open
  <1>1. /\ submitted \in Nat /\ submitted <= MaxCallers
        /\ request \in [1 .. submitted -> Request]
        /\ where \in [1 .. submitted -> {"run", "mount", "release", "succeeded", "failed"}]
        /\ record \in Seq(1 .. submitted) /\ accepted \in SUBSET (1 .. submitted)
        /\ uncommanded \in SUBSET (1 .. submitted)
    BY Facts, DomainAssumption DEF TypeOK, Settled
  <1> QED
    BY <1>1 DEF Open, At, Settled

-----------------------------------------------------------------------------
(* Every step of the domain is a step of the mounter that its rules allow: a    *)
(* run asks to mount only what is neither mounted nor on its way out, and an    *)
(* unmount releases only what no run mounts.                                    *)
LEMMA EvaluatingUsesMounter ==
  ASSUME IInv, NEW x \in Subject, RunEvaluates(x)
  PROVE  [M!Next]_physical
  <1>1. CASE Evaluates(x) = "mounting" /\ M!MountBegins(x)
    <2>1. releases[x] = "none" /\ x \notin M!Occupants
      BY <1>1 DEF Evaluates
    <2> QED
      BY <1>1, <2>1 DEF M!Next, M!AsksToMount
  <1> QED
    BY <1>1 DEF RunEvaluates

LEMMA ReleasingUsesMounter ==
  ASSUME IInv, NEW x \in Subject, runs[x] # "mounting", M!Release(x)
  PROVE  M!Next
  <1>1. attempt[x] = "none"
    BY Facts DEF RunOwnsTheMount
  <1> QED
    BY <1>1 DEF M!Next, M!AsksToRelease

LEMMA NextUsesMounter == ASSUME IInv, [Next]_vars PROVE [M!Next]_physical
  <1>1. ASSUME NEW r \in Request,
               Refused(submitted + 1, r) \/ Mount(submitted + 1, r) \/ Unmount(submitted + 1, r)
        PROVE  [M!Next]_physical
    <2>1. r.subject \in Subject
      BY DEF Request
    <2>2. CASE Refused(submitted + 1, r)
      BY <2>2 DEF Refused
    <2>3. CASE Mount(submitted + 1, r)
      BY <2>1, <2>3, EvaluatingUsesMounter DEF Mount
    <2>4. CASE Unmount(submitted + 1, r)
      BY <2>1, <2>4, ReleasingUsesMounter DEF Unmount, AwaitsRun
    <2> QED
      BY <1>1, <2>2, <2>3, <2>4
  <1>2. CASE (\E to \in {"open", "closed"} : Admission(to)) \/ UNCHANGED vars
             \/ (\E c \in Caller : SettleCommand(c))
    BY <1>2 DEF Admission, SettleCommand, vars
  <1>3. ASSUME NEW x \in Subject, RunGoesOn(x)  PROVE [M!Next]_physical
    BY <1>3, EvaluatingUsesMounter DEF RunGoesOn, M!Next, M!Progress
  <1>4. ASSUME NEW x \in Subject, RunSettles(x)  PROVE [M!Next]_physical
    BY <1>4, ReleasingUsesMounter DEF RunSettles, Settled
  <1>5. ASSUME NEW x \in Subject, ReleaseProceeds(x) \/ ReleaseEnds(x) \/ UnregisterEnds(x)
        PROVE  [M!Next]_physical
    BY <1>5 DEF ReleaseProceeds, ReleaseEnds, UnregisterEnds, M!Next, M!Progress, Settled
  <1>6. CASE Surroundings \/ DetachProceeds
    BY <1>6 DEF Surroundings, DetachProceeds, M!Next
  <1> QED
    BY <1>1, <1>2, <1>3, <1>4, <1>5, <1>6 DEF Next

-----------------------------------------------------------------------------
(* A request arrives: it is open from then on, and nobody else is concerned.    *)
LEMMA ArrivalFacts ==
  ASSUME IInv, NEW n, n = submitted + 1, NEW r \in Request,
         NEW place \in {"run", "mount", "release", "failed"}, Arrives(n, r, place)
  PROVE  /\ submitted' = n /\ n \in 1 .. MaxCallers
         /\ request' \in Seq(Request) /\ Len(request') = n /\ request'[n] = r
         /\ \A c \in 1 .. submitted : request'[c] = request[c] /\ where'[c] = where[c]
         /\ where' \in Seq({"run", "mount", "release"} \cup Settled) /\ Len(where') = n
         /\ where'[n] = place
         /\ uncommanded' \in SUBSET (1 .. n) /\ \A c \in uncommanded' : where'[c] \in Settled
         /\ Open' = Open \cup {n} /\ n \notin Open
         /\ \A p, x : At(p, x) \subseteq At(p, x)'
         /\ n \in At(place, r.subject)'
  <1>1. /\ n \in 1 .. MaxCallers /\ n \in Nat /\ submitted' = n /\ submitted \in Nat
        /\ request' = Append(request, r) /\ where' = Append(where, place)
    BY CallFacts DEF Arrives, Caller
  <1>2. /\ request \in Seq(Request) /\ Len(request) = submitted
        /\ where \in Seq({"run", "mount", "release"} \cup Settled) /\ Len(where) = submitted
    BY Facts DEF TypeOK
  <1>3. /\ request' \in Seq(Request) /\ Len(request') = n /\ request'[n] = r
        /\ \A c \in 1 .. submitted : request'[c] = request[c]
    BY <1>1, <1>2
  <1>4. /\ where' \in Seq({"run", "mount", "release"} \cup Settled) /\ Len(where') = n
        /\ where'[n] = place
        /\ \A c \in 1 .. submitted : where'[c] = where[c]
    <2>1. place \in {"run", "mount", "release"} \cup Settled
      BY DEF Settled
    <2> QED
      BY <1>1, <1>2, <2>1
  <1>5. 1 .. n = (1 .. submitted) \cup {n} /\ n \notin 1 .. submitted
    BY <1>1
  <1>6. uncommanded' = uncommanded \cup (IF place \in Settled THEN {n} ELSE {})
    <2>1. DOMAIN where' = 1 .. n
      BY <1>4
    <2> QED
      BY <1>4, <1>5, <2>1 DEF Arrives, SettlesCallers
  <1>7. uncommanded \in SUBSET (1 .. submitted) /\ \A c \in uncommanded : where[c] \in Settled
    BY Facts, CallFacts
  <1>8. uncommanded' \in SUBSET (1 .. n) /\ \A c \in uncommanded' : where'[c] \in Settled
    BY <1>4, <1>5, <1>6, <1>7
  <1>9. Open' = Open \cup {n} /\ n \notin Open
    BY <1>1, <1>4, <1>5, <1>6, <1>7 DEF Open
  <1>10. \A p, x : At(p, x) \subseteq At(p, x)'
    BY <1>1, <1>3, <1>4, <1>5 DEF At
  <1>11. n \in At(place, r.subject)'
    BY <1>1, <1>3, <1>4, <1>5 DEF At
  <1> QED
    BY <1>1, <1>3, <1>4, <1>8, <1>9, <1>10, <1>11

(* Requests settle: each of them is open until its settle command.              *)
LEMMA SettlementFacts ==
  ASSUME IInv, SettlesCallers, UNCHANGED <<submitted, request>>,
         NEW f \in [1 .. submitted -> {"run", "mount", "release", "succeeded", "failed"}],
         where' = f, \A c \in 1 .. submitted : where[c] \in Settled => f[c] = where[c]
  PROVE  /\ where' \in Seq({"run", "mount", "release"} \cup Settled) /\ Len(where') = submitted
         /\ uncommanded' \in SUBSET (1 .. submitted)
         /\ \A c \in uncommanded' : where'[c] \in Settled
         /\ Open' = Open
  <1>1. where' \in Seq({"run", "mount", "release"} \cup Settled) /\ Len(where') = submitted
    <2>1. {"run", "mount", "release", "succeeded", "failed"} = {"run", "mount", "release"} \cup Settled
      BY DEF Settled
    <2> QED
      BY <2>1, CallFacts
  <1>2. uncommanded' = uncommanded \cup {c \in 1 .. submitted : f[c] \in Settled /\ where[c] \notin Settled}
    <2>1. DOMAIN where' = 1 .. submitted
      OBVIOUS
    <2> QED
      BY <2>1 DEF SettlesCallers
  <1>3. uncommanded \in SUBSET (1 .. submitted) /\ \A c \in uncommanded : where[c] \in Settled
    BY Facts, CallFacts
  <1>4. uncommanded' \in SUBSET (1 .. submitted) /\ \A c \in uncommanded' : where'[c] \in Settled
    BY <1>2, <1>3
  <1>5. Open' = Open
    BY <1>2, <1>3 DEF Open
  <1> QED
    BY <1>1, <1>4, <1>5

(* Accepting a request moves the record of its extension to the end.            *)
LEMMA RecordSetFacts ==
  ASSUME IInv, NEW n, n = submitted + 1, NEW r \in Request
  PROVE  /\ RecordSet(n, r) \in Seq(1 .. n) /\ IsInjective(RecordSet(n, r))
         /\ ToSet(RecordSet(n, r)) =
              {c \in ToSet(record) : request[c].subject # r.subject} \cup {n}
  <1>0. PICK rest : rest = RemoveFirstMatch(record, LAMBDA d : request[d].subject = r.subject)
    OBVIOUS
  <1>1. /\ submitted \in Nat /\ record \in Seq(1 .. submitted) /\ IsInjective(record)
        /\ ToSet(record) \subseteq 1 .. submitted /\ n \notin 1 .. submitted /\ n \in 1 .. n
    BY Facts, CallFacts, ElementsTyped DEF RecordsTheLatest
  <1>2. /\ rest \in Seq(1 .. submitted) /\ IsInjective(rest)
        /\ ToSet(rest) = {c \in ToSet(record) : request[c].subject # r.subject}
    <2>1. CASE ~ \E i \in 1 .. Len(record) : request[record[i]].subject = r.subject
      <3>1. rest = record
        BY <1>0, <2>1 DEF RemoveFirstMatch
      <3> QED
        BY <1>1, <2>1, <3>1 DEF ToSet
    <2>2. CASE \E i \in 1 .. Len(record) : request[record[i]].subject = r.subject
      <3>1. PICK i \in 1 .. Len(record) : request[record[i]].subject = r.subject
        BY <2>2
      <3>2. \A c \in ToSet(record) : request[c].subject = r.subject => c = record[i]
        <4>1. record[i] \in ToSet(record)
          BY <1>1 DEF ToSet
        <4> QED
          BY <1>1, <3>1, <4>1, Facts DEF RecordsTheLatest
      <3>3. {j \in 1 .. Len(record) : request[record[j]].subject = r.subject} = {i}
        BY <1>1, <3>1, <3>2 DEF ToSet, IsInjective
      <3>4. Min({i}) = i
        BY <1>1 DEF Min
      <3>5. rest = RemoveAt(record, i)
        BY <1>0, <2>2, <3>3, <3>4 DEF RemoveFirstMatch, SelectInSeq
      <3>6. ToSet(record) \ {record[i]} = {c \in ToSet(record) : request[c].subject # r.subject}
        BY <3>1, <3>2
      <3> QED
        BY <1>1, <3>5, <3>6, RemoveAtFacts
    <2> QED
      BY <2>1, <2>2
  <1>3. rest \in Seq(1 .. n) /\ n \notin ToSet(rest)
    <2>1. 1 .. submitted \subseteq 1 .. n
      BY <1>1
    <2>2. rest \in Seq(1 .. n)
      BY <1>2, <2>1, SeqWidens
    <2> QED
      BY <1>1, <1>2, <2>2
  <1>4. /\ Append(rest, n) \in Seq(1 .. n) /\ IsInjective(Append(rest, n))
        /\ ToSet(Append(rest, n)) = ToSet(rest) \cup {n}
    BY <1>1, <1>2, <1>3, AppendFacts
  <1>5. RecordSet(n, r) = Append(rest, n)
    BY <1>0 DEF RecordSet
  <1> QED
    BY <1>2, <1>4, <1>5

(* With nothing recorded the projection is the mount set.                       *)
LEMMA ProjectEmpty ==
  ASSUME NEW rec, rec = <<>>  PROVE Project(rec) = mountSet
  <1> DEFINE step(f, i) ==
        IF i = 0 THEN mountSet
        ELSE LET r == request'[rec[i]] IN
             IF r.op = "unmount" THEN SelectSeq(f[i - 1], LAMBDA x : x # r.subject)
             ELSE IF r.subject \in ToSet(f[i - 1]) THEN f[i - 1]
             ELSE Append(f[i - 1], r.subject)
  <1>1. Len(rec) = 0 /\ 0 .. Len(rec) = {0}
    OBVIOUS
  <1>2. ASSUME NEW f  PROVE f = [i \in 0 .. Len(rec) |-> step(f, i)] <=> f = [i \in {0} |-> mountSet]
    BY <1>1
  <1> QED
    BY <1>1, <1>2 DEF Project

-----------------------------------------------------------------------------
(* A step that commands nothing, and after which the URL says as much as before. *)
LEMMA UrlKept ==
  ASSUME IInv, Open' = Open, UNCHANGED shown, silent' \in {silent, "untold"},
         mountSet' = mountSet \/ silent' = "untold" \/ Open # {}
  PROVE  UrlShowsTheOccupants'
  BY Facts DEF UrlShowsTheOccupants

(* A step that leaves the record, and the requests it speaks of, as they were.  *)
LEMMA RecordKept ==
  ASSUME IInv, UNCHANGED <<record, accepted>>, accepted \cap Open' = accepted \cap Open,
         \A c \in accepted : request'[c] = request[c]
  PROVE  RecordsTheLatest'
  BY Facts DEF RecordsTheLatest, IsInjective, ToSet

(* No run is left without the requests that wait for it.                        *)
LEMMA RunsKept ==
  ASSUME IInv, \A x \in Subject : runs'[x] # "none" => runs[x] # "none",
         \A x \in Subject : runs'[x] # "none" => At("run", x) \subseteq At("run", x)'
  PROVE  RunsAreAwaited'
  BY Facts DEF RunsAreAwaited

(* What a run does at its start, and again when a release is over.              *)
LEMMA EvaluatingKeeps ==
  ASSUME IInv, NEW x \in Subject, runs[x] \in {"none", "resumed"}, RunEvaluates(x)
  PROVE  /\ runs' \in [Subject -> {"none", "waiting", "resumed", "mounting"} \cup Settled]
         /\ runs'[x] # "none" /\ \A y \in Subject : y # x => runs'[y] = runs[y]
         /\ RunOwnsTheMount' /\ UNCHANGED mountSet
  <1>1. PICK to \in {"waiting", "mounting", "succeeded", "failed"} :
          /\ runs' = [runs EXCEPT ![x] = to]
          /\ \/ to # "mounting" /\ UNCHANGED <<attempt, mountSet>>
             \/ /\ to = "mounting" /\ UNCHANGED mountSet
                /\ \E way \in {"placing", "mounting"} : attempt' = [attempt EXCEPT ![x] = way]
    <2>1. Evaluates(x) \in {"waiting", "mounting", "succeeded", "failed"}
      BY DEF Evaluates
    <2>2. CASE Evaluates(x) = "mounting" /\ M!MountBegins(x)
      BY <2>1, <2>2 DEF RunEvaluates, SetsRun, M!MountBegins, physical
    <2>3. CASE ~(Evaluates(x) = "mounting" /\ M!MountBegins(x))
      BY <2>1, <2>3 DEF RunEvaluates, SetsRun, physical
    <2> QED
      BY <2>2, <2>3
  <1>2. /\ runs'[x] = to /\ \A y \in Subject : y # x => runs'[y] = runs[y]
        /\ runs' \in [Subject -> {"none", "waiting", "resumed", "mounting"} \cup Settled]
    BY <1>1, Facts DEF Settled
  <1>3. RunOwnsTheMount'
    <2>1. attempt[x] = "none"
      BY Facts DEF RunOwnsTheMount
    <2>2. /\ attempt'[x] # "none" <=> to = "mounting"
          /\ \A y \in Subject : y # x => attempt'[y] = attempt[y]
      BY <1>1, <2>1, Facts
    <2> QED
      BY <1>2, <2>2, Facts DEF RunOwnsTheMount
  <1> QED
    BY <1>1, <1>2, <1>3

-----------------------------------------------------------------------------
(* Requests *)

(* An accepted request is the one its extension's record holds from then on.    *)
LEMMA AcceptKeeps ==
  ASSUME IInv, NEW n, n = submitted + 1, NEW r \in Request,
         NEW place \in {"run", "mount", "release"}, Arrives(n, r, place), Accept(n, r)
  PROVE  /\ record' \in Seq(1 .. submitted') /\ accepted' \in SUBSET (1 .. submitted')
         /\ silent' \in {"never", "untold", "told"}
         /\ RecordsTheLatest' /\ UrlShowsTheOccupants'
  <1>1. /\ submitted' = n /\ request'[n] = r /\ Open' = Open \cup {n}
        /\ \A c \in 1 .. submitted : request'[c] = request[c]
    BY ArrivalFacts
  <1>2. /\ submitted \in Nat /\ accepted \in SUBSET (1 .. submitted)
        /\ 1 .. n = (1 .. submitted) \cup {n} /\ \A c \in 1 .. submitted : c < n
    BY CallFacts
  <1>3. /\ record' \in Seq(1 .. n) /\ IsInjective(record)'
        /\ ToSet(record)' = {c \in ToSet(record) : request[c].subject # r.subject} \cup {n}
        /\ accepted' = accepted \cup {n}
    <2>1. /\ record' = RecordSet(n, r) /\ accepted' = accepted \cup {n}
      BY DEF Accept
    <2>2. /\ IsInjective(record)' <=> IsInjective(RecordSet(n, r))
          /\ ToSet(record)' = ToSet(RecordSet(n, r))
      BY <2>1 DEF IsInjective, ToSet
    <2> QED
      BY <2>1, <2>2, RecordSetFacts
  <1>4. RecordsTheLatest'
    <2>1. ASSUME NEW c \in 1 .. submitted
          PROVE  c \in ToSet(record)' <=> c \in accepted' \cap Open' /\
                   \A d \in accepted' : request'[d].subject = request'[c].subject => d <= c
      <3>1. c # n /\ ~(n <= c) /\ request'[c] = request[c]
        BY <1>1, <1>2
      <3>2. c \in ToSet(record) <=> c \in accepted \cap Open /\
              \A d \in accepted : request[d].subject = request[c].subject => d <= c
        BY Facts DEF RecordsTheLatest
      <3>3. \A d \in accepted : request'[d] = request[d]
        BY <1>1, <1>2
      <3> QED
        BY <1>1, <1>3, <3>1, <3>2, <3>3
    <2>2. /\ n \in ToSet(record)' /\ n \in accepted' \cap Open'
          /\ \A d \in accepted' : d <= n
      BY <1>1, <1>2, <1>3
    <2>3. ToSet(record)' \subseteq 1 .. n
      BY <1>2, <1>3, ElementsTyped, CallFacts
    <2>4. accepted' \subseteq 1 .. n
      BY <1>2, <1>3
    <2>5. ToSet(record)' = {c \in accepted' \cap Open' : \A d \in accepted' :
                              request'[d].subject = request'[c].subject => d <= c}
      <3>1. ASSUME NEW c \in 1 .. n
            PROVE  c \in ToSet(record)' <=> c \in accepted' \cap Open' /\
                     \A d \in accepted' : request'[d].subject = request'[c].subject => d <= c
        BY <1>2, <2>1, <2>2
      <3> QED
        BY <2>3, <2>4, <3>1
    <2> QED
      BY <1>3, <2>5 DEF RecordsTheLatest
  <1>5. silent' \in {"never", "untold", "told"}
    BY Facts DEF Accept, Commands, TypeOK
  <1>6. UrlShowsTheOccupants'
    BY <1>1 DEF UrlShowsTheOccupants
  <1> QED
    BY <1>1, <1>2, <1>3, <1>4, <1>5, <1>6

LEMMA RefusedKeeps ==
  ASSUME IInv, M!IInv', M!MountedInv', NEW r \in Request, Refused(submitted + 1, r)
  PROVE  IInv'
  <1>0. PICK n : n = submitted + 1
    OBVIOUS
  <1>1. Arrives(n, r, "failed") /\ NotAccepted /\ UNCHANGED <<physical, runs>>
    BY <1>0 DEF Refused
  <1>2. /\ submitted' = n /\ n \in 1 .. MaxCallers
        /\ request' \in Seq(Request) /\ Len(request') = n
        /\ \A c \in 1 .. submitted : request'[c] = request[c]
        /\ where' \in Seq({"run", "mount", "release"} \cup Settled) /\ Len(where') = n
        /\ uncommanded' \in SUBSET (1 .. n) /\ \A c \in uncommanded' : where'[c] \in Settled
        /\ Open' = Open \cup {n}
        /\ \A x : At("run", x) \subseteq At("run", x)'
    BY <1>0, <1>1, ArrivalFacts
  <1>3. TypeOK'
    <2>1. M!TypeOK' /\ n \in 0 .. MaxCallers /\ admission' = admission
      BY <1>1, <1>2 DEF M!IInv, Arrives
    <2>2. 1 .. submitted \subseteq 1 .. n
      BY <1>0, CallFacts
    <2>3. record' \in Seq(1 .. n) /\ accepted' \in SUBSET (1 .. n)
      BY <1>1, <2>2, CallFacts, SeqWidens DEF NotAccepted
    <2> QED
      BY <1>1, <1>2, <2>1, <2>3, Facts DEF TypeOK, NotAccepted
  <1>4. RunOwnsTheMount' /\ RunsAreAwaited'
    BY <1>1, <1>2, RunsKept, Facts DEF RunOwnsTheMount, physical
  <1>5. RecordsTheLatest'
    BY <1>0, <1>1, <1>2, RecordKept, CallFacts DEF NotAccepted
  <1>6. UrlShowsTheOccupants'
    BY <1>2 DEF UrlShowsTheOccupants
  <1> QED
    BY <1>2, <1>3, <1>4, <1>5, <1>6 DEF IInv

(* A mount and an unmount that are accepted.                                    *)
LEMMA AcceptedKeeps ==
  ASSUME IInv, M!IInv', M!MountedInv', NEW r \in Request,
         NEW place \in {"run", "mount", "release"},
         Arrives(submitted + 1, r, place), Accept(submitted + 1, r),
         runs' \in [Subject -> {"none", "waiting", "resumed", "mounting"} \cup Settled],
         RunOwnsTheMount',
         \A x \in Subject : runs'[x] # "none" => runs[x] # "none" \/ (x = r.subject /\ place = "run")
  PROVE  IInv'
  <1>0. PICK n : n = submitted + 1
    OBVIOUS
  <1>1. /\ submitted' = n /\ n \in 1 .. MaxCallers
        /\ request' \in Seq(Request) /\ Len(request') = n
        /\ where' \in Seq({"run", "mount", "release"} \cup Settled) /\ Len(where') = n
        /\ uncommanded' \in SUBSET (1 .. n) /\ \A c \in uncommanded' : where'[c] \in Settled
        /\ \A x : At("run", x) \subseteq At("run", x)'
        /\ n \in At(place, r.subject)'
    BY <1>0, ArrivalFacts
  <1>2. /\ record' \in Seq(1 .. n) /\ accepted' \in SUBSET (1 .. n)
        /\ silent' \in {"never", "untold", "told"}
        /\ RecordsTheLatest' /\ UrlShowsTheOccupants'
    BY <1>0, <1>1, AcceptKeeps
  <1>3. TypeOK'
    <2>1. M!TypeOK' /\ n \in 0 .. MaxCallers /\ admission' \in {"open", "closed"}
      BY <1>1, Facts DEF M!IInv, Arrives, TypeOK
    <2> QED
      BY <1>1, <1>2, <2>1 DEF TypeOK
  <1>4. RunsAreAwaited'
    BY <1>1, Facts DEF RunsAreAwaited
  <1> QED
    BY <1>1, <1>2, <1>3, <1>4 DEF IInv

LEMMA MountKeeps ==
  ASSUME IInv, M!IInv', M!MountedInv', NEW r \in Request, Mount(submitted + 1, r)
  PROVE  IInv'
  <1>1. r.subject \in Subject
    BY DEF Request
  <1>2. Arrives(submitted + 1, r, "run") /\ Accept(submitted + 1, r)
    BY DEF Mount
  <1>3. CASE Joins(r.subject)
    <2>1. UNCHANGED <<runs, attempt>>
      BY <1>3 DEF Mount, physical
    <2>2. /\ runs' \in [Subject -> {"none", "waiting", "resumed", "mounting"} \cup Settled]
          /\ RunOwnsTheMount'
      BY <2>1, Facts DEF RunOwnsTheMount, TypeOK
    <2> QED
      BY <1>2, <2>1, <2>2, AcceptedKeeps
  <1>4. CASE ~Joins(r.subject)
    <2>1. runs[r.subject] = "none" /\ RunEvaluates(r.subject)
      BY <1>4 DEF Mount, Joins
    <2>2. /\ runs' \in [Subject -> {"none", "waiting", "resumed", "mounting"} \cup Settled]
          /\ RunOwnsTheMount' /\ \A y \in Subject : y # r.subject => runs'[y] = runs[y]
      BY <1>1, <2>1, EvaluatingKeeps
    <2> QED
      BY <1>2, <2>2, AcceptedKeeps
  <1> QED
    BY <1>3, <1>4

LEMMA UnmountKeeps ==
  ASSUME IInv, M!IInv', M!MountedInv', NEW r \in Request, Unmount(submitted + 1, r)
  PROVE  IInv'
  <1>1. PICK place \in {"mount", "release"} :
          /\ Arrives(submitted + 1, r, place) /\ Accept(submitted + 1, r)
          /\ UNCHANGED <<runs, attempt>>
    BY DEF Unmount, physical, M!Release
  <1>2. /\ runs' \in [Subject -> {"none", "waiting", "resumed", "mounting"} \cup Settled]
        /\ RunOwnsTheMount'
    BY <1>1, Facts DEF RunOwnsTheMount, TypeOK
  <1> QED
    BY <1>1, <1>2, AcceptedKeeps

(* The settle command of a request takes its record, and the last one tells the *)
(* router what is mounted.                                                      *)
LEMMA SettleCommandKeeps ==
  ASSUME IInv, M!IInv', M!MountedInv', NEW c \in Caller, SettleCommand(c)
  PROVE  IInv'
  <1>1. /\ c \in uncommanded /\ uncommanded' = uncommanded \ {c}
        /\ record' = RemoveFirst(record, c) /\ Commands
        /\ UNCHANGED <<physical, submitted, request, where, runs, admission, accepted>>
    BY DEF SettleCommand, RecordClear, requests
  <1>2. Open' = Open \ {c}
    <2>1. where[c] \in Settled
      BY <1>1, Facts
    <2> QED
      BY <1>1, <2>1 DEF Open
  <1>3. /\ record' \in Seq(1 .. submitted) /\ IsInjective(record)'
        /\ ToSet(record)' = ToSet(record) \ {c}
    <2>1. record \in Seq(1 .. submitted) /\ IsInjective(record)
      BY CallFacts, Facts DEF RecordsTheLatest
    <2>2. /\ IsInjective(record)' <=> IsInjective(RemoveFirst(record, c))
          /\ ToSet(record)' = ToSet(RemoveFirst(record, c))
      BY <1>1 DEF IsInjective, ToSet
    <2> QED
      BY <1>1, <2>1, <2>2, RemoveFirstFacts
  <1>4. RecordsTheLatest'
    BY <1>1, <1>2, <1>3, Facts DEF RecordsTheLatest
  <1>5. UrlShowsTheOccupants'
    <2>1. SUFFICES ASSUME Open' = {}  PROVE shown' = mountSet'
      BY DEF UrlShowsTheOccupants
    <2>2. ToSet(record)' = {}
      BY <1>4, <2>1 DEF RecordsTheLatest
    <2>3. record' = <<>>
      <3>1. ToSet(record') = {}
        BY <2>2 DEF ToSet
      <3> QED
        BY <1>3, <3>1, ElementsTyped
    <2>4. shown' = Project(record')
      BY <1>1 DEF Commands
    <2> QED
      BY <1>1, <2>3, <2>4, ProjectEmpty DEF physical
  <1>6. TypeOK'
    <2>1. M!TypeOK' /\ silent' \in {"never", "untold", "told"}
      BY <1>1, Facts DEF M!IInv, Commands, TypeOK
    <2> QED
      BY <1>1, <1>3, <2>1, Facts DEF TypeOK
  <1>7. RunOwnsTheMount' /\ RunsAreAwaited'
    <2>1. \A x : At("run", x)' = At("run", x)
      BY <1>1 DEF At
    <2> QED
      BY <1>1, <2>1, RunsKept, Facts DEF RunOwnsTheMount, physical
  <1>8. \A d \in uncommanded' : where'[d] \in Settled
    BY <1>1, Facts
  <1> QED
    BY <1>4, <1>5, <1>6, <1>7, <1>8 DEF IInv

-----------------------------------------------------------------------------
(* Runs and releases *)

(* A run goes on: it is watched, and mounts what somebody asked for.            *)
LEMMA RunGoesOnKeeps ==
  ASSUME IInv, M!IInv', M!MountedInv', NEW x \in Subject, RunGoesOn(x)
  PROVE  IInv'
  <1>1. UNCHANGED <<submitted, request, where, admission, record, shown, uncommanded, accepted,
                    silent>>
    BY DEF RunGoesOn, url
  <1>2. runs[x] # "none" /\ Open # {}
    <2>1. runs[x] # "none"
      BY DEF RunGoesOn
    <2> QED
      BY <2>1, Facts, CallFacts DEF RunsAreAwaited
  <1>3. /\ runs' \in [Subject -> {"none", "waiting", "resumed", "mounting"} \cup Settled]
        /\ RunOwnsTheMount' /\ \A y \in Subject : runs'[y] # "none" => runs[y] # "none"
    <2>1. CASE runs[x] = "resumed" /\ RunEvaluates(x)
      BY <1>2, <2>1, EvaluatingKeeps
    <2>2. CASE runs[x] = "mounting" /\ M!MountGoesOn(x) /\ UNCHANGED runs
      <3>1. /\ attempt'[x] # "none" /\ attempt[x] # "none"
            /\ \A y \in Subject : y # x => attempt'[y] = attempt[y]
        BY <2>2, Facts DEF M!MountGoesOn, M!LifecycleMounted, M!UndoesMount
      <3> QED
        BY <2>2, <3>1, Facts DEF RunOwnsTheMount, TypeOK
    <2>3. ASSUME NEW to \in Settled, M!Places(x) \/ M!MountFails(x), SetsRun(x, to)
          PROVE  /\ runs' \in [Subject -> {"none", "waiting", "resumed", "mounting"} \cup Settled]
                 /\ RunOwnsTheMount' /\ \A y \in Subject : runs'[y] # "none" => runs[y] # "none"
      <3>1. /\ attempt' = [attempt EXCEPT ![x] = "none"]
            /\ runs' = [runs EXCEPT ![x] = to] /\ to # "mounting"
        BY <2>3 DEF M!Places, M!MountFails, M!LifecycleMountFails, M!MountUndone,
                    M!NothingToUndo, M!AttemptEnds, SetsRun, Settled
      <3> QED
        BY <1>2, <3>1, Facts DEF RunOwnsTheMount, TypeOK
    <2> QED
      BY <2>1, <2>2, <2>3 DEF RunGoesOn, Settled
  <1>4. \A p, y : At(p, y)' = At(p, y)
    BY <1>1 DEF At
  <1>5. Open' = Open
    BY <1>1 DEF Open
  <1>6. TypeOK'
    BY <1>1, <1>3, Facts DEF TypeOK, M!IInv
  <1>7. RunsAreAwaited'
    BY <1>3, <1>4, RunsKept
  <1>8. RecordsTheLatest' /\ UrlShowsTheOccupants'
    BY <1>1, <1>2, <1>5, RecordKept, UrlKept
  <1> QED
    BY <1>1, <1>3, <1>6, <1>7, <1>8, Facts DEF IInv

(* A settled run leaves nobody waiting for it.                                  *)
LEMMA RunSettlesKeeps ==
  ASSUME IInv, M!IInv', M!MountedInv', NEW x \in Subject, RunSettles(x)
  PROVE  IInv'
  <1>1. /\ runs[x] \in Settled /\ runs' = [runs EXCEPT ![x] = "none"] /\ SettlesCallers
        /\ UNCHANGED <<submitted, request, admission, record, shown, accepted, silent>>
        /\ UNCHANGED <<attempt, mountSet>>
    BY DEF RunSettles, SetsRun, M!Release, physical
  <1> DEFINE f == [c \in 1 .. submitted |->
                     CASE c \in At("run", x)   -> runs[x]
                       [] c \in At("mount", x) ->
                            IF runs[x] = "failed" THEN "succeeded" ELSE "release"
                       [] OTHER -> where[c]]
  <1>2. where' = f
    BY DEF RunSettles
  <1>3. ASSUME NEW c \in 1 .. submitted
        PROVE  /\ f[c] \in {"run", "mount", "release", "succeeded", "failed"}
               /\ where[c] \in Settled \/ c \notin At("run", x) \cup At("mount", x) =>
                    f[c] = where[c]
    <2>1. f[c] = CASE c \in At("run", x)   -> runs[x]
                   [] c \in At("mount", x) ->
                        IF runs[x] = "failed" THEN "succeeded" ELSE "release"
                   [] OTHER -> where[c]
      OBVIOUS
    <2>2. /\ where[c] \in {"run", "mount", "release", "succeeded", "failed"}
          /\ c \in At("run", x) => where[c] = "run"
          /\ c \in At("mount", x) => where[c] = "mount"
      BY CallFacts DEF At
    <2>3. runs[x] \in {"succeeded", "failed"}
      BY <1>1 DEF Settled
    <2> HIDE DEF f
    <2>4. CASE c \in At("run", x)
      BY <2>1, <2>2, <2>3, <2>4 DEF Settled
    <2>5. CASE c \in At("mount", x)
      BY <2>1, <2>2, <2>5 DEF Settled
    <2>6. CASE c \notin At("run", x) /\ c \notin At("mount", x)
      BY <2>1, <2>2, <2>6
    <2> QED
      BY <2>4, <2>5, <2>6
  <1>4. f \in [1 .. submitted -> {"run", "mount", "release", "succeeded", "failed"}]
    BY <1>3
  <1> HIDE DEF f
  <1>5. /\ where' \in Seq({"run", "mount", "release"} \cup Settled) /\ Len(where') = submitted
        /\ uncommanded' \in SUBSET (1 .. submitted)
        /\ \A c \in uncommanded' : where'[c] \in Settled
        /\ Open' = Open
    BY <1>1, <1>2, <1>3, <1>4, SettlementFacts
  <1>6. /\ runs' \in [Subject -> {"none", "waiting", "resumed", "mounting"} \cup Settled]
        /\ RunOwnsTheMount'
    BY <1>1, Facts DEF RunOwnsTheMount, TypeOK, Settled
  <1>7. RunsAreAwaited'
    <2>1. ASSUME NEW y \in Subject, runs'[y] # "none"
          PROVE  runs[y] # "none" /\ At("run", y) \subseteq At("run", y)'
      <3>1. y # x /\ runs[y] # "none"
        BY <1>1, <2>1, Facts
      <3>2. ASSUME NEW c \in At("run", y)  PROVE c \in At("run", y)'
        <4>1. /\ c \in 1 .. submitted /\ where[c] = "run"
              /\ c \notin At("run", x) \cup At("mount", x)
          BY <3>1 DEF At
        <4> QED
          BY <1>1, <1>2, <1>3, <4>1 DEF At
      <3> QED
        BY <3>1, <3>2
    <2> QED
      BY <2>1, RunsKept
  <1>8. TypeOK'
    BY <1>1, <1>5, <1>6, Facts DEF TypeOK, M!IInv
  <1>9. RecordsTheLatest' /\ UrlShowsTheOccupants'
    BY <1>1, <1>5, RecordKept, UrlKept
  <1> QED
    BY <1>5, <1>6, <1>7, <1>8, <1>9 DEF IInv

(* A release that ends wakes the run that waits for it, or fails it.            *)
LEMMA ReleaseEndsKeeps ==
  ASSUME IInv, M!IInv', M!MountedInv', NEW x \in Subject, ReleaseEnds(x)
  PROVE  IInv'
  <1>1. PICK outcome \in Settled :
          /\ M!ReleaseSettles(x, outcome) /\ WakesRun(x, outcome)
          /\ where' = [c \in 1 .. submitted |->
                         IF c \in At("release", x) THEN outcome ELSE where[c]]
    BY DEF ReleaseEnds
  <1>2. /\ SettlesCallers
        /\ UNCHANGED <<submitted, request, admission, record, shown, accepted, silent>>
        /\ UNCHANGED <<attempt, mountSet>>
    BY <1>1 DEF ReleaseEnds, M!ReleaseSettles
  <1> DEFINE f == [c \in 1 .. submitted |-> IF c \in At("release", x) THEN outcome ELSE where[c]]
  <1>3. ASSUME NEW c \in 1 .. submitted
        PROVE  /\ f[c] \in {"run", "mount", "release", "succeeded", "failed"}
               /\ where[c] \in Settled \/ where[c] = "run" => f[c] = where[c]
    BY CallFacts DEF At, Settled
  <1>4. f \in [1 .. submitted -> {"run", "mount", "release", "succeeded", "failed"}] /\ where' = f
    BY <1>1, <1>3
  <1> HIDE DEF f
  <1>5. /\ where' \in Seq({"run", "mount", "release"} \cup Settled) /\ Len(where') = submitted
        /\ uncommanded' \in SUBSET (1 .. submitted)
        /\ \A c \in uncommanded' : where'[c] \in Settled
        /\ Open' = Open
    BY <1>2, <1>3, <1>4, SettlementFacts
  <1>6. /\ runs' \in [Subject -> {"none", "waiting", "resumed", "mounting"} \cup Settled]
        /\ RunOwnsTheMount' /\ \A y \in Subject : runs'[y] # "none" => runs[y] # "none"
    <2>1. \/ runs' = runs
          \/ \E to \in {"failed", "resumed"} : runs[x] = "waiting" /\ runs' = [runs EXCEPT ![x] = to]
      BY <1>1 DEF WakesRun
    <2> QED
      BY <1>2, <2>1, Facts DEF RunOwnsTheMount, TypeOK, Settled
  <1>7. \A y : At("run", y) \subseteq At("run", y)'
    BY <1>2, <1>3, <1>4 DEF At
  <1>8. RunsAreAwaited'
    BY <1>6, <1>7, RunsKept
  <1>9. TypeOK'
    BY <1>2, <1>5, <1>6, Facts DEF TypeOK, M!IInv
  <1>10. RecordsTheLatest' /\ UrlShowsTheOccupants'
    BY <1>2, <1>5, RecordKept, UrlKept
  <1> QED
    BY <1>5, <1>6, <1>8, <1>9, <1>10 DEF IInv

(* Steps that concern no request: an occupant that leaves unasked is noted.     *)
LEMMA BesideKeeps ==
  ASSUME IInv, M!IInv', M!MountedInv', UNCHANGED <<requests, record, shown, uncommanded, accepted>>,
         admission' \in {"open", "closed"}, UNCHANGED attempt, silent' \in {silent, "untold"},
         mountSet' = mountSet \/ silent' = "untold" \/ Open # {}
  PROVE  IInv'
  <1>1. UNCHANGED <<submitted, request, where, runs>>
    BY DEF requests
  <1>2. Open' = Open /\ \A p, y : At(p, y)' = At(p, y)
    BY <1>1 DEF Open, At
  <1>3. TypeOK'
    BY <1>1, Facts DEF TypeOK, M!IInv
  <1>4. RunOwnsTheMount'
    BY <1>1, Facts DEF RunOwnsTheMount
  <1>5. RunsAreAwaited'
    BY <1>1, <1>2, RunsKept
  <1>6. RecordsTheLatest' /\ UrlShowsTheOccupants'
    BY <1>1, <1>2, RecordKept, UrlKept
  <1> QED
    BY <1>1, <1>3, <1>4, <1>5, <1>6, Facts DEF IInv

LEMMA ReleaseProceedsKeeps ==
  ASSUME IInv, M!IInv', M!MountedInv', NEW x \in Subject, ReleaseProceeds(x)
  PROVE  IInv'
  <1>1. /\ UNCHANGED <<requests, admission, record, shown, uncommanded, accepted, attempt>>
        /\ silent' = IF mountSet' # mountSet /\ At("release", x) = {} THEN "untold" ELSE silent
    BY DEF ReleaseProceeds, M!LifecycleUnmounted, M!LeavesMountSet
  <1>2. At("release", x) # {} => Open # {}
    BY CallFacts
  <1> QED
    BY <1>1, <1>2, BesideKeeps, Facts DEF TypeOK

LEMMA SurroundingsKeep ==
  ASSUME IInv, M!IInv', M!MountedInv',
         Surroundings \/ DetachProceeds \/ (\E x \in Subject : UnregisterEnds(x))
           \/ (\E to \in {"open", "closed"} : Admission(to)) \/ UNCHANGED vars
  PROVE  IInv'
  <1>1. /\ UNCHANGED <<requests, url>> /\ UNCHANGED <<attempt, mountSet>>
        /\ admission' \in {admission, "open", "closed"}
    BY DEF Surroundings, DetachProceeds, UnregisterEnds, Admission, Undisturbed, vars, physical,
           M!Attach, M!Detach, M!Unregister, M!Register, M!DetachGoesOn, M!UnregisterEnds, M!Forget
  <1>2. admission' \in {"open", "closed"}
    BY <1>1, Facts DEF TypeOK
  <1> QED
    BY <1>1, <1>2, BesideKeeps DEF url

-----------------------------------------------------------------------------
LEMMA InitIInv == Init => IInv
  <1> SUFFICES ASSUME Init  PROVE IInv
    OBVIOUS
  <1>1. M!IInv /\ M!MountedInv
    <2>1. MP!Init
      BY SameMounterInv DEF Init
    <2>2. MP!IInv
      BY <2>1, MP!InitIInv, DomainAssumption DEF MP!RemovableAssumption
    <2>3. MP!MountedInv
      BY <2>1 DEF MP!Init, MP!MountedInv
    <2> QED
      BY <2>2, <2>3, SameMounterInv
  <1>2. TypeOK
    BY <1>1, DomainAssumption DEF Init, TypeOK, M!IInv
  <1>3. Open = {}
    BY DEF Init, Open
  <1>4. RunOwnsTheMount /\ RunsAreAwaited
    BY DEF Init, RunOwnsTheMount, RunsAreAwaited, M!Init
  <1>5. RecordsTheLatest /\ UrlShowsTheOccupants
    BY <1>3 DEF Init, RecordsTheLatest, UrlShowsTheOccupants, M!Init, IsInjective, ToSet
  <1> QED
    BY <1>1, <1>2, <1>4, <1>5 DEF Init, IInv

LEMMA NextIInv == ASSUME IInv, [Next]_vars PROVE IInv'
  <1>1. M!IInv' /\ M!MountedInv'
    BY NextUsesMounter, MounterKeeps, Facts
  <1>2. ASSUME NEW r \in Request,
               Refused(submitted + 1, r) \/ Mount(submitted + 1, r) \/ Unmount(submitted + 1, r)
        PROVE  IInv'
    BY <1>1, <1>2, RefusedKeeps, MountKeeps, UnmountKeeps
  <1>3. ASSUME NEW x \in Subject,
               RunGoesOn(x) \/ RunSettles(x) \/ ReleaseProceeds(x) \/ ReleaseEnds(x)
        PROVE  IInv'
    BY <1>1, <1>3, RunGoesOnKeeps, RunSettlesKeeps, ReleaseProceedsKeeps, ReleaseEndsKeeps
  <1>4. ASSUME NEW c \in Caller, SettleCommand(c)  PROVE IInv'
    BY <1>1, <1>4, SettleCommandKeeps
  <1> QED
    BY <1>1, <1>2, <1>3, <1>4, SurroundingsKeep DEF Next

-----------------------------------------------------------------------------
(* Runs, callers and record stay consistent, and with them the URL: IInv is an  *)
(* invariant.                                                                   *)
THEOREM Invariance == Spec => []IInv
  <1>1. Init => IInv
    BY InitIInv
  <1>2. IInv /\ [Next]_vars => IInv'
    BY NextIInv
  <1> QED
    BY <1>1, <1>2, PTL DEF Spec

(* Every variable holds values of its type.                                     *)
THEOREM TypeCorrect == Spec => []TypeOK
  <1>1. IInv => TypeOK
    BY Facts
  <1> QED
    BY <1>1, Invariance, PTL

(* With every request settled and every settle command issued, the URL shows    *)
(* what is mounted, unless an occupant left since without an action: the last   *)
(* command finds the record empty, and nothing is placed or undone after it     *)
(* without a request to wait for it.                                            *)
THEOREM UrlCatchesUp == Spec => []UrlShowsTheOccupants
  <1>1. IInv => UrlShowsTheOccupants
    BY Facts
  <1> QED
    BY <1>1, Invariance, PTL

(* The handlers keep to the mounter's terms: they never mount what is mounted   *)
(* or on its way out, and never release what a run mounts.                      *)
THEOREM MounterUsedWell == Spec => UsesTheMounterWell
  <1>1. Init => M!Init
    BY DEF Init
  <1>2. IInv /\ [Next]_vars => [M!Next]_(M!mvars)
    BY NextUsesMounter DEF physical, M!mvars
  <1> QED
    BY <1>1, <1>2, Invariance, PTL DEF Spec, UsesTheMounterWell, M!Spec

(* The record of an extension is the request accepted last for it, until that   *)
(* one's settle command: a request that settles late removes no other's.        *)
THEOREM RecordIsTheLatest == Spec => []RecordsTheLatest
  <1>1. IInv => RecordsTheLatest
    BY Facts
  <1> QED
    BY <1>1, Invariance, PTL

(* A run succeeds only with its extension mounted and staying, unless a release *)
(* crossed a mount of it.                                                       *)
THEOREM RunsMountWhatTheySay == Spec => SuccessMeansMounted
  <1>1. ASSUME IInv, [Next]_vars, NEW x \in Subject,
               runs[x] # "succeeded", runs'[x] = "succeeded"
        PROVE  /\ x \in M!Occupants'
               /\ x \notin crossed' => x \in alive' /\ releases'[x] = "none"
    <2> DEFINE Stays == x \in M!Occupants' /\ (x \notin crossed' => releases'[x] = "none")
    <2>1. M!OccupantsInv'
      BY <1>1, NextUsesMounter, MounterKeeps, Facts DEF M!IInv
    <2>2. SUFFICES Stays
      BY <2>1 DEF M!OccupantsInv, M!Overtaken
    <2>3. ASSUME NEW y \in Subject, RunEvaluates(y)  PROVE Stays
      <3>1. y = x /\ runs'[x] = Evaluates(x)
        BY <1>1, <2>3, Facts DEF RunEvaluates, SetsRun
      <3>2. x \in M!Occupants /\ releases[x] = "none" /\ UNCHANGED physical
        BY <1>1, <2>3, <3>1 DEF RunEvaluates, Evaluates, SetsRun
      <3> QED
        BY <3>2, SameOccupants DEF physical, M!Occupants, M!ToSet
    <2>4. ASSUME NEW r \in Request,
                 Refused(submitted + 1, r) \/ Mount(submitted + 1, r) \/ Unmount(submitted + 1, r)
          PROVE  Stays
      <3>1. r.subject \in Subject
        BY DEF Request
      <3> QED
        BY <1>1, <2>3, <2>4, <3>1 DEF Refused, Mount, Unmount
    <2>5. ASSUME NEW y \in Subject, RunGoesOn(y)  PROVE Stays
      <3>1. CASE M!Places(y) /\ SetsRun(y, "succeeded")
        <4>1. y = x
          BY <1>1, <3>1, Facts DEF SetsRun
        <4>2. /\ x \notin crossed => releases[x] = "none"
              /\ UNCHANGED <<releases, crossed>>
              /\ mountSet' = IF x \in M!Occupants THEN mountSet ELSE Append(mountSet, x)
          BY <1>1, <3>1, <4>1, Facts DEF M!Places, M!AttemptsInv
        <4>3. ToSet(Append(mountSet, x)) = ToSet(mountSet) \cup {x}
          <5>1. mountSet \in Seq(Subject)
            BY <1>1, Facts DEF M!TypeOK
          <5> QED
            BY <5>1, AppendFacts
        <4>4. M!Occupants' = ToSet(mountSet')
          BY DEF M!Occupants, M!ToSet, ToSet
        <4> QED
          BY <4>2, <4>3, <4>4, SameOccupants
      <3>2. CASE ~(M!Places(y) /\ SetsRun(y, "succeeded"))
        BY <1>1, <2>3, <2>5, <3>2, Facts DEF RunGoesOn, SetsRun
      <3> QED
        BY <3>1, <3>2
    <2>6. ASSUME NEW y \in Subject, RunSettles(y) \/ ReleaseEnds(y)  PROVE FALSE
      BY <1>1, <2>6, Facts DEF RunSettles, ReleaseEnds, SetsRun, WakesRun
    <2>7. UNCHANGED runs => FALSE
      BY <1>1
    <2>8. ASSUME NEW y \in Subject, ReleaseProceeds(y) \/ UnregisterEnds(y)  PROVE UNCHANGED runs
      BY <2>8 DEF ReleaseProceeds, UnregisterEnds, Undisturbed, requests
    <2>9. CASE \/ \E to \in {"open", "closed"} : Admission(to)
               \/ \E c \in Caller : SettleCommand(c)
               \/ Surroundings \/ DetachProceeds \/ UNCHANGED vars
      BY <2>7, <2>9 DEF Admission, SettleCommand, Surroundings, DetachProceeds, Undisturbed,
                        requests, vars
    <2> QED
      BY <1>1, <2>4, <2>5, <2>6, <2>7, <2>8, <2>9 DEF Next
  <1>2. IInv /\ [Next]_vars =>
          [\A x \in Subject : runs[x] # "succeeded" /\ runs'[x] = "succeeded" =>
             /\ x \in M!Occupants'
             /\ x \notin crossed' => x \in alive' /\ releases'[x] = "none"]_vars
    BY <1>1
  <1> QED
    BY <1>2, Invariance, PTL DEF Spec, SuccessMeansMounted

=============================================================================
