---------------------------- MODULE TemplateProofs ----------------------------
(***************************************************************************)
(* Theorems about upgrading, rolling back and adding templates, for every  *)
(* set of files and parts, all contents of the templates and any number of *)
(* operations, edits and faults.                                           *)
(***************************************************************************)
EXTENDS TemplateAddition, TLAPS

UpFields == {"stage", "round", "target", "clean", "conflicts", "seen", "snapshot", "todo",
             "left", "before", "since"}

(* The parts of the type invariant, of the upgrade and of the rest. *)
UpTyped ==
  /\ DOMAIN up = UpFields /\ DiskTyped(up.seen) /\ DiskTyped(up.before)
  /\ up.stage \in {"none", "review", "declined", "apply", "applied", "restore", "failed",
                   "rollback", "threw", "rolledback", "killed"}
  /\ up.round \in 0 .. MaxOperations /\ up.target \in Version
  /\ up.clean \cup up.conflicts \subseteq [path : File, part : Part \cup {Gone}]
  /\ DOMAIN up.snapshot \cup up.left \cup up.since \subseteq Path

GroundTyped ==
  /\ DiskTyped(disk)
  /\ edits \in 0 .. MaxEdits /\ faults \in 0 .. MaxFaults /\ excused \subseteq File \X Part

LEMMA TypesApart == TypeOK <=> UpTyped /\ GroundTyped
  BY DEF TypeOK, UpTyped, GroundTyped, UpFields

LEMMA Unpacked == IInv <=> UpTyped /\ GroundTyped /\ SnapshotInv /\ BackAsItWas /\ ReviewInv
  BY TypesApart DEF IInv

LEMMA Repacked ==
  ASSUME UpTyped', GroundTyped', SnapshotInv', BackAsItWas', ReviewInv' PROVE IInv'
  BY DEF IInv, TypeOK, UpTyped, GroundTyped, UpFields

(* Texts and contents. *)
LEMMA ContentFacts ==
  /\ \A c \in Content : c # Gone /\ c # Torn /\ \A p \in Part : c[p] \in Word \cup {Gone}
  /\ Blank \in Content /\ \A p \in Part : Blank[p] = Gone
  /\ \A w \in Word : w # Gone /\ w # Torn
  /\ Gone # Torn /\ Gone \notin Part /\ Mine \in Word /\ DeveloperText \in Part
  /\ Record \notin File /\ Torn \notin Provenance /\ Gone \notin Provenance
  /\ \A c \in Content, p \in Part, w \in Word \cup {Gone} :
       /\ [c EXCEPT ![p] = w] \in Content /\ [c EXCEPT ![p] = w][p] = w
       /\ \A q \in Part : q # p => [c EXCEPT ![p] = w][q] = c[q]
  BY TemplateAssumption DEF Content, Blank

(* What a path may hold. *)
Fits(f, content) ==
  IF f = Record THEN content \in Provenance \cup {Torn} ELSE content \in Content \cup {Gone, Torn}

LEMMA DiskFits ==
  ASSUME NEW d PROVE DiskTyped(d) <=> DOMAIN d = Path /\ \A f \in Path : Fits(f, d[f])
  BY ContentFacts DEF DiskTyped, Fits, Path

(* A write, and what it leaves alone. *)
LEMMA WritesFacts ==
  ASSUME GroundTyped, NEW f \in Path, NEW content, Fits(f, content), NEW ok \in BOOLEAN,
         Writes(f, content, ok)
  PROVE  /\ DiskTyped(disk') /\ edits' = edits /\ faults' \in 0 .. MaxFaults
         /\ \A g \in Path : g # f => disk'[g] = disk[g]
         /\ ok => disk'[f] = content
  <1>1. DOMAIN disk = Path /\ \A g \in Path : Fits(g, disk[g])
    BY DiskFits DEF GroundTyped
  <1>2. PICK c : /\ disk' = [disk EXCEPT ![f] = c]
                 /\ c \in IF ok THEN {content}
                          ELSE {disk[f]} \cup IF content = Gone THEN {} ELSE {Torn}
    BY DEF Writes
  <1>3. Fits(f, c) /\ (ok => c = content)
    <2>1. Fits(f, Torn)
      BY DEF Fits
    <2> QED
      BY <1>1, <1>2, <2>1
  <1>4. /\ DOMAIN disk' = Path /\ disk'[f] = c
        /\ \A g \in Path : g # f => disk'[g] = disk[g]
    BY <1>1, <1>2
  <1>5. DiskTyped(disk')
    BY <1>1, <1>3, <1>4, DiskFits
  <1>6. edits' = edits /\ faults' \in 0 .. MaxFaults
    <2>1. /\ edits' = edits /\ (ok \/ faults < MaxFaults)
          /\ faults' = IF ok THEN faults ELSE faults + 1
      BY DEF Writes
    <2> QED
      BY <2>1, BoundsAssumption DEF GroundTyped
  <1> QED
    BY <1>3, <1>4, <1>5, <1>6

(* Parts to be excused are parts of files. *)
LEMMA PartsTyped ==
  /\ \A e \in [path : File, part : Part \cup {Gone}] : PartsOf(e) \subseteq File \X Part
  /\ \A S : PartsIn(S) \subseteq File \X Part
  BY DEF PartsOf, PartsIn

(* Only the engine and the edits of the developer change what an upgrade knows. *)
LEMMA DeveloperIInv ==
  ASSUME IInv, NEW f \in File, NEW content \in Edited(disk[f]), DeveloperEdits(f, content)
  PROVE  IInv'
  <1>1. UpTyped /\ GroundTyped /\ SnapshotInv /\ BackAsItWas /\ ReviewInv
    BY Unpacked
  <1>2. DiskTyped(disk) /\ DOMAIN disk = Path /\ f \in Path /\ f # Record
    BY <1>1, ContentFacts DEF GroundTyped, DiskTyped, Path
  <1>3. content \in Content \cup {Gone}
    <2>1. disk[f] \in Content \cup {Gone, Torn}
      BY <1>2 DEF DiskTyped
    <2>2. ASSUME NEW c \in Content, NEW p \in Part PROVE [c EXCEPT ![p] = Mine] \in Content
      BY ContentFacts
    <2>3. CASE disk[f] \in {Gone, Torn}
      <3>1. [Blank EXCEPT ![DeveloperText] = Mine] \in Content
        BY <2>2, ContentFacts
      <3> QED
        BY <2>3, <3>1 DEF Edited
    <2>4. CASE disk[f] \notin {Gone, Torn}
      <3>1. /\ disk[f] \in Content
            /\ {DeveloperText} \cup {q \in Part : disk[f][q] # Gone} \subseteq Part
        BY <2>1, <2>4, ContentFacts
      <3> QED
        BY <2>2, <2>4, <3>1 DEF Edited
    <2> QED
      BY <2>3, <2>4
  <1>4. /\ disk' = [disk EXCEPT ![f] = content] /\ faults' = faults
        /\ edits' = edits + 1 /\ edits < MaxEdits
        /\ up' = [up EXCEPT !.since = @ \cup {f}]
        /\ AtRest \/ up.stage = "review"
        /\ excused' = excused \cup IF content = Gone THEN PartsIn({f})
                       ELSE {<<f, p>> : p \in {q \in Part : Text(content, q) # Text(disk[f], q)}}
    BY DEF DeveloperEdits
  <1>5. /\ DOMAIN disk' = Path /\ disk'[f] = content
        /\ \A g \in Path : g # f => disk'[g] = disk[g]
    BY <1>2, <1>4
  <1>6. /\ DOMAIN up' = UpFields /\ up'.since = up.since \cup {f}
        /\ up'.stage = up.stage /\ up'.round = up.round /\ up'.target = up.target
        /\ up'.clean = up.clean /\ up'.conflicts = up.conflicts /\ up'.seen = up.seen
        /\ up'.snapshot = up.snapshot /\ up'.todo = up.todo /\ up'.left = up.left
        /\ up'.before = up.before
    BY <1>1, <1>4 DEF UpTyped, UpFields
  <1>7. DiskTyped(disk')
    BY <1>2, <1>3, <1>5 DEF DiskTyped, Path
  <1>8. GroundTyped'
    <2>1. excused' \subseteq File \X Part
      BY <1>1, <1>4, PartsTyped DEF GroundTyped
    <2>2. edits' \in 0 .. MaxEdits
      BY <1>1, <1>4, BoundsAssumption DEF GroundTyped
    <2> QED
      BY <1>1, <1>4, <1>7, <2>1, <2>2 DEF GroundTyped
  <1>9. UpTyped'
    BY <1>1, <1>2, <1>6 DEF UpTyped
  <1>10. BackAsItWas'
    BY <1>1, <1>2, <1>5, <1>6 DEF BackAsItWas
  <1>11. ReviewInv'
    <2>1. disk'[Record] = disk[Record]
      BY <1>2, <1>5 DEF Path
    <2> QED
      BY <1>1, <1>6, <2>1 DEF ReviewInv, Legible, Identity, Recorded, Legacy
  <1>12. SnapshotInv'
    BY <1>1, <1>2, <1>4, <1>5, <1>6 DEF SnapshotInv, AtRest
  <1> QED
    BY <1>8, <1>9, <1>10, <1>11, <1>12, Repacked

-----------------------------------------------------------------------------
(* What the record says is read from the disk. *)
LEMMA RecordKept ==
  ASSUME disk'[Record] = disk[Record]
  PROVE  /\ Legible' = Legible /\ Identity' = Identity /\ Recorded' = Recorded
         /\ \A v : Legacy(v)' = Legacy(v)
  BY DEF Legible, Identity, Recorded, Legacy

(* The change set of a version, of what is on disk. *)
LEMMA ChangesFacts ==
  ASSUME NEW v \in Version, OneTemplate(v), NEW e \in Changes(v)
  PROVE  /\ e \in [path : File, part : Part \cup {Gone}]
         /\ e.part = Gone => e.path \notin Shared[v]
         /\ e.part # Gone => /\ e.path \in Shared[v] /\ ~Legacy(v)
                             /\ e.part = <<Identity, e.part[2]>>
  <1>1. CASE \E f \in File \ Shared[v] : e = Entry(f, Gone)
    BY <1>1 DEF Entry
  <1>2. CASE \E f \in RegionsCompared(v) : \E k \in Owned[v][f] : e = Entry(f, <<Identity, k>>)
    <2>1. PICK f \in RegionsCompared(v) : \E k \in Owned[v][f] : e = Entry(f, <<Identity, k>>)
      BY <1>2
    <2>2. PICK k \in Owned[v][f] : e = Entry(f, <<Identity, k>>)
      BY <2>1
    <2>3. f \in Shared[v] /\ ~Legacy(v) /\ f \in File
      BY <2>1, TemplateAssumption DEF RegionsCompared
    <2>4. <<Identity, k>> \in Part
      <3>1. Identity = Declared[v] \/ Identity = Repo
        BY DEF OneTemplate, Legacy
      <3>2. {<<Declared[v], k>>, <<Repo, k>>} \subseteq Part
        BY <2>3, TemplateAssumption
      <3> QED
        BY <3>1, <3>2
    <2>5. e.path = f /\ e.part = <<Identity, k>> /\ e \in [path : File, part : Part \cup {Gone}]
      BY <2>2, <2>3, <2>4 DEF Entry
    <2> QED
      BY <2>3, <2>4, <2>5, ContentFacts
  <1>3. \/ \E f \in File \ Shared[v] : e = Entry(f, Gone)
        \/ \E f \in RegionsCompared(v) : \E k \in Owned[v][f] : e = Entry(f, <<Identity, k>>)
    <2>1. \/ \E f \in File \ Shared[v] : e = Entry(f, Gone)
          \/ \E fk \in UNION {{<<f, k>> : k \in Owned[v][f]} : f \in RegionsCompared(v)} :
               e = Entry(fk[1], <<Identity, fk[2]>>)
      BY DEF Changes
    <2>2. ASSUME NEW fk \in UNION {{<<f, k>> : k \in Owned[v][f]} : f \in RegionsCompared(v)},
                 e = Entry(fk[1], <<Identity, fk[2]>>)
          PROVE  \E f \in RegionsCompared(v) : \E k \in Owned[v][f] : e = Entry(f, <<Identity, k>>)
      <3>1. PICK f \in RegionsCompared(v) : fk \in {<<f, k>> : k \in Owned[v][f]}
        OBVIOUS
      <3>2. PICK k \in Owned[v][f] : fk = <<f, k>>
        BY <3>1
      <3>3. fk[1] = f /\ fk[2] = k
        BY <3>2
      <3> QED
        BY <2>2, <3>3
    <2> QED
      BY <2>1, <2>2
  <1> QED
    BY <1>1, <1>2, <1>3

(* Where disk, and what is counted, stay. *)
LEMMA GroundKept ==
  ASSUME GroundTyped, disk' = disk, edits' = edits, faults' \in 0 .. MaxFaults,
         excused' \subseteq File \X Part
  PROVE  GroundTyped'
  BY DEF GroundTyped

LEMMA ComputesIInv == ASSUME IInv, NEW v \in Version, Computes(v) PROVE IInv'
  <1>1. UpTyped /\ GroundTyped /\ SnapshotInv /\ BackAsItWas /\ ReviewInv
    BY Unpacked
  <1>2. /\ disk' = disk /\ edits' = edits /\ faults' = faults /\ excused' = excused
        /\ up.round < MaxOperations /\ Legible /\ OneTemplate(v)
        /\ up' = [up EXCEPT !.stage = "review", !.round = @ + 1, !.target = v, !.seen = disk,
                            !.clean = {e \in Changes(v) : ~Modified(e)},
                            !.conflicts = {e \in Changes(v) : Modified(e)}]
    BY DEF Computes
  <1>3. /\ DOMAIN up' = UpFields /\ up'.stage = "review" /\ up'.round = up.round + 1
        /\ up'.target = v /\ up'.seen = disk /\ up'.clean = {e \in Changes(v) : ~Modified(e)}
        /\ up'.conflicts = {e \in Changes(v) : Modified(e)}
        /\ up'.snapshot = up.snapshot /\ up'.left = up.left
        /\ up'.before = up.before /\ up'.since = up.since
    BY <1>1, <1>2 DEF UpTyped, UpFields
  <1>4. GroundTyped'
    BY <1>1, <1>2, GroundKept DEF GroundTyped
  <1>5. UpTyped'
    <2>1. up'.round \in 0 .. MaxOperations
      BY <1>1, <1>2, <1>3, BoundsAssumption DEF UpTyped
    <2>2. DiskTyped(up'.seen) /\ DiskTyped(up'.before)
      BY <1>1, <1>3 DEF UpTyped, GroundTyped
    <2>3. up'.clean \cup up'.conflicts \subseteq [path : File, part : Part \cup {Gone}]
      BY <1>2, <1>3, ChangesFacts
    <2> QED
      BY <1>1, <1>3, <2>1, <2>2, <2>3 DEF UpTyped
  <1>6. ReviewInv'
    <2>1. /\ Legible' /\ disk'[Record] = up'.seen[Record] /\ Identity' = Identity
          /\ Recorded' = Recorded /\ Legacy(v)' = Legacy(v)
      BY <1>2, <1>3, RecordKept
    <2>2. ASSUME NEW e \in up'.clean
          PROVE  IF e.part = Gone
                 THEN /\ e.path \notin Shared[v]
                      /\ disk[e.path] \in {Gone, Template[Recorded][e.path]}
                 ELSE /\ e.path \in Shared[v] /\ ~Legacy(v) /\ e.part = <<Identity, e.part[2]>>
                      /\ \/ disk[e.path] = Gone
                         \/ Region(disk[e.path], e.part[1], e.part[2])
                              = Region(Template[Recorded][e.path], e.part[1], e.part[2])
      <3>1. e \in Changes(v) /\ ~Modified(e)
        BY <1>3, <2>2
      <3>2. /\ e.part = Gone => e.path \notin Shared[v]
            /\ e.part # Gone => /\ e.path \in Shared[v] /\ ~Legacy(v)
                                /\ e.part = <<Identity, e.part[2]>>
        BY <1>2, <3>1, ChangesFacts
      <3> QED
        BY <3>1, <3>2 DEF Modified
    <2> QED
      BY <1>2, <1>3, <2>1, <2>2 DEF ReviewInv
  <1>7. SnapshotInv' /\ BackAsItWas'
    BY <1>3 DEF SnapshotInv, BackAsItWas
  <1> QED
    BY <1>4, <1>5, <1>6, <1>7, Repacked

LEMMA DeclinesIInv == ASSUME IInv, Declines PROVE IInv'
  <1>1. UpTyped /\ GroundTyped
    BY Unpacked
  <1>2. /\ disk' = disk /\ edits' = edits /\ faults' = faults /\ excused' = excused
        /\ up' = [up EXCEPT !.stage = "declined"]
    BY DEF Declines
  <1>3. /\ DOMAIN up' = UpFields /\ up'.stage = "declined" /\ up'.round = up.round
        /\ up'.target = up.target /\ up'.clean = up.clean /\ up'.conflicts = up.conflicts
        /\ up'.seen = up.seen /\ up'.snapshot = up.snapshot /\ up'.left = up.left
        /\ up'.before = up.before /\ up'.since = up.since
    BY <1>1, <1>2 DEF UpTyped, UpFields
  <1>4. GroundTyped' /\ UpTyped'
    BY <1>1, <1>2, <1>3 DEF UpTyped, GroundTyped
  <1>5. ReviewInv' /\ SnapshotInv' /\ BackAsItWas'
    BY <1>3 DEF ReviewInv, SnapshotInv, BackAsItWas
  <1> QED
    BY <1>4, <1>5, Repacked

LEMMA ApprovesIInv == ASSUME IInv, Approves PROVE IInv'
  <1>1. UpTyped /\ GroundTyped /\ ReviewInv
    BY Unpacked
  <1>2. /\ disk' = disk /\ edits' = edits /\ faults' = faults /\ up.stage = "review"
        /\ excused' = excused \cup UNION {PartsOf(e) : e \in up.conflicts}
        /\ up' = [up EXCEPT !.stage = "apply", !.todo = up.clean, !.left = {}, !.since = {},
                            !.snapshot = [f \in Affected |-> disk[f]], !.before = disk]
    BY DEF Approves
  <1>3. /\ DOMAIN up' = UpFields /\ up'.stage = "apply" /\ up'.round = up.round
        /\ up'.target = up.target /\ up'.clean = up.clean /\ up'.conflicts = up.conflicts
        /\ up'.seen = up.seen /\ up'.snapshot = [f \in Affected |-> disk[f]] /\ up'.left = {}
        /\ up'.before = disk /\ up'.since = {} /\ up'.todo = up.clean
    BY <1>1, <1>2 DEF UpTyped, UpFields
  <1>4. Affected \subseteq Path
    BY <1>1 DEF UpTyped, Affected, Path
  <1>5. Affected' = Affected
    BY <1>3 DEF Affected
  <1>6. GroundTyped'
    <2>1. excused' \subseteq File \X Part
      BY <1>1, <1>2, PartsTyped DEF GroundTyped, UpTyped
    <2> QED
      BY <1>1, <1>2, <2>1, GroundKept DEF GroundTyped
  <1>7. UpTyped'
    BY <1>1, <1>3, <1>4 DEF UpTyped, GroundTyped
  <1>8. ReviewInv'
    BY <1>1, <1>2, <1>3 DEF ReviewInv, Legible, Identity, Recorded, Legacy
  <1>9. SnapshotInv'
    BY <1>2, <1>3, <1>5 DEF SnapshotInv
  <1>10. BackAsItWas'
    BY <1>3 DEF BackAsItWas
  <1> QED
    BY <1>6, <1>7, <1>8, <1>9, <1>10, Repacked

-----------------------------------------------------------------------------
(* The kinds of steps between two stages: what the upgrade knows beside its stage *)
(* and what is to do stays.                                                       *)
SameUp ==
  /\ DOMAIN up' = DOMAIN up /\ up'.round = up.round /\ up'.target = up.target
  /\ up'.clean = up.clean /\ up'.conflicts = up.conflicts /\ up'.seen = up.seen
  /\ up'.snapshot = up.snapshot /\ up'.before = up.before

LEMMA UpKept ==
  ASSUME UpTyped, SameUp, up'.left \subseteq Path, up'.since \subseteq Path,
         up'.stage \in {"applied", "apply", "restore", "failed", "rollback", "threw",
                        "rolledback", "killed"}
  PROVE  UpTyped'
  BY DEF UpTyped, SameUp

(* What the entry of a change set leaves in a file fits it. *)
LEMMA RegionTyped ==
  ASSUME NEW c \in Content \cup {Gone, Torn}, NEW i, NEW k, <<i, k>> \in Part
  PROVE  Region(c, i, k) \in Word \cup {Gone}
  BY ContentFacts DEF Region, Text

LEMMA TemplateTyped ==
  ASSUME NEW v \in Version, NEW f \in File
  PROVE  Template[v][f] \in Content \cup {Gone}
  BY TemplateAssumption

LEMMA AppliedTyped ==
  ASSUME IInv, up.stage = "apply", NEW e \in up.clean
  PROVE  /\ Applied(e) \in Content \cup {Gone, Torn}
         /\ e.path \in File /\ e.path # Record
         /\ e.part # Gone => e.part \in Part /\ e.part = <<Identity, e.part[2]>>
  <1>1. UpTyped /\ GroundTyped /\ ReviewInv
    BY Unpacked
  <1>2. /\ e.path \in File /\ e.part \in Part \cup {Gone} /\ up.target \in Version
        /\ disk[e.path] \in Content \cup {Gone, Torn}
        /\ Template[up.target][e.path] \in Content \cup {Gone}
    BY <1>1, TemplateTyped DEF UpTyped, GroundTyped, DiskTyped
  <1>3. e.part # Gone => e.part = <<Identity, e.part[2]>>
    BY <1>1 DEF ReviewInv
  <1>4. CASE e.part = Gone
    BY <1>2, <1>4, ContentFacts DEF Applied
  <1>5. CASE e.part # Gone
    <2>1. e.part \in Part /\ <<e.part[1], e.part[2]>> = e.part
      BY <1>2, <1>3, <1>5
    <2>2. PICK text \in Word \cup {Gone} :
            text = Region(Template[up.target][e.path], e.part[1], e.part[2])
      BY <1>2, <2>1, RegionTyped
    <2>3. Applied(e) = ReplaceRegion(disk[e.path], e.part, text)
      BY <1>5, <2>2 DEF Applied
    <2>4. PICK old \in Content : old = IF disk[e.path] \in Content THEN disk[e.path] ELSE Blank
      BY ContentFacts
    <2>5. disk[e.path] # Torn => Applied(e) = [old EXCEPT ![e.part] = text]
      BY <1>2, <2>3, <2>4, ContentFacts DEF ReplaceRegion
    <2>6. disk[e.path] = Torn => Applied(e) = Torn
      BY <2>3 DEF ReplaceRegion
    <2>7. [old EXCEPT ![e.part] = text] \in Content
      BY <2>1, <2>2, <2>4, ContentFacts
    <2> QED
      BY <1>2, <1>3, <2>1, <2>5, <2>6, <2>7, ContentFacts
  <1> QED
    BY <1>2, <1>3, <1>4, <1>5, ContentFacts

LEMMA RecoversFacts ==
  ASSUME UpTyped, up' = Recovers
  PROVE  /\ SameUp /\ up'.stage = "restore" /\ up'.todo = DOMAIN up.snapshot
         /\ up'.left = up.left /\ up'.since = up.since
  BY DEF Recovers, UpTyped, UpFields, SameUp

(* A write of what the snapshot covers, that goes on or begins to restore. *)
LEMMA AppliesKeeps ==
  ASSUME IInv, up.stage = "apply", NEW f \in Affected, NEW ok \in BOOLEAN, GroundTyped',
         \A g \in Path : g # f => disk'[g] = disk[g],
         SameUp, up'.left = up.left, up'.since = up.since,
         \/ up'.stage = "apply" /\ up'.todo \subseteq up.todo /\ f # Record
         \/ up'.stage = "restore" /\ up'.todo = DOMAIN up.snapshot
         \/ up'.stage = "applied"
  PROVE  IInv'
  <1>1. UpTyped /\ SnapshotInv /\ ReviewInv
    BY Unpacked
  <1>2. UpTyped'
    BY <1>1, UpKept DEF UpTyped
  <1>3. SnapshotInv'
    <2>1. Affected' = Affected
      BY DEF Affected, SameUp
    <2> QED
      BY <1>1, <2>1 DEF SnapshotInv, SameUp
  <1>4. BackAsItWas'
    BY DEF BackAsItWas
  <1>5. ReviewInv'
    <2>1. CASE up'.stage = "apply"
      <3>1. disk'[Record] = disk[Record]
        BY <2>1 DEF Path
      <3>2. /\ Legible' = Legible /\ Identity' = Identity /\ Recorded' = Recorded
            /\ \A v : Legacy(v)' = Legacy(v)
        BY <3>1, RecordKept
      <3>3. /\ up'.target = up.target /\ up'.clean = up.clean /\ up'.seen = up.seen
        BY DEF SameUp
      <3>4. Legacy(up.target)' = Legacy(up.target)
        BY <3>2, <3>3
      <3> QED
        BY <1>1, <2>1, <3>1, <3>2, <3>3, <3>4 DEF ReviewInv, Legacy
    <2>2. CASE up'.stage # "apply"
      BY <2>2 DEF ReviewInv
    <2> QED
      BY <2>1, <2>2
  <1> QED
    BY <1>2, <1>3, <1>4, <1>5, Repacked

(* The next entry, or the next file. *)
LEMMA FirstFacts == ASSUME NEW S, S # {} PROVE First(S) \in S
  BY DEF First

LEMMA AppliesEntryIInv ==
  ASSUME IInv, NEW ok \in BOOLEAN, AppliesEntry(ok) PROVE IInv'
  <1>1. UpTyped /\ GroundTyped /\ SnapshotInv /\ up.stage = "apply" /\ up.todo # {}
    BY Unpacked DEF AppliesEntry
  <1>2. PICK e \in up.todo : /\ Writes(e.path, Applied(e), ok)
                             /\ up' = IF ok THEN [up EXCEPT !.todo = @ \ {e}] ELSE Recovers
                             /\ excused' = excused
    BY <1>1 DEF AppliesEntry
  <1>3. e \in up.clean /\ up.todo \subseteq up.clean
    BY <1>1, <1>2 DEF SnapshotInv
  <1>4. /\ Applied(e) \in Content \cup {Gone, Torn} /\ e.path \in File /\ e.path # Record
        /\ e.path \in Path /\ e.path \in Affected
    BY <1>1, <1>3, AppliedTyped DEF Path, Affected
  <1>5. Fits(e.path, Applied(e))
    BY <1>4 DEF Fits
  <1>6. /\ DiskTyped(disk') /\ edits' = edits /\ faults' \in 0 .. MaxFaults
        /\ \A g \in Path : g # e.path => disk'[g] = disk[g]
    BY <1>1, <1>2, <1>4, <1>5, WritesFacts
  <1>7. GroundTyped'
    BY <1>1, <1>2, <1>6 DEF GroundTyped
  <1>8. CASE ok
    <2>1. up' = [up EXCEPT !.todo = @ \ {e}]
      BY <1>2, <1>8
    <2>2. /\ SameUp /\ up'.stage = "apply" /\ up'.left = up.left /\ up'.since = up.since
          /\ up'.todo \subseteq up.todo
      BY <1>1, <2>1 DEF UpTyped, UpFields, SameUp
    <2> QED
      BY <1>1, <1>4, <1>6, <1>7, <2>2, AppliesKeeps
  <1>9. CASE ~ok
    <2>1. up' = Recovers
      BY <1>2, <1>9
    <2> QED
      BY <1>1, <1>4, <1>6, <1>7, <2>1, RecoversFacts, AppliesKeeps
  <1> QED
    BY <1>8, <1>9

(* A record with one field changed is a record. *)
LEMMA ProvenanceFacts ==
  /\ \A r \in Provenance : r.identity \in Identities /\ r.version \in Version
                           /\ r.others \in Seq(DOMAIN Others)
  /\ \A r \in Provenance, v \in Version : [r EXCEPT !.version = v] \in Provenance
  /\ \A r \in Provenance, s \in Seq(DOMAIN Others) :
       [r EXCEPT !.others = s] \in Provenance /\ [r EXCEPT !.others = s].others = s
  BY DEF Provenance

LEMMA AppliesRecordIInv ==
  ASSUME IInv, NEW ok \in BOOLEAN, AppliesRecord(ok) PROVE IInv'
  <1>1. UpTyped /\ GroundTyped /\ ReviewInv
    BY Unpacked
  <1>2. /\ up.stage = "apply" /\ excused' = excused
        /\ Writes(Record, [disk[Record] EXCEPT !.version = up.target], ok)
        /\ up' = IF ok THEN [up EXCEPT !.stage = "applied"] ELSE Recovers
    BY DEF AppliesRecord, ReadyForRecord
  <1>3. disk[Record] \in Provenance /\ up.target \in Version
    BY <1>1, <1>2 DEF ReviewInv, Legible, GroundTyped, DiskTyped, UpTyped
  <1>4. Fits(Record, [disk[Record] EXCEPT !.version = up.target]) /\ Record \in Path
        /\ Record \in Affected
    BY <1>3, ProvenanceFacts DEF Fits, Path, Affected
  <1>5. /\ DiskTyped(disk') /\ edits' = edits /\ faults' \in 0 .. MaxFaults
        /\ \A g \in Path : g # Record => disk'[g] = disk[g]
    BY <1>1, <1>2, <1>4, WritesFacts
  <1>6. GroundTyped'
    BY <1>1, <1>2, <1>5 DEF GroundTyped
  <1>7. CASE ok
    <2>1. up' = [up EXCEPT !.stage = "applied"]
      BY <1>2, <1>7
    <2>2. /\ SameUp /\ up'.stage = "applied" /\ up'.left = up.left /\ up'.since = up.since
      BY <1>1, <2>1 DEF UpTyped, UpFields, SameUp
    <2> QED
      BY <1>2, <1>4, <1>5, <1>6, <2>2, AppliesKeeps
  <1>8. CASE ~ok
    <2>1. up' = Recovers
      BY <1>2, <1>8
    <2> QED
      BY <1>1, <1>2, <1>4, <1>5, <1>6, <2>1, RecoversFacts, AppliesKeeps
  <1> QED
    BY <1>7, <1>8

(* A file is put back as it was before, in either way. *)
LEMMA PutsBack ==
  ASSUME IInv, up.stage \in {"restore", "rollback"}, up.todo # {}, NEW ok \in BOOLEAN,
         NEW f, f = First(up.todo), Writes(f, up.snapshot[f], ok),
         SameUp, up'.since = up.since, excused' \subseteq File \X Part,
         \/ /\ up'.stage = up.stage /\ up'.todo = up.todo \ {f}
            /\ up'.left = IF ok THEN up.left ELSE up.left \cup {f}
         \/ up'.stage = "threw" /\ up'.left = up.left
  PROVE  IInv'
  <1>1. UpTyped /\ GroundTyped /\ SnapshotInv
    BY Unpacked
  <1>2. /\ f \in DOMAIN up.snapshot /\ f \in Path /\ up.snapshot[f] = up.before[f]
        /\ up.todo \subseteq DOMAIN up.snapshot /\ DOMAIN up.snapshot \subseteq Path
    BY <1>1, FirstFacts DEF SnapshotInv, UpTyped
  <1>3. Fits(f, up.snapshot[f])
    BY <1>1, <1>2, DiskFits DEF UpTyped
  <1>4. /\ DiskTyped(disk') /\ edits' = edits /\ faults' \in 0 .. MaxFaults
        /\ \A g \in Path : g # f => disk'[g] = disk[g]
        /\ ok => disk'[f] = up.before[f]
    BY <1>1, <1>2, <1>3, WritesFacts
  <1>5. GroundTyped'
    BY <1>1, <1>4 DEF GroundTyped
  <1>6. UpTyped'
    BY <1>1, <1>2, UpKept DEF UpTyped
  <1>7. SnapshotInv'
    BY <1>1, <1>2, <1>4 DEF SnapshotInv, SameUp
  <1>8. BackAsItWas' /\ ReviewInv'
    BY DEF BackAsItWas, ReviewInv
  <1> QED
    BY <1>5, <1>6, <1>7, <1>8, Repacked

LEMMA RestoresIInv == ASSUME IInv, NEW ok \in BOOLEAN, Restores(ok) PROVE IInv'
  <1>1. UpTyped /\ GroundTyped
    BY Unpacked
  <1>2. PICK f : f = First(up.todo)
    OBVIOUS
  <1>3. /\ up.stage = "restore" /\ up.todo # {} /\ Writes(f, up.snapshot[f], ok)
        /\ up' = [up EXCEPT !.todo = @ \ {f}, !.left = IF ok THEN @ ELSE @ \cup {f}]
        /\ excused' = excused
    BY <1>2 DEF Restores
  <1>4. /\ SameUp /\ up'.since = up.since /\ up'.stage = up.stage /\ up'.todo = up.todo \ {f}
        /\ up'.left = IF ok THEN up.left ELSE up.left \cup {f}
    BY <1>1, <1>3 DEF UpTyped, UpFields, SameUp
  <1> QED
    BY <1>1, <1>2, <1>3, <1>4, PutsBack DEF GroundTyped

LEMMA RollsBackIInv == ASSUME IInv, NEW ok \in BOOLEAN, RollsBack(ok) PROVE IInv'
  <1>1. UpTyped /\ GroundTyped
    BY Unpacked
  <1>2. PICK f : f = First(up.todo)
    OBVIOUS
  <1>3. /\ up.stage = "rollback" /\ up.todo # {} /\ Writes(f, up.snapshot[f], ok)
        /\ \/ /\ up' = [up EXCEPT !.todo = @ \ {f}, !.left = IF ok THEN @ ELSE @ \cup {f}]
              /\ excused' = excused
           \/ /\ up' = [up EXCEPT !.stage = "threw"]
              /\ excused' = excused \cup PartsIn(DOMAIN up.snapshot)
    BY <1>2 DEF RollsBack, RolledBack
  <1>4. excused' \subseteq File \X Part
    BY <1>1, <1>3, PartsTyped DEF GroundTyped
  <1>5. CASE up' = [up EXCEPT !.todo = @ \ {f}, !.left = IF ok THEN @ ELSE @ \cup {f}]
    <2>1. /\ SameUp /\ up'.since = up.since /\ up'.stage = up.stage /\ up'.todo = up.todo \ {f}
          /\ up'.left = IF ok THEN up.left ELSE up.left \cup {f}
      BY <1>1, <1>5 DEF UpTyped, UpFields, SameUp
    <2> QED
      BY <1>2, <1>3, <1>4, <2>1, PutsBack
  <1>6. CASE up' = [up EXCEPT !.stage = "threw"]
    <2>1. SameUp /\ up'.since = up.since /\ up'.stage = "threw" /\ up'.left = up.left
      BY <1>1, <1>6 DEF UpTyped, UpFields, SameUp
    <2> QED
      BY <1>2, <1>3, <1>4, <2>1, PutsBack
  <1> QED
    BY <1>3, <1>5, <1>6

(* Restoring and rollback begin and end without a write. *)
LEMMA StagesKeep ==
  ASSUME IInv, disk' = disk, edits' = edits, faults' \in 0 .. MaxFaults,
         excused' \subseteq File \X Part, SameUp,
         \/ /\ up.stage = "restore" /\ up'.stage = "failed" /\ up.todo = {}
            /\ up'.left = up.left /\ up'.since = up.since
         \/ /\ up.stage = "rollback" /\ up'.stage = "rolledback" /\ up.todo = {}
            /\ up'.left = up.left /\ up'.since = up.since
         \/ /\ up.stage \in {"applied", "threw"} /\ up'.stage = "rollback"
            /\ up'.todo = DOMAIN up.snapshot /\ up'.left = {}
            /\ up'.since = up.since \ DOMAIN up.snapshot
         \/ up'.stage = "killed" /\ up'.left = up.left /\ up'.since = up.since
  PROVE  IInv'
  <1>1. UpTyped /\ GroundTyped /\ SnapshotInv
    BY Unpacked
  <1>2. DOMAIN disk = Path
    BY <1>1 DEF GroundTyped, DiskTyped
  <1>3. GroundTyped'
    BY <1>1, GroundKept
  <1>4. UpTyped'
    BY <1>1, UpKept DEF UpTyped
  <1>5. SnapshotInv'
    BY <1>1 DEF SnapshotInv, SameUp
  <1>6. BackAsItWas'
    BY <1>1, <1>2 DEF SnapshotInv, BackAsItWas, SameUp
  <1>7. ReviewInv'
    BY DEF ReviewInv
  <1> QED
    BY <1>3, <1>4, <1>5, <1>6, <1>7, Repacked

LEMMA FailsIInv == ASSUME IInv, Fails PROVE IInv'
  <1>1. UpTyped /\ GroundTyped
    BY Unpacked
  <1>2. /\ SameUp /\ up'.stage = "failed" /\ up'.left = up.left /\ up'.since = up.since
        /\ up.stage = "restore" /\ up.todo = {} /\ disk' = disk /\ edits' = edits
        /\ faults' = faults
    BY <1>1 DEF Fails, UpTyped, UpFields, SameUp
  <1>3. excused' \subseteq File \X Part
    BY <1>1, PartsTyped DEF Fails, GroundTyped
  <1> QED
    BY <1>1, <1>2, <1>3, StagesKeep DEF GroundTyped

LEMMA BeginsRollbackIInv == ASSUME IInv, BeginsRollback PROVE IInv'
  <1>1. UpTyped /\ GroundTyped
    BY Unpacked
  <1>2. /\ SameUp /\ up'.stage = "rollback" /\ up'.left = {} /\ up'.todo = DOMAIN up.snapshot
        /\ up'.since = up.since \ DOMAIN up.snapshot /\ up.stage \in {"applied", "threw"}
        /\ disk' = disk /\ edits' = edits /\ faults' = faults /\ excused' = excused
    BY <1>1 DEF BeginsRollback, UpTyped, UpFields, SameUp
  <1> QED
    BY <1>1, <1>2, StagesKeep DEF GroundTyped

LEMMA EndsRollbackIInv == ASSUME IInv, EndsRollback PROVE IInv'
  <1>1. UpTyped /\ GroundTyped
    BY Unpacked
  <1>2. /\ SameUp /\ up'.stage = "rolledback" /\ up'.left = up.left /\ up'.since = up.since
        /\ up.stage = "rollback" /\ up.todo = {} /\ disk' = disk /\ edits' = edits
        /\ faults' = faults
    BY <1>1 DEF EndsRollback, UpTyped, UpFields, SameUp
  <1>3. excused' \subseteq File \X Part
    BY <1>1, PartsTyped DEF EndsRollback, GroundTyped
  <1> QED
    BY <1>1, <1>2, <1>3, StagesKeep DEF GroundTyped

LEMMA IsKilledIInv == ASSUME IInv, IsKilled PROVE IInv'
  <1>1. UpTyped /\ GroundTyped
    BY Unpacked
  <1>2. /\ SameUp /\ up'.stage = "killed" /\ up'.left = up.left /\ up'.since = up.since
        /\ disk' = disk /\ edits' = edits /\ faults' = faults + 1 /\ faults < MaxFaults
    BY <1>1 DEF IsKilled, UpTyped, UpFields, SameUp
  <1>3. excused' \subseteq File \X Part /\ faults' \in 0 .. MaxFaults
    <2>1. excused' \subseteq File \X Part
      BY <1>1, PartsTyped DEF IsKilled, GroundTyped
    <2>2. faults' \in 0 .. MaxFaults
      BY <1>1, <1>2, BoundsAssumption DEF GroundTyped
    <2> QED
      BY <2>1, <2>2
  <1> QED
    BY <1>1, <1>2, <1>3, StagesKeep DEF GroundTyped

-----------------------------------------------------------------------------
(* A project as scaffolding has left it. *)
LEMMA UnionTyped ==
  ASSUME NEW S, S \subseteq Content \cup {Gone}
  PROVE  Union(S) \in Content \cup {Gone} /\ (S \ {Gone} # {} => Union(S) \in Content)
  <1> DEFINE there == S \ {Gone}
             having(p) == {c \in there : c[p] # Gone}
             text(p) == IF having(p) = {} THEN Gone ELSE (CHOOSE c \in having(p) : TRUE)[p]
  <1>1. CASE there = {}
    BY <1>1 DEF Union
  <1>2. CASE there # {}
    <2>1. ASSUME NEW p \in Part PROVE text(p) \in Word \cup {Gone}
      <3>1. CASE having(p) = {}
        BY <3>1
      <3>2. CASE having(p) # {}
        <4>1. (CHOOSE c \in having(p) : TRUE) \in having(p)
          BY <3>2
        <4>2. PICK c \in having(p) : c = CHOOSE d \in having(p) : TRUE
          BY <4>1
        <4>3. c \in Content
          BY <4>2
        <4> QED
          BY <3>2, <4>2, <4>3, ContentFacts
      <3> QED
        BY <3>1, <3>2
    <2>2. Union(S) = [p \in Part |-> text(p)]
      BY <1>2 DEF Union
    <2> HIDE DEF text
    <2> QED
      BY <2>1, <2>2 DEF Content
  <1> QED
    BY <1>1, <1>2

LEMMA ScaffoldedTyped ==
  ASSUME NEW v \in Version, NEW S, S \subseteq DOMAIN Others, NEW f \in File
  PROVE  Scaffolded(v, S)[f] \in Content \cup {Gone}
  <1>1. {Template[v][f]} \cup {Others[o][f] : o \in S} \subseteq Content \cup {Gone}
    <2>1. ASSUME NEW o \in S PROVE Others[o][f] \in Content \cup {Gone}
      BY TemplateAssumption
    <2> QED
      BY <2>1, TemplateTyped
  <1>2. Scaffolded(v, S)[f] = Union({Template[v][f]} \cup {Others[o][f] : o \in S})
    BY DEF Scaffolded
  <1> QED
    BY <1>1, <1>2, UnionTyped

LEMMA InitIInv == Init => IInv
  <1> SUFFICES ASSUME Init PROVE IInv
    OBVIOUS
  <1>1. PICK r \in Scaffolds : \E others \in {<<>>} \cup {<<o>> : o \in Together} :
          disk = [x \in Path |->
                    IF x = Record THEN [identity |-> r[1], version |-> r[2], others |-> others]
                    ELSE Scaffolded(r[2], Range(others))[x]]
    BY DEF Init
  <1>2. PICK others \in {<<>>} \cup {<<o>> : o \in Together} :
          disk = [x \in Path |->
                    IF x = Record THEN [identity |-> r[1], version |-> r[2], others |-> others]
                    ELSE Scaffolded(r[2], Range(others))[x]]
    BY <1>1
  <1>3. others \in Seq(DOMAIN Others) /\ Range(others) \subseteq DOMAIN Others
    <2>1. CASE others = <<>>
      BY <2>1 DEF Range
    <2>2. CASE \E o \in Together : others = <<o>>
      BY <2>2, TemplateAssumption DEF Range
    <2> QED
      BY <2>1, <2>2
  <1>4. r[1] \in Identities /\ r[2] \in Version
    BY TemplateAssumption DEF Identities
  <1>5. DOMAIN disk = Path /\ Record \in Path
    BY <1>2 DEF Path
  <1>6. /\ disk[Record] \in Provenance /\ Recorded = r[2]
    <2>1. disk[Record] = [identity |-> r[1], version |-> r[2], others |-> others]
      BY <1>2, <1>5
    <2> QED
      BY <1>3, <1>4, <2>1 DEF Provenance, Recorded
  <1>7. ASSUME NEW f \in File PROVE disk[f] \in Content \cup {Gone}
    <2>1. disk[f] = Scaffolded(r[2], Range(others))[f]
      BY <1>2, ContentFacts DEF Path
    <2> QED
      BY <1>3, <1>4, <2>1, ScaffoldedTyped
  <1>8. DiskTyped(disk)
    BY <1>5, <1>6, <1>7 DEF DiskTyped
  <1>9. /\ up = [stage |-> "none", round |-> 0, target |-> Recorded, clean |-> {}, conflicts |-> {},
                 seen |-> disk, snapshot |-> <<>>, todo |-> {}, left |-> {},
                 before |-> disk, since |-> {}]
        /\ edits = 0 /\ faults = 0 /\ excused = {}
    BY DEF Init
  <1>10. UpTyped
    <2>1. /\ DOMAIN up = UpFields /\ up.stage = "none" /\ up.round = 0 /\ up.target = Recorded
          /\ up.clean = {} /\ up.conflicts = {} /\ up.seen = disk /\ up.snapshot = <<>>
          /\ up.left = {} /\ up.before = disk /\ up.since = {}
      BY <1>9 DEF UpFields
    <2>2. DOMAIN up.snapshot = {}
      BY <2>1
    <2> QED
      BY <1>4, <1>6, <1>8, <2>1, <2>2, BoundsAssumption DEF UpTyped
  <1>11. GroundTyped
    BY <1>8, <1>9, BoundsAssumption DEF GroundTyped
  <1>12. SnapshotInv /\ BackAsItWas /\ ReviewInv
    BY <1>9 DEF SnapshotInv, BackAsItWas, ReviewInv
  <1> QED
    BY <1>10, <1>11, <1>12, Unpacked

LEMMA NextIInv == ASSUME IInv, Next PROVE IInv'
  <1>1. CASE \E f \in File : \E content \in Edited(disk[f]) : DeveloperEdits(f, content)
    BY <1>1, DeveloperIInv
  <1>2. CASE \E v \in Version : Computes(v)
    BY <1>2, ComputesIInv
  <1>3. CASE Declines
    BY <1>3, DeclinesIInv
  <1>4. CASE Approves
    BY <1>4, ApprovesIInv
  <1>5. CASE \E ok \in BOOLEAN : AppliesEntry(ok)
    BY <1>5, AppliesEntryIInv
  <1>6. CASE \E ok \in BOOLEAN : AppliesRecord(ok)
    BY <1>6, AppliesRecordIInv
  <1>7. CASE \E ok \in BOOLEAN : Restores(ok)
    BY <1>7, RestoresIInv
  <1>8. CASE \E ok \in BOOLEAN : RollsBack(ok)
    BY <1>8, RollsBackIInv
  <1>9. CASE Fails
    BY <1>9, FailsIInv
  <1>10. CASE BeginsRollback
    BY <1>10, BeginsRollbackIInv
  <1>11. CASE EndsRollback
    BY <1>11, EndsRollbackIInv
  <1>12. CASE IsKilled
    BY <1>12, IsKilledIInv
  <1> QED
    BY <1>1, <1>2, <1>3, <1>4, <1>5, <1>6, <1>7, <1>8, <1>9, <1>10, <1>11, <1>12 DEF Next

LEMMA UnchangedIInv == ASSUME IInv, UNCHANGED vars PROVE IInv'
  <1>1. disk' = disk /\ up' = up /\ edits' = edits /\ faults' = faults /\ excused' = excused
    BY DEF vars
  <1>2. UpTyped' /\ GroundTyped'
    BY <1>1, Unpacked DEF UpTyped, GroundTyped
  <1>3. SnapshotInv' /\ BackAsItWas'
    BY <1>1, Unpacked DEF SnapshotInv, BackAsItWas, Affected
  <1>4. ReviewInv'
    BY <1>1, Unpacked DEF ReviewInv, Legible, Identity, Recorded, Legacy
  <1> QED
    BY <1>2, <1>3, <1>4, Repacked

-----------------------------------------------------------------------------
(* A step beside the upgrades, that tells in since what it writes. *)
LEMMA AsideKeeps ==
  ASSUME IInv, AtRest, GroundTyped', DOMAIN up' = DOMAIN up, up'.target = up.target,
         up'.clean = up.clean, up'.conflicts = up.conflicts, up'.seen = up.seen,
         up'.snapshot = up.snapshot, up'.before = up.before,
         up'.round \in 0 .. MaxOperations, up'.stage = up.stage, up'.left = up.left,
         up.since \subseteq up'.since, up'.since \subseteq Path,
         \A g \in Path : g \notin up'.since => disk'[g] = disk[g]
  PROVE  IInv'
  <1>1. UpTyped /\ GroundTyped /\ SnapshotInv /\ BackAsItWas
    BY Unpacked
  <1>2. DOMAIN disk = Path /\ DOMAIN disk' = Path
    BY <1>1 DEF GroundTyped, DiskTyped
  <1>3. UpTyped'
    BY <1>1 DEF UpTyped
  <1>4. SnapshotInv'
    <2>1. up.stage \notin {"apply", "restore", "rollback"}
      BY DEF AtRest
    <2> QED
      BY <1>1, <2>1 DEF SnapshotInv
  <1>5. BackAsItWas'
    BY <1>1, <1>2 DEF BackAsItWas
  <1>6. ReviewInv'
    BY DEF ReviewInv, AtRest
  <1> QED
    BY <1>3, <1>4, <1>5, <1>6, Repacked

AddFields == {"stage", "template", "files", "records", "written"}

(* What a template is to bring of a file keeps the blocks of the others. *)
LEMMA ComposedFacts ==
  ASSUME GroundTyped, NEW t \in DOMAIN Others, NEW v \in Version, NEW f \in Brought(t),
         GroundFree(t, v), \A b \in Occupied(v) : ~Clash(Claim(t), b)
  PROVE  /\ Composed(t, f) \in Content
         /\ \A p \in Blocks(disk[f]) : p[1] # t => Text(Composed(t, f), p) = Text(disk[f], p)
  <1>1. f \in File /\ Others[t][f] \in Content
    BY TemplateAssumption DEF Brought
  <1>2. disk[f] \in Content \cup {Gone, Torn}
    BY <1>1 DEF GroundTyped, DiskTyped
  <1>3. ASSUME NEW p \in Blocks(disk[f])
        PROVE  p \in Part /\ disk[f] \in Content /\ disk[f][p] \in Word
               /\ Text(disk[f], p) = disk[f][p]
    BY <1>2, ContentFacts DEF Blocks, Text
  <1>4. CASE f \in SharedBy(t)
    <2>1. Composed(t, f) = [p \in Part |-> IF p \in Extracted(t, f) THEN Others[t][f][p]
                            ELSE IF p \in Carried(t, f) THEN disk[f][p] ELSE Gone]
      BY <1>4 DEF Composed
    <2>2. Carried(t, f) = {p \in Blocks(disk[f]) : p[1] # t}
      BY DEF Carried, BlocksOfOthers
    <2>3. ASSUME NEW p \in Extracted(t, f) PROVE p[1] = t
      BY DEF Extracted
    <2>4. ASSUME NEW p \in Part
          PROVE  (IF p \in Extracted(t, f) THEN Others[t][f][p]
                  ELSE IF p \in Carried(t, f) THEN disk[f][p] ELSE Gone) \in Word \cup {Gone}
      BY <1>1, <1>3, <2>2, ContentFacts
    <2>5. Composed(t, f) \in Content
      BY <2>1, <2>4 DEF Content
    <2>6. ASSUME NEW p \in Blocks(disk[f]), p[1] # t
          PROVE  Text(Composed(t, f), p) = Text(disk[f], p)
      <3>1. p \in Carried(t, f) /\ p \notin Extracted(t, f) /\ p \in Part
        BY <1>3, <2>2, <2>3, <2>6
      <3>2. Composed(t, f)[p] = disk[f][p]
        BY <2>1, <3>1
      <3>3. Text(Composed(t, f), p) = Composed(t, f)[p]
        BY <2>5, ContentFacts DEF Text
      <3> QED
        BY <1>3, <3>2, <3>3
    <2> QED
      BY <2>5, <2>6
  <1>5. CASE f \notin SharedBy(t)
    <2>1. Composed(t, f) = Others[t][f]
      BY <1>5 DEF Composed
    <2>2. /\ Claim(t).whole = Brought(t) \ SharedBy(t) /\ Claim(t).keys[f] = {}
      BY <1>1, <1>5 DEF Claim, SharedBy
    <2>3. ASSUME NEW b \in Occupied(v), Arbitrated(f, Claim(t), b) PROVE FALSE
      <3>1. f \in Claim(t).whole \cap b.whole
        BY <2>2, <2>3 DEF Arbitrated
      <3>2. Clash(Claim(t), b)
        BY <3>1 DEF Clash
      <3> QED
        BY <3>2
    <2>4. disk[f] = Gone
      BY <2>3 DEF GroundFree
    <2> QED
      BY <1>1, <1>3, <2>1, <2>4, ContentFacts
  <1> QED
    BY <1>4, <1>5

LEMMA BeginsAddKeeps ==
  ASSUME AddIInv, NEW t \in DOMAIN Others, NEW v \in Version, BeginsAdd(t, v) PROVE AddIInv'
  <1>1. IInv /\ AddingInv /\ UpTyped /\ GroundTyped
    BY Unpacked DEF AddIInv
  <1>2. /\ AtRest /\ ~Adding /\ up.round < MaxOperations /\ Legible
        /\ GroundFree(t, v) /\ \A b \in Occupied(v) : ~Clash(Claim(t), b)
        /\ adding' = [stage |-> "files", template |-> t, written |-> 0,
                      files |-> [f \in Brought(t) |-> Composed(t, f)],
                      records |-> Append(disk[Record].others, t)]
        /\ up' = [up EXCEPT !.round = @ + 1]
        /\ excused' = excused \cup
             IF v = Recorded THEN {} ELSE {x \in PartsIn(Brought(t)) : x[2][1] = t}
        /\ disk' = disk /\ edits' = edits /\ faults' = faults
    BY DEF BeginsAdd
  <1>3. /\ DOMAIN up' = DOMAIN up /\ up'.target = up.target
        /\ up'.clean = up.clean /\ up'.conflicts = up.conflicts /\ up'.seen = up.seen
        /\ up'.snapshot = up.snapshot /\ up'.before = up.before
        /\ up'.stage = up.stage /\ up'.left = up.left /\ up'.since = up.since
        /\ up'.round = up.round + 1
    BY <1>1, <1>2 DEF UpTyped, UpFields
  <1>4. up'.round \in 0 .. MaxOperations /\ up'.since \subseteq Path
    BY <1>1, <1>2, <1>3, BoundsAssumption DEF UpTyped
  <1>5. GroundTyped'
    <2>1. excused' \subseteq File \X Part
      BY <1>1, <1>2, PartsTyped DEF GroundTyped
    <2> QED
      BY <1>1, <1>2, <2>1, GroundKept DEF GroundTyped
  <1>6. IInv'
    BY <1>1, <1>2, <1>3, <1>4, <1>5, AsideKeeps
  <1>7. AddingInv'
    <2>1. AtRest' /\ Legible'
      BY <1>2, <1>3 DEF AtRest, Legible
    <2>2. disk[Record] \in Provenance
      BY <1>1, <1>2 DEF GroundTyped, DiskTyped, Legible
    <2>3. /\ DOMAIN adding' = AddFields /\ adding'.stage = "files" /\ adding'.template = t
          /\ adding'.written = 0 /\ adding'.records = Append(disk[Record].others, t)
          /\ adding'.files = [f \in Brought(t) |-> Composed(t, f)]
      BY <1>2 DEF AddFields
    <2>4. adding'.records \in Seq(DOMAIN Others) /\ adding'.written \in 0 .. Len(adding'.records)
      <3>1. disk[Record].others \in Seq(DOMAIN Others)
        BY <2>2, ProvenanceFacts
      <3>2. Append(disk[Record].others, t) \in Seq(DOMAIN Others)
        BY <3>1
      <3> QED
        BY <2>3, <3>2
    <2>5. DOMAIN adding'.files = Brought(t) /\ Brought(t) \subseteq File
      BY <2>3 DEF Brought
    <2>6. ASSUME NEW f \in Brought(t)
          PROVE  /\ adding'.files[f] \in Content
                 /\ \A p \in Blocks(disk[f]) :
                      p[1] # t => Text(adding'.files[f], p) = Text(disk[f], p)
      <3>1. adding'.files[f] = Composed(t, f)
        BY <2>3
      <3> QED
        BY <1>1, <1>2, <3>1, ComposedFacts
    <2>7. adding'.files \in [DOMAIN adding'.files -> Content]
      BY <2>3, <2>5, <2>6
    <2>8. ASSUME NEW f \in DOMAIN adding'.files, NEW p \in Blocks(disk'[f]),
                 p[1] # adding'.template
          PROVE  Text(adding'.files[f], p) = Text(disk'[f], p)
      BY <1>2, <2>3, <2>5, <2>6, <2>8
    <2> QED
      BY <2>1, <2>3, <2>4, <2>5, <2>7, <2>8 DEF AddingInv, AddFields
  <1> QED
    BY <1>6, <1>7 DEF AddIInv

(* A write of an addition is told in since, and changes nothing else. *)
LEMMA AddsWrite ==
  ASSUME IInv, AtRest, NEW f \in Path, NEW content, Fits(f, content), NEW ok \in BOOLEAN,
         Writes(f, content, ok), up' = [up EXCEPT !.since = @ \cup {f}],
         excused' \subseteq File \X Part
  PROVE  /\ IInv' /\ AtRest' /\ \A g \in Path : g # f => disk'[g] = disk[g]
         /\ ok => disk'[f] = content
  <1>1. UpTyped /\ GroundTyped
    BY Unpacked
  <1>2. /\ DiskTyped(disk') /\ edits' = edits /\ faults' \in 0 .. MaxFaults
        /\ \A g \in Path : g # f => disk'[g] = disk[g]
        /\ ok => disk'[f] = content
    BY <1>1, WritesFacts
  <1>3. /\ DOMAIN up' = DOMAIN up /\ up'.target = up.target
        /\ up'.clean = up.clean /\ up'.conflicts = up.conflicts /\ up'.seen = up.seen
        /\ up'.snapshot = up.snapshot /\ up'.before = up.before /\ up'.round = up.round
        /\ up'.stage = up.stage /\ up'.left = up.left /\ up'.since = up.since \cup {f}
    BY <1>1 DEF UpTyped, UpFields
  <1>4. GroundTyped'
    BY <1>1, <1>2 DEF GroundTyped
  <1>5. \A g \in Path : g \notin up'.since => disk'[g] = disk[g]
    BY <1>2, <1>3
  <1>6. IInv'
    BY <1>1, <1>3, <1>4, <1>5, AsideKeeps DEF UpTyped
  <1>7. AtRest'
    BY <1>3 DEF AtRest
  <1> QED
    BY <1>2, <1>6, <1>7

LEMMA AddsFileFacts ==
  ASSUME AddIInv, adding.stage = "files", adding.files # <<>>
  PROVE  \E f \in DOMAIN adding.files :
           /\ f = First(DOMAIN adding.files) /\ f \in File /\ f # Record /\ f \in Path
           /\ adding.files[f] \in Content /\ Fits(f, adding.files[f])
  <1>1. AddingInv /\ Adding
    BY DEF AddIInv, Adding
  <1>2. adding.files \in [DOMAIN adding.files -> Content] /\ DOMAIN adding.files \subseteq File
    BY <1>1 DEF AddingInv
  <1>3. DOMAIN adding.files # {}
    <2> SUFFICES ASSUME DOMAIN adding.files = {} PROVE FALSE
      OBVIOUS
    <2>1. adding.files = [x \in {} |-> adding.files[x]]
      BY <1>2
    <2>2. <<>> = [x \in {} |-> adding.files[x]]
      OBVIOUS
    <2> QED
      BY <2>1, <2>2
  <1>4. PICK f : f = First(DOMAIN adding.files)
    OBVIOUS
  <1>5. f \in DOMAIN adding.files
    BY <1>3, <1>4, FirstFacts
  <1> QED
    BY <1>2, <1>4, <1>5, ContentFacts DEF Fits, Path

LEMMA AddsFileKeeps ==
  ASSUME AddIInv, NEW ok \in BOOLEAN, AddsFile(ok) PROVE AddIInv'
  <1>1. IInv /\ AddingInv /\ UpTyped /\ GroundTyped
    BY Unpacked DEF AddIInv
  <1>2. adding.stage = "files" /\ adding.files # <<>> /\ Adding
    BY DEF AddsFile, Adding
  <1>3. PICK f \in DOMAIN adding.files :
          /\ f = First(DOMAIN adding.files) /\ f \in File /\ f # Record /\ f \in Path
          /\ adding.files[f] \in Content /\ Fits(f, adding.files[f])
    BY <1>2, AddsFileFacts
  <1>4. /\ Writes(f, adding.files[f], ok)
        /\ up' = [up EXCEPT !.since = @ \cup {f}]
        /\ adding' = IF ok THEN [adding EXCEPT !.files = [g \in DOMAIN @ \ {f} |-> @[g]]]
                     ELSE [adding EXCEPT !.stage = "no"]
        /\ excused' = excused \cup IF ok THEN {} ELSE PartsIn({f})
    BY <1>3 DEF AddsFile
  <1>5. AtRest /\ Legible /\ DOMAIN adding = AddFields
    BY <1>1, <1>2 DEF AddingInv, AddFields
  <1>6. excused' \subseteq File \X Part
    BY <1>1, <1>4, PartsTyped DEF GroundTyped
  <1>7. /\ IInv' /\ AtRest' /\ \A g \in Path : g # f => disk'[g] = disk[g]
    BY <1>1, <1>3, <1>4, <1>5, <1>6, AddsWrite
  <1>8. Legible'
    <2>1. disk'[Record] = disk[Record]
      BY <1>3, <1>7 DEF Path
    <2> QED
      BY <1>5, <2>1, RecordKept
  <1>9. AddingInv'
    <2>1. CASE ok
      <3>1. /\ DOMAIN adding' = AddFields /\ adding'.stage = "files"
            /\ adding'.template = adding.template /\ adding'.records = adding.records
            /\ adding'.written = adding.written
            /\ adding'.files = [g \in DOMAIN adding.files \ {f} |-> adding.files[g]]
        BY <1>2, <1>4, <1>5, <2>1 DEF AddFields
      <3>2. /\ DOMAIN adding.files \subseteq File
            /\ adding.files \in [DOMAIN adding.files -> Content]
            /\ \A g \in DOMAIN adding.files : \A p \in Blocks(disk[g]) :
                 p[1] # adding.template => Text(adding.files[g], p) = Text(disk[g], p)
        BY <1>1, <1>2 DEF AddingInv
      <3>3. /\ DOMAIN adding'.files = DOMAIN adding.files \ {f}
            /\ \A g \in DOMAIN adding'.files : adding'.files[g] = adding.files[g]
        BY <3>1
      <3>4. \A g \in DOMAIN adding'.files : disk'[g] = disk[g]
        BY <1>7, <3>2, <3>3 DEF Path
      <3>5. adding'.files \in [DOMAIN adding'.files -> Content]
        BY <3>1, <3>2, <3>3
      <3>6. ASSUME NEW g \in DOMAIN adding'.files, NEW p \in Blocks(disk'[g]),
                   p[1] # adding'.template
            PROVE  Text(adding'.files[g], p) = Text(disk'[g], p)
        BY <3>1, <3>2, <3>3, <3>4, <3>6
      <3> QED
        BY <1>1, <1>2, <1>7, <1>8, <3>1, <3>2, <3>3, <3>5, <3>6 DEF AddingInv, AddFields
    <2>2. CASE ~ok
      <3>1. DOMAIN adding' = AddFields /\ adding'.stage = "no"
        BY <1>4, <1>5, <2>2 DEF AddFields
      <3> QED
        BY <3>1 DEF AddingInv, AddFields, Adding
    <2> QED
      BY <2>1, <2>2
  <1> QED
    BY <1>7, <1>9 DEF AddIInv

LEMMA AddsRecordKeeps ==
  ASSUME AddIInv, NEW ok \in BOOLEAN, AddsRecord(ok) PROVE AddIInv'
  <1>1. IInv /\ AddingInv /\ UpTyped /\ GroundTyped
    BY Unpacked DEF AddIInv
  <1>2. /\ adding.stage = "files" /\ adding.files = <<>> /\ Adding
        /\ Writes(Record,
                  [disk[Record] EXCEPT !.others = SubSeq(adding.records, 1, adding.written)], ok)
        /\ up' = [up EXCEPT !.since = @ \cup {Record}]
        /\ adding' = IF ok /\ adding.written < Len(adding.records)
                     THEN [adding EXCEPT !.written = @ + 1] ELSE [adding EXCEPT !.stage = "no"]
        /\ excused' = excused
    BY DEF AddsRecord, Adding
  <1>3. /\ AtRest /\ Legible /\ DOMAIN adding = AddFields /\ adding.template \in DOMAIN Others
        /\ adding.records \in Seq(DOMAIN Others) /\ adding.written \in 0 .. Len(adding.records)
        /\ DOMAIN adding.files \subseteq File
    BY <1>1, <1>2 DEF AddingInv, AddFields
  <1>4. PICK s \in Seq(DOMAIN Others) : s = SubSeq(adding.records, 1, adding.written)
    <2>1. SubSeq(adding.records, 1, adding.written) \in Seq(DOMAIN Others)
      BY <1>3
    <2> QED
      BY <2>1
  <1>5. disk[Record] \in Provenance /\ Record \in Path
    BY <1>1, <1>3 DEF GroundTyped, DiskTyped, Legible, Path
  <1>6. [disk[Record] EXCEPT !.others = s] \in Provenance
    BY <1>5, ProvenanceFacts
  <1>7. Fits(Record, [disk[Record] EXCEPT !.others = s])
    BY <1>6 DEF Fits
  <1>8. /\ IInv' /\ AtRest' /\ \A g \in Path : g # Record => disk'[g] = disk[g]
        /\ ok => disk'[Record] = [disk[Record] EXCEPT !.others = s]
    BY <1>1, <1>2, <1>3, <1>4, <1>5, <1>7, AddsWrite DEF GroundTyped
  <1>9. AddingInv'
    <2>1. CASE ok /\ adding.written < Len(adding.records)
      <3>1. /\ DOMAIN adding' = AddFields /\ adding'.stage = "files"
            /\ adding'.template = adding.template /\ adding'.records = adding.records
            /\ adding'.written = adding.written + 1 /\ adding'.files = adding.files
        BY <1>2, <1>3, <2>1 DEF AddFields
      <3>2. Legible'
        BY <1>6, <1>8, <2>1, ContentFacts DEF Legible
      <3>3. adding'.written \in 0 .. Len(adding'.records)
        BY <1>3, <2>1, <3>1
      <3>4. DOMAIN adding.files = {}
        BY <1>2
      <3>5. adding'.files \in [DOMAIN adding'.files -> Content]
        BY <1>1, <1>2, <3>1 DEF AddingInv
      <3> QED
        BY <1>3, <1>8, <3>1, <3>2, <3>3, <3>4, <3>5 DEF AddingInv, AddFields
    <2>2. CASE ~(ok /\ adding.written < Len(adding.records))
      <3>1. DOMAIN adding' = AddFields /\ adding'.stage = "no"
        BY <1>2, <1>3, <2>2 DEF AddFields
      <3> QED
        BY <3>1 DEF AddingInv, AddFields, Adding
    <2> QED
      BY <2>1, <2>2
  <1> QED
    BY <1>8, <1>9 DEF AddIInv

LEMMA AddIsKilledKeeps == ASSUME AddIInv, AddIsKilled PROVE AddIInv'
  <1>1. IInv /\ AddingInv /\ UpTyped /\ GroundTyped
    BY Unpacked DEF AddIInv
  <1>2. /\ adding' = [adding EXCEPT !.stage = "no"] /\ faults' = faults + 1 /\ faults < MaxFaults
        /\ disk' = disk /\ up' = up /\ edits' = edits /\ excused' = excused
    BY DEF AddIsKilled
  <1>3. AddingInv'
    BY <1>1, <1>2 DEF AddingInv, Adding
  <1>4. GroundTyped'
    BY <1>1, <1>2, BoundsAssumption DEF GroundTyped
  <1>5. UpTyped' /\ SnapshotInv' /\ BackAsItWas' /\ ReviewInv'
    BY <1>1, <1>2, Unpacked
       DEF UpTyped, SnapshotInv, Affected, BackAsItWas, ReviewInv, Legible, Identity, Recorded,
           Legacy
  <1> QED
    BY <1>3, <1>4, <1>5, Repacked DEF AddIInv

LEMMA AddNextKeeps == ASSUME AddIInv, [AddNext]_avars PROVE AddIInv'
  <1>1. IInv /\ AddingInv
    BY DEF AddIInv
  <1>2. CASE ~Adding /\ Next /\ UNCHANGED adding
    <2>1. IInv'
      BY <1>1, <1>2, NextIInv
    <2>2. AddingInv'
      BY <1>1, <1>2 DEF AddingInv, Adding
    <2> QED
      BY <2>1, <2>2 DEF AddIInv
  <1>3. CASE \E t \in DOMAIN Others : \E v \in Version : BeginsAdd(t, v)
    BY <1>3, BeginsAddKeeps
  <1>4. CASE \E ok \in BOOLEAN : AddsFile(ok)
    BY <1>4, AddsFileKeeps
  <1>5. CASE \E ok \in BOOLEAN : AddsRecord(ok)
    BY <1>5, AddsRecordKeeps
  <1>6. CASE AddIsKilled
    BY <1>6, AddIsKilledKeeps
  <1>7. CASE UNCHANGED avars
    <2>1. UNCHANGED vars /\ adding' = adding
      BY <1>7 DEF avars
    <2>2. IInv'
      BY <1>1, <2>1, UnchangedIInv
    <2>3. disk' = disk /\ up' = up
      BY <2>1 DEF vars
    <2>4. AddingInv'
      BY <1>1, <2>1, <2>3 DEF AddingInv, Adding, AtRest, Legible, Blocks
    <2> QED
      BY <2>2, <2>4 DEF AddIInv
  <1> QED
    BY <1>2, <1>3, <1>4, <1>5, <1>6, <1>7 DEF AddNext

-----------------------------------------------------------------------------
(* The inductive invariant holds of every behaviour of upgrades, rollbacks and *)
(* additions.                                                                  *)
THEOREM TemplatesInvariance == AddSpec => []AddIInv
  <1>1. AddInit => AddIInv
    <2> SUFFICES ASSUME AddInit PROVE AddIInv
      OBVIOUS
    <2>1. IInv
      BY InitIInv DEF AddInit
    <2>2. adding = [stage |-> "no", template |-> Gone, files |-> <<>>, records |-> <<>>,
                    written |-> 0]
      BY DEF AddInit
    <2>3. AddingInv
      BY <2>2 DEF AddingInv, Adding
    <2> QED
      BY <2>1, <2>3 DEF AddIInv
  <1>2. AddIInv /\ [AddNext]_avars => AddIInv'
    BY AddNextKeeps
  <1> QED
    BY <1>1, <1>2, PTL DEF AddSpec

(* Every variable of an upgrade holds values of its type. *)
THEOREM TypeCorrect == AddSpec => []TypeOK
  <1>1. AddIInv => TypeOK
    BY DEF AddIInv, IInv
  <1> QED
    BY <1>1, TemplatesInvariance, PTL

(* A rollback that reports success has brought the whole project back, and an *)
(* apply that failed has left every file as it was, or names it               *)
(* (rollbackChangeSet, inst-app-restore-on-error).                            *)
THEOREM ProjectsComeBack == AddSpec => []BackAsItWas
  <1>1. AddIInv => BackAsItWas
    BY DEF AddIInv, IInv
  <1> QED
    BY <1>1, TemplatesInvariance, PTL

(* What applying one entry makes of its file. *)
LEMMA EntryFacts ==
  ASSUME IInv, AppliesEntry(TRUE)
  PROVE  \E e \in up.clean :
           /\ disk'[e.path] = Applied(e) /\ e.path \in File /\ up.target \in Version
           /\ Recorded \in Version /\ Identity \in Identities
           /\ \A f \in File : f # e.path => disk'[f] = disk[f]
           /\ e.part # Gone => e.part \in Part /\ e.part = <<Identity, e.part[2]>>
  <1>1. UpTyped /\ GroundTyped /\ SnapshotInv /\ ReviewInv /\ up.stage = "apply" /\ up.todo # {}
    BY Unpacked DEF AppliesEntry
  <1>2. PICK e \in up.todo : Writes(e.path, Applied(e), TRUE)
    BY <1>1 DEF AppliesEntry
  <1>3. e \in up.clean
    BY <1>1, <1>2 DEF SnapshotInv
  <1>4. /\ Applied(e) \in Content \cup {Gone, Torn} /\ e.path \in File /\ e.path # Record
        /\ e.part # Gone => e.part \in Part /\ e.part = <<Identity, e.part[2]>>
    BY <1>1, <1>3, AppliedTyped
  <1>5. Fits(e.path, Applied(e)) /\ e.path \in Path
    BY <1>4 DEF Fits, Path
  <1>6. disk'[e.path] = Applied(e) /\ \A f \in File : f # e.path => disk'[f] = disk[f]
    BY <1>1, <1>2, <1>5, WritesFacts DEF Path
  <1>7. disk[Record] \in Provenance
    BY <1>1 DEF ReviewInv, Legible, GroundTyped, DiskTyped
  <1> QED
    BY <1>1, <1>3, <1>4, <1>6, <1>7, ProvenanceFacts DEF UpTyped, Recorded, Identity

(* A region that is replaced, and what is beside it. *)
LEMMA ReplacedFacts ==
  ASSUME NEW c \in Content \cup {Gone, Torn}, NEW p \in Part, NEW text \in Word \cup {Gone}
  PROVE  /\ c # Torn => ReplaceRegion(c, p, text) \in Content
                        /\ Text(ReplaceRegion(c, p, text), p) = text
         /\ \A q \in Part : q # p => Text(ReplaceRegion(c, p, text), q) = Text(c, q)
  <1>1. CASE c = Torn
    BY <1>1 DEF ReplaceRegion
  <1>2. CASE c # Torn
    <2>1. PICK old \in Content : /\ old = IF c = Gone THEN Blank ELSE c
                                 /\ \A q \in Part : Text(c, q) = old[q]
      BY <1>2, ContentFacts DEF Text
    <2>2. ReplaceRegion(c, p, text) = [old EXCEPT ![p] = text]
      BY <1>2, <2>1 DEF ReplaceRegion
    <2>3. /\ [old EXCEPT ![p] = text] \in Content /\ [old EXCEPT ![p] = text][p] = text
          /\ \A q \in Part : q # p => [old EXCEPT ![p] = text][q] = old[q]
      BY <2>1, ContentFacts
    <2>4. ReplaceRegion(c, p, text) \in Content /\ ReplaceRegion(c, p, text) \notin {Gone, Torn}
      BY <2>2, <2>3, ContentFacts
    <2>5. \A q \in Part : Text(ReplaceRegion(c, p, text), q) = ReplaceRegion(c, p, text)[q]
      BY <2>4 DEF Text
    <2> QED
      BY <2>1, <2>2, <2>3, <2>4, <2>5
  <1> QED
    BY <1>1, <1>2

(* What a version of the template has in a file is neither the developer's nor *)
(* that of another template.                                                   *)
LEMMA TemplateTexts ==
  ASSUME NEW v \in Version, NEW f \in File, NEW p \in Part
  PROVE  /\ Text(Template[v][f], p) \in Word \cup {Gone} /\ Text(Template[v][f], p) # Mine
         /\ p[1] \in DOMAIN Others => Text(Template[v][f], p) = Gone
  <1>1. Template[v][f] \in Content \cup {Gone}
    BY TemplateTyped
  <1>2. Template[v][f] # Gone /\ Template[v][f][p] # Gone =>
          Template[v][f][p] # Mine /\ p[1] \notin DOMAIN Others
    BY TemplateAssumption
  <1> QED
    BY <1>1, <1>2, ContentFacts DEF Text

LEMMA EntriesSpareForeignText ==
  ASSUME IInv, AppliesEntry(TRUE) PROVE LeavesForeignText
  <1>1. UpTyped /\ GroundTyped /\ ReviewInv /\ up.stage = "apply"
    BY Unpacked DEF AppliesEntry
  <1>2. PICK e \in up.clean :
          /\ disk'[e.path] = Applied(e) /\ e.path \in File /\ up.target \in Version
          /\ Recorded \in Version /\ Identity \in Identities
          /\ \A f \in File : f # e.path => disk'[f] = disk[f]
          /\ e.part # Gone => e.part \in Part /\ e.part = <<Identity, e.part[2]>>
    BY EntryFacts
  <1> SUFFICES ASSUME NEW p \in Part,
                      Text(up.seen[e.path], p) = Mine \/ p[1] \in DOMAIN Others,
                      Text(disk[e.path], p) = Text(up.seen[e.path], p)
               PROVE  Text(disk'[e.path], p) = Text(disk[e.path], p)
    BY <1>2 DEF LeavesForeignText
  <1>3. /\ disk[e.path] \in Content \cup {Gone, Torn}
        /\ up.seen[e.path] \in Content \cup {Gone, Torn}
    BY <1>1, <1>2 DEF UpTyped, GroundTyped, DiskTyped
  <1>4. CASE e.part = Gone
    <2>1. /\ up.seen[e.path] \in {Gone, Template[Recorded][e.path]}
          /\ disk'[e.path] = Template[up.target][e.path]
      BY <1>1, <1>2, <1>4 DEF ReviewInv, Applied
    <2>2. Text(up.seen[e.path], p) # Mine
      BY <1>2, <2>1, TemplateTexts, ContentFacts DEF Text
    <2>3. /\ Text(Template[up.target][e.path], p) = Gone
          /\ Text(Template[Recorded][e.path], p) = Gone
      BY <1>2, <2>2, TemplateTexts
    <2>4. Text(up.seen[e.path], p) = Gone
      BY <2>1, <2>3 DEF Text
    <2> QED
      BY <2>1, <2>3, <2>4
  <1>5. CASE e.part # Gone
    <2>1. <<e.part[1], e.part[2]>> \in Part /\ e.part \in Part
      BY <1>2, <1>5
    <2>2. Template[up.target][e.path] \in Content \cup {Gone, Torn}
      BY <1>2, TemplateTyped
    <2>3. PICK text \in Word \cup {Gone} :
            text = Region(Template[up.target][e.path], e.part[1], e.part[2])
      BY <2>1, <2>2, RegionTyped
    <2>4. disk'[e.path] = ReplaceRegion(disk[e.path], e.part, text)
      BY <1>2, <1>5, <2>3 DEF Applied
    <2>5. CASE p # e.part
      BY <1>2, <1>3, <1>5, <2>4, <2>5, ReplacedFacts
    <2>6. CASE p = e.part
      <3>1. p[1] \notin DOMAIN Others /\ p = <<e.part[1], e.part[2]>>
        BY <1>2, <1>5, <2>6, TemplateAssumption
      <3>2. Text(up.seen[e.path], p) = Mine
        BY <3>1
      <3>3. up.seen[e.path] # Gone /\ up.seen[e.path] # Torn
        BY <3>2, ContentFacts DEF Text
      <3>4. Region(up.seen[e.path], e.part[1], e.part[2]) = Mine
        BY <3>1, <3>2, <3>3 DEF Region
      <3>5. Region(Template[Recorded][e.path], e.part[1], e.part[2]) = Mine
        BY <1>1, <1>5, <3>3, <3>4 DEF ReviewInv
      <3>6. Text(Template[Recorded][e.path], p) = Mine
        BY <1>2, <3>1, <3>5, TemplateTyped, ContentFacts DEF Region
      <3> QED
        BY <1>2, <3>6, TemplateTexts
    <2> QED
      BY <2>5, <2>6
  <1> QED
    BY <1>4, <1>5

LEMMA AdditionsSpareBlocks ==
  ASSUME AddIInv, AddsFile(TRUE)
  PROVE  \A f \in File : \A p \in Blocks(disk[f]) :
           p[1] # adding.template => Text(disk'[f], p) = Text(disk[f], p)
  <1>1. IInv /\ AddingInv /\ UpTyped /\ GroundTyped
    BY Unpacked DEF AddIInv
  <1>2. adding.stage = "files" /\ adding.files # <<>> /\ Adding
    BY DEF AddsFile, Adding
  <1>3. PICK f \in DOMAIN adding.files :
          /\ f = First(DOMAIN adding.files) /\ f \in File /\ f # Record /\ f \in Path
          /\ adding.files[f] \in Content /\ Fits(f, adding.files[f])
    BY <1>2, AddsFileFacts
  <1>4. Writes(f, adding.files[f], TRUE)
    BY <1>3 DEF AddsFile
  <1>5. disk'[f] = adding.files[f] /\ \A g \in File : g # f => disk'[g] = disk[g]
    BY <1>1, <1>3, <1>4, WritesFacts DEF Path
  <1>6. \A p \in Blocks(disk[f]) :
          p[1] # adding.template => Text(adding.files[f], p) = Text(disk[f], p)
    BY <1>1, <1>2, <1>3 DEF AddingInv
  <1> QED
    BY <1>5, <1>6

(* Neither an upgrade nor an addition overwrites what is the developer's or *)
(* another template's (applyChangeSet, addTemplate).                        *)
THEOREM ForeignTextIsSafe == AddSpec => ForeignTextSurvives
  <1>1. AddIInv /\ [AddNext]_avars =>
          [/\ AppliesEntry(TRUE) => LeavesForeignText
           /\ AddsFile(TRUE) =>
                \A f \in File : \A p \in Blocks(disk[f]) :
                  p[1] # adding.template => Text(disk'[f], p) = Text(disk[f], p)]_avars
    BY EntriesSpareForeignText, AdditionsSpareBlocks DEF AddIInv
  <1> QED
    BY <1>1, TemplatesInvariance, PTL DEF AddSpec, ForeignTextSurvives

LEMMA EntriesSpareRegions ==
  ASSUME IInv, AppliesEntry(TRUE), Identity = Repo,
         NEW f \in Shared[up.target], NEW k \in Owned[up.target][f],
         Holds(disk[f], k), Holds(Template[up.target][f], k)
  PROVE  Holds(disk'[f], k)
  <1>1. UpTyped /\ GroundTyped /\ ReviewInv /\ up.stage = "apply"
    BY Unpacked DEF AppliesEntry
  <1>2. PICK e \in up.clean :
          /\ disk'[e.path] = Applied(e) /\ e.path \in File /\ up.target \in Version
          /\ Recorded \in Version /\ Identity \in Identities
          /\ \A g \in File : g # e.path => disk'[g] = disk[g]
          /\ e.part # Gone => e.part \in Part /\ e.part = <<Identity, e.part[2]>>
    BY EntryFacts
  <1>3. f \in File /\ <<Repo, k>> \in Part
    BY <1>2, TemplateAssumption
  <1>4. CASE f # e.path
    BY <1>2, <1>3, <1>4
  <1>5. CASE f = e.path
    <2>1. e.part # Gone /\ ~Legacy(up.target)
      BY <1>1, <1>5 DEF ReviewInv
    <2>2. Declared[up.target] = Repo /\ e.part = <<Repo, e.part[2]>> /\ e.part \in Part
      BY <1>2, <2>1 DEF Legacy
    <2>3. \A content : Holds(content, k) <=> Region(content, Repo, k) # Gone
      BY <1>3, <2>2 DEF Holds
    <2>4. <<e.part[1], e.part[2]>> \in Part
      BY <2>2
    <2>5. Template[up.target][f] \in Content \cup {Gone, Torn}
      BY <1>2, <1>3, TemplateTyped
    <2>6. PICK text \in Word \cup {Gone} :
            text = Region(Template[up.target][f], e.part[1], e.part[2])
      BY <2>4, <2>5, RegionTyped
    <2>7. disk'[f] = ReplaceRegion(disk[f], e.part, text)
      BY <1>2, <1>5, <2>1, <2>6 DEF Applied
    <2>8. disk[f] \in Content \cup {Gone} /\ Text(disk[f], <<Repo, k>>) # Gone
      <3>1. disk[f] \in Content \cup {Gone, Torn}
        BY <1>1, <1>3 DEF GroundTyped, DiskTyped
      <3> QED
        BY <2>3, <3>1 DEF Region
    <2>9. /\ disk[f] \in Content \cup {Gone, Torn} /\ disk[f] # Torn
          /\ e.part \in Part /\ text \in Word \cup {Gone}
      BY <2>2, <2>6, <2>8, ContentFacts
    <2>10. /\ disk'[f] \in Content /\ Text(disk'[f], e.part) = text
           /\ \A q \in Part : q # e.part => Text(disk'[f], q) = Text(disk[f], q)
      <3>1. PICK c \in Content \cup {Gone, Torn}, p \in Part : c = disk[f] /\ p = e.part
        BY <2>9
      <3>2. /\ ReplaceRegion(c, p, text) \in Content /\ Text(ReplaceRegion(c, p, text), p) = text
            /\ \A q \in Part : q # p => Text(ReplaceRegion(c, p, text), q) = Text(c, q)
        BY <2>9, <3>1, ReplacedFacts
      <3>3. disk'[f] = ReplaceRegion(c, p, text)
        BY <2>7, <3>1
      <3> QED
        BY <3>1, <3>2, <3>3
    <2>11. disk'[f] \in Content /\ disk'[f] # Torn
      BY <2>10, ContentFacts
    <2>12. Text(disk'[f], <<Repo, k>>) # Gone
      <3>1. CASE e.part[2] = k
        <4>1. text # Gone
          BY <2>2, <2>3, <2>6, <3>1
        <4> QED
          BY <2>2, <2>10, <3>1, <4>1
      <3>2. CASE e.part[2] # k
        <4>1. <<Repo, k>> # e.part
          BY <2>2, <3>2
        <4> QED
          BY <1>3, <2>8, <2>10, <4>1
      <3> QED
        BY <3>1, <3>2
    <2> QED
      BY <2>3, <2>11, <2>12 DEF Region
  <1> QED
    BY <1>4, <1>5

(* Under a record that names the repository no region is taken away that the *)
(* target version still has (inst-cmp-skip-region-union-legacy).             *)
THEOREM RegionsAreKept == AddSpec => RegionsSurvive
  <1>1. AddIInv /\ [AddNext]_avars =>
          [AppliesEntry(TRUE) /\ Identity = Repo =>
             \A f \in Shared[up.target] : \A k \in Owned[up.target][f] :
               Holds(disk[f], k) /\ Holds(Template[up.target][f], k) => Holds(disk'[f], k)]_vars
    BY EntriesSpareRegions DEF AddIInv
  <1> QED
    BY <1>1, TemplatesInvariance, PTL DEF AddSpec, RegionsSurvive

-----------------------------------------------------------------------------
(* What the record says. *)
LEMMA TextFacts ==
  /\ \A c \in Content, p \in Part : Text(c, p) = c[p]
  /\ \A p : Text(Gone, p) = Gone /\ Text(Torn, p) = Torn
  /\ \A c \in Content \cup {Gone} : \A i, k : Region(c, i, k) = Text(c, <<i, k>>)
  BY ContentFacts DEF Text, Region

(* What a record that names itself answers for are parts of the files. *)
LEMMA ScopeTyped ==
  ASSUME NEW record, NamesItself(record), record.version \in Version, NEW f \in File,
         NEW p \in Scope(record, f)
  PROVE  p \in Part
  <1>1. CASE f \notin Shared[record.version]
    BY <1>1 DEF Scope
  <1>2. CASE f \in Shared[record.version]
    <2>1. PICK k \in Owned[record.version][f] : p = <<record.identity, k>>
      BY <1>2 DEF Scope
    <2>2. {<<Declared[record.version], k>>, <<Repo, k>>} \subseteq Part
      BY TemplateAssumption
    <2> QED
      BY <2>1, <2>2 DEF NamesItself
  <1> QED
    BY <1>1, <1>2

(* A project stays what a record says where its texts stay, or somebody knows. *)
LEMMA AsRecordedStays ==
  ASSUME NEW record, NamesItself(record), record.version \in Version,
         NEW before, NEW after, NEW known, NEW later, AsRecorded(record, before, known),
         known \subseteq later,
         \A f \in File : \A p \in Part :
           Text(after[f], p) = Text(before[f], p) \/ <<f, p>> \in later
  PROVE  AsRecorded(record, after, later)
  <1> SUFFICES ASSUME NEW f \in File, NEW p \in Scope(record, f), <<f, p>> \notin later
               PROVE  Text(after[f], p) = Text(Template[record.version][f], p)
    BY DEF AsRecorded
  <1>1. p \in Part
    BY ScopeTyped
  <1>2. Text(after[f], p) = Text(before[f], p)
    BY <1>1
  <1>3. <<f, p>> \notin known
    OBVIOUS
  <1> QED
    BY <1>2, <1>3 DEF AsRecorded

(* A text that one content has and all others of one file leave alone stays. *)
LEMMA UnionText ==
  ASSUME NEW S, S \subseteq Content \cup {Gone}, NEW c \in S, NEW p \in Part,
         \A d \in S : d # c => Text(d, p) = Gone
  PROVE  Text(Union(S), p) = Text(c, p)
  <1> DEFINE there == S \ {Gone}
             having(q) == {d \in there : d[q] # Gone}
  <1>1. there \subseteq Content
    OBVIOUS
  <1>2. \A d \in there : Text(d, p) = d[p]
    BY <1>1, TextFacts
  <1>3. CASE there = {}
    <2>1. c = Gone /\ Union(S) = Gone
      BY <1>3 DEF Union
    <2> QED
      BY <2>1
  <1>4. CASE there # {}
    <2>1. Union(S) = [q \in Part |-> IF having(q) = {} THEN Gone
                                     ELSE (CHOOSE d \in having(q) : TRUE)[q]]
      BY <1>4 DEF Union
    <2>2. Union(S) \in Content
      BY <1>4, UnionTyped
    <2>4. Text(Union(S), p) = Union(S)[p]
      BY <2>2, TextFacts
    <2>5. CASE having(p) = {}
      <3>1. Union(S)[p] = Gone
        BY <2>1, <2>5
      <3>2. c # Gone => c[p] = Gone
        BY <2>5
      <3>3. Text(c, p) = Gone
        BY <1>2, <3>2, TextFacts
      <3> QED
        BY <2>4, <3>1, <3>3
    <2>6. CASE having(p) # {}
      <3>1. \A d \in having(p) : d = c
        BY <1>2
      <3>2. (CHOOSE d \in having(p) : TRUE) = c
        BY <2>6, <3>1
      <3>3. c \in there
        BY <2>6, <3>1
      <3> QED
        BY <1>2, <2>1, <2>4, <2>6, <3>2, <3>3
    <2> QED
      BY <2>5, <2>6
  <1> QED
    BY <1>3, <1>4

(* A write, and how it may end. *)
LEMMA WriteEnds ==
  ASSUME DiskTyped(disk), NEW f \in Path, NEW content, NEW ok \in BOOLEAN, Writes(f, content, ok)
  PROVE  /\ \A g \in Path : g # f => disk'[g] = disk[g]
         /\ ok => disk'[f] = content
         /\ ~ok => disk'[f] \in {disk[f], Torn}
         /\ ~ok /\ content = Gone => disk'[f] = disk[f]
  <1>1. DOMAIN disk = Path
    BY DEF DiskTyped
  <1>2. PICK c : /\ disk' = [disk EXCEPT ![f] = c]
                 /\ c \in IF ok THEN {content}
                          ELSE {disk[f]} \cup IF content = Gone THEN {} ELSE {Torn}
    BY DEF Writes
  <1> QED
    BY <1>1, <1>2

(* The record before an apply, and the one it writes. *)
Snapped == {"apply", "restore", "applied", "failed", "rollback", "threw", "rolledback"}

LEMMA RecordFacts ==
  ASSUME IInv, BeforeInv, up.stage \in Snapped
  PROVE  /\ up.before[Record] \in Provenance /\ up.before[Record].version \in Version
         /\ NamesItself(up.before[Record]) /\ NamesItself(NewRecord)
         /\ NewRecord.version = up.target /\ NewRecord.identity = up.before[Record].identity
         /\ up.target \in Version /\ NewRecord \in Provenance
  <1>1. UpTyped
    BY Unpacked
  <1>2. /\ NamesItself(up.before[Record])
        /\ Declared[up.target] = Declared[up.before[Record].version]
    BY DEF BeforeInv, Snapped
  <1>3. up.before[Record] \in Provenance /\ up.target \in Version
    BY <1>1, <1>2 DEF UpTyped, DiskTyped, NamesItself
  <1>4. /\ NewRecord \in Provenance /\ NewRecord.version = up.target
        /\ NewRecord.identity = up.before[Record].identity
    BY <1>3 DEF NewRecord, Provenance
  <1>5. NamesItself(NewRecord)
    BY <1>2, <1>4, ContentFacts DEF NamesItself
  <1> QED
    BY <1>2, <1>3, <1>4, <1>5, ProvenanceFacts

(* What was there before an apply stays known through all that follows. *)
LEMMA BeforeStays ==
  ASSUME IInv, BeforeInv, up.stage \in Snapped, SameUp, excused \subseteq excused',
         disk'[Record] \in {up.before[Record], NewRecord, Torn},
         \A f \in File \ DOMAIN up.snapshot : \A p \in Part :
           Text(disk'[f], p) = Text(disk[f], p) \/ <<f, p>> \in excused'
  PROVE  BeforeInv'
  <1>1. /\ up'.before = up.before /\ up'.target = up.target /\ up'.clean = up.clean
        /\ up'.snapshot = up.snapshot /\ NewRecord' = NewRecord /\ Affected' = Affected
    BY DEF SameUp, NewRecord, Affected
  <1>2. /\ NamesItself(up.before[Record])
        /\ Declared[up.target] = Declared[up.before[Record].version]
        /\ AsRecorded(up.before[Record], up.before, excused)
        /\ \A f \in File : up.before[f] = Torn => PartsIn({f}) \subseteq excused
        /\ \A f \in File : \A p \in Scope(NewRecord, f) :
             \/ Cleanly(f, p, up.clean)
             \/ Text(up.before[f], p) = Text(Template[up.target][f], p)
             \/ <<f, p>> \in excused
        /\ DOMAIN up.snapshot = Affected
        /\ \A f \in File \ DOMAIN up.snapshot : \A p \in Part :
             Text(disk[f], p) = Text(up.before[f], p) \/ <<f, p>> \in excused
    BY DEF BeforeInv, Snapped
  <1>3. AsRecorded(up.before[Record], up.before, excused')
    BY <1>2, RecordFacts, AsRecordedStays
  <1>4. /\ \A f \in File : up.before[f] = Torn => PartsIn({f}) \subseteq excused'
        /\ \A f \in File : \A p \in Scope(NewRecord, f) :
             \/ Cleanly(f, p, up.clean)
             \/ Text(up.before[f], p) = Text(Template[up.target][f], p)
             \/ <<f, p>> \in excused'
    BY <1>2
  <1>5. \A f \in File \ DOMAIN up.snapshot : \A p \in Part :
          Text(disk'[f], p) = Text(up.before[f], p) \/ <<f, p>> \in excused'
    BY <1>2
  <1> QED
    BY <1>1, <1>2, <1>3, <1>4, <1>5 DEF BeforeInv

(* Where everything an apply may have written is excused, whichever record is *)
(* there is right about the rest.                                             *)
LEMMA Settled ==
  ASSUME IInv, BeforeInv, up.stage \in Snapped, excused \subseteq excused',
         PartsIn(DOMAIN up.snapshot) \subseteq excused',
         disk'[Record] \in {up.before[Record], NewRecord},
         \A f \in File \ DOMAIN up.snapshot : disk'[f] = disk[f]
  PROVE  NamesItself(disk'[Record]) /\ AsRecorded(disk'[Record], disk', excused')
  <1>1. /\ AsRecorded(up.before[Record], up.before, excused)
        /\ \A f \in File : \A p \in Scope(NewRecord, f) :
             \/ Cleanly(f, p, up.clean)
             \/ Text(up.before[f], p) = Text(Template[up.target][f], p)
             \/ <<f, p>> \in excused
        /\ DOMAIN up.snapshot = Affected
        /\ \A f \in File \ DOMAIN up.snapshot : \A p \in Part :
             Text(disk[f], p) = Text(up.before[f], p) \/ <<f, p>> \in excused
    BY DEF BeforeInv, Snapped
  <1>2. \A f \in File : \A p \in Part :
          f \in DOMAIN up.snapshot => <<f, p>> \in excused'
    BY DEF PartsIn
  <1>3. \A f \in File : \A p \in Part :
          Text(disk'[f], p) = Text(up.before[f], p) \/ <<f, p>> \in excused'
    BY <1>1, <1>2
  <1>4. CASE disk'[Record] = up.before[Record]
    BY <1>1, <1>3, <1>4, RecordFacts, AsRecordedStays
  <1>5. CASE disk'[Record] = NewRecord
    <2> SUFFICES ASSUME NEW f \in File, NEW p \in Scope(NewRecord, f), <<f, p>> \notin excused'
                 PROVE  Text(disk'[f], p) = Text(Template[up.target][f], p)
      BY <1>5, RecordFacts DEF AsRecorded
    <2>1. p \in Part
      BY RecordFacts, ScopeTyped
    <2>2. f \notin DOMAIN up.snapshot
      BY <1>2, <2>1
    <2>3. ~Cleanly(f, p, up.clean)
      <3> SUFFICES ASSUME NEW e \in up.clean, <<f, p>> \in PartsOf(e) PROVE FALSE
        BY DEF Cleanly
      <3>1. f = e.path
        BY DEF PartsOf
      <3> QED
        BY <1>1, <2>2, <3>1 DEF Affected
    <2> QED
      BY <1>1, <1>3, <2>1, <2>3
  <1> QED
    BY <1>4, <1>5

-----------------------------------------------------------------------------
(* What scaffolding leaves is what its record says. *)
LEMMA InitRecordInv == ASSUME ScaffoldsDoNotClash PROVE Init => RecordInv
  <1> SUFFICES ASSUME Init PROVE RecordInv
    OBVIOUS
  <1>1. PICK r \in Scaffolds : \E others \in {<<>>} \cup {<<o>> : o \in Together} :
          disk = [x \in Path |->
                    IF x = Record THEN [identity |-> r[1], version |-> r[2], others |-> others]
                    ELSE Scaffolded(r[2], Range(others))[x]]
    BY DEF Init
  <1>2. PICK others \in {<<>>} \cup {<<o>> : o \in Together} :
          disk = [x \in Path |->
                    IF x = Record THEN [identity |-> r[1], version |-> r[2], others |-> others]
                    ELSE Scaffolded(r[2], Range(others))[x]]
    BY <1>1
  <1>3. /\ disk[Record].identity = r[1] /\ disk[Record].version = r[2]
        /\ disk[Record] \in Provenance
    <2>1. disk[Record] = [identity |-> r[1], version |-> r[2], others |-> others]
      BY <1>2 DEF Path
    <2>2. disk[Record] # Torn => disk[Record] \in Provenance
      BY InitIInv, Unpacked DEF GroundTyped, DiskTyped
    <2>3. others \in Seq(DOMAIN Others)
      <3>1. CASE others = <<>>
        BY <3>1
      <3>2. CASE \E o \in Together : others = <<o>>
        BY <3>2, TemplateAssumption
      <3> QED
        BY <3>1, <3>2
    <2> QED
      BY <2>1, <2>3, TemplateAssumption DEF Provenance, Identities
  <1>4. Range(others) \subseteq Together
    <2>1. CASE others = <<>>
      BY <2>1 DEF Range
    <2>2. CASE \E o \in Together : others = <<o>>
      BY <2>2 DEF Range
    <2> QED
      BY <2>1, <2>2
  <1>5. NamesItself(disk[Record])
    BY <1>3, ContentFacts, TemplateAssumption DEF NamesItself
  <1>6. ASSUME NEW f \in File, NEW p \in Scope(disk[Record], f)
        PROVE  Text(disk[f], p) = Text(Template[r[2]][f], p)
    <2> DEFINE all == {Template[r[2]][f]} \cup {Others[o][f] : o \in Range(others)}
    <2>1. disk[f] = Union(all)
      BY <1>2, ContentFacts DEF Path, Scaffolded
    <2>2. all \subseteq Content \cup {Gone} /\ Template[r[2]][f] \in all
      BY <1>4, TemplateAssumption, TemplateTyped
    <2>3. p \in Part /\ r[2] \in Version
      BY <1>3, <1>5, ScopeTyped, ProvenanceFacts
    <2>4. ASSUME NEW d \in all, d # Template[r[2]][f] PROVE Text(d, p) = Gone
      <3>1. PICK o \in Together : d = Others[o][f]
        BY <1>4, <2>4
      <3>2. CASE d = Gone
        BY <3>2, TextFacts
      <3>3. CASE d # Gone
        <4>1. /\ Others[o][f][p] # Gone => p[1] \in DOMAIN Others
              /\ f \in Shared[r[2]] \/ Template[r[2]][f] = Gone
          BY <2>3, <3>1, <3>3 DEF ScaffoldsDoNotClash
        <4>2. p[1] \notin DOMAIN Others
          <5>1. CASE f \in Shared[r[2]]
            <6>1. p[1] = disk[Record].identity
              BY <1>3, <1>6, <5>1 DEF Scope
            <6> QED
              BY <1>3, <6>1, ProvenanceFacts, TemplateAssumption
          <5>2. CASE f \notin Shared[r[2]]
            BY <1>3, <1>6, <4>1, <5>2 DEF Scope
          <5> QED
            BY <5>1, <5>2
        <4>3. d \in Content
          BY <2>2, <3>3
        <4> QED
          BY <2>3, <3>1, <4>1, <4>2, <4>3, TextFacts
      <3> QED
        BY <3>2, <3>3
    <2> HIDE DEF all
    <2> QED
      BY <2>1, <2>2, <2>3, <2>4, UnionText
  <1>7. AsRecorded(disk[Record], disk, excused)
    BY <1>3, <1>6 DEF AsRecorded
  <1>8. up.stage = "none" /\ DOMAIN up.snapshot = {}
    BY DEF Init
  <1>9. TornInv
    <2>1. \A f \in File : disk[f] \in Content \cup {Gone}
      <3> SUFFICES ASSUME NEW f \in File PROVE disk[f] \in Content \cup {Gone}
        OBVIOUS
      <3>1. disk[f] = Scaffolded(r[2], Range(others))[f]
        BY <1>2, ContentFacts DEF Path
      <3>2. r[2] \in Version /\ Range(others) \subseteq DOMAIN Others
        BY <1>4, TemplateAssumption
      <3> QED
        BY <3>1, <3>2, ScaffoldedTyped
    <2> QED
      BY <2>1, ContentFacts DEF TornInv
  <1> QED
    BY <1>5, <1>7, <1>8, <1>9
       DEF RecordInv, StandsInv, ChangeSetInv, BeforeInv, ApplyInv, PutBackInv

(* The change set is of the record. *)
LEMMA ChangesKept ==
  ASSUME disk'[Record] = disk[Record], NEW v
  PROVE  Changes(v)' = Changes(v) /\ OneTemplate(v)' = OneTemplate(v)
  <1>1. Identity' = Identity /\ Recorded' = Recorded /\ Legacy(v)' = Legacy(v)
    BY RecordKept
  <1>2. RegionsCompared(v)' = RegionsCompared(v)
    BY <1>1 DEF RegionsCompared
  <1> QED
    BY <1>1, <1>2 DEF Changes, OneTemplate

(* Steps that write nothing, and leave no snapshot. *)
LEMMA DeveloperRecordInv ==
  ASSUME IInv, RecordInv, NEW f \in File, NEW content \in Edited(disk[f]),
         DeveloperEdits(f, content)
  PROVE  RecordInv'
  <1>1. UpTyped /\ GroundTyped
    BY Unpacked
  <1>2. /\ disk' = [disk EXCEPT ![f] = content]
        /\ AtRest \/ up.stage = "review"
        /\ up' = [up EXCEPT !.since = @ \cup {f}]
        /\ excused' = excused \cup IF content = Gone THEN PartsIn({f})
                       ELSE {<<f, p>> : p \in {q \in Part : Text(content, q) # Text(disk[f], q)}}
    BY DEF DeveloperEdits
  <1>3. DOMAIN disk = Path /\ f \in Path /\ f # Record /\ Record \in Path
    BY <1>1, ContentFacts DEF GroundTyped, DiskTyped, Path
  <1>4. /\ disk'[f] = content /\ disk'[Record] = disk[Record]
        /\ \A g \in Path : g # f => disk'[g] = disk[g]
    BY <1>2, <1>3
  <1>5. SameUp /\ up'.stage = up.stage
    BY <1>1, <1>2 DEF UpTyped, UpFields, SameUp
  <1>6. content # Torn
    <2>1. disk[f] \in Content \cup {Gone, Torn}
      BY <1>1 DEF GroundTyped, DiskTyped
    <2>2. \A c \in Content, p \in Part : [c EXCEPT ![p] = Mine] # Torn
      BY ContentFacts
    <2> QED
      BY <2>1, <2>2, ContentFacts DEF Edited
  <1>7. \A g \in File : \A p \in Part :
          Text(disk'[g], p) = Text(disk[g], p) \/ <<g, p>> \in excused'
    <2> SUFFICES ASSUME NEW g \in File, NEW p \in Part
                 PROVE  Text(disk'[g], p) = Text(disk[g], p) \/ <<g, p>> \in excused'
      OBVIOUS
    <2>1. CASE g # f
      BY <1>4, <2>1 DEF Path
    <2>2. CASE g = f /\ content = Gone
      BY <1>2, <2>2 DEF PartsIn
    <2>3. CASE g = f /\ content # Gone
      BY <1>2, <1>4, <2>3
    <2> QED
      BY <2>1, <2>2, <2>3
  <1>8. excused \subseteq excused'
    BY <1>2
  <1>9. StandsInv'
    <2>1. CASE Legible
      <3>1. NamesItself(disk[Record]) /\ AsRecorded(disk[Record], disk, excused)
        BY <1>2, <2>1 DEF RecordInv, StandsInv
      <3>2. disk[Record].version \in Version
        BY <1>1, <2>1, ProvenanceFacts DEF Legible, GroundTyped, DiskTyped
      <3>3. AsRecorded(disk[Record], disk', excused')
        BY <1>7, <1>8, <3>1, <3>2, AsRecordedStays
      <3> QED
        BY <1>4, <3>1, <3>3 DEF StandsInv
    <2>2. CASE ~Legible
      BY <1>4, <2>2 DEF StandsInv, Legible
    <2> QED
      BY <2>1, <2>2
  <1>10. TornInv'
    BY <1>2, <1>4, <1>5, <1>6, <1>8 DEF RecordInv, TornInv, AtRest, Path
  <1>11. ChangeSetInv'
    <2>1. /\ up'.target = up.target /\ up'.clean = up.clean /\ up'.conflicts = up.conflicts
          /\ Changes(up.target)' = Changes(up.target)
          /\ OneTemplate(up.target)' = OneTemplate(up.target)
      BY <1>4, <1>5, ChangesKept DEF SameUp
    <2> QED
      BY <1>5, <2>1 DEF RecordInv, ChangeSetInv
  <1>12. BeforeInv'
    <2>1. CASE up.stage \in Snapped
      <3>1. /\ disk[Record] \in {up.before[Record], NewRecord, Torn}
            /\ BeforeInv
        BY <2>1 DEF RecordInv, BeforeInv, Snapped
      <3> QED
        BY <1>4, <1>5, <1>7, <1>8, <2>1, <3>1, BeforeStays
    <2>2. CASE up.stage \notin Snapped
      BY <1>5, <2>2 DEF BeforeInv, Snapped
    <2> QED
      BY <2>1, <2>2
  <1>13. ApplyInv' /\ PutBackInv'
    BY <1>2, <1>5 DEF ApplyInv, PutBackInv, AtRest
  <1> QED
    BY <1>9, <1>10, <1>11, <1>12, <1>13 DEF RecordInv

LEMMA ComputesRecordInv ==
  ASSUME IInv, RecordInv, NEW v \in Version, Computes(v) PROVE RecordInv'
  <1>1. UpTyped
    BY Unpacked
  <1>2. /\ disk' = disk /\ excused' = excused /\ AtRest /\ OneTemplate(v)
        /\ up' = [up EXCEPT !.stage = "review", !.round = @ + 1, !.target = v, !.seen = disk,
                            !.clean = {e \in Changes(v) : ~Modified(e)},
                            !.conflicts = {e \in Changes(v) : Modified(e)}]
    BY DEF Computes
  <1>3. /\ up'.stage = "review" /\ up'.target = v
        /\ up'.clean = {e \in Changes(v) : ~Modified(e)}
        /\ up'.conflicts = {e \in Changes(v) : Modified(e)}
    BY <1>1, <1>2 DEF UpTyped, UpFields
  <1>4. ChangeSetInv'
    <2>1. up'.clean \cup up'.conflicts = Changes(v)
      BY <1>3
    <2>2. Changes(v)' = Changes(v) /\ OneTemplate(v)' = OneTemplate(v)
      BY <1>2, ChangesKept
    <2> QED
      BY <1>2, <1>3, <2>1, <2>2 DEF ChangeSetInv
  <1>5. StandsInv' /\ TornInv'
    BY <1>2, <1>3 DEF RecordInv, StandsInv, TornInv, AtRest, Legible
  <1> QED
    BY <1>3, <1>4, <1>5 DEF RecordInv, BeforeInv, ApplyInv, PutBackInv

LEMMA DeclinesRecordInv == ASSUME IInv, RecordInv, Declines PROVE RecordInv'
  <1>1. /\ disk' = disk /\ excused' = excused /\ up.stage = "review"
        /\ up' = [up EXCEPT !.stage = "declined"]
    BY DEF Declines
  <1>2. up'.stage = "declined"
    BY <1>1, Unpacked DEF UpTyped, UpFields
  <1> QED
    BY <1>1, <1>2 DEF RecordInv, StandsInv, TornInv, ChangeSetInv, BeforeInv, ApplyInv, PutBackInv,
                      AtRest, Legible

(* What differs between the recorded version and the target is in the change set. *)
LEMMA ChangesCover ==
  ASSUME ClaimsComeWithTexts, disk[Record] \in Provenance, NEW v \in Version, OneTemplate(v),
         NEW f \in File, NEW p \in Scope([disk[Record] EXCEPT !.version = v], f), p \in Part
  PROVE  \/ Cleanly(f, p, Changes(v))
         \/ /\ p \in Scope(disk[Record], f)
            /\ Text(Template[v][f], p) = Text(Template[Recorded][f], p)
  <1>1. /\ Recorded \in Version /\ Declared[Recorded] = Declared[v]
        /\ Identity = Declared[v] \/ Legacy(v)
        /\ [disk[Record] EXCEPT !.version = v].version = v
        /\ [disk[Record] EXCEPT !.version = v].identity = Identity
    BY DEF OneTemplate, Recorded, Identity, Provenance
  <1>2. CASE f \notin Shared[v]
    <2>1. p \in {q \in Part : Template[v][f] # Gone \/ q[1] \notin DOMAIN Others}
      BY <1>1, <1>2 DEF Scope
    <2>2. CASE Template[Recorded][f] # Template[v][f]
      <3>1. Entry(f, Gone) \in Changes(v)
        BY <1>2, <2>2 DEF Changes
      <3>2. <<f, p>> \in PartsOf(Entry(f, Gone))
        BY DEF PartsOf, Entry
      <3> QED
        BY <3>1, <3>2 DEF Cleanly
    <2>3. CASE Template[Recorded][f] = Template[v][f]
      <3>1. f \notin Shared[Recorded]
        BY <1>1, <1>2, <2>3 DEF ClaimsComeWithTexts
      <3> QED
        BY <2>1, <2>3, <3>1 DEF Scope, Recorded
    <2> QED
      BY <2>2, <2>3
  <1>3. CASE f \in Shared[v]
    <2>1. PICK k \in Owned[v][f] : /\ p = <<Identity, k>>
                                  /\ ~NamesTheRepo([disk[Record] EXCEPT !.version = v])
      BY <1>1, <1>3 DEF Scope
    <2>2. Identity = Declared[v] /\ ~Legacy(v) /\ ~NamesTheRepo(disk[Record])
      BY <1>1, <2>1 DEF NamesTheRepo, Legacy, Identity, Recorded
    <2>3. /\ Region(Template[v][f], Identity, k) = Text(Template[v][f], p)
          /\ Region(Template[Recorded][f], Identity, k) = Text(Template[Recorded][f], p)
      BY <1>1, <2>1, TemplateTyped, TextFacts
    <2>4. CASE Text(Template[Recorded][f], p) # Text(Template[v][f], p)
      <3>1. Entry(f, <<Identity, k>>) \in Changes(v)
        <4>1. <<f, k>> \in UNION {{<<g, j>> : j \in Owned[v][g]} : g \in RegionsCompared(v)}
          BY <1>3, <2>2 DEF RegionsCompared
        <4>2. <<f, k>>[1] = f /\ <<f, k>>[2] = k
          OBVIOUS
        <4> QED
          BY <2>3, <2>4, <4>1, <4>2 DEF Changes
      <3>2. <<f, p>> \in PartsOf(Entry(f, <<Identity, k>>))
        BY <2>1, ContentFacts DEF PartsOf, Entry
      <3> QED
        BY <3>1, <3>2 DEF Cleanly
    <2>5. CASE Text(Template[Recorded][f], p) = Text(Template[v][f], p)
      <3>1. CASE f \in Shared[Recorded]
        <4>1. k \in Owned[Recorded][f]
          BY <1>1, <1>3, <2>2, <2>3, <2>5, <3>1 DEF ClaimsComeWithTexts
        <4> QED
          BY <2>1, <2>2, <2>5, <3>1, <4>1 DEF Scope, Identity, Recorded
      <3>2. CASE f \notin Shared[Recorded]
        <4>1. p[1] = Identity /\ Identity \notin DOMAIN Others
          BY <1>1, <2>1, ProvenanceFacts, TemplateAssumption DEF Identity
        <4> QED
          BY <2>5, <3>2, <4>1 DEF Scope, Recorded
      <3> QED
        BY <3>1, <3>2
    <2> QED
      BY <2>4, <2>5
  <1> QED
    BY <1>2, <1>3

LEMMA ApprovesRecordInv ==
  ASSUME ClaimsComeWithTexts, IInv, RecordInv, Approves PROVE RecordInv'
  <1>1. UpTyped /\ GroundTyped
    BY Unpacked
  <1>2. /\ disk' = disk /\ up.stage = "review"
        /\ excused' = excused \cup UNION {PartsOf(e) : e \in up.conflicts}
        /\ up' = [up EXCEPT !.stage = "apply", !.todo = up.clean, !.left = {}, !.since = {},
                            !.snapshot = [f \in Affected |-> disk[f]], !.before = disk]
    BY DEF Approves
  <1>3. /\ up'.stage = "apply" /\ up'.target = up.target /\ up'.clean = up.clean
        /\ up'.conflicts = up.conflicts /\ up'.snapshot = [f \in Affected |-> disk[f]]
        /\ up'.left = {} /\ up'.before = disk /\ up'.since = {} /\ up'.todo = up.clean
    BY <1>1, <1>2 DEF UpTyped, UpFields
  <1>4. /\ disk[Record] \in Provenance /\ Legible
        /\ NamesItself(disk[Record]) /\ AsRecorded(disk[Record], disk, excused)
    <2>1. Legible
      BY <1>2, Unpacked DEF ReviewInv
    <2> QED
      BY <1>1, <1>2, <2>1 DEF RecordInv, StandsInv, Legible, GroundTyped, DiskTyped
  <1>5. /\ up.target \in Version /\ OneTemplate(up.target)
        /\ up.clean \cup up.conflicts = Changes(up.target)
    BY <1>1, <1>2 DEF RecordInv, ChangeSetInv, UpTyped
  <1>6. NewRecord' = [disk[Record] EXCEPT !.version = up.target]
    BY <1>3 DEF NewRecord
  <1>7. excused \subseteq excused'
    BY <1>2
  <1>8. AsRecorded(disk[Record], disk, excused') /\ Recorded \in Version
    BY <1>4, <1>7, AsRecordedStays, ProvenanceFacts DEF Recorded
  <1>9. /\ NewRecord'.version = up.target /\ NamesItself(NewRecord')
        /\ Declared[up.target] = Declared[Recorded]
    <2>1. /\ NewRecord'.version = up.target /\ NewRecord'.identity = Identity
          /\ NewRecord' \in Provenance
      BY <1>4, <1>5, <1>6 DEF Provenance, Identity
    <2> QED
      BY <1>4, <1>5, <2>1, ContentFacts DEF NamesItself, OneTemplate, Identity, Recorded
  <1>10. ASSUME NEW f \in File, NEW p \in Scope(NewRecord', f)
         PROVE  \/ Cleanly(f, p, up.clean)
                \/ Text(disk[f], p) = Text(Template[up.target][f], p)
                \/ <<f, p>> \in excused'
    <2>1. p \in Part
      BY <1>5, <1>9, ScopeTyped
    <2>2. CASE Cleanly(f, p, Changes(up.target))
      BY <1>2, <1>5, <2>2 DEF Cleanly
    <2>3. CASE /\ p \in Scope(disk[Record], f)
               /\ Text(Template[up.target][f], p) = Text(Template[Recorded][f], p)
      BY <1>8, <2>3 DEF AsRecorded, Recorded
    <2> QED
      BY <1>4, <1>5, <1>6, <2>1, <2>2, <2>3, ChangesCover
  <1>11. BeforeInv'
    <2>1. \A f \in File : disk[f] = Torn => PartsIn({f}) \subseteq excused'
      BY <1>2, <1>7 DEF RecordInv, TornInv
    <2>2. Affected' = Affected /\ DOMAIN up'.snapshot = Affected
      BY <1>3 DEF Affected
    <2> QED
      BY <1>2, <1>3, <1>4, <1>8, <1>9, <1>10, <2>1, <2>2 DEF BeforeInv, Recorded
  <1>12. ChangeSetInv'
    <2>1. /\ Changes(up.target)' = Changes(up.target)
          /\ OneTemplate(up.target)' = OneTemplate(up.target)
      BY <1>2, <1>3, ChangesKept
    <2> QED
      BY <1>3, <1>5, <2>1 DEF ChangeSetInv
  <1>13. ApplyInv'
    BY <1>2, <1>3 DEF ApplyInv, Cleanly
  <1>14. TornInv'
    BY <1>2, <1>7 DEF RecordInv, TornInv
  <1> QED
    BY <1>3, <1>11, <1>12, <1>13, <1>14 DEF RecordInv, StandsInv, PutBackInv, AtRest

-----------------------------------------------------------------------------
(* An entry changes its own part, or parts, to what the target version has there. *)
LEMMA AppliedText ==
  ASSUME IInv, up.stage = "apply", NEW e \in up.clean, NEW p \in Part, disk[e.path] # Torn
  PROVE  Text(Applied(e), p) = IF <<e.path, p>> \in PartsOf(e)
                               THEN Text(Template[up.target][e.path], p) ELSE Text(disk[e.path], p)
  <1>1. UpTyped /\ GroundTyped
    BY Unpacked
  <1>2. /\ e.path \in File /\ disk[e.path] \in Content \cup {Gone}
        /\ Template[up.target][e.path] \in Content \cup {Gone}
        /\ e.part # Gone => e.part \in Part /\ e.part = <<Identity, e.part[2]>>
    <2>1. e.path \in File /\ up.target \in Version
      BY <1>1 DEF UpTyped
    <2>2. e.part # Gone => e.part \in Part /\ e.part = <<Identity, e.part[2]>>
      BY AppliedTyped
    <2> QED
      BY <1>1, <2>1, <2>2, TemplateTyped DEF GroundTyped, DiskTyped
  <1>3. CASE e.part = Gone
    <2>1. <<e.path, p>> \in PartsOf(e)
      BY <1>3 DEF PartsOf
    <2> QED
      BY <1>3, <2>1 DEF Applied
  <1>4. CASE e.part # Gone
    <2>1. <<e.path, p>> \in PartsOf(e) <=> p = e.part
      BY <1>4 DEF PartsOf
    <2>2. <<e.part[1], e.part[2]>> = e.part
      BY <1>2, <1>4
    <2>3. PICK text \in Word \cup {Gone} :
            /\ text = Region(Template[up.target][e.path], e.part[1], e.part[2])
            /\ text = Text(Template[up.target][e.path], e.part)
      <3>1. Region(Template[up.target][e.path], e.part[1], e.part[2]) \in Word \cup {Gone}
        BY <1>2, <1>4, <2>2, RegionTyped
      <3>2. Region(Template[up.target][e.path], e.part[1], e.part[2])
              = Text(Template[up.target][e.path], <<e.part[1], e.part[2]>>)
        BY <1>2, TextFacts
      <3> QED
        BY <2>2, <3>1, <3>2
    <2>4. PICK old \in Content : old = IF disk[e.path] = Gone THEN Blank ELSE disk[e.path]
      BY <1>2, ContentFacts
    <2>5. Applied(e) = [old EXCEPT ![e.part] = text]
      BY <1>2, <1>4, <2>3, <2>4, ContentFacts DEF Applied, ReplaceRegion
    <2>6. /\ Applied(e) \in Content /\ Applied(e)[e.part] = text
          /\ p # e.part => Applied(e)[p] = old[p]
      BY <1>2, <1>4, <2>3, <2>4, <2>5, ContentFacts
    <2>7. Text(Applied(e), p) = Applied(e)[p] /\ Text(disk[e.path], p) = old[p]
      BY <1>2, <2>4, <2>6, TextFacts, ContentFacts
    <2> QED
      BY <2>1, <2>3, <2>6, <2>7
  <1> QED
    BY <1>3, <1>4

(* A step that begins to restore knows of every torn file. *)
LEMMA RecoversRecordInv ==
  ASSUME IInv, RecordInv, up.stage = "apply", up' = Recovers, excused' = excused,
         NEW f \in Affected, disk'[f] \in {disk[f], Torn},
         \A g \in Path : g # f => disk'[g] = disk[g]
  PROVE  RecordInv'
  <1>1. UpTyped /\ DOMAIN up.snapshot = Affected
    BY Unpacked DEF SnapshotInv
  <1>2. /\ SameUp /\ up'.stage = "restore" /\ up'.todo = DOMAIN up.snapshot
        /\ up'.left = up.left /\ up'.since = up.since
    BY <1>1, RecoversFacts
  <1>3. TornInv'
    BY <1>1, <1>2 DEF RecordInv, TornInv, Path
  <1>4. BeforeInv'
    <2>1. \A g \in File \ DOMAIN up.snapshot : disk'[g] = disk[g]
      BY <1>1 DEF Path
    <2>2. disk'[Record] \in {up.before[Record], NewRecord, Torn} /\ BeforeInv
      <3>1. disk[Record] = up.before[Record] /\ BeforeInv
        BY DEF RecordInv, ApplyInv
      <3> QED
        BY <3>1 DEF Path
    <2> QED
      BY <1>2, <2>1, <2>2, BeforeStays DEF Snapped
  <1>5. PutBackInv'
    BY <1>2 DEF RecordInv, PutBackInv, SameUp
  <1> QED
    BY <1>2, <1>3, <1>4, <1>5 DEF RecordInv, StandsInv, ChangeSetInv, ApplyInv, AtRest

LEMMA AppliesEntryRecordInv ==
  ASSUME IInv, RecordInv, NEW ok \in BOOLEAN, AppliesEntry(ok) PROVE RecordInv'
  <1>1. /\ UpTyped /\ GroundTyped /\ SnapshotInv /\ up.stage = "apply" /\ up.todo # {}
        /\ DiskTyped(disk)
    BY Unpacked DEF AppliesEntry, GroundTyped
  <1>2. PICK e \in up.todo : /\ Writes(e.path, Applied(e), ok)
                             /\ up' = IF ok THEN [up EXCEPT !.todo = @ \ {e}] ELSE Recovers
                             /\ excused' = excused
    BY <1>1 DEF AppliesEntry
  <1>3. e \in up.clean /\ up.todo \subseteq up.clean /\ DOMAIN up.snapshot = Affected
    BY <1>1, <1>2 DEF SnapshotInv
  <1>4. e.path \in File /\ e.path # Record /\ e.path \in Path /\ e.path \in Affected
    BY <1>1, <1>3, AppliedTyped DEF Path, Affected
  <1>5. /\ \A g \in Path : g # e.path => disk'[g] = disk[g]
        /\ ok => disk'[e.path] = Applied(e)
        /\ ~ok => disk'[e.path] \in {disk[e.path], Torn}
    BY <1>1, <1>2, <1>4, WriteEnds
  <1>6. CASE ~ok
    BY <1>1, <1>2, <1>4, <1>5, <1>6, RecoversRecordInv
  <1>7. CASE ok
    <2>1. /\ SameUp /\ up'.stage = "apply" /\ up'.left = up.left /\ up'.since = up.since
          /\ up'.todo = up.todo \ {e}
      <3>1. up' = [up EXCEPT !.todo = @ \ {e}]
        BY <1>2, <1>7
      <3> QED
        BY <1>1, <3>1 DEF UpTyped, UpFields, SameUp
    <2>2. disk'[Record] = disk[Record]
      BY <1>4, <1>5 DEF Path
    <2>3. disk[e.path] = Torn => PartsIn({e.path}) \subseteq excused
      BY <1>1, <1>4 DEF RecordInv, TornInv
    <2>4. TornInv'
      <3> SUFFICES ASSUME NEW f \in File, disk'[f] = Torn, disk[f] # Torn PROVE FALSE
        BY <1>1, <1>2, <2>1 DEF RecordInv, TornInv
      <3>1. f = e.path /\ Applied(e) = Torn
        BY <1>5, <1>7 DEF Path
      <3>2. Text(Applied(e), DeveloperText) # Torn
        <4>1. /\ Template[up.target][e.path] \in Content \cup {Gone}
              /\ disk[e.path] \in Content \cup {Gone}
          BY <1>1, <1>4, <3>1, TemplateTyped DEF UpTyped, DiskTyped
        <4>2. /\ Text(Template[up.target][e.path], DeveloperText) # Torn
              /\ Text(disk[e.path], DeveloperText) # Torn
          BY <4>1, TextFacts, ContentFacts
        <4>3. disk[e.path] # Torn /\ DeveloperText \in Part
          BY <3>1, ContentFacts
        <4> QED
          BY <1>1, <1>3, <4>2, <4>3, AppliedText
      <3> QED
        BY <3>1, <3>2, TextFacts
    <2>5. ChangeSetInv'
      <3>1. /\ Changes(up.target)' = Changes(up.target)
            /\ OneTemplate(up.target)' = OneTemplate(up.target)
        BY <2>1, <2>2, ChangesKept DEF SameUp
      <3> QED
        BY <1>1, <2>1, <3>1 DEF RecordInv, ChangeSetInv, SameUp
    <2>6. BeforeInv'
      <3>1. \A g \in File \ DOMAIN up.snapshot : disk'[g] = disk[g]
        BY <1>3, <1>4, <1>5 DEF Path
      <3>2. disk'[Record] \in {up.before[Record], NewRecord, Torn} /\ BeforeInv
        BY <1>1, <2>2 DEF RecordInv, ApplyInv
      <3> QED
        BY <1>1, <1>2, <2>1, <3>1, <3>2, BeforeStays DEF Snapped
    <2>7. ASSUME NEW f \in File, NEW p \in Part, <<f, p>> \notin excused
          PROVE  Text(disk'[f], p) = IF Cleanly(f, p, up.clean \ (up.todo \ {e}))
                                     THEN Text(Template[up.target][f], p) ELSE Text(up.before[f], p)
      <3>1. Text(disk[f], p) = IF Cleanly(f, p, up.clean \ up.todo)
                               THEN Text(Template[up.target][f], p) ELSE Text(up.before[f], p)
        BY <1>1, <2>7 DEF RecordInv, ApplyInv
      <3>2. Cleanly(f, p, up.clean \ (up.todo \ {e}))
              <=> Cleanly(f, p, up.clean \ up.todo) \/ <<f, p>> \in PartsOf(e)
        BY <1>2, <1>3 DEF Cleanly
      <3>3. CASE f = e.path
        <4>1. disk[e.path] # Torn
          BY <2>3, <2>7, <3>3 DEF PartsIn
        <4> QED
          BY <1>1, <1>3, <1>5, <1>7, <3>1, <3>2, <3>3, <4>1, AppliedText
      <3>4. CASE f # e.path
        <4>1. <<f, p>> \notin PartsOf(e)
          BY <3>4 DEF PartsOf
        <4> QED
          BY <1>5, <3>1, <3>2, <3>4, <4>1 DEF Path
      <3> QED
        BY <3>3, <3>4
    <2>8. ApplyInv'
      BY <1>1, <1>2, <2>1, <2>2, <2>7 DEF RecordInv, ApplyInv, SameUp
    <2>9. PutBackInv'
      BY <1>1, <2>1 DEF RecordInv, PutBackInv, SameUp
    <2> QED
      BY <2>1, <2>4, <2>5, <2>6, <2>8, <2>9 DEF RecordInv, StandsInv, AtRest
  <1> QED
    BY <1>6, <1>7

LEMMA AppliesRecordRecordInv ==
  ASSUME IInv, RecordInv, NEW ok \in BOOLEAN, AppliesRecord(ok) PROVE RecordInv'
  <1>1. UpTyped /\ GroundTyped /\ SnapshotInv /\ DiskTyped(disk)
    BY Unpacked DEF GroundTyped
  <1>2. /\ up.stage = "apply" /\ up.todo = {} /\ excused' = excused
        /\ Writes(Record, [disk[Record] EXCEPT !.version = up.target], ok)
        /\ up' = IF ok THEN [up EXCEPT !.stage = "applied"] ELSE Recovers
    BY DEF AppliesRecord, ReadyForRecord
  <1>3. /\ disk[Record] = up.before[Record] /\ BeforeInv
        /\ [disk[Record] EXCEPT !.version = up.target] = NewRecord
    BY <1>2 DEF RecordInv, ApplyInv, NewRecord
  <1>4. Record \in Path /\ Record \in Affected
    BY DEF Path, Affected
  <1>5. /\ \A g \in Path : g # Record => disk'[g] = disk[g]
        /\ ok => disk'[Record] = NewRecord
        /\ ~ok => disk'[Record] \in {disk[Record], Torn}
    BY <1>1, <1>2, <1>3, <1>4, WriteEnds
  <1>6. CASE ~ok
    BY <1>2, <1>4, <1>5, <1>6, RecoversRecordInv
  <1>7. CASE ok
    <2>1. /\ SameUp /\ up'.stage = "applied"
      <3>1. up' = [up EXCEPT !.stage = "applied"]
        BY <1>2, <1>7
      <3> QED
        BY <1>1, <3>1 DEF UpTyped, UpFields, SameUp
    <2>2. \A f \in File : disk'[f] = disk[f]
      BY <1>5, ContentFacts DEF Path
    <2>3. AsRecorded(NewRecord, disk', excused)
      <3> SUFFICES ASSUME NEW f \in File, NEW p \in Scope(NewRecord, f), <<f, p>> \notin excused
                   PROVE  Text(disk[f], p) = Text(Template[up.target][f], p)
        BY <1>2, <1>3, <2>2, RecordFacts DEF AsRecorded, Snapped
      <3>1. p \in Part
        BY <1>2, <1>3, RecordFacts, ScopeTyped DEF Snapped
      <3>2. Text(disk[f], p) = IF Cleanly(f, p, up.clean)
                               THEN Text(Template[up.target][f], p) ELSE Text(up.before[f], p)
        <4>1. up.clean \ up.todo = up.clean
          BY <1>2
        <4> QED
          BY <1>2, <3>1, <4>1 DEF RecordInv, ApplyInv
      <3>3. \/ Cleanly(f, p, up.clean)
            \/ Text(up.before[f], p) = Text(Template[up.target][f], p)
        BY <1>2, <1>3 DEF BeforeInv
      <3> QED
        BY <3>2, <3>3
    <2>4. StandsInv'
      BY <1>2, <1>3, <1>5, <1>7, <2>3, RecordFacts DEF StandsInv, Snapped
    <2>5. TornInv'
      BY <1>2, <2>2 DEF RecordInv, TornInv
    <2>6. BeforeInv'
      BY <1>2, <1>3, <1>5, <1>7, <2>1, <2>2, BeforeStays DEF Snapped
    <2> QED
      BY <2>1, <2>4, <2>5, <2>6 DEF RecordInv, ChangeSetInv, ApplyInv, PutBackInv
  <1> QED
    BY <1>6, <1>7

-----------------------------------------------------------------------------
(* A file is put back; a torn one is known of, whether that succeeds or not. *)
LEMMA PutsBackFacts ==
  ASSUME IInv, RecordInv, up.stage \in {"restore", "rollback"}, up.todo # {},
         NEW ok \in BOOLEAN, NEW f, f = First(up.todo), Writes(f, up.snapshot[f], ok), SameUp,
         excused \subseteq excused'
  PROVE  /\ BeforeInv' /\ f \in DOMAIN up.snapshot /\ up.snapshot[f] = up.before[f]
         /\ disk'[Record] \in {up.before[Record], NewRecord, Torn}
         /\ \A g \in File \ DOMAIN up.snapshot : disk'[g] = disk[g]
         /\ \A g \in File : disk'[g] = Torn =>
              \/ disk[g] = Torn \/ PartsIn({g}) \subseteq excused \/ (~ok /\ f = g)
         /\ ok => disk'[f] = up.before[f]
         /\ ~ok /\ up.before[f] = Gone => disk'[f] = disk[f]
  <1>1. UpTyped /\ SnapshotInv /\ DiskTyped(disk) /\ BeforeInv
    BY Unpacked DEF GroundTyped, RecordInv
  <1>2. /\ f \in DOMAIN up.snapshot /\ f \in Path /\ up.snapshot[f] = up.before[f]
        /\ Record \in Path
    BY <1>1, FirstFacts DEF SnapshotInv, UpTyped, Path
  <1>3. /\ \A g \in Path : g # f => disk'[g] = disk[g]
        /\ ok => disk'[f] = up.before[f]
        /\ ~ok => disk'[f] \in {disk[f], Torn}
        /\ ~ok /\ up.before[f] = Gone => disk'[f] = disk[f]
    BY <1>1, <1>2, WriteEnds
  <1>4. \A g \in File \ DOMAIN up.snapshot : disk'[g] = disk[g]
    BY <1>2, <1>3 DEF Path
  <1>5. /\ disk[Record] \in {up.before[Record], NewRecord, Torn}
        /\ \A g \in File : up.before[g] = Torn => PartsIn({g}) \subseteq excused
    BY <1>1 DEF BeforeInv
  <1>6. disk'[Record] \in {up.before[Record], NewRecord, Torn}
    BY <1>2, <1>3, <1>5
  <1>7. BeforeInv'
    BY <1>1, <1>4, <1>6, BeforeStays DEF Snapped
  <1>8. \A g \in File : disk'[g] = Torn =>
          \/ disk[g] = Torn \/ PartsIn({g}) \subseteq excused \/ (~ok /\ f = g)
    BY <1>3, <1>5 DEF Path
  <1> QED
    BY <1>2, <1>3, <1>4, <1>6, <1>7, <1>8

LEMMA RestoresRecordInv ==
  ASSUME IInv, RecordInv, NEW ok \in BOOLEAN, Restores(ok) PROVE RecordInv'
  <1>1. UpTyped /\ SnapshotInv
    BY Unpacked
  <1>2. PICK f : f = First(up.todo)
    OBVIOUS
  <1>3. /\ up.stage = "restore" /\ up.todo # {} /\ Writes(f, up.snapshot[f], ok)
        /\ up' = [up EXCEPT !.todo = @ \ {f}, !.left = IF ok THEN @ ELSE @ \cup {f}]
        /\ excused' = excused
    BY <1>2 DEF Restores
  <1>4. /\ SameUp /\ up'.since = up.since /\ up'.stage = up.stage /\ up'.todo = up.todo \ {f}
        /\ up'.left = IF ok THEN up.left ELSE up.left \cup {f}
    BY <1>1, <1>3 DEF UpTyped, UpFields, SameUp
  <1>5. /\ BeforeInv' /\ f \in DOMAIN up.snapshot
        /\ \A g \in File : disk'[g] = Torn =>
             \/ disk[g] = Torn \/ PartsIn({g}) \subseteq excused \/ (~ok /\ f = g)
        /\ ok => disk'[f] = up.before[f]
    BY <1>2, <1>3, <1>4, PutsBackFacts
  <1>6. TornInv'
    <2> SUFFICES ASSUME NEW g \in File, disk'[g] = Torn, ~(PartsIn({g}) \subseteq excused)
                 PROVE  g \in up'.todo \cup up'.left
      BY <1>3, <1>4 DEF TornInv
    <2>1. CASE ~ok /\ f = g
      BY <1>4, <2>1
    <2>2. CASE disk[g] = Torn /\ ~(ok /\ f = g)
      BY <1>4, <2>2 DEF RecordInv, TornInv
    <2>3. CASE ok /\ f = g
      BY <1>3, <1>5, <2>3 DEF RecordInv, BeforeInv
    <2> QED
      BY <1>5, <2>1, <2>2, <2>3
  <1>7. PutBackInv'
    BY <1>3, <1>4, <1>5 DEF RecordInv, PutBackInv, SameUp
  <1> QED
    BY <1>3, <1>4, <1>5, <1>6, <1>7 DEF RecordInv, StandsInv, ChangeSetInv, ApplyInv, AtRest

LEMMA RollsBackRecordInv ==
  ASSUME IInv, RecordInv, NEW ok \in BOOLEAN, RollsBack(ok) PROVE RecordInv'
  <1>1. UpTyped /\ SnapshotInv
    BY Unpacked
  <1>2. PICK f : f = First(up.todo)
    OBVIOUS
  <1>3. /\ up.stage = "rollback" /\ up.todo # {} /\ Writes(f, up.snapshot[f], ok)
        /\ IF ok \/ up.snapshot[f] = Gone
           THEN /\ up' = [up EXCEPT !.todo = @ \ {f}, !.left = IF ok THEN @ ELSE @ \cup {f}]
                /\ excused' = excused
           ELSE /\ up' = [up EXCEPT !.stage = "threw"]
                /\ excused' = excused \cup PartsIn(DOMAIN up.snapshot)
    BY <1>2 DEF RollsBack, RolledBack
  <1>4. SameUp /\ excused \subseteq excused'
    BY <1>1, <1>3 DEF UpTyped, UpFields, SameUp
  <1>5. /\ BeforeInv' /\ f \in DOMAIN up.snapshot /\ up.snapshot[f] = up.before[f]
        /\ disk'[Record] \in {up.before[Record], NewRecord, Torn}
        /\ \A g \in File \ DOMAIN up.snapshot : disk'[g] = disk[g]
        /\ \A g \in File : disk'[g] = Torn =>
             \/ disk[g] = Torn \/ PartsIn({g}) \subseteq excused \/ (~ok /\ f = g)
        /\ ~ok /\ up.before[f] = Gone => disk'[f] = disk[f]
    BY <1>2, <1>3, <1>4, PutsBackFacts
  <1>6. \A g \in File : disk[g] = Torn => PartsIn({g}) \subseteq excused
    BY <1>3 DEF RecordInv, TornInv
  <1>7. CASE ok \/ up.snapshot[f] = Gone
    <2>1. /\ up'.since = up.since /\ up'.stage = up.stage
          /\ up'.left = IF ok THEN up.left ELSE up.left \cup {f}
          /\ excused' = excused
      <3>1. up' = [up EXCEPT !.todo = @ \ {f}, !.left = IF ok THEN @ ELSE @ \cup {f}]
        BY <1>3, <1>7
      <3> QED
        BY <1>1, <1>3, <1>7, <3>1 DEF UpTyped, UpFields
    <2>2. TornInv'
      BY <1>5, <1>6, <1>7, <2>1 DEF TornInv
    <2>3. PutBackInv'
      BY <1>3, <1>4, <1>5, <1>7, <2>1 DEF RecordInv, PutBackInv, SameUp
    <2> QED
      BY <1>3, <1>5, <2>1, <2>2, <2>3 DEF RecordInv, StandsInv, ChangeSetInv, ApplyInv, AtRest
  <1>8. CASE ~(ok \/ up.snapshot[f] = Gone)
    <2>1. up'.stage = "threw" /\ excused' = excused \cup PartsIn(DOMAIN up.snapshot)
      <3>1. up' = [up EXCEPT !.stage = "threw"]
        BY <1>3, <1>8
      <3> QED
        BY <1>1, <1>3, <1>8, <3>1 DEF UpTyped, UpFields
    <2>2. TornInv'
      <3>1. f \in File => PartsIn({f}) \subseteq excused'
        BY <1>5, <2>1 DEF PartsIn
      <3> QED
        BY <1>4, <1>5, <1>6, <3>1 DEF TornInv
    <2>3. StandsInv'
      <3>1. CASE disk'[Record] = Torn
        BY <3>1 DEF StandsInv, Legible
      <3>2. CASE disk'[Record] # Torn
        <4>1. BeforeInv
          BY DEF RecordInv
        <4>2. NamesItself(disk'[Record]) /\ AsRecorded(disk'[Record], disk', excused')
          BY <1>3, <1>4, <1>5, <2>1, <3>2, <4>1, Settled DEF Snapped
        <4> QED
          BY <4>2 DEF StandsInv
      <3> QED
        BY <3>1, <3>2
    <2> QED
      BY <1>5, <2>1, <2>2, <2>3 DEF RecordInv, ChangeSetInv, ApplyInv, PutBackInv
  <1> QED
    BY <1>7, <1>8

(* What is put back is as it was before, but for what is named or was not there. *)
LEMMA BackStands ==
  ASSUME IInv, RecordInv, disk' = disk, up.todo = {}, excused \subseteq excused',
         up.stage \in {"restore", "rollback"}, PartsIn(up.left) \subseteq excused',
         Record \notin up.left
  PROVE  StandsInv'
  <1>1. UpTyped /\ SnapshotInv /\ BeforeInv
    BY Unpacked DEF RecordInv
  <1>2. /\ AsRecorded(up.before[Record], up.before, excused) /\ DOMAIN up.snapshot = Affected
        /\ \A f \in File \ DOMAIN up.snapshot : \A p \in Part :
             Text(disk[f], p) = Text(up.before[f], p) \/ <<f, p>> \in excused
    BY <1>1 DEF BeforeInv
  <1>3. \A f \in DOMAIN up.snapshot : disk[f] = up.before[f] \/ f \in up.left
    BY <1>1 DEF SnapshotInv, RecordInv, PutBackInv
  <1>4. disk[Record] = up.before[Record]
    BY <1>2, <1>3 DEF Affected
  <1>5. \A f \in File : \A p \in Part :
          Text(disk[f], p) = Text(up.before[f], p) \/ <<f, p>> \in excused'
    BY <1>2, <1>3 DEF PartsIn
  <1>6. AsRecorded(disk[Record], disk, excused') /\ NamesItself(disk[Record])
    BY <1>1, <1>2, <1>4, <1>5, RecordFacts, AsRecordedStays DEF Snapped
  <1> QED
    BY <1>6 DEF StandsInv

(* Where everything an apply may have written is excused, the upgrade may rest. *)
LEMMA SettledStands ==
  ASSUME IInv, RecordInv, disk' = disk, excused \subseteq excused', up.stage \in Snapped,
         PartsIn(DOMAIN up.snapshot) \subseteq excused'
  PROVE  StandsInv'
  <1>1. BeforeInv /\ disk[Record] \in {up.before[Record], NewRecord, Torn}
    BY DEF RecordInv, BeforeInv, Snapped
  <1>2. CASE disk[Record] = Torn
    BY <1>2 DEF StandsInv, Legible
  <1>3. CASE disk[Record] # Torn
    <2>1. NamesItself(disk'[Record]) /\ AsRecorded(disk'[Record], disk', excused')
      BY <1>1, <1>3, Settled
    <2> QED
      BY <2>1 DEF StandsInv
  <1> QED
    BY <1>2, <1>3

LEMMA FailsRecordInv == ASSUME IInv, RecordInv, Fails PROVE RecordInv'
  <1>1. UpTyped
    BY Unpacked
  <1>2. /\ SameUp /\ up'.stage = "failed" /\ up.stage = "restore" /\ up.todo = {}
        /\ disk' = disk
        /\ excused' = excused \cup IF Record \in up.left THEN PartsIn(DOMAIN up.snapshot)
                                  ELSE PartsIn(up.left)
    BY <1>1 DEF Fails, UpTyped, UpFields, SameUp
  <1>3. up.left \subseteq DOMAIN up.snapshot /\ excused \subseteq excused'
    BY <1>2 DEF RecordInv, PutBackInv
  <1>4. PartsIn(up.left) \subseteq excused'
    BY <1>2, <1>3 DEF PartsIn
  <1>5. StandsInv'
    <2>1. CASE Record \in up.left
      BY <1>2, <1>3, <2>1, SettledStands DEF Snapped
    <2>2. CASE Record \notin up.left
      BY <1>2, <1>3, <1>4, <2>2, BackStands
    <2> QED
      BY <2>1, <2>2
  <1>6. TornInv'
    <2>1. \A f \in File : f \in up.left => PartsIn({f}) \subseteq excused'
      BY <1>4 DEF PartsIn
    <2> QED
      BY <1>2, <1>3, <2>1 DEF RecordInv, TornInv
  <1>7. BeforeInv'
    BY <1>2, <1>3, BeforeStays DEF RecordInv, BeforeInv, Snapped
  <1> QED
    BY <1>2, <1>5, <1>6, <1>7 DEF RecordInv, ChangeSetInv, ApplyInv, PutBackInv

LEMMA BeginsRollbackRecordInv == ASSUME IInv, RecordInv, BeginsRollback PROVE RecordInv'
  <1>1. UpTyped
    BY Unpacked
  <1>2. /\ SameUp /\ up'.stage = "rollback" /\ up'.left = {} /\ up'.todo = DOMAIN up.snapshot
        /\ up'.since = up.since \ DOMAIN up.snapshot /\ up.stage \in {"applied", "threw"}
        /\ disk' = disk /\ excused' = excused
    BY <1>1 DEF BeginsRollback, UpTyped, UpFields, SameUp
  <1>3. TornInv'
    BY <1>2 DEF RecordInv, TornInv
  <1>4. BeforeInv'
    BY <1>2, BeforeStays DEF RecordInv, BeforeInv, Snapped
  <1>5. PutBackInv'
    BY <1>2 DEF PutBackInv, SameUp
  <1> QED
    BY <1>2, <1>3, <1>4, <1>5 DEF RecordInv, StandsInv, ChangeSetInv, ApplyInv, AtRest

LEMMA EndsRollbackRecordInv == ASSUME IInv, RecordInv, EndsRollback PROVE RecordInv'
  <1>1. UpTyped
    BY Unpacked
  <1>2. /\ SameUp /\ up'.stage = "rolledback" /\ up.stage = "rollback" /\ up.todo = {}
        /\ disk' = disk /\ excused' = excused \cup PartsIn(up.left)
    BY <1>1 DEF EndsRollback, UpTyped, UpFields, SameUp
  <1>3. Record \notin up.left
    <2>1. up.before[Record] \in Provenance
      BY <1>2, RecordFacts DEF RecordInv, Snapped
    <2> QED
      BY <1>2, <2>1, ContentFacts DEF RecordInv, PutBackInv
  <1>4. StandsInv'
    BY <1>2, <1>3, BackStands
  <1>5. TornInv'
    BY <1>2 DEF RecordInv, TornInv
  <1>6. BeforeInv'
    BY <1>2, BeforeStays DEF RecordInv, BeforeInv, Snapped
  <1> QED
    BY <1>2, <1>4, <1>5, <1>6 DEF RecordInv, ChangeSetInv, ApplyInv, PutBackInv

LEMMA IsKilledRecordInv == ASSUME IInv, RecordInv, IsKilled PROVE RecordInv'
  <1>1. UpTyped /\ SnapshotInv
    BY Unpacked
  <1>2. /\ SameUp /\ up'.stage = "killed" /\ up.stage \in {"apply", "restore", "rollback"}
        /\ disk' = disk /\ excused' = excused \cup PartsIn(DOMAIN up.snapshot)
    BY <1>1 DEF IsKilled, UpTyped, UpFields, SameUp
  <1>3. StandsInv'
    BY <1>2, SettledStands DEF Snapped
  <1>4. TornInv'
    <2>1. \A f \in File : f \in DOMAIN up.snapshot => PartsIn({f}) \subseteq excused'
      BY <1>2 DEF PartsIn
    <2>2. up.stage = "restore" => up.todo \cup up.left \subseteq DOMAIN up.snapshot
      BY <1>1 DEF SnapshotInv, RecordInv, PutBackInv
    <2> QED
      BY <1>2, <2>1, <2>2 DEF RecordInv, TornInv
  <1> QED
    BY <1>2, <1>3, <1>4 DEF RecordInv, ChangeSetInv, BeforeInv, ApplyInv, PutBackInv

LEMMA NextRecordInv ==
  ASSUME ClaimsComeWithTexts, IInv, RecordInv, [Next]_vars PROVE RecordInv'
  <1>1. CASE \E f \in File : \E content \in Edited(disk[f]) : DeveloperEdits(f, content)
    BY <1>1, DeveloperRecordInv
  <1>2. CASE \E v \in Version : Computes(v)
    BY <1>2, ComputesRecordInv
  <1>3. CASE Declines
    BY <1>3, DeclinesRecordInv
  <1>4. CASE Approves
    BY <1>4, ApprovesRecordInv
  <1>5. CASE \E ok \in BOOLEAN : AppliesEntry(ok)
    BY <1>5, AppliesEntryRecordInv
  <1>6. CASE \E ok \in BOOLEAN : AppliesRecord(ok)
    BY <1>6, AppliesRecordRecordInv
  <1>7. CASE \E ok \in BOOLEAN : Restores(ok)
    BY <1>7, RestoresRecordInv
  <1>8. CASE \E ok \in BOOLEAN : RollsBack(ok)
    BY <1>8, RollsBackRecordInv
  <1>9. CASE Fails
    BY <1>9, FailsRecordInv
  <1>10. CASE BeginsRollback
    BY <1>10, BeginsRollbackRecordInv
  <1>11. CASE EndsRollback
    BY <1>11, EndsRollbackRecordInv
  <1>12. CASE IsKilled
    BY <1>12, IsKilledRecordInv
  <1>13. CASE UNCHANGED vars
    <2>1. disk' = disk /\ up' = up /\ excused' = excused
      BY <1>13 DEF vars
    <2>2. StandsInv' /\ TornInv' /\ ApplyInv' /\ PutBackInv'
      BY <2>1 DEF RecordInv, StandsInv, TornInv, ApplyInv, PutBackInv, AtRest, Legible
    <2>3. BeforeInv'
      <3>1. SameUp
        BY <2>1 DEF SameUp
      <3>2. CASE up.stage \in Snapped
        BY <2>1, <3>1, <3>2, BeforeStays DEF RecordInv, BeforeInv, Snapped
      <3>3. CASE up.stage \notin Snapped
        BY <2>1, <3>3 DEF BeforeInv, Snapped
      <3> QED
        BY <3>2, <3>3
    <2>4. ChangeSetInv'
      <3>1. /\ Changes(up.target)' = Changes(up.target)
            /\ OneTemplate(up.target)' = OneTemplate(up.target)
        BY <2>1, ChangesKept
      <3> QED
        BY <2>1, <3>1 DEF RecordInv, ChangeSetInv
    <2> QED
      BY <2>2, <2>3, <2>4 DEF RecordInv
  <1> QED
    BY <1>1, <1>2, <1>3, <1>4, <1>5, <1>6, <1>7, <1>8, <1>9, <1>10, <1>11, <1>12, <1>13 DEF Next

(* Through upgrades and rollbacks, however they fail and whatever is edited,   *)
(* the project is what its record says, apart from what somebody was told      *)
(* (apply.ts: the record is written last, and put back with the files).        *)
THEOREM RecordsStayTrue ==
  ASSUME ClaimsComeWithTexts, ScaffoldsDoNotClash PROVE Spec => []RecordIsTrue
  <1>1. Init => IInv /\ RecordInv
    BY InitIInv, InitRecordInv
  <1>2. IInv /\ RecordInv /\ [Next]_vars => IInv' /\ RecordInv'
    BY NextIInv, UnchangedIInv, NextRecordInv
  <1>3. RecordInv => RecordIsTrue
    BY DEF RecordInv, StandsInv, RecordIsTrue
  <1> QED
    BY <1>1, <1>2, <1>3, PTL DEF Spec
===============================================================================
