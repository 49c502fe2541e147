-------------------------- MODULE TemplateUpgrade --------------------------
(***************************************************************************)
(* Upgrading a template that a project was scaffolded from                 *)
(* (packages/cli/src/upgrade): the change set between the recorded version *)
(* and a target version, its review, its application with restoring on     *)
(* error, and its rollback.                                                *)
(*                                                                         *)
(* A file has a text, or Gone, for each part, or is Gone itself; a part is *)
(* <<identity, key>>: a marked region, or the whole of an exclusive file.  *)
(* The developer edits files between the steps of the engine that await    *)
(* one; every write may fail, and may leave a Torn file; the process may   *)
(* be killed.  The records of the template and of those it shares the      *)
(* project with, others, lie in a file of their own.                       *)
(***************************************************************************)
EXTENDS Naturals, Sequences, Functions

CONSTANTS
  File,           \* the paths of the template and of what shares files with it
  Record,         \* the path of the provenance file
  Part,           \* the parts of files
  Word,           \* the texts a part may have
  Version,        \* the versions of the template
  Scaffolds,      \* <<identity, version>>: the records scaffolding has left
  Template,       \* version -> file -> its content
  Owned,          \* version -> file -> the region keys it owns in a shared file
  Shared,         \* version -> the files its manifest shares by regions
  Declared,       \* version -> the identity its manifest declares
  Repo,           \* the name of the repository the source-spec addresses
  Others,         \* co-owning template -> file -> its content
  Together,       \* the co-owning templates scaffolding may have applied too
  Mine,           \* a text of the developer's
  Gone, Torn,
  MaxOperations,  \* bound on the operations begun
  MaxEdits,       \* bound on the developer's edits
  MaxFaults       \* bound on the writes that fail and the kills

Path == File \cup {Record}

Content == [Part -> Word \cup {Gone}]
Blank == [p \in Part |-> Gone]
DeveloperText == <<"developer", "text">>

\* The identities of the template, and what the provenance file may hold.
Identities == {Repo} \cup {Declared[v] : v \in Version}
Provenance == [identity : Identities, version : Version, others : Seq(DOMAIN Others)]

\* Templates bring parts under their own identities, and nothing that reads like the
\* developer's; the regions a version owns are under the identity it declares, or
\* under the name of the repository.
ASSUME TemplateAssumption ==
  /\ Record \notin File /\ Mine \in Word /\ DeveloperText \in Part
  /\ \A x \in {Gone, Torn} : x \notin Word /\ x \notin Part /\ x \notin Content
  /\ Gone # Torn /\ {Gone, Torn} \cap Provenance = {}
  /\ Template \in [Version -> [File -> Content \cup {Gone}]]
  /\ Shared \in [Version -> SUBSET File]
  /\ \A v \in Version : \A f \in File :
       /\ \A p \in Part : Template[v][f] # Gone /\ Template[v][f][p] # Gone =>
            Template[v][f][p] # Mine /\ p[1] \notin DOMAIN Others
       /\ \A k \in Owned[v][f] : {<<Declared[v], k>>, <<Repo, k>>} \subseteq Part
  /\ Others \in [DOMAIN Others -> [File -> Content \cup {Gone}]]
  /\ Together \subseteq DOMAIN Others /\ Identities \cap DOMAIN Others = {}
  /\ \A r \in Scaffolds : r[2] \in Version /\ r[1] \in {Repo, Declared[r[2]]}

ASSUME BoundsAssumption == {MaxOperations, MaxEdits, MaxFaults} \subseteq Nat

VARIABLES
  disk,       \* path -> content
  up,         \* the upgrade: how far it is, and what it holds in memory
  edits,      \* the developer's edits so far
  faults,     \* the failed writes and kills so far
  excused     \* <<file, part>>: not as the record says, and somebody knows

vars == <<disk, up, edits, faults, excused>>

Text(content, p) == IF content \in {Gone, Torn} THEN content ELSE content[p]

\* The region of a template in a file, Gone without its markers.
Region(content, identity, key) ==
  IF content = Torn THEN Gone ELSE Text(content, <<identity, key>>)

\* The file with the region replaced, appended, or cut out.
ReplaceRegion(content, p, text) ==
  IF content = Torn THEN Torn
  ELSE [IF content = Gone THEN Blank ELSE content EXCEPT ![p] = text]

Legible == disk[Record] # Torn
Identity == disk[Record].identity
Recorded == disk[Record].version

---------------------------------------------------------------------------
(* The change set. *)

\* Both versions declare one identity, and the record names it, or names the
\* repository as records did before manifests declared identities.
Legacy(v) == Identity # Declared[v] /\ Identity = Repo
OneTemplate(v) ==
  Declared[Recorded] = Declared[v] /\ (Identity = Declared[v] \/ Legacy(v))

\* An entry is about a whole file, with part Gone, or about one region.
Entry(f, part) == [path |-> f, part |-> part]

\* Fault: the regions of a record that names the repository are compared too.
RegionsComparedAnyway(v) == {f \in File : f \in Shared[v]}

\* A record that names the repository matches no marker: shared files are
\* left out.
RegionsCompared(v) == {f \in Shared[v] : ~Legacy(v)}

Changes(v) ==
  LET whole == {f \in File \ Shared[v] : Template[Recorded][f] # Template[v][f]}
      regions == UNION {{<<f, k>> : k \in Owned[v][f]} : f \in RegionsCompared(v)}
      changed == {fk \in regions : Region(Template[Recorded][fk[1]], Identity, fk[2])
                                     # Region(Template[v][fk[1]], Identity, fk[2])}
  IN {Entry(f, Gone) : f \in whole}
       \cup {Entry(fk[1], <<Identity, fk[2]>>) : fk \in changed}

\* Fault: a file the developer has is overwritten by one the template adds.
ModifiedByComparing(e) ==
  LET base == Template[Recorded][e.path]
  IN IF e.part = Gone
     THEN disk[e.path] # Gone /\ base # Gone /\ disk[e.path] # base
     ELSE disk[e.path] # Gone /\ Region(disk[e.path], e.part[1], e.part[2])
                                   # Region(base, e.part[1], e.part[2])

\* The developer has something else there than the recorded version did.
Modified(e) ==
  LET base == Template[Recorded][e.path]
  IN IF e.part = Gone
     THEN disk[e.path] # Gone /\ disk[e.path] # base
     ELSE disk[e.path] # Gone /\ Region(disk[e.path], e.part[1], e.part[2])
                                   # Region(base, e.part[1], e.part[2])

---------------------------------------------------------------------------
(* Steps. *)

AtRest == up.stage \notin {"review", "apply", "restore", "rollback"}

PartsOf(e) == {e.path} \X (IF e.part = Gone THEN Part ELSE {e.part})
PartsIn(files) == (files \cap File) \X Part

\* What is left of the content of several templates in one file.
Union(contents) ==
  LET there == contents \ {Gone}
      having(p) == {c \in there : c[p] # Gone}
  IN IF there = {} THEN Gone
     ELSE [p \in Part |-> IF having(p) = {} THEN Gone ELSE (CHOOSE c \in having(p) : TRUE)[p]]

Scaffolded(v, others) ==
  [f \in File |-> Union({Template[v][f]} \cup {Others[o][f] : o \in others})]

Init ==
  /\ \E r \in Scaffolds : \E others \in {<<>>} \cup {<<o>> : o \in Together} :
       disk = [x \in Path |->
                 IF x = Record THEN [identity |-> r[1], version |-> r[2], others |-> others]
                 ELSE Scaffolded(r[2], Range(others))[x]]
  /\ up = [stage |-> "none", round |-> 0, target |-> Recorded, clean |-> {}, conflicts |-> {},
           seen |-> disk, snapshot |-> <<>>, todo |-> {}, left |-> {},
           before |-> disk, since |-> {}]
  /\ edits = 0
  /\ faults = 0
  /\ excused = {}

\* What the developer makes of a file.
Edited(content) ==
  {Gone} \cup
  IF content \in {Gone, Torn} THEN {[Blank EXCEPT ![DeveloperText] = Mine]}
  ELSE {[content EXCEPT ![p] = Mine] : p \in {DeveloperText} \cup {q \in Part : content[q] # Gone}}

DeveloperEdits(f, content) ==
  /\ AtRest \/ up.stage = "review"
  /\ edits < MaxEdits /\ content # disk[f]
  /\ disk' = [disk EXCEPT ![f] = content]
  /\ edits' = edits + 1
  /\ excused' = excused \cup IF content = Gone THEN PartsIn({f})
                 ELSE {<<f, p>> : p \in {q \in Part : Text(content, q) # Text(disk[f], q)}}
  /\ up' = [up EXCEPT !.since = @ \cup {f}]
  /\ UNCHANGED faults

\* upgradeChangeSetReviewApproval as far as the developer's answer.
Computes(v) ==
  /\ AtRest /\ up.round < MaxOperations /\ Legible /\ OneTemplate(v)
  /\ up' = [up EXCEPT !.stage = "review", !.round = @ + 1, !.target = v, !.seen = disk,
                      !.clean = {e \in Changes(v) : ~Modified(e)},
                      !.conflicts = {e \in Changes(v) : Modified(e)}]
  /\ UNCHANGED <<disk, edits, faults, excused>>

Declines ==
  /\ up.stage = "review"
  /\ up' = [up EXCEPT !.stage = "declined"]
  /\ UNCHANGED <<disk, edits, faults, excused>>

\* Fault: the record is not among what is put back.
AffectedFilesOnly == {e.path : e \in up.clean}

Affected == {Record} \cup {e.path : e \in up.clean}

Approves ==
  /\ up.stage = "review"
  /\ up' = [up EXCEPT !.stage = "apply", !.todo = up.clean, !.left = {}, !.since = {},
                      !.snapshot = [f \in Affected |-> disk[f]], !.before = disk]
  /\ excused' = excused \cup UNION {PartsOf(e) : e \in up.conflicts}
  /\ UNCHANGED <<disk, edits, faults>>

\* A write of a file, and how it may end: a failed one leaves the file as it
\* was or torn, a failed removal as it was.
Writes(f, content, ok) ==
  /\ disk' \in {[disk EXCEPT ![f] = c] :
       c \in IF ok THEN {content}
             ELSE {disk[f]} \cup IF content = Gone THEN {} ELSE {Torn}}
  /\ ok \/ faults < MaxFaults
  /\ faults' = IF ok THEN faults ELSE faults + 1
  /\ UNCHANGED edits

\* The next of a set, in the order the files are listed in, the record first.
First(S) == IF Record \in S THEN Record ELSE CHOOSE x \in S : TRUE

\* An error in applying: everything in the snapshot is put back.
Recovers == [up EXCEPT !.stage = "restore", !.todo = DOMAIN up.snapshot]

Applied(e) ==
  LET new == Template[up.target][e.path]
  IN IF e.part = Gone THEN new
     ELSE ReplaceRegion(disk[e.path], e.part, Region(new, e.part[1], e.part[2]))

AppliesEntry(ok) ==
  /\ up.stage = "apply" /\ up.todo # {}
  /\ LET e == CHOOSE e \in up.todo : TRUE
     IN /\ Writes(e.path, Applied(e), ok)
        /\ up' = IF ok THEN [up EXCEPT !.todo = @ \ {e}] ELSE Recovers
  /\ UNCHANGED excused

\* Fault: the record may be written before the entries are.
ReadyForRecordAtOnce == up.stage = "apply"

ReadyForRecord == up.stage = "apply" /\ up.todo = {}

AppliesRecord(ok) ==
  /\ ReadyForRecord
  /\ Writes(Record, [disk[Record] EXCEPT !.version = up.target], ok)
  /\ up' = IF ok THEN [up EXCEPT !.stage = "applied"] ELSE Recovers
  /\ UNCHANGED excused

\* Every file is attempted, and those that fail are named.
Restores(ok) ==
  /\ up.stage = "restore" /\ up.todo # {}
  /\ LET f == First(up.todo)
     IN /\ Writes(f, up.snapshot[f], ok)
        /\ up' = [up EXCEPT !.todo = @ \ {f}, !.left = IF ok THEN @ ELSE @ \cup {f}]
  /\ UNCHANGED excused

Fails ==
  /\ up.stage = "restore" /\ up.todo = {}
  /\ up' = [up EXCEPT !.stage = "failed"]
  /\ excused' = excused \cup IF Record \in up.left THEN PartsIn(DOMAIN up.snapshot)
                             ELSE PartsIn(up.left)
  /\ UNCHANGED <<disk, edits, faults>>

\* Rollback, from the snapshot the caller was given.
BeginsRollback ==
  /\ up.stage \in {"applied", "threw"}
  /\ up' = [up EXCEPT !.stage = "rollback", !.todo = DOMAIN up.snapshot, !.left = {},
                      !.since = @ \ DOMAIN up.snapshot]
  /\ UNCHANGED <<disk, edits, faults, excused>>

\* Fault: only what was there before is put back.
RolledBackIfThere(f) == IF up.snapshot[f] = Gone THEN disk[f] ELSE up.snapshot[f]

RolledBack(f) == up.snapshot[f]

\* A file that cannot be removed is passed over; one that cannot be written
\* makes the rollback throw where it stands.
RollsBack(ok) ==
  /\ up.stage = "rollback" /\ up.todo # {}
  /\ LET f == First(up.todo)
     IN /\ Writes(f, RolledBack(f), ok)
        /\ IF ok \/ up.snapshot[f] = Gone
           THEN /\ up' = [up EXCEPT !.todo = @ \ {f}, !.left = IF ok THEN @ ELSE @ \cup {f}]
                /\ UNCHANGED excused
           ELSE /\ up' = [up EXCEPT !.stage = "threw"]
                /\ excused' = excused \cup PartsIn(DOMAIN up.snapshot)

EndsRollback ==
  /\ up.stage = "rollback" /\ up.todo = {}
  /\ up' = [up EXCEPT !.stage = "rolledback"]
  /\ excused' = excused \cup PartsIn(up.left)
  /\ UNCHANGED <<disk, edits, faults>>

\* The process is killed in the middle: the snapshot is gone with it.
IsKilled ==
  /\ up.stage \in {"apply", "restore", "rollback"} /\ faults < MaxFaults
  /\ up' = [up EXCEPT !.stage = "killed"]
  /\ excused' = excused \cup PartsIn(DOMAIN up.snapshot)
  /\ faults' = faults + 1
  /\ UNCHANGED <<disk, edits>>

Next ==
  \/ \E f \in File : \E content \in Edited(disk[f]) : DeveloperEdits(f, content)
  \/ \E v \in Version : Computes(v)
  \/ Declines \/ Approves
  \/ \E ok \in BOOLEAN : AppliesEntry(ok) \/ AppliesRecord(ok) \/ Restores(ok) \/ RollsBack(ok)
  \/ Fails \/ BeginsRollback \/ EndsRollback
  \/ IsKilled

Spec == Init /\ [][Next]_vars

---------------------------------------------------------------------------
(* Properties. *)

DiskTyped(d) ==
  /\ DOMAIN d = Path /\ d[Record] \in Provenance \cup {Torn}
  /\ \A f \in File : d[f] \in Content \cup {Gone, Torn}

\* Every variable holds values of its type.
TypeOK ==
  /\ DiskTyped(disk) /\ DiskTyped(up.seen) /\ DiskTyped(up.before)
  /\ DOMAIN up = {"stage", "round", "target", "clean", "conflicts", "seen", "snapshot", "todo",
                  "left", "before", "since"}
  /\ up.stage \in {"none", "review", "declined", "apply", "applied", "restore", "failed",
                   "rollback", "threw", "rolledback", "killed"}
  /\ up.round \in 0 .. MaxOperations /\ up.target \in Version
  /\ up.clean \cup up.conflicts \subseteq [path : File, part : Part \cup {Gone}]
  /\ DOMAIN up.snapshot \cup up.left \cup up.since \subseteq Path
  /\ edits \in 0 .. MaxEdits /\ faults \in 0 .. MaxFaults /\ excused \subseteq File \X Part

\* A record that names the repository, and no marker of its version.
NamesTheRepo(record) == record.identity = Repo /\ Declared[record.version] # Repo

\* What a record answers for: the exclusive files of its version, that nothing
\* of ours is in those it does not have, and the regions it owns in shared ones
\* if the record names their markers.
Scope(record, f) ==
  LET v == record.version
  IN IF f \notin Shared[v]
     THEN {p \in Part : Template[v][f] # Gone \/ p[1] \notin DOMAIN Others}
     ELSE {<<record.identity, k>> : k \in IF NamesTheRepo(record) THEN {} ELSE Owned[v][f]}

\* A project is what a record says, except where somebody knows.
AsRecorded(record, d, known) ==
  \A f \in File : \A p \in Scope(record, f) :
    Text(d[f], p) = Text(Template[record.version][f], p) \/ <<f, p>> \in known

\* At rest the project is what its record says, except where the developer
\* changed it, a reviewed conflict left it, or an apply that could not be
\* undone was reported or killed (the record is written last, inst-app-
\* update-prov, and put back with the files).
RecordIsTrue == AtRest /\ Legible => AsRecorded(disk[Record], disk, excused)

\* An apply that failed has left every file as it was, or names it as not
\* restored (inst-app-restore-on-error, inst-app-return-restore-incomplete); a
\* rollback that reports success has brought the whole project back, but for
\* files it could not remove (rollbackChangeSet).
BackAsItWas ==
  up.stage \in {"failed", "rolledback"} =>
    \A f \in DOMAIN disk : disk[f] = up.before[f] \/ f \in up.left \cup up.since

\* The snapshot holds what an apply may write as it was; nothing else has changed,
\* but by those who are told apart in since.
SnapshotInv ==
  up.stage \in {"apply", "restore", "applied", "failed", "rollback", "threw", "rolledback"} =>
    /\ \A f \in DOMAIN up.snapshot : up.snapshot[f] = up.before[f]
    /\ \A f \in Path \ DOMAIN up.snapshot : disk[f] = up.before[f] \/ f \in up.since
    /\ up.stage = "apply" => up.todo \subseteq up.clean /\ DOMAIN up.snapshot = Affected
    /\ up.stage \in {"restore", "rollback"} =>
         /\ up.todo \subseteq DOMAIN up.snapshot
         /\ \A f \in DOMAIN up.snapshot \ up.todo :
              disk[f] = up.before[f] \/ f \in up.left \cup up.since

\* An entry that is applied was computed under the record that is still there, from
\* what was no change of the developer's.
ReviewInv ==
  up.stage \in {"review", "apply"} =>
    /\ Legible /\ disk[Record] = up.seen[Record]
    /\ \A e \in up.clean :
         LET base == Template[Recorded][e.path]
         IN IF e.part = Gone
            THEN e.path \notin Shared[up.target] /\ up.seen[e.path] \in {Gone, base}
            ELSE /\ e.path \in Shared[up.target] /\ ~Legacy(up.target)
                 /\ e.part = <<Identity, e.part[2]>>
                 /\ \/ up.seen[e.path] = Gone
                    \/ Region(up.seen[e.path], e.part[1], e.part[2])
                         = Region(base, e.part[1], e.part[2])

\* The inductive invariant behind BackAsItWas, and behind what applying leaves alone.
IInv == TypeOK /\ SnapshotInv /\ BackAsItWas /\ ReviewInv

\* What a version claims of a file and another did not, or the other way round
\* for a whole file, comes with a text of its own: the change set compares texts
\* and no claims.
ClaimsComeWithTexts ==
  \A r, v \in Version : Declared[r] = Declared[v] =>
    \A f \in Shared[r] :
      IF f \notin Shared[v] THEN Template[r][f] # Template[v][f]
      ELSE \A k \in Owned[v][f] \ Owned[r][f] :
             Region(Template[r][f], Declared[v], k) # Region(Template[v][f], Declared[v], k)

\* A template that is scaffolded along brings parts of its own, and none to a
\* file that the version scaffolded claims whole.
ScaffoldsDoNotClash ==
  \A o \in Together : \A f \in File : Others[o][f] # Gone =>
    /\ \A p \in Part : Others[o][f][p] # Gone => p[1] \in DOMAIN Others
    /\ \A r \in Scaffolds : f \in Shared[r[2]] \/ Template[r[2]][f] = Gone

\* A record names the template it is of, or the repository.
NamesItself(record) ==
  record # Torn /\ record.identity \in {Repo, Declared[record.version]}

\* RecordIsTrue, and until an apply begins.
StandsInv ==
  (AtRest \/ up.stage = "review") /\ Legible =>
    NamesItself(disk[Record]) /\ AsRecorded(disk[Record], disk, excused)

\* A torn file is known to be one, or is about to be put back.
TornInv ==
  \A f \in File : disk[f] = Torn =>
    PartsIn({f}) \subseteq excused \/ (up.stage = "restore" /\ f \in up.todo \cup up.left)

\* The change set is that of the record that is there.
ChangeSetInv ==
  up.stage \in {"review", "apply"} =>
    OneTemplate(up.target) /\ up.clean \cup up.conflicts = Changes(up.target)

Cleanly(f, p, entries) == \E e \in entries : <<f, p>> \in PartsOf(e)

\* The record an apply writes.
NewRecord == [up.before[Record] EXCEPT !.version = up.target]

\* Before it was applied to, the project was what its record said, and what the
\* change set leaves alone is as the new record says, too.
BeforeInv ==
  up.stage \in {"apply", "restore", "applied", "failed", "rollback", "threw", "rolledback"} =>
    /\ NamesItself(up.before[Record]) /\ Declared[up.target] = Declared[up.before[Record].version]
    /\ AsRecorded(up.before[Record], up.before, excused)
    /\ disk[Record] \in {up.before[Record], NewRecord, Torn}
    /\ \A f \in File : up.before[f] = Torn => PartsIn({f}) \subseteq excused
    /\ \A f \in File : \A p \in Scope(NewRecord, f) :
         \/ Cleanly(f, p, up.clean)
         \/ Text(up.before[f], p) = Text(Template[up.target][f], p)
         \/ <<f, p>> \in excused
    /\ DOMAIN up.snapshot = Affected
    /\ \A f \in File \ DOMAIN up.snapshot : \A p \in Part :
         Text(disk[f], p) = Text(up.before[f], p) \/ <<f, p>> \in excused

\* While it is applied, what is done is as the target version has it, and the
\* rest as it was.
ApplyInv ==
  up.stage = "apply" =>
    /\ disk[Record] = up.before[Record]
    /\ \A f \in File : \A p \in Part :
         \/ Text(disk[f], p) = IF Cleanly(f, p, up.clean \ up.todo)
                               THEN Text(Template[up.target][f], p) ELSE Text(up.before[f], p)
         \/ <<f, p>> \in excused

\* What is being put back is not edited meanwhile; only what was not there before
\* may be left by a rollback.
PutBackInv ==
  /\ up.stage \in {"apply", "restore"} => up.since = {}
  /\ up.stage \in {"apply", "restore", "rollback"} => up.left \subseteq DOMAIN up.snapshot
  /\ up.stage = "rollback" =>
       /\ up.since \cap DOMAIN up.snapshot = {}
       /\ \A f \in up.left : up.before[f] = Gone

\* The inductive invariant behind RecordIsTrue, on top of the first.
RecordInv ==
  StandsInv /\ TornInv /\ ChangeSetInv /\ BeforeInv /\ ApplyInv /\ PutBackInv

\* What the developer or a co-owning template had in the project when the
\* change set was computed stays as it is.
LeavesForeignText ==
  \A f \in File : \A p \in Part :
    /\ Text(up.seen[f], p) = Mine \/ p[1] \in DOMAIN Others
    /\ Text(disk[f], p) = Text(up.seen[f], p)
    => Text(disk'[f], p) = Text(disk[f], p)

\* A file has the region, whichever identity its markers carry.
Holds(content, key) ==
  \E p \in Part : p[1] \in {Repo, Declared[up.target]} /\ p[2] = key
                   /\ Region(content, p[1], p[2]) # Gone

\* Under a record that names the repository an upgrade never takes a region
\* away that the target version still has, whichever identity the markers of
\* the two versions carry (inst-cmp-skip-region-union-legacy).
RegionsSurvive ==
  [][AppliesEntry(TRUE) /\ Identity = Repo =>
       \A f \in Shared[up.target] : \A k \in Owned[up.target][f] :
         Holds(disk[f], k) /\ Holds(Template[up.target][f], k) => Holds(disk'[f], k)]_vars
=============================================================================
