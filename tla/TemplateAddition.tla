-------------------------- MODULE TemplateAddition --------------------------
(***************************************************************************)
(* Adding a template to a project that other templates were applied to     *)
(* (packages/cli/src/commands/add-template.ts), between the upgrades and   *)
(* rollbacks of TemplateUpgrade.                                           *)
(*                                                                         *)
(* The claims of the new template are judged against the ground on disk    *)
(* and against the claims of the recorded ones; files shared by regions    *)
(* are composed with the blocks of the others carried over.  All contents  *)
(* are computed before the first is written, and nothing is put back when  *)
(* a write fails.  An addition that is refused changes nothing, and is no  *)
(* step here.                                                              *)
(***************************************************************************)
EXTENDS TemplateUpgrade

CONSTANTS
  OthersOwned,    \* co-owning template -> file -> the region keys it owns there
  Loose           \* the parts that no markers enclose

VARIABLE
  adding      \* the addition: how far it is, and what it has computed

avars == <<vars, adding>>

Brought(t) == {f \in File : Others[t][f] # Gone}
SharedBy(t) == {f \in File : OthersOwned[t][f] # {}}
Recorders == {Identity} \cup Range(disk[Record].others)

---------------------------------------------------------------------------
(* Claims: the files a manifest claims whole, and the region keys it owns. *)

Claim(t) == [whole |-> Brought(t) \ SharedBy(t), keys |-> OthersOwned[t]]

\* The claim of our template is read from the version installed now, which
\* need not be the recorded one.
OurClaim(v) ==
  [whole |-> {f \in File \ Shared[v] : Template[v][f] # Gone}, keys |-> Owned[v]]

Occupied(v) == {OurClaim(v)} \cup {Claim(o) : o \in Range(disk[Record].others)}

Clash(a, b) ==
  \/ a.whole \cap b.whole # {}
  \/ \E f \in File : a.keys[f] \cap b.keys[f] # {}

\* Ground both claim alike is left to the check for clashes.
Arbitrated(f, a, b) ==
  f \in a.whole \cap b.whole \/ (a.keys[f] # {} /\ b.keys[f] # {})

\* Nothing lies in a file the template brings that no claim accounts for.
GroundFree(t, v) ==
  \A f \in Brought(t) :
    disk[f] = Gone \/ \E b \in Occupied(v) : Arbitrated(f, Claim(t), b)

---------------------------------------------------------------------------
(* Composition of a shared file. *)

\* The marked blocks in a file; a torn one that passes for whole has none.
Blocks(content) == {p \in Part \ Loose : Text(content, p) \notin {Gone, Torn}}

BlocksOfOthers(t, f) == {p \in Blocks(disk[f]) : p[1] # t}

\* Fault: the file is composed of what the new template brings.
CarriedNone(t, f) == {}

Carried(t, f) == BlocksOfOthers(t, f)

Extracted(t, f) ==
  {p \in {t} \X OthersOwned[t][f] : Region(Others[t][f], p[1], p[2]) # Gone}

\* No block of an owner that is not recorded, and no key twice.
Composable(t, f) ==
  /\ \A p \in BlocksOfOthers(t, f) : p[1] \in Recorders
  /\ \A p, q \in BlocksOfOthers(t, f) \cup Extracted(t, f) : p[2] = q[2] => p = q

\* What no markers enclose is left behind.
Composed(t, f) ==
  IF f \notin SharedBy(t) THEN Others[t][f]
  ELSE [p \in Part |-> IF p \in Extracted(t, f) THEN Others[t][f][p]
                       ELSE IF p \in Carried(t, f) THEN disk[f][p] ELSE Gone]

---------------------------------------------------------------------------
(* Steps. *)

Adding == adding.stage # "no"

AddInit ==
  /\ Init
  /\ adding = [stage |-> "no", template |-> Gone, files |-> <<>>, records |-> <<>>, written |-> 0]

\* addTemplate as far as the first write.
BeginsAdd(t, v) ==
  /\ AtRest /\ ~Adding /\ up.round < MaxOperations /\ Legible
  /\ GroundFree(t, v)
  /\ \A b \in Occupied(v) : ~Clash(Claim(t), b)
  /\ \A f \in Brought(t) \cap SharedBy(t) : Composable(t, f)
  /\ adding' = [stage |-> "files", template |-> t, written |-> 0,
                files |-> [f \in Brought(t) |-> Composed(t, f)],
                records |-> Append(disk[Record].others, t)]
  /\ up' = [up EXCEPT !.round = @ + 1]
  /\ excused' = excused \cup
       IF v = Recorded THEN {} ELSE {x \in PartsIn(Brought(t)) : x[2][1] = t}
  /\ UNCHANGED <<disk, edits, faults>>

AddsFile(ok) ==
  /\ adding.stage = "files" /\ adding.files # <<>>
  /\ LET f == First(DOMAIN adding.files)
     IN /\ Writes(f, adding.files[f], ok)
        /\ up' = [up EXCEPT !.since = @ \cup {f}]
        /\ adding' = IF ok THEN [adding EXCEPT !.files = [g \in DOMAIN @ \ {f} |-> @[g]]]
                     ELSE [adding EXCEPT !.stage = "no"]
        /\ excused' = excused \cup IF ok THEN {} ELSE PartsIn({f})

\* The set of records is written once for every record in it, each time up to
\* that record; ours is the first.
AddsRecord(ok) ==
  /\ adding.stage = "files" /\ adding.files = <<>>
  /\ Writes(Record, [disk[Record] EXCEPT !.others = SubSeq(adding.records, 1, adding.written)], ok)
  /\ up' = [up EXCEPT !.since = @ \cup {Record}]
  /\ adding' = IF ok /\ adding.written < Len(adding.records)
               THEN [adding EXCEPT !.written = @ + 1] ELSE [adding EXCEPT !.stage = "no"]
  /\ UNCHANGED excused

AddIsKilled ==
  /\ Adding /\ faults < MaxFaults
  /\ adding' = [adding EXCEPT !.stage = "no"]
  /\ faults' = faults + 1
  /\ UNCHANGED <<disk, up, edits, excused>>

AddNext ==
  \/ ~Adding /\ Next /\ UNCHANGED adding
  \/ \E t \in DOMAIN Others : \E v \in Version : BeginsAdd(t, v)
  \/ \E ok \in BOOLEAN : AddsFile(ok) \/ AddsRecord(ok)
  \/ AddIsKilled

AddSpec == AddInit /\ [][AddNext]_avars

---------------------------------------------------------------------------
(* Properties. *)

\* An addition runs between upgrades; what it is to write of a file keeps every marked
\* block of the others that is there.
AddingInv ==
  /\ DOMAIN adding = {"stage", "template", "files", "records", "written"}
  /\ adding.stage \in {"no", "files"}
  /\ Adding =>
       /\ AtRest /\ Legible /\ adding.template \in DOMAIN Others
       /\ adding.records \in Seq(DOMAIN Others) /\ adding.written \in 0 .. Len(adding.records)
       /\ DOMAIN adding.files \subseteq File
       /\ adding.files \in [DOMAIN adding.files -> Content]
       /\ \A f \in DOMAIN adding.files : \A p \in Blocks(disk[f]) :
            p[1] # adding.template => Text(adding.files[f], p) = Text(disk[f], p)

\* The inductive invariant of both.
AddIInv == IInv /\ AddingInv

\* At rest the project is what its records say, those of the co-owning
\* templates too, whatever was upgraded, rolled back, added or torn off in
\* whichever order: with the exceptions RecordIsTrue names, and where an
\* addition was checked against another version than the recorded one.
RecordsAreTrue ==
  /\ RecordIsTrue
  /\ AtRest /\ Legible =>
       \A o \in Range(disk[Record].others) : \A f \in Brought(o) :
         \A p \in IF f \in SharedBy(o) THEN {<<o, k>> : k \in OthersOwned[o][f]} ELSE Part :
           Text(disk[f], p) = Text(Others[o][f], p) \/ <<f, p>> \in excused

\* Applying an entry of a change set leaves alone what the developer or a
\* co-owning template had in the project when it was computed; writing a file
\* of an addition leaves alone every marked block of another template, the
\* developer's changes to it included
\* (cpt-frontx-dod-cli-scaffolding-preserve-applied-regions).
ForeignTextSurvives ==
  [][/\ AppliesEntry(TRUE) => LeavesForeignText
     /\ AddsFile(TRUE) =>
          \A f \in File : \A p \in Blocks(disk[f]) :
            p[1] # adding.template => Text(disk'[f], p) = Text(disk[f], p)]_avars

\* An addition interrupted at any point leaves the records that were there
\* (materializeAssembly: "appended to any records the target already holds").
RecordsAreKept ==
  [][Adding /\ Legible /\ disk'[Record] # Torn =>
       Range(disk[Record].others) \subseteq Range(disk'[Record].others)]_avars
=============================================================================
