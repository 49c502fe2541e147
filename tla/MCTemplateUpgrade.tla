-------------------------- MODULE MCTemplateUpgrade --------------------------
(* Three versions of one template and, at the same address, one of another. *)
(* "page" changes and goes, "extra" comes, "conf" is shared until version 3 *)
(* claims it whole, and the markers of "menu" name the repository in        *)
(* version 1 and the template after.  Projects come from version 1 under    *)
(* the old records, and from version 2 under the new ones.  "other" shares  *)
(* "conf"; "rival" wants "extra" for itself and a region of "menu".         *)
EXTENDS TemplateAddition

MCPart == {<<"web", "k">>, <<"repo", "k">>, <<"other", "j">>, <<"rival", "i">>, <<"web", "file">>,
           <<"rival", "file">>, <<"developer", "text">>}
MCLoose == {<<"web", "file">>, <<"rival", "file">>, <<"developer", "text">>}
Files == {"page", "extra", "conf", "menu"}

Has(identity, key, text) == [p \in MCPart |-> IF p = <<identity, key>> THEN text ELSE Gone]

MCWord == {"page1", "page2", "extra2", "conf1", "conf2", "conf3", "menu1", "menu2", "shop",
           "theirs", "rival", "mine"}

MCTemplate ==
  <<[page |-> Has("web", "file", "page1"), extra |-> Gone,
     conf |-> Has("web", "k", "conf1"),    menu  |-> Has("repo", "k", "menu1")],
    [page |-> Has("web", "file", "page2"), extra |-> Has("web", "file", "extra2"),
     conf |-> Has("web", "k", "conf2"),    menu  |-> Has("web", "k", "menu2")],
    [page |-> Gone,                        extra |-> Has("web", "file", "extra2"),
     conf |-> Has("web", "k", "conf3"),    menu  |-> Has("web", "k", "menu2")],
    [page |-> Has("web", "file", "shop"), extra |-> Gone,
     conf |-> Gone,                        menu  |-> Gone]>>

MCShared == <<{"conf", "menu"}, {"conf", "menu"}, {"menu"}, {}>>
MCOwned == [v \in 1..4 |-> [f \in Files |-> IF f \in MCShared[v] THEN {"k"} ELSE {}]]
MCDeclared == <<"web", "web", "web", "shop">>
MCScaffolds == {<<"repo", 1>>, <<"web", 2>>}
MCOthers ==
  [other |-> [f \in Files |-> IF f = "conf" THEN Has("other", "j", "theirs") ELSE Gone],
   rival |-> [f \in Files |-> CASE f = "extra" -> Has("rival", "file", "rival")
                                [] f = "menu" -> Has("rival", "i", "rival")
                                [] OTHER -> Gone]]
MCOthersOwned ==
  [other |-> [f \in Files |-> IF f = "conf" THEN {"j"} ELSE {}],
   rival |-> [f \in Files |-> IF f = "menu" THEN {"i"} ELSE {}]]

\* The hypotheses of the theorem about RecordIsTrue.
ASSUME VersionsAreComparable == ClaimsComeWithTexts /\ ScaffoldsDoNotClash
=============================================================================
