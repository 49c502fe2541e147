---------------------------- MODULE MCRealmRouting ----------------------------
(***************************************************************************)
(* A shell with a screen domain of two extensions; the first hosts a       *)
(* runtime with a tabs domain, whose one extension hosts a runtime with a  *)
(* notes domain, registered and never rendered.  The screen cannot be      *)
(* emptied, the others can.                                                *)
(***************************************************************************)
EXTENDS RealmRouting

MCTopRuntime == <<"shell", "shell">>

MCRouted == {"screen", "tabs", "notes"}

MCExtensions == [screen |-> {"a", "b"}, tabs |-> {"x"}, notes |-> {"y"}]

MCHost == [screen |-> MCTopRuntime, tabs |-> <<"screen", "a">>, notes |-> <<"tabs", "x">>]

MCAdopted == {<<"tabs", "x">>}

MCDeclaresUnmount == {"tabs", "notes"}

MCEngine == <<"screen", "a">>

MCRendered == {"screen", "tabs"}

MCTargets == [screen |-> {<<"a">>, <<"b">>}, tabs |-> {<<>>, <<"x">>},
              notes |-> {}]

Deep == <<UrlEntry("screen", "a", "own"), UrlEntry("tabs", "x", "none"),
          UrlEntry("notes", "y", "none")>>

\* The page is loaded at an address the user has been at before.
MCSessions == {<<<<UrlEntry("screen", "a", "none")>>, Deep>>}
=============================================================================
