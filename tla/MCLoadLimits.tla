---------------------------- MODULE MCLoadLimits ----------------------------
(* Two pages past what the theorems about the loads assume: an extension    *)
(* three of whose chunks need one another, and one on each of two handlers  *)
(* that declare more shared dependencies than are asked for at once.        *)
EXTENDS ModuleLoads

LimitImports ==
  [ring |-> <<"first", "second", "third">>, first |-> <<"second">>,
   second |-> <<"third">>, third |-> <<"first">>, leaf |-> <<>>]

LimitFile == DOMAIN LimitImports

LimitEntry == {"three", "here", "there"}
RingPage == {{"three"}}
WidePage == {{"here", "there"}}
LimitExposed == [three |-> "ring", here |-> "leaf", there |-> "leaf"]
LimitHandler == [three |-> "patient", here |-> "host", there |-> "nested"]
LimitTimed == {"host", "nested"}
LimitRetries == [patient |-> 0, host |-> 1, nested |-> 1]
LimitLazy == [x \in LimitEntry |-> {}]
LimitShared == [x \in LimitEntry |-> IF x = "three" THEN {} ELSE {"lib", "kit"}]
LimitSharedUrl ==
  [x \in LimitEntry |-> [lib |-> "lib of " \o x, kit |-> "kit of " \o x]]
=============================================================================
