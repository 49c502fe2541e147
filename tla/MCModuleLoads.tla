--------------------------- MODULE MCModuleLoads ---------------------------
(* Four pages: an extension whose lazy chunks share others, on a handler    *)
(* without a timeout; one whose chunks import each other; two that one      *)
(* handler loads from the same chunk; and one on each of two handlers that  *)
(* declare the same shared dependency.                                      *)
EXTENDS ModuleLoads

MCImports ==
  [main |-> <<"start">>, start |-> <<>>,
   lazy1 |-> <<"own", "common">>, lazy2 |-> <<"common">>, own |-> <<"part">>,
   part |-> <<>>, common |-> <<"deep">>, deep |-> <<>>,
   loop |-> <<"ping", "pong">>, ping |-> <<"pong">>, pong |-> <<"ping">>,
   leaf |-> <<>>]

MCFile == DOMAIN MCImports

MCMfeEntry == {"app", "pair", "one", "two", "here", "there"}
MCPages == {{"app"}, {"pair"}, {"one", "two"}, {"here", "there"}}
MCExposed == [app |-> "main", pair |-> "loop", one |-> "leaf", two |-> "leaf",
              here |-> "leaf", there |-> "leaf"]
MCHandler == [app |-> "patient", pair |-> "patient",
              one |-> "host", two |-> "host", here |-> "host", there |-> "nested"]
MCTimed == {"host", "nested"}
MCRetries == [patient |-> 0, host |-> 1, nested |-> 0]
MCLazy == [x \in MCMfeEntry |-> IF x = "app" THEN {"lazy1", "lazy2", "common"} ELSE {}]
MCShared == [x \in MCMfeEntry |-> IF x \in {"here", "there"} THEN {"lib"} ELSE {}]
MCSharedUrl == [x \in MCMfeEntry |-> [lib |-> "lib of " \o x]]

\* What the theorems about the loads assume is so on the pages: every extension
\* is a build of its own, its shared dependencies are asked for at once, and no
\* three chunks need one another.
ASSUME PagesAreOwnBuilds == OwnBuilds
ASSUME PagesFitThePool == SharedFitThePool
ASSUME PagesHaveShortCircles == OnlyShortCircles
=============================================================================
