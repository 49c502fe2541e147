----------------------------- MODULE UrlEntries -----------------------------
(***************************************************************************)
(* The entries a composed URL carries and what the routing package         *)
(* computes from them: resolution under one domain key, the difference an  *)
(* observer reports, the delta that makes a domain show a target, and the  *)
(* single rewrite that applies it (packages/routing/src/signal and         *)
(* FrontXRouter.compose).  The grammar is abstracted: a URL is the         *)
(* sequence of its entries, each naming a domain key, an extension and a   *)
(* parameter list; the pathname, the hash and the foreign segments, which  *)
(* every write copies, are left out.  One URL names an extension of a      *)
(* domain at most once.                                                    *)
(***************************************************************************)
EXTENDS Naturals, Sequences, SequencesExt

UrlEntry(key, ext, par) == [key |-> key, ext |-> ext, par |-> par]

AddressOf(entry) == <<entry.key, entry.ext>>

Carries(url, address) == \E i \in DOMAIN url : AddressOf(url[i]) = address

ParamsAt(url, address) ==
  url[CHOOSE i \in DOMAIN url : AddressOf(url[i]) = address].par

\* The elements of a sequence that are in a set, in their order.
Those(s, set) ==
  LET kept[n \in 0..Len(s)] ==
        IF n = 0 THEN <<>>
        ELSE IF s[n] \in set THEN Append(kept[n - 1], s[n]) ELSE kept[n - 1]
  IN kept[Len(s)]

\* The live entries of one domain key, in URL order.
Under(url, key) == Those(url, {entry \in ToSet(url) : entry.key = key})

NamesOfEntries(entries) == [i \in DOMAIN entries |-> entries[i].ext]

NamesUnder(url, key) == NamesOfEntries(Under(url, key))

Without(names, set) == Those(names, ToSet(names) \ set)

\* Equal readings report nothing: no arrival, no departure, no changed
\* parameter, no new order.
NothingChanged(before, after) == before = after

\* The delta that makes the live entries of a domain show exactly the
\* target: one name swapped for one keeps the position, anything else is
\* removals and additions at the end.
Delta(live, target, cleared) ==
  LET dropped == Without(live, ToSet(target))
      added   == Without(target, ToSet(live))
  IN [swap    |-> Len(dropped) = 1 /\ Len(added) = 1,
      dropped |-> dropped,
      added   |-> added,
      cleared |-> cleared]

Shows(live, target) == ToSet(live) = ToSet(target)

\* The one rewrite a delta makes of the composed URL.
BackProject(url, key, delta, params) ==
  LET gone    == ToSet(delta.dropped)
      Swapped(entry) ==
        IF delta.swap /\ entry.key = key /\ entry.ext \in gone
        THEN UrlEntry(key, delta.added[1], params[delta.added[1]])
        ELSE entry
      Stays(entry) ==
        \/ entry.key = key /\ (delta.swap \/ entry.ext \notin gone)
        \/ entry.key # key /\ entry.key \notin delta.cleared
      kept    == Those(url, {entry \in ToSet(url) : Stays(entry)})
      arrived == IF delta.swap THEN <<>> ELSE delta.added
  IN [i \in DOMAIN kept |-> Swapped(kept[i])]
       \o [i \in DOMAIN arrived |-> UrlEntry(key, arrived[i], params[arrived[i]])]

\* A rewrite of one entry's parameters in place.
WithParams(url, address, par) ==
  [i \in DOMAIN url |->
     IF AddressOf(url[i]) = address THEN [url[i] EXCEPT !.par = par] ELSE url[i]]
=============================================================================
