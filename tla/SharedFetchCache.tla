--------------------------- MODULE SharedFetchCache ---------------------------
(***************************************************************************)
(* The realm-wide cache of shared requests (SharedFetchCacheImpl).         *)
(*                                                                         *)
(* Calls of getOrFetch are numbered in order; a call that starts a fetch   *)
(* creates the cache entry of the same number.  The methods are            *)
(* synchronous, and so are the reactions to a fetch that settles: first    *)
(* the entry's own, then one per consumer, between which others may run.   *)
(*                                                                         *)
(* Results carry no data: no property tells them or errors apart.  Time    *)
(* passes in ticks, and only the age of stored data remembers it.          *)
(***************************************************************************)
EXTENDS Integers

CONSTANTS Key,       \* primary keys
          Alias,     \* keys registered only as aliases of primary keys
          StaleTime, \* for how many ticks callers take stored data as fresh
          MaxCalls,  \* bound: calls of getOrFetch
          MaxAge     \* bound: ticks after which data no longer ages

ASSUME BoundsAssumption    == MaxCalls \in Nat /\ MaxAge \in Nat
ASSUME StaleTimeAssumption == StaleTime \subseteq Nat

Call    == 1 .. MaxCalls
NoEntry == 0
NoData  == -1

VARIABLES
  called,   \* number of calls so far
  entries,  \* entries[k]: the entry stored under k, or NoEntry
  age,      \* age[k]: ticks since data was stored in that entry, or NoData
  versions, \* versions[k]: the version recorded for k, 0 if there is none
  aliases,  \* the pairs of a primary key and an alias registered for it
  asked,    \* asked[c]: what c called getOrFetch with; an entry's is its creator's
  version,  \* version[e]: the version e was created for
  pending,  \* the entries whose fetch has not settled
  kept,     \* the entries whose maxStaleTime is positive
  aborted,  \* the entries whose controller is aborted
  attached, \* attached[e]: the consumers of e that are not released
  servedBy, \* servedBy[c]: the entry c was given
  status    \* status[c]: whether c is still waiting

cache  == <<entries, age, versions, aliases>>
callers == <<called, asked, servedBy, status>>
vars   == <<callers, cache, version, pending, kept, aborted, attached>>

-----------------------------------------------------------------------------
NoCall == [key |-> "none", aliases |-> {}]

\* isEntryFresh
IsFresh(k, staleTime) == age[k] # NoData /\ staleTime > age[k]

\* The entry under k, if its version is the one recorded.
Current(k) == IF entries[k] # NoEntry /\ version[entries[k]] = versions[k]
                THEN entries[k] ELSE NoEntry

IsPending(k) == Current(k) \in pending

\* removeAliases
WithoutAliases(K) == {p \in aliases : p[1] \notin K}

\* Drops the entries of the keys in K.
Evict(K) ==
  /\ entries' = [k \in Key |-> IF k \in K THEN NoEntry ELSE entries[k]]
  /\ age' = [k \in Key |-> IF k \in K THEN NoData ELSE age[k]]
  /\ aliases' = WithoutAliases(K)

Init ==
  /\ entries = [k \in Key |-> NoEntry] /\ age = [k \in Key |-> NoData]
  /\ versions = [k \in Key |-> 0] /\ aliases = {}
  /\ version = [e \in Call |-> 0] /\ attached = [e \in Call |-> {}]
  /\ pending = {} /\ kept = {} /\ aborted = {}
  /\ called = 0 /\ asked = [c \in Call |-> NoCall]
  /\ servedBy = [c \in Call |-> NoEntry] /\ status = [c \in Call |-> "idle"]

(* getOrFetch *)

\* Data that is fresh for this call is returned at once.
Hit(c, k, staleTime) ==
  /\ Current(k) # NoEntry /\ ~IsPending(k) /\ IsFresh(k, staleTime)
  /\ servedBy' = [servedBy EXCEPT ![c] = entries[k]]
  /\ status' = [status EXCEPT ![c] = "settled"]
  /\ UNCHANGED <<entries, age, version, pending, kept, attached>>

\* c waits for e, which is kept if any of its callers wants it kept.
Attaches(c, e, staleTime) ==
  /\ attached' = [attached EXCEPT ![e] = @ \cup {c}]
  /\ servedBy' = [servedBy EXCEPT ![c] = e]
  /\ status' = [status EXCEPT ![c] = "waiting"]
  /\ kept' = IF staleTime > 0 THEN kept \cup {e} ELSE kept

\* A fetch in flight is shared.
Join(c, k, staleTime) ==
  /\ IsPending(k)
  /\ Attaches(c, entries[k], staleTime)
  /\ UNCHANGED <<entries, age, version, pending>>

Fetch(c, k, staleTime) ==
  /\ ~IsPending(k)
  /\ ~(Current(k) # NoEntry /\ IsFresh(k, staleTime))
  /\ entries' = [entries EXCEPT ![k] = c]
  /\ age' = [age EXCEPT ![k] = NoData]
  /\ version' = [version EXCEPT ![c] = versions[k]]
  /\ pending' = pending \cup {c}
  /\ Attaches(c, c, staleTime)

\* Fault: a caller that joins a fetch has its aliases ignored.
RegistersFirst(k, A) == IF IsPending(k) THEN aliases ELSE aliases \cup ({k} \X A)

\* registerAliases
Registers(k, A) == aliases \cup ({k} \X A)

GetOrFetch(c, k, staleTime, A) ==
  /\ c \in Call /\ called' = c
  /\ asked' = [asked EXCEPT ![c] = [key |-> k, aliases |-> A]]
  /\ aliases' = Registers(k, A)
  /\ Hit(c, k, staleTime) \/ Join(c, k, staleTime) \/ Fetch(c, k, staleTime)
  /\ UNCHANGED <<versions, aborted>>

(* A fetch settles *)

\* The entry of the key is still this one.
Holds(e) == entries[asked[e].key] = e

\* Fault: the version is forgotten although a younger entry relies on it.
ForgetsVersion(e) ==
  versions' = IF versions[asked[e].key] = version[e] + 1
                THEN [versions EXCEPT ![asked[e].key] = 0] ELSE versions

\* cleanupVersion, after the entry has gone or stayed.
CleanupVersion(e) ==
  versions' = IF entries'[asked[e].key] = NoEntry /\ versions[asked[e].key] = version[e] + 1
                THEN [versions EXCEPT ![asked[e].key] = 0] ELSE versions

Settles(e) ==
  /\ pending' = pending \ {e}
  /\ CleanupVersion(e)
  /\ UNCHANGED <<callers, version, kept, aborted, attached>>

\* Data is stored if it is still wanted under the key, and for longer than now.
FetchResolves(e) ==
  /\ e \in pending
  /\ \/ /\ Holds(e) /\ versions[asked[e].key] = version[e] /\ e \in kept
        /\ age' = [age EXCEPT ![asked[e].key] = 0]
        /\ UNCHANGED <<entries, aliases>>
     \/ /\ Holds(e) /\ versions[asked[e].key] = version[e] /\ e \notin kept
        /\ Evict({asked[e].key})
     \/ /\ ~(Holds(e) /\ versions[asked[e].key] = version[e])
        /\ UNCHANGED <<entries, age, aliases>>
  /\ Settles(e)

\* A fetch may fail; one that is aborted may also not notice it.
FetchRejects(e) ==
  /\ e \in pending
  /\ IF Holds(e) THEN Evict({asked[e].key}) ELSE UNCHANGED <<entries, age, aliases>>
  /\ Settles(e)

(* Consumers *)

\* The last consumer to leave aborts the fetch.
AbortsUnwanted(e) == e \in pending /\ attached'[e] = {}

\* A consumer's answer, or its own signal, releases it from its entry, once.
Release(c) ==
  LET e == servedBy[c]
  IN /\ status[c] = "waiting"
     /\ attached' = [attached EXCEPT ![e] = @ \ {c}]
     /\ aborted' = IF AbortsUnwanted(e) THEN aborted \cup {e} ELSE aborted
     /\ status' = [status EXCEPT ![c] = "settled"]
     /\ UNCHANGED <<called, asked, servedBy, cache, version, pending, kept>>

Delivered(c) == servedBy[c] \notin pending /\ Release(c)

\* The consumer's own signal aborts.
ConsumerAborts(c) == Release(c)

(* invalidateMany and clear *)

\* The primary keys a filter matches, themselves or by an alias.
Matches(filter) ==
  {k \in Key : \/ k \in filter /\ (entries[k] # NoEntry \/ versions[k] # 0)
               \/ \E a \in filter : <<k, a>> \in aliases}

\* The entries under K are dropped, and their fetches aborted.
Drop(K) ==
  /\ aborted' = aborted \cup (pending \cap {entries[k] : k \in K})
  /\ Evict(K)
  /\ UNCHANGED <<callers, version, pending, kept, attached>>

Invalidate(filter) ==
  /\ Drop(Matches(filter))
  /\ versions' = [k \in Key |->
       IF k \notin Matches(filter) THEN versions[k]
       ELSE IF entries[k] \in pending THEN version[entries[k]] + 1 ELSE 0]

Clear == Drop(Key) /\ versions' = [k \in Key |-> 0]

Tick ==
  /\ age' = [k \in Key |-> IF age[k] \in 0 .. MaxAge - 1 THEN age[k] + 1 ELSE age[k]]
  /\ UNCHANGED <<callers, entries, versions, aliases, version, pending, kept, aborted, attached>>

Next ==
  \/ \E k \in Key, s \in StaleTime, A \in SUBSET Alias : GetOrFetch(called + 1, k, s, A)
  \/ \E e \in Call : FetchResolves(e) \/ FetchRejects(e)
  \/ \E c \in Call : Delivered(c) \/ ConsumerAborts(c)
  \/ \E filter \in SUBSET (Key \cup Alias) : Invalidate(filter)
  \/ Clear \/ Tick

Spec == Init /\ [][Next]_vars

-----------------------------------------------------------------------------
(* Properties *)

\* Every variable holds values of its type, and an entry counts as consumers the
\* callers that wait for it.
TypeOK ==
  /\ called \in 0 .. MaxCalls
  /\ entries \in [Key -> 0 .. MaxCalls] /\ age \in [Key -> -1 .. MaxAge]
  /\ versions \in [Key -> Nat] /\ aliases \in SUBSET (Key \X Alias)
  /\ asked \in [Call -> [key : Key, aliases : SUBSET Alias] \cup {NoCall}]
  /\ version \in [Call -> Nat] /\ attached \in [Call -> SUBSET Call]
  /\ pending \in SUBSET Call /\ kept \in SUBSET Call /\ aborted \in SUBSET Call
  /\ servedBy \in [Call -> 0 .. MaxCalls]
  /\ status \in [Call -> {"idle", "waiting", "settled"}]
  /\ \A c \in Call : c > called <=> status[c] = "idle"
  /\ \A e \in Call : attached[e] = {c \in Call : servedBy[c] = e /\ status[c] = "waiting"}

\* A fetch in flight that nobody has cancelled can be found and joined, so there
\* is at most one per key: late results of its predecessors, however often the
\* key was invalidated, neither evict nor hide it.
FetchInFlightIsShared ==
  \A e \in pending \ aborted : Current(asked[e].key) = e

\* What the cache still offers is invalidated by every alias of the callers it was
\* given to, whether they started the fetch, joined it or hit the data, and
\* whatever late settlements did to the aliases of the key before.
AliasesReachTheirEntry ==
  \A c \in 1 .. called : entries[asked[c].key] = servedBy[c] =>
    asked[c].key \in Matches({asked[c].key}) /\ \A a \in asked[c].aliases :
                                                   asked[c].key \in Matches({a})

\* Entries and callers are numbered as they come, a caller is served by an entry
\* created for the key it asked for, and an entry lies under that key.
NumberingInv ==
  /\ \A e \in pending \cup aborted : e <= called
  /\ \A k \in Key : entries[k] # NoEntry =>
       entries[k] <= called /\ asked[entries[k]].key = k
  /\ \A c \in 1 .. called :
       /\ asked[c].key \in Key /\ servedBy[c] \in 1 .. called
       /\ asked[servedBy[c]].key = asked[c].key

\* A fetch that nobody has cancelled is what its key offers, and somebody waits
\* for it.
InFlightInv ==
  \A e \in pending \ aborted : Current(asked[e].key) = e /\ attached[e] # {}

\* The aliases of a caller stand while the entry it was given is stored.
AliasInv ==
  \A c \in 1 .. called : entries[asked[c].key] = servedBy[c] =>
    \A a \in asked[c].aliases : <<asked[c].key, a>> \in aliases

\* The inductive invariant behind the two properties above and the one below.
IInv == TypeOK /\ NumberingInv /\ InFlightInv /\ AliasInv

\* A fetch is cancelled when its last consumer has left, and no sooner unless it
\* was taken out of the cache.
CancelledWithTheLastConsumer ==
  [][\A e \in pending \cap pending' : e \notin aborted =>
       (e \in aborted' <=> attached'[e] = {} \/ ~Holds(e)')]_vars

\* "Aborts the shared request only after the last consumer aborts": what the
\* cache offers under a key is not aborted while it has consumers.
WantedIsNotAborted ==
  \A k \in Key : entries[k] \in aborted => attached[entries[k]] = {}
=============================================================================
