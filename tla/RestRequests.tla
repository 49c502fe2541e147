---------------------------- MODULE RestRequests ----------------------------
(***************************************************************************)
(* A request of the REST protocol: the hooks of its plugins around the     *)
(* transport, recovery, retries within retries, cancellation, and the GET  *)
(* whose parts run inside the shared fetch cache.                          *)
(*                                                                         *)
(* Every hook is awaited, and plugins come and go meanwhile; a chain of    *)
(* hooks works through the plugins there were when it began.  Plugins do   *)
(* what they like, but a hook retries at most once.  Of the cache only     *)
(* what one consumer sees of it is here: SharedFetchCache has the rest.    *)
(***************************************************************************)
EXTENDS Integers, Sequences, FiniteSets, SequencesExt

CONSTANTS Plugin,        \* plugins
          Own,           \* those of the protocol instance; the others are global
          MaxRetryDepth, \* the limit of retries within retries
          MaxChanges     \* bound: plugins that come or go

ASSUME RestAssumption ==
  IsFiniteSet(Plugin) /\ Own \subseteq Plugin /\ MaxRetryDepth \in Nat \ {0} /\ MaxChanges \in Nat

VARIABLES
  globals,   \* the global plugins, in order
  own,       \* the plugins of the instance, in order
  ready,     \* whether the protocol has its client
  changes,   \* plugins that came or went so far
  viaCache,  \* whether the request is a GET through the cache
  attempts,  \* the request, the retry it waits for, the retry that waits for, ...
  signalled, \* whether the consumer aborted
  outcome,   \* what the consumer got
  passed,    \* plugins whose onResponse the data went through
  stayed,    \* plugins there since the request began
  cancelled  \* whether a cancellation of the transport is on its way up

registry == <<globals, own, ready, changes>>
progress == <<attempts, outcome, passed, cancelled>>
rvars    == <<registry, progress, viaCache, signalled, stayed>>

-----------------------------------------------------------------------------
\* getPluginsInOrder
InOrder == globals \o own

NewAttempt == [at |-> "request", chain |-> InOrder, recovered |-> FALSE]

Top     == Len(attempts)
Latest  == attempts[Top]
Goes(a) == attempts' = [attempts EXCEPT ![Top] = a]
At(stage) == attempts # <<>> /\ Latest.at = stage

\* Hooks of requests run in order, those of responses and errors in reverse.
InReverse(stage) == [Latest EXCEPT !.at = stage, !.chain = Reverse(InOrder)]

\* The rest of the chain.
NextPlugin == [Latest EXCEPT !.chain = Tail(@)]

Consumer(result) == outcome' = IF outcome = "none" THEN result ELSE outcome

\* The attempt settles: to the consumer, or to the hook that retried.
Resolves ==
  IF Top = 1 THEN attempts' = <<>> /\ Consumer("data")
  ELSE /\ attempts' = [Front(attempts) EXCEPT ![Top - 1].at = "answered"]
       /\ UNCHANGED outcome

Rejects(result) ==
  IF Top = 1 THEN attempts' = <<>> /\ Consumer(result)
  ELSE /\ attempts' = [Front(attempts) EXCEPT ![Top - 1].at = "refused"]
       /\ UNCHANGED outcome

\* Through the cache, the consumer gave up: what goes on ends within the cache.
Abandoned == viaCache /\ Top = 1 /\ outcome # "none"

\* The attempt goes on, unless nobody waits for what the cache was asked for.
Continues(a) == IF Abandoned THEN attempts' = <<>> ELSE Goes(a)

\* Whether an error of a hook is caught and offered to the error hooks: through the
\* cache, what prepares the request and what processes the response stand outside.
Caught == (Top > 1 \/ ~viaCache) /\ ~Latest.recovered

Offers == Goes(InReverse("error")) /\ UNCHANGED outcome

\* Fault: a cancellation is an error like any other.
OffersCancellation == Offers

\* A cancellation passes by the error hooks.
Cancels == Rejects("cancelled")

\* A hook throws: an error, or a cancellation of its own.
Throws(caught) ==
  /\ UNCHANGED passed
  /\ \/ (IF caught THEN Offers ELSE Rejects("error")) /\ cancelled' = FALSE
     \/ Cancels /\ cancelled' = TRUE

-----------------------------------------------------------------------------
(* Request hooks and transport *)

\* request and getWithSharedCache: the latter does not ask for the client.
Request(cached) ==
  /\ attempts = <<>> /\ outcome = "none"
  /\ ready \/ cached
  /\ viaCache' = cached
  /\ attempts' = <<NewAttempt>>
  /\ stayed' = ToSet(InOrder)
  /\ UNCHANGED <<registry, outcome, passed, cancelled, signalled>>

\* A response, of the transport or of a plugin, goes through the response hooks.
Responds == Continues(InReverse("response")) /\ passed' = {} /\ UNCHANGED outcome

\* executePluginOnRequest: the plugin passes the request on, answers it or throws.
RequestHook ==
  /\ At("request") /\ Latest.chain # <<>>
  /\ \/ Goes(NextPlugin) /\ UNCHANGED <<outcome, passed, cancelled>>
     \/ Responds /\ UNCHANGED cancelled
     \/ Throws(Caught)
  /\ UNCHANGED <<registry, viaCache, signalled, stayed>>

\* Without a client there is nothing to call.
Sends ==
  /\ At("request") /\ Latest.chain = <<>>
  /\ IF ready \/ Abandoned
       THEN Continues([Latest EXCEPT !.at = "transport"]) /\ UNCHANGED outcome
       ELSE Offers
  /\ UNCHANGED <<registry, passed, cancelled, viaCache, signalled, stayed>>

\* The transport answers or fails, unless the signal has cut it off.
Transport ==
  /\ At("transport")
  /\ IF signalled
       THEN Cancels /\ cancelled' = TRUE /\ UNCHANGED passed
       ELSE /\ Responds \/ (Offers /\ UNCHANGED passed)
            /\ UNCHANGED cancelled
  /\ UNCHANGED <<registry, viaCache, signalled, stayed>>

-----------------------------------------------------------------------------
(* Response and error hooks *)

\* executePluginOnResponse
ResponseHook ==
  /\ At("response") /\ Latest.chain # <<>>
  /\ \/ /\ Goes(NextPlugin) /\ UNCHANGED <<outcome, cancelled>>
        /\ passed' = passed \cup {Head(Latest.chain)}
     \/ Throws(Caught)
  /\ UNCHANGED <<registry, viaCache, signalled, stayed>>

Delivers ==
  /\ At("response") /\ Latest.chain = <<>>
  /\ Resolves
  /\ UNCHANGED <<registry, passed, cancelled, viaCache, signalled, stayed>>

\* Fault: what a plugin recovers is delivered as it is.
DeliversRecovered == Resolves /\ passed' = {}

\* A plugin recovered: its response goes through the response hooks too.
Recovers ==
  /\ Continues([InReverse("response") EXCEPT !.recovered = TRUE])
  /\ passed' = {}
  /\ UNCHANGED outcome

\* retry: refused at the limit and without a client.
Retries ==
  /\ IF ready /\ Top < MaxRetryDepth
       THEN attempts' = Append([attempts EXCEPT ![Top].at = "retrying"], NewAttempt)
       ELSE Goes([Latest EXCEPT !.at = "refused"])
  /\ UNCHANGED outcome

\* executePluginOnError: the plugin returns an error, throws, recovers or retries.
ErrorHook ==
  /\ At("error") /\ Latest.chain # <<>>
  /\ \/ Goes(NextPlugin) /\ UNCHANGED <<outcome, passed, cancelled>>
     \/ Throws(FALSE)
     \/ Recovers /\ UNCHANGED cancelled
     \/ Retries /\ UNCHANGED <<passed, cancelled>>
  /\ UNCHANGED <<registry, viaCache, signalled, stayed>>

\* The hook whose retry was answered returns the answer or an error of its own, or
\* throws.
RetryAnswered ==
  /\ At("answered")
  /\ \/ Recovers /\ UNCHANGED cancelled
     \/ Goes([NextPlugin EXCEPT !.at = "error"]) /\ UNCHANGED <<outcome, passed, cancelled>>
     \/ Throws(FALSE)
  /\ UNCHANGED <<registry, viaCache, signalled, stayed>>

\* The hook whose retry was refused lets that pass, or catches it and throws another
\* error or returns an error or a response.
RetryRefused ==
  /\ At("refused")
  /\ \/ /\ Rejects(IF cancelled THEN "cancelled" ELSE "error")
        /\ UNCHANGED <<passed, cancelled>>
     \/ Throws(FALSE)
     \/ /\ Goes([NextPlugin EXCEPT !.at = "error"])
        /\ cancelled' = FALSE
        /\ UNCHANGED <<outcome, passed>>
     \/ Recovers /\ cancelled' = FALSE
  /\ UNCHANGED <<registry, viaCache, signalled, stayed>>

\* No plugin recovered.
GivesUp ==
  /\ At("error") /\ Latest.chain = <<>>
  /\ Rejects("error")
  /\ UNCHANGED <<registry, passed, cancelled, viaCache, signalled, stayed>>

-----------------------------------------------------------------------------
(* The consumer and the registry of plugins *)

\* The consumer aborts.  The cache answers it at once, while its fetch goes on to
\* find its own signal aborted.
Aborts ==
  /\ attempts # <<>> /\ ~signalled
  /\ signalled' = TRUE
  /\ IF viaCache /\ attempts[1].at # "response" THEN Consumer("cancelled")
                                                ELSE UNCHANGED outcome
  /\ UNCHANGED <<registry, attempts, passed, cancelled, viaCache, stayed>>

\* plugins.add of the registry and of the protocol
Adds(p) ==
  /\ changes < MaxChanges /\ p \notin ToSet(InOrder)
  /\ changes' = changes + 1
  /\ IF p \in Own THEN own' = Append(own, p) /\ UNCHANGED globals
                  ELSE globals' = Append(globals, p) /\ UNCHANGED own
  /\ UNCHANGED <<ready, progress, viaCache, signalled, stayed>>

\* plugins.remove
Removes(p) ==
  /\ changes < MaxChanges /\ p \in ToSet(InOrder)
  /\ changes' = changes + 1
  /\ globals' = RemoveFirst(globals, p) /\ own' = RemoveFirst(own, p)
  /\ stayed' = stayed \ {p}
  /\ UNCHANGED <<ready, progress, viaCache, signalled>>

\* cleanup
CleansUp ==
  /\ ready /\ changes < MaxChanges
  /\ changes' = changes + 1
  /\ ready' = FALSE /\ own' = <<>>
  /\ stayed' = stayed \ Own
  /\ UNCHANGED <<globals, progress, viaCache, signalled>>

RestInit ==
  /\ globals = SetToSeq(Plugin \ Own) /\ own = SetToSeq(Own) /\ ready = TRUE /\ changes = 0
  /\ viaCache = FALSE /\ attempts = <<>> /\ signalled = FALSE /\ outcome = "none"
  /\ passed = {} /\ stayed = {} /\ cancelled = FALSE

Proceeds ==
  \/ RequestHook \/ Sends \/ Transport \/ ResponseHook \/ Delivers
  \/ ErrorHook \/ RetryAnswered \/ RetryRefused \/ GivesUp

RestNext ==
  \/ \E cached \in BOOLEAN : Request(cached)
  \/ Proceeds \/ Aborts \/ CleansUp
  \/ \E p \in Plugin : Adds(p) \/ Removes(p)

\* Hooks and the transport settle.
RestSpec == RestInit /\ [][RestNext]_rvars /\ WF_rvars(Proceeds)

-----------------------------------------------------------------------------
(* Properties *)

\* A hook that retried is still the first of its chain.
Attempt ==
  {a \in [at : {"request", "transport", "response", "error", "retrying", "answered", "refused"},
          chain : Seq(Plugin), recovered : BOOLEAN] :
     a.at \in {"retrying", "answered", "refused"} => a.chain # <<>>}

\* Every variable holds values of its type.
RestTypeOK ==
  /\ ToSet(InOrder) \subseteq Plugin /\ stayed \subseteq ToSet(InOrder)
  /\ ready \in BOOLEAN /\ changes \in 0 .. MaxChanges
  /\ viaCache \in BOOLEAN /\ signalled \in BOOLEAN /\ cancelled \in BOOLEAN
  /\ attempts \in Seq(Attempt)
  /\ Top <= MaxRetryDepth
  /\ outcome \in {"none", "data", "error", "cancelled"}
  /\ passed \subseteq Plugin

\* Data reaches the consumer only through the response hooks of every plugin that was
\* there all along, wherever it came from: the transport, a plugin that answered the
\* request or recovered from an error, or a retry at any depth.
DataIsProcessed == outcome = "data" => stayed \subseteq passed

\* A cancellation passes by every error hook, through all retries that wait for one
\* another, and the consumer gets it as it is, unless a plugin that retried catches it.
CancellationPasses ==
  cancelled => At("refused") \/ (attempts = <<>> /\ outcome = "cancelled")

\* The plugins are kept as ordered sets, the instance's apart from the global ones.
PluginsInv ==
  /\ globals \in Seq(Plugin) /\ own \in Seq(Own)
  /\ IsInjective(globals) /\ IsInjective(own)

\* Every attempt but the latest waits for a hook that retried.
Stacked == \A i \in 1 .. Top - 1 : attempts[i].at = "retrying"

\* Until the request has settled its consumer can only have given up.
StillOpen == attempts # <<>> => outcome \in {"none", "cancelled"}

\* Whoever was there all along has processed the response or is yet to do so.
YetToProcess == At("response") => stayed \subseteq ToSet(Latest.chain) \cup passed

\* The inductive invariant behind the two properties above.
RestIInv ==
  /\ RestTypeOK /\ PluginsInv /\ Stacked /\ StillOpen /\ YetToProcess
  /\ DataIsProcessed /\ CancellationPasses

\* However often plugins retry, a request settles.
RequestSettles == attempts # <<>> ~> outcome # "none"

\* FEATURE.md of the protocol surface (line 122) of every request: an error of a plugin
\* is offered to the error hooks before the consumer gets it.
PluginErrorsAreOffered ==
  [][outcome = "none" /\ outcome' = "error" => Latest.at \in {"error", "refused"}]_rvars
=============================================================================
