----------------------------- MODULE ActionChains -----------------------------
(***************************************************************************)
(* Actions chains executed over nested registries: the mediator of each    *)
(* registry (DefaultActionsChainsMediator), the hand-over of a sub-chain   *)
(* down a forwarding entry or up the inbound link, and the receivers of    *)
(* both (receiveCrossHopNode, ParentMfeBridgeImpl, ChildMfeBridgeImpl).    *)
(*                                                                         *)
(* A chain is a tree of nodes, each an action with its next and fallback.  *)
(* A dispatch carries one node at a time; a failure that is known at once  *)
(* runs the fallback in the same synchronous step of the program ("due"),  *)
(* everything else continues from the microtask queue.                     *)
(***************************************************************************)
EXTENDS NestedRoutes, Sequences

CONSTANTS Dispatch,     \* identities of the calls of executeActionsChain
          Node, NoNode, \* nodes of chains; the absent branch
          NextOf, FallbackOf, TargetOf,
          DispatchedBy, \* DispatchedBy[n]: the registries whose program dispatches n
          Inadmissible  \* nodes whose admission, declaration or timeout check throws

ASSUME ChainAssumption ==
  /\ NoNode \notin Node
  /\ NextOf \in [Node -> Node \cup {NoNode}] /\ FallbackOf \in [Node -> Node \cup {NoNode}]
  /\ TargetOf \in [Node -> Target] /\ DispatchedBy \in [Node -> SUBSET Registry]

VARIABLES
  exec,        \* exec[k]: where dispatch k stands
  tag,         \* tag[n]: the arrival edge of the action of n, or NoRoute
  running,     \* running[k]: nodes whose handler has not answered
  \* what happened, for the properties
  invocations, \* invocations[k][n]: how often a handler was invoked for n
  begun,       \* begun[k]: nodes whose execution began
  inTime,      \* inTime[k]: nodes whose handler succeeded before its timer
  trail        \* trail[k]: the registries the current node came through

chains == <<exec, tag, running, invocations, begun, inTime, trail>>
vars == <<nesting, chains>>

Idle == [state |-> "idle", node |-> NoNode, at |-> Shell, down |-> FALSE]

ChainsInit ==
  /\ Init
  /\ exec = [k \in Dispatch |-> Idle]
  /\ tag = [n \in Node |-> NoRoute]
  /\ running = [k \in Dispatch |-> {}]
  /\ invocations = [k \in Dispatch |-> [n \in Node |-> 0]]
  /\ begun = [k \in Dispatch |-> {}]
  /\ inTime = [k \in Dispatch |-> {}]
  /\ trail = [k \in Dispatch |-> <<>>]

\* A synchronous part of the program is running.
Busy == \E k \in Dispatch : exec[k].state = "due"

\* An accepted hand-over waits for one microtask, and a registration that
\* follows the release of an extension for more than one.
HandOverPending == \E k \in Dispatch : exec[k].state = "queued"

-----------------------------------------------------------------------------
\* resolveHandler: a handler here, a forwarding entry that does not lead back
\* over the arrival edge, or escalation unless the chain came from the parent.
Route(r, n, escalate) ==
  LET t == TargetOf[n]
  IN IF t \in keyed[r] THEN "handler"
     ELSE IF forwarding[r][t] \notin {NoRoute, tag[n]} THEN "down"
     ELSE IF escalate /\ r # Shell /\ link[r] # 0 THEN "up" ELSE "none"

\* sendCrossHopEnvelope down bridge b is accepted: the bridge is not destroyed,
\* active, has a receiver, and the registry behind it is not disposed.
ReceivesFromParent(b) ==
  /\ bridge[b[1]] = b[2] /\ host[b[1]] = "mounted"
  /\ link[b[1]] = b[2] /\ disposal[b[1]] = "none"

\* escalate over the link of r reaches the parent and is accepted.
TagsArrival(r) == Linked(r) /\ host[r] = "mounted"
ReceivesFromChild(r) == TagsArrival(r) /\ disposal[Parent[r]] = "none"

\* Dispatch k is at node n, in the given state, in registry r.
Moves(k, state, n, r, down) ==
  exec' = [exec EXCEPT ![k] = [state |-> state, node |-> n, at |-> r, down |-> down]]

\* Execution goes on at once with node n in r, or ends without one.
GoesOn(k, n, r) ==
  /\ IF n = NoNode THEN Moves(k, "ended", n, r, FALSE) ELSE Moves(k, "due", n, r, FALSE)
  /\ trail' = [trail EXCEPT ![k] = <<r>>]

Fails(k, n, r) == GoesOn(k, FallbackOf[n], r)

\* Sub-chain n is handed over to registry q, or refused.
HandsOver(k, n, q, accepted, down) ==
  IF accepted
    THEN /\ Moves(k, "queued", n, q, down)
         /\ trail' = [trail EXCEPT ![k] = Append(@, q)]
    ELSE Fails(k, n, exec[k].at)

-----------------------------------------------------------------------------
\* executeActionsChain.
Dispatches(k, n) ==
  /\ ~Busy /\ exec[k].state = "idle"
  /\ \E r \in DispatchedBy[n] : r \in built /\ GoesOn(k, n, r)
  /\ UNCHANGED <<nesting, tag, running, invocations, begun, inTime>>

\* executeChain up to its first await, for a node that is due or was accepted.
Executes(k) ==
  LET n == exec[k].node
      r == exec[k].at
      route == Route(r, n, ~exec[k].down)
      b == forwarding[r][TargetOf[n]]
  IN /\ exec[k].state = "due" \/ (exec[k].state = "queued" /\ ~Busy)
     /\ begun' = [begun EXCEPT ![k] = @ \cup {n}]
     /\ \/ /\ route = "handler" /\ n \notin Inadmissible
           /\ Moves(k, "invoked", n, r, FALSE)
           /\ running' = [running EXCEPT ![k] = @ \cup {n}]
           /\ invocations' = [invocations EXCEPT ![k][n] = @ + 1]
           /\ UNCHANGED <<tag, trail>>
        \/ /\ route = "none" \/ (route = "handler" /\ n \in Inadmissible)
           /\ Fails(k, n, r)
           /\ UNCHANGED <<tag, running, invocations>>
        \/ /\ route = "down"
           /\ HandsOver(k, n, b[1], ReceivesFromParent(b), TRUE)
           /\ UNCHANGED <<tag, running, invocations>>
        \/ /\ route = "up"
           /\ tag' = IF TagsArrival(r) THEN [tag EXCEPT ![n] = LinkOf(r)] ELSE tag
           /\ HandsOver(k, n, Parent[r], ReceivesFromChild(r), FALSE)
           /\ UNCHANGED <<running, invocations>>
     /\ UNCHANGED <<nesting, inTime>>

\* The handler answers; only the first of answer and timer settles the promise.
Answers(k, n, ok) ==
  /\ ~Busy /\ n \in running[k]
  /\ running' = [running EXCEPT ![k] = @ \ {n}]
  /\ IF exec[k].state = "invoked" /\ exec[k].node = n
       THEN /\ exec' = [exec EXCEPT ![k].state = IF ok THEN "resolved" ELSE "rejected"]
            /\ inTime' = [inTime EXCEPT ![k] = IF ok THEN @ \cup {n} ELSE @]
       ELSE UNCHANGED <<exec, inTime>>
  /\ UNCHANGED <<nesting, tag, invocations, begun, trail>>

\* Fault: the timer is not cleared by the answer.
TimesOutAnswered(k) ==
  /\ ~Busy /\ exec[k].state \in {"invoked", "resolved"}
  /\ exec' = [exec EXCEPT ![k].state = "rejected"]
  /\ UNCHANGED <<nesting, tag, running, invocations, begun, inTime, trail>>

\* Fault: no timer is armed.
TimesOutNever(k) == ~Busy /\ exec[k].state = "invoked" /\ FALSE /\ UNCHANGED vars

TimesOut(k) ==
  /\ ~Busy /\ exec[k].state = "invoked"
  /\ exec' = [exec EXCEPT ![k].state = "rejected"]
  /\ UNCHANGED <<nesting, tag, running, invocations, begun, inTime, trail>>

\* The await returns: next after success, fallback after failure.
Continues(k) ==
  LET n == exec[k].node
  IN /\ ~Busy
     /\ \/ exec[k].state = "resolved" /\ GoesOn(k, NextOf[n], exec[k].at)
        \/ exec[k].state = "rejected" /\ Fails(k, n, exec[k].at)
     /\ UNCHANGED <<nesting, tag, running, invocations, begun, inTime>>

Next ==
  \/ /\ ~Busy /\ NestingStep /\ UNCHANGED chains
     /\ HandOverPending => \A r \in Nested : ~HostRegistered(r)
  \/ \E k \in Dispatch : \/ Executes(k) \/ TimesOut(k) \/ Continues(k)
                         \/ \E n \in Node : \/ Dispatches(k, n)
                                            \/ \E ok \in BOOLEAN : Answers(k, n, ok)

\* Microtasks run and timers fire; handlers and programs need not do anything.
Spec == /\ ChainsInit /\ [][Next]_vars
        /\ \A k \in Dispatch : WF_vars(Executes(k)) /\ WF_vars(Continues(k)) /\ WF_vars(TimesOut(k))

-----------------------------------------------------------------------------
\* A chain is a tree, as the declared instance it is read from: no node is a
\* branch twice, and none that is a branch is dispatched itself.
ChainsAreTrees ==
  \A n, m \in Node :
    /\ NextOf[n] \in Node =>
         /\ DispatchedBy[NextOf[n]] = {} /\ NextOf[n] # FallbackOf[m]
         /\ NextOf[m] = NextOf[n] => m = n
    /\ FallbackOf[n] \in Node =>
         DispatchedBy[FallbackOf[n]] = {} /\ (FallbackOf[m] = FallbackOf[n] => m = n)

\* What a dispatch has come to: the nodes begun, and the one it is at.
Reaching == {"due", "queued"}
Begun    == {"queued", "invoked", "resolved", "rejected"}
Underway(k) == exec[k].state \in Reaching \cup Begun
Reached(k)  == begun[k] \cup {n \in {exec[k].node} : Underway(k)}

ChainsTyped ==
  /\ exec = [k \in Dispatch |-> [state |-> exec[k].state, node |-> exec[k].node,
                                 at |-> exec[k].at, down |-> exec[k].down]]
  /\ running \in [Dispatch -> SUBSET Node] /\ begun \in [Dispatch -> SUBSET Node]
  /\ inTime \in [Dispatch -> SUBSET Node] /\ invocations \in [Dispatch -> [Node -> Nat]]
  /\ \A k \in Dispatch : /\ exec[k].state \in {"idle", "ended"} \cup Reaching \cup Begun
                         /\ Underway(k) => exec[k].node \in Node

\* A dispatch is at a node it has not begun, or has begun last, in this registry
\* or in one it was handed over from, and no branch of that node is begun; a node
\* is reached through its parent, and by its outcome.
BranchesInv ==
  \A k \in Dispatch :
    LET n == exec[k].node
    IN /\ exec[k].state = "idle" => begun[k] = {}
       /\ exec[k].state = "due" => n \notin begun[k]
       /\ exec[k].state \in Begun => n \in begun[k]
       /\ Underway(k) => /\ n \in inTime[k] <=> exec[k].state = "resolved"
                         /\ NextOf[n] \notin begun[k] /\ FallbackOf[n] \notin begun[k]
       /\ inTime[k] \subseteq begun[k]
       /\ \A p \in Node : /\ NextOf[p] \in Reached(k) => p \in inTime[k]
                          /\ FallbackOf[p] \in Reached(k) => p \in begun[k] \ inTime[k]

\* The handler is invoked where the node is not handed over any further.
InvocationsInv ==
  \A k \in Dispatch, n \in Node :
    /\ invocations[k][n] <= 1 /\ (invocations[k][n] = 1 => n \in begun[k])
    /\ exec[k].state \in Reaching /\ exec[k].node = n => invocations[k][n] = 0

ChainsInv == ChainsTyped /\ BranchesInv /\ InvocationsInv

-----------------------------------------------------------------------------
\* Over all registries a chain crosses, each of its actions reaches a handler
\* at most once; of its next and fallback at most one is executed: next only
\* if the handler succeeded before its timer, fallback only if it did not,
\* however timer, answer and continuation are ordered (executeChain).
EachActionOnce ==
  \A k \in Dispatch, n \in Node :
    /\ invocations[k][n] <= 1
    /\ NextOf[n] \in begun[k] => n \in inTime[k]
    /\ FallbackOf[n] \in begun[k] => n \notin inTime[k]

\* An action never comes back to a registry it was handed through, whatever
\* bridges are deactivated, released and replaced while it travels: the arrival
\* edge and the bar on escalating what came from the parent contain loops.
VisitsARegistryOnce ==
  \A k \in Dispatch : \A i, j \in DOMAIN trail[k] :
    i # j => trail[k][i] # trail[k][j]

\* Every chain ends, though handlers may never answer and registries are
\* released and disposed under it.
EveryChainEnds ==
  \A k \in Dispatch : exec[k].state # "idle" ~> exec[k].state = "ended"
===============================================================================
