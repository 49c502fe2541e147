-------------------------- MODULE NavigationHistory --------------------------
(***************************************************************************)
(* The one navigation history of a realm: the browser's entries, the       *)
(* position kept beside them, and the fan-out that notifies subscribers    *)
(* (packages/routing/src/history).                                         *)
(*                                                                         *)
(* Everything here runs on one JavaScript stack.  A round is the walk over *)
(* the snapshot of subscribers taken when it began; a subscriber that      *)
(* navigates from inside its own call queues a round, which the call at    *)
(* the bottom of the stack serves when the round in progress is over.  The *)
(* operators below take the history `nav' and return it changed, so that a *)
(* subscriber's call can navigate, subscribe and unsubscribe in turn.      *)
(*                                                                         *)
(* The code keeps its subscribers in a Set and walks them in the order     *)
(* they were made; here the set and that order are kept apart.             *)
(***************************************************************************)
EXTENDS Naturals, Sequences

CONSTANT RoundLimit    \* REENTRANT_ROUND_LIMIT, the queued rounds one drain serves

(***************************************************************************)
(* nav.stack   the browser's entries, each a URL and the position recorded *)
(* nav.at      the entry shown                                             *)
(* nav.pos     the position the history reports                            *)
(* nav.live    the subscriptions                                           *)
(* nav.before  which of two subscriptions was made first                   *)
(* nav.busy    whether a drain is under way (dispatching)                  *)
(* nav.note    the notification of the round in progress                   *)
(* nav.rest    the subscriptions of its snapshot still to be called        *)
(* nav.queue   the notifications whose rounds wait (pending)               *)
(* nav.drained the queued rounds this drain has served                     *)
(* nav.origin  the kind of navigation that began the drain                 *)
(* nav.lost    whether the last drain was abandoned at the limit           *)
(***************************************************************************)
Notification(kind, pos) == [kind |-> kind, pos |-> pos]

\* The page opens on the last of the session's entries; a position recorded
\* before a reload is read back.
OpenedOn(urls) ==
  [stack |-> [i \in DOMAIN urls |-> [url |-> urls[i], pos |-> i - 1]],
   at |-> Len(urls), pos |-> Len(urls) - 1, live |-> {}, before |-> {},
   busy |-> FALSE, note |-> Notification("none", 0), rest |-> {},
   queue |-> <<>>, drained |-> 0, origin |-> "none", lost |-> FALSE]

UrlOf(nav) == nav.stack[nav.at].url

Subscribe(nav, token) ==
  [nav EXCEPT !.live = @ \cup {token}, !.before = @ \cup (nav.live \X {token})]

\* A subscription that ends during a round is skipped by what is left of it.
Unsubscribe(nav, tokens) ==
  [nav EXCEPT !.live   = @ \ tokens,
              !.before = {pair \in @ : {pair[1], pair[2]} \cap tokens = {}},
              !.rest   = @ \ tokens]

StartRound(nav, note) == [nav EXCEPT !.note = note, !.rest = nav.live]

\* Fault: a navigation made during a round is folded into that round.
FanOutFolded(nav, kind) ==
  IF nav.busy
  THEN nav
  ELSE [StartRound(nav, Notification(kind, nav.pos))
          EXCEPT !.busy = TRUE, !.drained = 0, !.origin = kind, !.lost = FALSE]

FanOut(nav, kind) ==
  LET note == Notification(kind, nav.pos)
  IN IF nav.busy
     THEN [nav EXCEPT !.queue = Append(@, note)]
     ELSE [StartRound(nav, note)
             EXCEPT !.busy = TRUE, !.drained = 0, !.origin = kind, !.lost = FALSE]

\* A push drops the entries ahead of the one it leaves; the position is
\* committed once the browser has taken the entry.
Push(nav, url) ==
  FanOut([nav EXCEPT
              !.stack = Append(SubSeq(@, 1, nav.at), [url |-> url, pos |-> nav.pos + 1]),
              !.at    = nav.at + 1,
              !.pos   = nav.pos + 1],
           "push")

Replace(nav, url) ==
  FanOut([nav EXCEPT !.stack[nav.at] = [url |-> url, pos |-> nav.pos]], "replace")

Write(nav, url, verb) == IF verb = "push" THEN Push(nav, url) ELSE Replace(nav, url)

\* The browser has moved to another of its entries.
Pop(nav, entry) ==
  FanOut([nav EXCEPT !.at = entry, !.pos = nav.stack[entry].pos], "history")

\* The round has come to a subscription when it has called the earlier ones.
Due(nav, token) ==
  /\ nav.busy /\ token \in nav.rest
  /\ \A other \in nav.rest : <<other, token>> \notin nav.before

\* The call under way returns, and the round goes on to the next.
NextCall(nav, token) == [nav EXCEPT !.rest = @ \ {token}]

RoundIsOver(nav) == nav.busy /\ nav.rest = {}

\* The drain ends, and nothing of it is kept.
Ended(nav) ==
  [nav EXCEPT !.busy = FALSE, !.note = Notification("none", 0), !.drained = 0,
              !.origin = "none"]

\* No round is left.
Drained(nav) == Ended(nav)

AtLimit(nav) == nav.drained >= RoundLimit

\* The drain gives the rest up and throws to the call that began it.
Abandoned(nav) == [Ended(nav) EXCEPT !.queue = <<>>, !.lost = TRUE]

ServeQueued(nav) ==
  [StartRound(nav, Head(nav.queue)) EXCEPT !.queue = Tail(@), !.drained = @ + 1]
=============================================================================
