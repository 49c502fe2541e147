----------------------------- MODULE RuntimeProofs -----------------------------
(***************************************************************************)
(* Theorems about what a runtime is made of: its routers, its registry and *)
(* the actions chains it executes.                                         *)
(*                                                                         *)
(* First the routers of a page over its one history, for every set of      *)
(* domains nested in any way, every session and any number of commands and *)
(* steps.  Then the execution of actions chains, for every forest of       *)
(* nested registries, every set of chains and every number of dispatches,  *)
(* and the routes they travel by, for any number of bridges.  Last,        *)
(* registering and unregistering domains and extensions and disposing of   *)
(* their registry, for every set of domains and extensions and any number  *)
(* of calls.                                                               *)
(***************************************************************************)
EXTENDS ActionChains, RegistryLifecycle, RealmRouting, OrderedSets,
        FiniteSetTheorems, TLAPS

-----------------------------------------------------------------------------
(* Facts of sequences. *)

LEMMA ThoseFacts ==
  ASSUME NEW S, NEW s \in Seq(S), NEW T
  PROVE  /\ Those(s, T) \in Seq(S \cap T)
         /\ ToSet(Those(s, T)) = ToSet(s) \cap T
  <1> DEFINE OneMore(g, i) == IF i = 0 THEN <<>>
                           ELSE IF s[i] \in T THEN Append(g[i - 1], s[i]) ELSE g[i - 1]
             Ends(n) == \E g : g = [i \in 0..n |-> OneMore(g, i)]
             kept[n \in 0..Len(s)] ==
               IF n = 0 THEN <<>>
               ELSE IF s[n] \in T THEN Append(kept[n - 1], s[n]) ELSE kept[n - 1]
  <1>1. ASSUME NEW n \in Nat  PROVE Ends(n)
    <2> DEFINE Bad == {m \in Nat : ~Ends(m)}
    <2>1. SUFFICES ASSUME Bad # {}  PROVE FALSE
      OBVIOUS
    <2>2. PICK m \in Bad : \A y \in Bad : m <= y
      <3> HIDE DEF Ends
      <3> QED
        BY <2>1, LeastNumber
    <2>3. m \in Nat /\ ~Ends(m) /\ (m # 0 => m - 1 \in Nat /\ Ends(m - 1))
      <3> HIDE DEF Ends
      <3>1. m \in Nat /\ ~Ends(m)
        OBVIOUS
      <3> QED
        BY <2>2, <3>1
    <2> HIDE DEF Bad
    <2>4. CASE m = 0
      <3> DEFINE g == [i \in 0..0 |-> <<>>]
      <3>1. g = [i \in 0..m |-> OneMore(g, i)]
        BY <2>4
      <3> QED
        BY <2>3, <3>1
    <2>5. CASE m # 0
      <3>1. PICK g : g = [i \in 0..m - 1 |-> OneMore(g, i)]
        BY <2>3, <2>5
      <3> DEFINE h == [i \in 0..m |-> IF i = m THEN OneMore(g, m) ELSE g[i]]
      <3>2. ASSUME NEW i \in 0..m  PROVE h[i] = OneMore(h, i)
        <4>1. m \in Nat /\ i \in Nat /\ i <= m
          BY <2>3
        <4>2. h[i] = OneMore(g, i)
          <5>1. CASE i = m
            BY <5>1
          <5>2. CASE i # m
            <6>1. i \in 0..m - 1
              BY <4>1, <5>2
            <6>2. g[i] = OneMore(g, i)
              <7> HIDE DEF OneMore
              <7> QED
                BY <3>1, <6>1
            <6> HIDE DEF OneMore
            <6> QED
              BY <5>2, <6>2
          <5> QED
            BY <5>1, <5>2
        <4>3. i # 0 => h[i - 1] = g[i - 1]
          BY <4>1
        <4> QED
          BY <4>2, <4>3
      <3> HIDE DEF h
      <3>3. h = [i \in 0..m |-> h[i]]
        BY DEF h
      <3>4. h = [i \in 0..m |-> OneMore(h, i)]
        <4> HIDE DEF OneMore
        <4> QED
          BY <3>2, <3>3
      <3> QED
        BY <2>3, <3>4
    <2> QED
      BY <2>4, <2>5
  <1>2. kept = [n \in 0..Len(s) |-> OneMore(kept, n)]
    <2>1. Ends(Len(s))
      BY <1>1
    <2> QED
      BY <2>1
  <1>3. Those(s, T) = kept[Len(s)]
    BY DEF Those
  <1> HIDE DEF kept
  <1> DEFINE Fine(n) == /\ kept[n] \in Seq(S \cap T)
                        /\ \A x : x \in ToSet(kept[n]) <=> x \in T /\ \E i \in 1..n : x = s[i]
  <1>4. \A n \in 0..Len(s) : Fine(n)
    <2>1. Fine(0)
      <3>1. kept[0] = <<>>
        BY <1>2
      <3> QED
        BY <3>1 DEF ToSet
    <2>2. ASSUME NEW n \in 1..Len(s), Fine(n - 1)  PROVE Fine(n)
      <3>1. /\ n - 1 \in 0..Len(s) /\ s[n] \in S /\ n \in 1..n
            /\ \A i : i \in 1..n <=> i \in 1..n - 1 \/ i = n
        OBVIOUS
      <3>2. kept[n] = IF s[n] \in T THEN Append(kept[n - 1], s[n]) ELSE kept[n - 1]
        <4>1. n \in 0..Len(s) /\ n # 0
          OBVIOUS
        <4>2. kept[n] = OneMore(kept, n)
          <5> HIDE DEF OneMore
          <5> QED
            BY <1>2, <4>1
        <4> QED
          BY <4>1, <4>2
      <3>3. CASE s[n] \in T
        <4>1. s[n] \in S \cap T
          BY <3>1, <3>3
        <4>2. /\ Append(kept[n - 1], s[n]) \in Seq(S \cap T)
              /\ ToSet(Append(kept[n - 1], s[n])) = ToSet(kept[n - 1]) \cup {s[n]}
          BY <2>2, <4>1, AppendFacts
        <4> QED
          BY <2>2, <3>1, <3>2, <3>3, <4>2
      <3>4. CASE s[n] \notin T
        BY <2>2, <3>1, <3>2, <3>4
      <3> QED
        BY <3>3, <3>4
    <2> HIDE DEF Fine
    <2> DEFINE Bad == {m \in 0..Len(s) : ~Fine(m)}
    <2>3. SUFFICES ASSUME Bad # {}  PROVE FALSE
      OBVIOUS
    <2>4. PICK m \in Bad : \A y \in Bad : m <= y
      <3>1. Bad \subseteq Nat
        OBVIOUS
      <3> QED
        BY <2>3, <3>1, LeastNumber
    <2>5. m \in 0..Len(s) /\ ~Fine(m)
      OBVIOUS
    <2>6. m # 0 /\ m \in 1..Len(s) /\ m - 1 \in 0..Len(s)
      BY <2>1, <2>5
    <2>7. Fine(m - 1)
      BY <2>4, <2>6
    <2> QED
      BY <2>2, <2>5, <2>6, <2>7
  <1> QED
    <2>1. DOMAIN s = 1..Len(s) /\ Len(s) \in 0..Len(s)
      OBVIOUS
    <2>2. Fine(Len(s))
      BY <1>4, <2>1
    <2>3. ToSet(s) = {s[i] : i \in 1..Len(s)}
      BY <2>1 DEF ToSet
    <2> HIDE DEF kept
    <2> QED
      BY <1>3, <2>2, <2>3

-----------------------------------------------------------------------------
(* The routers of a page: the subscriptions and what the history's operations leave. *)

Copies == {RouterToken(h) : h \in Runtime}

(* What the operations on the history leave of it. *)
Same(n, m) ==
  /\ m.stack = n.stack /\ m.at = n.at /\ m.pos = n.pos /\ m.busy = n.busy /\ m.note = n.note
  /\ m.queue = n.queue /\ m.origin = n.origin /\ m.lost = n.lost

LEMMA TokenFacts ==
  /\ \A h \in Runtime : RouterToken(h) \in Tokens
  /\ \A d \in Routed : /\ Host[d] \in Runtime /\ RouterToken(Host[d]) \in Copies
                       /\ ObserverToken(d) \in Tokens /\ DeferredToken(d) \in Tokens
                       /\ ObserverToken(d) \notin Copies /\ DeferredToken(d) \notin Copies
                       /\ ObserverToken(d) # EngineToken /\ DeferredToken(d) # EngineToken
                       /\ \A k \in Routed : /\ ObserverToken(d) # DeferredToken(k)
                                            /\ ObserverToken(d) = ObserverToken(k) => d = k
                                            /\ DeferredToken(d) = DeferredToken(k) => d = k
  /\ EngineToken \in Tokens /\ EngineToken \notin Copies
  BY DEF Tokens, Runtime, Copies, RouterToken, ObserverToken, DeferredToken, EngineToken

LEMMA SubscribeFacts ==
  ASSUME NEW n, Rounds(n), NEW t \in Tokens, NEW m, m = Subscribe(n, t)
  PROVE  /\ Rounds(m) /\ Same(n, m) /\ m.rest = n.rest /\ m.live = n.live \cup {t}
         /\ m.before = n.before \cup (n.live \X {t})
  <1>1. n \in Histories /\ n.live \subseteq Tokens
    BY DEF Rounds, Histories
  <1>2. /\ m = [n EXCEPT !.live = n.live \cup {t}, !.before = n.before \cup (n.live \X {t})]
        /\ n.live \cup {t} \in SUBSET Tokens
        /\ n.before \cup (n.live \X {t}) \in SUBSET (Tokens \X Tokens)
    <2>1. n.before \in SUBSET (Tokens \X Tokens)
      BY <1>1 DEF Histories
    <2>2. n.live \X {t} \in SUBSET (Tokens \X Tokens)
      BY <1>1
    <2> QED
      BY <1>1, <2>1, <2>2 DEF Subscribe
  <1>3. /\ m \in Histories /\ Same(n, m) /\ m.rest = n.rest /\ m.live = n.live \cup {t}
        /\ m.before = n.before \cup (n.live \X {t})
    BY <1>1, <1>2 DEF Histories, Same
  <1> QED
    BY <1>3 DEF Rounds, Same

LEMMA UnsubscribeFacts ==
  ASSUME NEW n, Rounds(n), NEW T, NEW m, m = Unsubscribe(n, T)
  PROVE  /\ Rounds(m) /\ Same(n, m) /\ m.rest = n.rest \ T /\ m.live = n.live \ T
         /\ \A pair \in n.before : pair[1] \notin T /\ pair[2] \notin T => pair \in m.before
  <1>1. n \in Histories
    BY DEF Rounds
  <1> DEFINE left == {pair \in n.before : {pair[1], pair[2]} \cap T = {}}
  <1>2. left \in SUBSET (Tokens \X Tokens)
    BY <1>1 DEF Histories
  <1>3. m = [n EXCEPT !.live = n.live \ T, !.before = left, !.rest = n.rest \ T]
    BY DEF Unsubscribe
  <1>4. \A pair \in n.before : pair[1] \notin T /\ pair[2] \notin T => pair \in left
    OBVIOUS
  <1> HIDE DEF left
  <1>5. /\ m \in Histories /\ Same(n, m) /\ m.rest = n.rest \ T /\ m.live = n.live \ T
        /\ m.before = left
    BY <1>1, <1>2, <1>3 DEF Histories, Same
  <1> QED
    BY <1>4, <1>5 DEF Rounds, Same

LEMMA NextCallFacts ==
  ASSUME NEW n, Rounds(n), NEW t, NEW m, m = NextCall(n, t)
  PROVE  /\ Rounds(m) /\ Same(n, m) /\ m.rest = n.rest \ {t} /\ m.live = n.live
         /\ m.before = n.before
  <1>1. n \in Histories
    BY DEF Rounds
  <1>2. /\ m \in Histories /\ Same(n, m) /\ m.rest = n.rest \ {t} /\ m.live = n.live
        /\ m.before = n.before
    BY <1>1 DEF NextCall, Histories, Same
  <1> QED
    BY <1>2 DEF Rounds, Same

(* A navigation reaches every subscription: in the round it begins, or in a later one. *)
LEMMA FanOutFacts ==
  ASSUME NEW n, n \in Histories, n.at \in DOMAIN n.stack, n.rest \subseteq n.live,
         ~n.busy => n.rest = {} /\ n.queue = <<>>, n.busy => ~n.lost,
         NEW kind \in Kinds, NEW m, m = FanOut(n, kind)
  PROVE  /\ Rounds(m) /\ m.busy /\ m.stack = n.stack /\ m.at = n.at /\ m.pos = n.pos
         /\ m.live = n.live /\ m.before = n.before
         /\ n.busy => m.rest = n.rest /\ m.note = n.note /\ m.origin = n.origin /\ m.queue # <<>>
         /\ ~n.busy => m.rest = n.live /\ m.note.kind = kind /\ m.origin = kind
  <1>1. n.pos \in Nat /\ Notification(kind, n.pos) \in Notes /\ n.queue \in Seq(Notes)
    BY DEF Histories, Notes, Notification
  <1>2. CASE n.busy
    <2>1. PICK q : q = Append(n.queue, Notification(kind, n.pos))
      OBVIOUS
    <2>2. /\ q \in Seq(Notes) /\ q # <<>> /\ q[Len(q)] = Notification(kind, n.pos)
      BY <1>1, <2>1
    <2>3. m = [n EXCEPT !.queue = q]
      BY <1>2, <2>1 DEF FanOut
    <2>4. /\ m \in Histories /\ m.queue = q /\ Same(n, [m EXCEPT !.queue = n.queue])
          /\ m.stack = n.stack /\ m.at = n.at /\ m.pos = n.pos /\ m.busy = n.busy
          /\ m.note = n.note /\ m.origin = n.origin /\ m.lost = n.lost /\ m.rest = n.rest
          /\ m.live = n.live /\ m.before = n.before
      BY <2>2, <2>3 DEF Histories, Same
    <2>5. q[Len(q)].pos = n.pos
      BY <2>2 DEF Notification
    <2> QED
      BY <1>2, <2>2, <2>4, <2>5 DEF Rounds
  <1>3. CASE ~n.busy
    <2>1. PICK note : note = Notification(kind, n.pos)
      OBVIOUS
    <2>2. m = [n EXCEPT !.note = note, !.rest = n.live, !.busy = TRUE, !.drained = 0,
                        !.origin = kind, !.lost = FALSE]
      BY <1>3, <2>1 DEF FanOut, StartRound, Histories
    <2>3. note \in Notes /\ note.pos = n.pos /\ note.kind = kind
      BY <1>1, <2>1 DEF Notification
    <2> DEFINE k == [stack |-> n.stack, at |-> n.at, pos |-> n.pos, live |-> n.live,
                     before |-> n.before, busy |-> TRUE, note |-> note, rest |-> n.live,
                     queue |-> n.queue, drained |-> 0, origin |-> kind, lost |-> FALSE]
    <2>5. n = [stack |-> n.stack, at |-> n.at, pos |-> n.pos, live |-> n.live,
               before |-> n.before, busy |-> n.busy, note |-> n.note, rest |-> n.rest,
               queue |-> n.queue, drained |-> n.drained, origin |-> n.origin, lost |-> n.lost]
      BY DEF Histories
    <2>6. m = k
      BY <2>2, <2>5
    <2>7. k \in Histories
      BY <2>3 DEF Histories
    <2>4. /\ m \in Histories /\ m.note = note /\ m.rest = n.live /\ m.busy = TRUE
          /\ m.origin = kind /\ m.lost = FALSE /\ m.queue = n.queue
          /\ m.stack = n.stack /\ m.at = n.at /\ m.pos = n.pos
          /\ m.live = n.live /\ m.before = n.before
      BY <2>6, <2>7
    <2> QED
      BY <1>3, <2>3, <2>4 DEF Rounds
  <1> QED
    BY <1>2, <1>3

(* What is left of a history by a navigation: every subscription hears of it. *)
Navigated(n, m, kind) ==
  /\ Rounds(m) /\ m.busy /\ m.live = n.live /\ m.before = n.before
  /\ n.busy => m.rest = n.rest /\ m.note = n.note /\ m.origin = n.origin /\ m.queue # <<>>
  /\ ~n.busy => m.rest = n.live /\ m.note.kind = kind /\ m.origin = kind

LEMMA PushFacts ==
  ASSUME NEW n, Rounds(n), NEW url \in Seq(Entries), NEW m, m = Push(n, url)
  PROVE  Navigated(n, m, "push") /\ UrlOf(m) = url
  <1>1. n \in Histories /\ n.stack \in Seq(Items) /\ n.pos \in Nat /\ n.at \in 1..Len(n.stack)
    BY DEF Rounds, Histories
  <1> DEFINE item == [url |-> url, pos |-> n.pos + 1]
  <1>2. PICK front : front = SubSeq(n.stack, 1, n.at)
    OBVIOUS
  <1>3. front \in Seq(Items) /\ Len(front) = n.at
    BY <1>1, <1>2
  <1>4. item \in Items /\ item.url = url
    BY <1>1 DEF Items
  <1> HIDE DEF item
  <1>5. PICK stack : stack = Append(front, item)
    OBVIOUS
  <1>6. stack \in Seq(Items) /\ n.at + 1 \in DOMAIN stack /\ stack[n.at + 1].url = url
    BY <1>1, <1>3, <1>4, <1>5
  <1>7. PICK k : k = [n EXCEPT !.stack = stack, !.at = n.at + 1, !.pos = n.pos + 1]
    OBVIOUS
  <1>8. m = FanOut(k, "push")
    BY <1>2, <1>5, <1>7 DEF Push, item
  <1>9. /\ k \in Histories /\ k.stack = stack /\ k.at = n.at + 1 /\ k.pos = n.pos + 1
        /\ k.live = n.live /\ k.before = n.before /\ k.busy = n.busy /\ k.rest = n.rest
        /\ k.note = n.note /\ k.origin = n.origin /\ k.queue = n.queue /\ k.lost = n.lost
    <2> DEFINE h == [stack |-> stack, at |-> n.at + 1, pos |-> n.pos + 1, live |-> n.live,
                     before |-> n.before, busy |-> n.busy, note |-> n.note, rest |-> n.rest,
                     queue |-> n.queue, drained |-> n.drained, origin |-> n.origin,
                     lost |-> n.lost]
    <2>1. n = [stack |-> n.stack, at |-> n.at, pos |-> n.pos, live |-> n.live,
               before |-> n.before, busy |-> n.busy, note |-> n.note, rest |-> n.rest,
               queue |-> n.queue, drained |-> n.drained, origin |-> n.origin, lost |-> n.lost]
      BY <1>1 DEF Histories
    <2>2. k = h
      BY <1>7, <2>1
    <2>3. h \in Histories
      BY <1>1, <1>6 DEF Histories
    <2> QED
      BY <2>2, <2>3
  <1>10. /\ k.at \in DOMAIN k.stack /\ k.rest \subseteq k.live
         /\ ~k.busy => k.rest = {} /\ k.queue = <<>>
         /\ k.busy => ~k.lost
    BY <1>6, <1>9 DEF Rounds
  <1>11. "push" \in Kinds
    BY DEF Kinds
  <1>12. /\ Rounds(m) /\ m.busy /\ m.stack = k.stack /\ m.at = k.at /\ m.pos = k.pos
         /\ m.live = k.live /\ m.before = k.before
         /\ k.busy => m.rest = k.rest /\ m.note = k.note /\ m.origin = k.origin /\ m.queue # <<>>
         /\ ~k.busy => m.rest = k.live /\ m.note.kind = "push" /\ m.origin = "push"
    BY <1>8, <1>9, <1>10, <1>11, FanOutFacts
  <1> QED
    BY <1>6, <1>9, <1>12 DEF Navigated, UrlOf

LEMMA ReplaceFacts ==
  ASSUME NEW n, Rounds(n), NEW url \in Seq(Entries), NEW m, m = Replace(n, url)
  PROVE  /\ Navigated(n, m, "replace") /\ UrlOf(m) = url
         /\ m.at = n.at /\ Len(m.stack) = Len(n.stack)
  <1>1. /\ n \in Histories /\ n.stack \in Seq(Items) /\ n.pos \in Nat
        /\ n.at \in DOMAIN n.stack
    BY DEF Rounds, Histories
  <1> DEFINE item == [url |-> url, pos |-> n.pos]
  <1>2. item \in Items /\ item.url = url
    BY <1>1 DEF Items
  <1> HIDE DEF item
  <1>3. PICK stack : stack = [n.stack EXCEPT ![n.at] = item]
    OBVIOUS
  <1>4. stack \in Seq(Items) /\ Len(stack) = Len(n.stack) /\ n.at \in DOMAIN stack
        /\ stack[n.at].url = url
    BY <1>1, <1>2, <1>3
  <1>5. PICK k : k = [n EXCEPT !.stack = stack]
    OBVIOUS
  <1>6. m = FanOut(k, "replace")
    BY <1>3, <1>5 DEF Replace, item
  <1>7. /\ k \in Histories /\ k.stack = stack /\ k.at = n.at /\ k.pos = n.pos
        /\ k.live = n.live /\ k.before = n.before /\ k.busy = n.busy /\ k.rest = n.rest
        /\ k.note = n.note /\ k.origin = n.origin /\ k.queue = n.queue /\ k.lost = n.lost
    BY <1>1, <1>4, <1>5 DEF Histories
  <1>8. /\ k.at \in DOMAIN k.stack /\ k.rest \subseteq k.live
        /\ ~k.busy => k.rest = {} /\ k.queue = <<>>
        /\ k.busy => ~k.lost
    BY <1>4, <1>7 DEF Rounds
  <1>9. "replace" \in Kinds
    BY DEF Kinds
  <1>10. /\ Rounds(m) /\ m.busy /\ m.stack = k.stack /\ m.at = k.at /\ m.pos = k.pos
         /\ m.live = k.live /\ m.before = k.before
         /\ k.busy => m.rest = k.rest /\ m.note = k.note /\ m.origin = k.origin /\ m.queue # <<>>
         /\ ~k.busy => m.rest = k.live /\ m.note.kind = "replace" /\ m.origin = "replace"
    BY <1>6, <1>7, <1>8, <1>9, FanOutFacts
  <1> QED
    BY <1>4, <1>7, <1>10 DEF Navigated, UrlOf

LEMMA WriteFacts ==
  ASSUME NEW n, Rounds(n), NEW url \in Seq(Entries), NEW verb \in {"push", "replace"},
         NEW m, m = Write(n, url, verb)
  PROVE  /\ Navigated(n, m, verb) /\ UrlOf(m) = url
         /\ verb = "replace" => m.at = n.at /\ Len(m.stack) = Len(n.stack)
  BY PushFacts, ReplaceFacts DEF Write

LEMMA PopFacts ==
  ASSUME NEW n, Rounds(n), ~n.busy, NEW entry \in DOMAIN n.stack, NEW m, m = Pop(n, entry)
  PROVE  Navigated(n, m, "history") /\ m.stack = n.stack
  <1>1. n \in Histories /\ entry \in Nat /\ n.stack[entry].pos \in Nat
    <2>1. n \in Histories /\ n.stack \in Seq(Items)
      BY DEF Rounds, Histories
    <2>2. entry \in 1..Len(n.stack) /\ n.stack[entry] \in Items
      BY <2>1
    <2> QED
      BY <2>1, <2>2 DEF Items
  <1>2. PICK k : k = [n EXCEPT !.at = entry, !.pos = n.stack[entry].pos]
    OBVIOUS
  <1>3. m = FanOut(k, "history")
    BY <1>2 DEF Pop
  <1>4. /\ k \in Histories /\ k.stack = n.stack /\ k.at = entry
        /\ k.live = n.live /\ k.before = n.before /\ k.busy = n.busy /\ k.rest = n.rest
        /\ k.note = n.note /\ k.origin = n.origin /\ k.queue = n.queue /\ k.lost = n.lost
    BY <1>1, <1>2 DEF Histories
  <1>5. /\ k.at \in DOMAIN k.stack /\ k.rest \subseteq k.live
        /\ ~k.busy => k.rest = {} /\ k.queue = <<>>
        /\ k.busy => ~k.lost
    BY <1>4 DEF Rounds
  <1>6. "history" \in Kinds
    BY DEF Kinds
  <1>7. /\ Rounds(m) /\ m.busy /\ m.stack = k.stack /\ m.at = k.at /\ m.pos = k.pos
        /\ m.live = k.live /\ m.before = k.before
        /\ k.busy => m.rest = k.rest /\ m.note = k.note /\ m.origin = k.origin /\ m.queue # <<>>
        /\ ~k.busy => m.rest = k.live /\ m.note.kind = "history" /\ m.origin = "history"
    BY <1>3, <1>4, <1>5, <1>6, FanOutFacts
  <1> QED
    BY <1>4, <1>7 DEF Navigated

-----------------------------------------------------------------------------
(* Reading and rewriting a URL. *)

LEMMA ThoseTyped ==
  ASSUME NEW S, NEW s \in Seq(S), NEW T
  PROVE  Those(s, T) \in Seq(S) /\ Those(s, T) \in Seq(T)
  <1>1. PICK t : t = Those(s, T)
    OBVIOUS
  <1>2. t \in Seq(S \cap T)
    BY <1>1, ThoseFacts
  <1>3. t \in Seq(S) /\ t \in Seq(T)
    BY <1>2, SeqWidens
  <1> QED
    BY <1>1, <1>3

(* What resolution and the difference read of a typed URL. *)
LEMMA UnderFacts ==
  ASSUME NEW url \in Seq(Entries), NEW key
  PROVE  /\ Under(url, key) \in Seq(Entries)
         /\ ToSet(Under(url, key)) = {entry \in ToSet(url) : entry.key = key}
  <1>1. PICK T : T = {entry \in ToSet(url) : entry.key = key}
    OBVIOUS
  <1>2. Those(url, T) \in Seq(Entries) /\ ToSet(Those(url, T)) = ToSet(url) \cap T
    BY ThoseFacts, ThoseTyped
  <1> QED
    BY <1>1, <1>2 DEF Under

LEMMA NamesUnderFacts ==
  ASSUME NEW url \in Seq(Entries), NEW key
  PROVE  /\ NamesUnder(url, key) \in Seq({entry.ext : entry \in Entries})
         /\ \A i \in DOMAIN url : url[i].key = key => url[i].ext \in ToSet(NamesUnder(url, key))
  <1>1. PICK u : u = Under(url, key)
    OBVIOUS
  <1>2. u \in Seq(Entries) /\ ToSet(u) = {entry \in ToSet(url) : entry.key = key}
    BY <1>1, UnderFacts
  <1>3. PICK v : v = [i \in DOMAIN u |-> u[i].ext]
    OBVIOUS
  <1>4. PICK n \in Nat : n = Len(u) /\ DOMAIN u = 1..n /\ \A i \in 1..n : u[i] \in Entries
    BY <1>2
  <1>5. v \in [1..n -> {entry.ext : entry \in Entries}]
    BY <1>3, <1>4
  <1>6. ASSUME NEW i \in DOMAIN url, url[i].key = key  PROVE url[i].ext \in ToSet(v)
    <2>1. url[i] \in ToSet(u)
      BY <1>2, <1>6 DEF ToSet
    <2>2. PICK j \in DOMAIN u : u[j] = url[i]
      BY <2>1 DEF ToSet
    <2> QED
      BY <1>3, <2>2 DEF ToSet
  <1>7. v = NamesUnder(url, key)
    BY <1>1, <1>3 DEF NamesUnder, NamesOfEntries
  <1>8. v \in Seq({entry.ext : entry \in Entries})
    BY <1>5
  <1> QED
    BY <1>6, <1>7, <1>8

LEMMA WithoutFacts ==
  ASSUME NEW S, NEW names \in Seq(S), NEW T
  PROVE  Without(names, T) \in Seq(S) /\ ToSet(Without(names, T)) = ToSet(names) \ T
  <1>1. PICK U : U = ToSet(names) \ T
    OBVIOUS
  <1>2. Those(names, U) \in Seq(S) /\ ToSet(Those(names, U)) = ToSet(names) \cap U
    BY ThoseFacts, ThoseTyped
  <1> QED
    BY <1>1, <1>2 DEF Without

LEMMA ParamsAtFacts ==
  ASSUME NEW url \in Seq(Entries), NEW address, Carries(url, address)
  PROVE  ParamsAt(url, address) \in Param
  <1>1. PICK i : i = CHOOSE j \in DOMAIN url : AddressOf(url[j]) = address
    OBVIOUS
  <1>2. i \in DOMAIN url
    BY <1>1 DEF Carries
  <1>3. url[i] \in Entries
    BY <1>2
  <1> QED
    BY <1>1, <1>3 DEF ParamsAt, Entries

LEMMA EntryTyped ==
  ASSUME NEW d \in Routed, NEW ext \in Extensions[d], NEW par \in Param
  PROVE  UrlEntry(d, ext, par) \in Entries
  BY DEF UrlEntry, Entries

(* A rewrite of one entry's parameters leaves what the URL carries. *)
LEMMA WithParamsFacts ==
  ASSUME NEW url \in Seq(Entries), NEW address, NEW par \in Param,
         NEW new, new = WithParams(url, address, par)
  PROVE  /\ new \in Seq(Entries)
         /\ \A any : Carries(new, any) <=> Carries(url, any)
  <1>1. PICK n \in Nat : n = Len(url) /\ DOMAIN url = 1..n /\ \A i \in 1..n : url[i] \in Entries
    OBVIOUS
  <1>2. ASSUME NEW e \in Entries, NEW f, f = [e EXCEPT !.par = par]
        PROVE  f \in Entries /\ AddressOf(f) = AddressOf(e)
    BY <1>2 DEF Entries, AddressOf
  <1>3. /\ DOMAIN new = 1..n
        /\ new = [i \in 1..n |-> new[i]]
        /\ \A i \in 1..n : new[i] = IF AddressOf(url[i]) = address
                                    THEN [url[i] EXCEPT !.par = par] ELSE url[i]
    BY <1>1 DEF WithParams
  <1>4. \A i \in 1..n : new[i] \in Entries /\ AddressOf(new[i]) = AddressOf(url[i])
    <2>1. TAKE i \in 1..n
    <2>2. PICK e \in Entries : e = url[i]
      BY <1>1
    <2>3. PICK f : f = [e EXCEPT !.par = par]
      OBVIOUS
    <2>4. new[i] = IF AddressOf(e) = address THEN f ELSE e
      BY <1>3, <2>2, <2>3
    <2> QED
      BY <1>2, <2>2, <2>3, <2>4
  <1>5. new \in [1..n -> Entries]
    BY <1>3, <1>4
  <1>6. new \in Seq(Entries)
    BY <1>5
  <1>7. \A any : Carries(new, any) <=> Carries(url, any)
    BY <1>1, <1>3, <1>4 DEF Carries
  <1> QED
    BY <1>6, <1>7

LEMMA InitialParamsFacts ==
  ASSUME NEW l \in Loads, NEW d \in Routed
  PROVE  InitialParams(l, d) \in [Extensions[d] -> Param]
  <1>1. l.kept \in Seq(Entries) /\ "none" \in Param
    BY DEF Loads, Param
  <1>2. ASSUME NEW ext \in Extensions[d]
        PROVE  (IF <<d, ext>> \notin l.written /\ Carries(l.kept, <<d, ext>>)
                THEN ParamsAt(l.kept, <<d, ext>>) ELSE "none") \in Param
    BY <1>1, ParamsAtFacts
  <1> QED
    BY <1>2 DEF InitialParams

LEMMA MarkWrittenFacts ==
  ASSUME NEW l \in Loads, NEW within \in BOOLEAN, NEW marks \in SUBSET Marks
  PROVE  MarkWritten(l, within, marks) \in Loads
  BY DEF MarkWritten, Loads

LEMMA LoadFacts ==
  ASSUME NEW l \in Loads, NEW url \in Seq(Entries)
  PROVE  /\ BeginLoad(l, url) \in Loads /\ Discard(l) \in Loads
         /\ CallReturns(l) \in Loads /\ CallThrows(l) \in Loads
  <1>1. BeginLoad(l, url) \in Loads
    <2>1. PICK a \in BOOLEAN : a = ~l.ended
      BY DEF Loads
    <2>0. <<>> \in Seq(Entries)
      OBVIOUS
    <2>2. PICK u : u = (IF l.ended THEN <<>> ELSE url) /\ u \in Seq(Entries)
      BY <2>0, Zenon
    <2>3. BeginLoad(l, url) = [l EXCEPT !.cleared = TRUE, !.keeps = a, !.kept = u]
      BY <2>1, <2>2 DEF BeginLoad
    <2>4. u \in Seq(Entries)
      BY <2>2
    <2> QED
      BY <2>3, <2>4 DEF Loads
  <1>2. Discard(l) \in Loads
    <2>1. PICK a \in BOOLEAN : a = (l.ended \/ ~l.cleared)
      BY DEF Loads
    <2>2. <<>> \in Seq(Entries)
      OBVIOUS
    <2>3. Discard(l) = [l EXCEPT !.keeps = FALSE, !.kept = <<>>, !.ended = a]
      BY <2>1 DEF Discard
    <2> QED
      BY <2>2, <2>3 DEF Loads
  <1>3. CallReturns(l) \in Loads /\ CallThrows(l) \in Loads
    BY DEF CallReturns, CallThrows, Loads
  <1> QED
    BY <1>1, <1>2, <1>3

(* The one rewrite takes the dropped entries and every key it clears, and adds *)
(* entries of the domain alone.                                              *)
LEMMA BackProjectFacts ==
  ASSUME NEW d \in Routed, NEW url \in Seq(Entries), NEW delta,
         delta.swap \in BOOLEAN, delta.added \in Seq(Extensions[d]),
         delta.swap => Len(delta.added) = 1,
         NEW params \in [Extensions[d] -> Param], NEW new, new = BackProject(url, d, delta, params)
  PROVE  /\ new \in Seq(Entries)
         /\ \A entry \in ToSet(new) :
              entry.key = d \/ (entry \in ToSet(url) /\ entry.key \notin delta.cleared)
         /\ \A entry \in ToSet(url) :
              /\ entry.key # d /\ entry.key \notin delta.cleared => entry \in ToSet(new)
              /\ entry.key = d /\ entry.ext \notin ToSet(delta.dropped) => entry \in ToSet(new)
  <1> DEFINE gone == ToSet(delta.dropped)
             Swapped(entry) == IF delta.swap /\ entry.key = d /\ entry.ext \in gone
                               THEN UrlEntry(d, delta.added[1], params[delta.added[1]]) ELSE entry
             Stays(entry) == \/ entry.key = d /\ (delta.swap \/ entry.ext \notin gone)
                             \/ entry.key # d /\ entry.key \notin delta.cleared
             kept == Those(url, {entry \in ToSet(url) : Stays(entry)})
             arrived == IF delta.swap THEN <<>> ELSE delta.added
             left == [i \in DOMAIN kept |-> Swapped(kept[i])]
             come == [i \in DOMAIN arrived |-> UrlEntry(d, arrived[i], params[arrived[i]])]
  <1>1. new = left \o come
    BY DEF BackProject
  <1>2. kept \in Seq(Entries) /\ ToSet(kept) = {entry \in ToSet(url) : Stays(entry)}
    <2> DEFINE T == {entry \in ToSet(url) : Stays(entry)}
    <2>1. T \subseteq ToSet(url)
      OBVIOUS
    <2> HIDE DEF T
    <2>2. Those(url, T) \in Seq(Entries) /\ ToSet(Those(url, T)) = ToSet(url) \cap T
      BY ThoseFacts, ThoseTyped
    <2> QED
      BY <2>1, <2>2 DEF T
  <1>3. ASSUME NEW entry \in Entries
        PROVE  Swapped(entry) \in Entries /\ (entry.key = d <=> Swapped(entry).key = d)
    <2>1. CASE delta.swap /\ entry.key = d /\ entry.ext \in gone
      <3>1. delta.added[1] \in Extensions[d]
        BY <2>1
      <3>2. params[delta.added[1]] \in Param
        BY <3>1
      <3>3. Swapped(entry) = UrlEntry(d, delta.added[1], params[delta.added[1]])
        BY <2>1
      <3>4. Swapped(entry) \in Entries
        BY <3>1, <3>2, <3>3, EntryTyped
      <3> QED
        BY <2>1, <3>3, <3>4 DEF UrlEntry
    <2>2. CASE ~(delta.swap /\ entry.key = d /\ entry.ext \in gone)
      BY <2>2
    <2> QED
      BY <2>1, <2>2
  <1> HIDE DEF kept
  <1>4. PICK n \in Nat : DOMAIN kept = 1..n /\ \A i \in 1..n : kept[i] \in Entries
    BY <1>2
  <1>5. /\ DOMAIN left = 1..n /\ \A i \in 1..n : left[i] = Swapped(kept[i])
    BY <1>4
  <1>6. left \in Seq(Entries)
    <2>1. left \in [1..n -> Entries]
      <3> HIDE DEF Swapped
      <3> QED
        BY <1>3, <1>4
    <2> HIDE DEF left
    <2> QED
      BY <2>1
  <1>7. arrived \in Seq(Extensions[d])
    <2>1. <<>> \in Seq(Extensions[d])
      OBVIOUS
    <2> QED
      BY <2>1, Zenon
  <1> HIDE DEF arrived
  <1>8. PICK k \in Nat : DOMAIN arrived = 1..k /\ \A i \in 1..k : arrived[i] \in Extensions[d]
    BY <1>7
  <1>9. \A i \in 1..k : UrlEntry(d, arrived[i], params[arrived[i]]) \in Entries
    BY <1>8, EntryTyped
  <1>10. come \in [1..k -> Entries] /\ \A i \in 1..k : come[i].key = d
    BY <1>8, <1>9 DEF UrlEntry
  <1>11. \A entry \in ToSet(come) : entry.key = d
    BY <1>8, <1>10 DEF ToSet
  <1>12. \A entry \in ToSet(left) :
           entry.key = d \/ (entry \in ToSet(url) /\ entry.key \notin delta.cleared)
    <2>1. TAKE entry \in ToSet(left)
    <2>2. PICK i \in 1..n : entry = Swapped(kept[i])
      BY <1>5 DEF ToSet
    <2>3. kept[i] \in ToSet(kept)
      BY <1>4 DEF ToSet
    <2>4. kept[i] \in ToSet(url) /\ Stays(kept[i])
      BY <1>2, <2>3
    <2> QED
      BY <1>3, <1>4, <2>2, <2>4
  <1>13. ASSUME NEW entry \in ToSet(url), Stays(entry), Swapped(entry) = entry
         PROVE  entry \in ToSet(left)
    <2>1. entry \in ToSet(kept)
      BY <1>2, <1>13
    <2>2. PICK i \in 1..n : kept[i] = entry
      BY <1>4, <2>1 DEF ToSet
    <2>3. left[i] = entry
      BY <1>5, <1>13, <2>2
    <2> HIDE DEF left, Swapped, Stays
    <2> QED
      BY <1>5, <2>3 DEF ToSet
  <1>14. \A entry \in ToSet(url) :
           /\ entry.key # d /\ entry.key \notin delta.cleared => entry \in ToSet(left)
           /\ entry.key = d /\ entry.ext \notin gone => entry \in ToSet(left)
    <2>1. TAKE entry \in ToSet(url)
    <2>2. CASE entry.key # d /\ entry.key \notin delta.cleared
      <3>1. Stays(entry) /\ Swapped(entry) = entry
        BY <2>2
      <3> QED
        BY <1>13, <2>2, <3>1
    <2>3. CASE entry.key = d /\ entry.ext \notin gone
      <3>1. Stays(entry) /\ Swapped(entry) = entry
        BY <2>3
      <3> QED
        BY <1>13, <2>3, <3>1
    <2> QED
      BY <2>2, <2>3
  <1> HIDE DEF left, come
  <1>15. come \in Seq(Entries)
    BY <1>10
  <1>16. new \in Seq(Entries) /\ ToSet(new) = ToSet(left) \cup ToSet(come)
    BY <1>1, <1>6, <1>15, ConcatFacts
  <1> QED
    BY <1>11, <1>12, <1>14, <1>16

-----------------------------------------------------------------------------
(* The domains nested beneath what a rewrite drops. *)

(* The walk over the nested-domain record: what it begins with, that it goes on *)
(* to every depth, and that it never comes back to where it began.              *)
LEMMA NestedFacts ==
  ASSUME NEW d \in Routed, NEW dropped, NEW beneath, beneath = NestedBeneath(d, dropped)
  PROVE  /\ beneath \subseteq Routed /\ d \notin beneath
         /\ \A ext \in dropped : KeysOf(<<d, ext>>) \subseteq beneath
         /\ \A k \in beneath : KeysUnder(k) \subseteq beneath
  <1> DEFINE first == UNION {KeysOf(<<d, ext>>) : ext \in dropped}
             Closed(S) == first \subseteq S /\ \A k \in S : KeysUnder(k) \subseteq S
  <1>1. beneath = {k \in Routed : \A S \in SUBSET Routed : Closed(S) => k \in S}
    BY DEF NestedBeneath
  <1>2. \A address : KeysOf(address) = {k \in Routed : router[k].recorded /\ Host[k] = address}
    BY DEF KeysOf
  <1>3. first \subseteq beneath
    <2>1. first \subseteq Routed
      BY <1>2
    <2>2. \A S \in SUBSET Routed : Closed(S) => first \subseteq S
      OBVIOUS
    <2> HIDE DEF first, Closed
    <2> QED
      BY <1>1, <2>1, <2>2
  <1>4. ASSUME NEW k \in beneath  PROVE KeysUnder(k) \subseteq beneath
    <2>1. KeysUnder(k) \subseteq Routed
      BY <1>2 DEF KeysUnder
    <2>2. \A S \in SUBSET Routed : Closed(S) => KeysUnder(k) \subseteq S
      <3>1. \A S \in SUBSET Routed : Closed(S) => k \in S
        BY <1>1
      <3> QED
        BY <3>1
    <2> HIDE DEF first, Closed
    <2> QED
      BY <1>1, <2>1, <2>2
  <1>5. d \notin beneath
    <2>1. PICK depth \in [Routed -> 0..Cardinality(Routed)] :
            \A j, k \in Routed : Host[k][1] = j => depth[j] < depth[k]
      BY NestingAssumption
    <2> DEFINE lower == {k \in Routed : depth[d] < depth[k]}
    <2>2. \A k \in Routed : depth[k] \in Int
      <3>1. Cardinality(Routed) \in Nat
        BY NestingAssumption, FS_CardinalityType
      <3> QED
        BY <2>1, <3>1
    <2>6. ASSUME NEW a, NEW x, NEW j \in KeysOf(<<a, x>>)  PROVE j \in Routed /\ Host[j][1] = a
      <3>1. j \in Routed /\ Host[j] = <<a, x>>
        BY <1>2
      <3> QED
        BY <3>1
    <2>3. first \subseteq lower
      <3>1. ASSUME NEW j \in first  PROVE j \in lower
        <4>1. PICK x : j \in KeysOf(<<d, x>>)
          OBVIOUS
        <4> QED
          BY <2>1, <2>6, <4>1
      <3> HIDE DEF first, lower
      <3> QED
        BY <3>1
    <2>4. \A k \in lower : KeysUnder(k) \subseteq lower
      <3>1. TAKE k \in lower
      <3>2. ASSUME NEW j \in KeysUnder(k)  PROVE j \in Routed /\ Host[j][1] = k
        <4>1. PICK x : j \in KeysOf(<<k, x>>)
          BY DEF KeysUnder
        <4> QED
          BY <2>6, <4>1
      <3> QED
        BY <2>1, <2>2, <3>2
    <2>5. lower \in SUBSET Routed /\ Closed(lower) /\ d \notin lower
      BY <2>2, <2>3, <2>4
    <2> HIDE DEF lower, Closed
    <2> QED
      BY <1>1, <2>5
  <1>6. \A ext \in dropped : KeysOf(<<d, ext>>) \subseteq first
    OBVIOUS
  <1> HIDE DEF first
  <1>7. \A ext \in dropped : KeysOf(<<d, ext>>) \subseteq beneath
    BY <1>3, <1>6
  <1> QED
    BY <1>1, <1>4, <1>5, <1>7

(* The walk finds every domain that stands beneath, by the record. *)
LEMMA StandBeneathFacts ==
  ASSUME \A k \in Routed : RecordInv(k), 
         NEW d \in Routed, NEW ext, NEW beneath, KeysOf(<<d, ext>>) \subseteq beneath,
         \A k \in beneath : KeysUnder(k) \subseteq beneath
  PROVE  StandBeneath(<<d, ext>>) \subseteq beneath
  <1> SUFFICES ASSUME NEW k \in StandBeneath(<<d, ext>>)  PROVE k \in beneath
    OBVIOUS
  <1>1. Cardinality(Routed) \in Nat
    BY NestingAssumption, FS_CardinalityType
  <1>2. PICK n \in 1..Cardinality(Routed) : \E path \in [1..n -> Routed] :
          /\ Host[path[1]] = <<d, ext>> /\ path[n] = k
          /\ \A i \in 1..n : router[path[i]].admitted /\ Host[path[i]] \in supplied
          /\ \A i \in 2..n : Host[path[i]][1] = path[i - 1]
    BY DEF StandBeneath
  <1>0. PICK path \in [1..n -> Routed] :
          /\ Host[path[1]] = <<d, ext>> /\ path[n] = k
          /\ \A i \in 1..n : router[path[i]].admitted /\ Host[path[i]] \in supplied
          /\ \A i \in 2..n : Host[path[i]][1] = path[i - 1]
    BY <1>2
  <1>3. \A i \in 1..n : path[i] \in Routed /\ router[path[i]].recorded
    BY <1>0 DEF RecordInv
  <1> DEFINE Bad == {i \in 1..n : path[i] \notin beneath}
  <1>4. SUFFICES ASSUME Bad # {}  PROVE FALSE
    BY <1>1, <1>0
  <1>5. PICK m \in Bad : \A i \in Bad : m <= i
    <2>1. Bad \subseteq Nat
      BY <1>1
    <2> HIDE DEF Bad
    <2> QED
      BY <1>4, <2>1, LeastNumber
  <1>6. m # 1
    BY <1>1, <1>0, <1>3 DEF KeysOf
  <1>7. m - 1 \in 1..n /\ m \in 2..n /\ path[m - 1] \in beneath
    BY <1>1, <1>5, <1>6
  <1>8. Host[path[m]][1] = path[m - 1]
    BY <1>0, <1>7
  <1>9. PICK j \in Routed :
          j = path[m - 1] /\ \E e \in Extensions[j] : Host[path[m]] = <<j, e>>
    <2>1. path[m] \in Routed /\ path[m - 1] \in Routed
      BY <1>3, <1>7
    <2>2. Host[path[m]] # TopRuntime
      BY <1>8, <2>1, NestingAssumption
    <2>3. PICK j \in Routed : \E e \in Extensions[j] : Host[path[m]] = <<j, e>>
      BY <2>1, <2>2, NestingAssumption
    <2>4. j = path[m - 1]
      BY <1>8, <2>3
    <2> QED
      BY <2>3, <2>4
  <1>e. PICK e \in Extensions[j] : Host[path[m]] = <<j, e>>
    BY <1>9
  <1>10. path[m] \in KeysOf(<<j, e>>)
    BY <1>3, <1>7, <1>9, <1>e DEF KeysOf
  <1>11. path[m] \in KeysUnder(j)
    BY <1>9, <1>10 DEF KeysUnder
  <1>12. path[m] \in beneath
    BY <1>7, <1>9, <1>11
  <1> QED
    BY <1>12

-----------------------------------------------------------------------------
(* The calls of a domain's router. *)

(* A rewrite of the URL by one domain's back-projection: the entries of the domain *)
(* and of the keys beneath what it drops are its own affair, the others stay.      *)
Rewrites(d, url, new) ==
  \E dropped :
    /\ \A entry \in ToSet(new) :
         entry.key = d \/ (entry \in ToSet(url) /\ entry.key \notin NestedBeneath(d, dropped))
    /\ \A entry \in ToSet(url) :
         /\ entry.key # d /\ entry.key \notin NestedBeneath(d, dropped) => entry \in ToSet(new)
         /\ entry.key = d /\ entry.ext \notin dropped => entry \in ToSet(new)

(* What a call of a domain's router works on is typed. *)
Workable(d, w) ==
  /\ w = [nav |-> w.nav, dom |-> w.dom, load |-> w.load]
  /\ Rounds(w.nav) /\ w.dom \in DomainState(d) /\ w.load \in Loads

LEMMA ProjectFacts ==
  ASSUME NEW d \in Routed, NEW w, Workable(d, w), NEW target \in Seq(Extensions[d]),
         NEW verb \in {"push", "replace"}, NEW x, x = Project(d, w, target, verb)
  PROVE  /\ x = [nav |-> x.nav, dom |-> w.dom, load |-> x.load] /\ x.load \in Loads
         /\ Navigated(w.nav, x.nav, verb)
         /\ verb = "replace" => x.nav.at = w.nav.at /\ Len(x.nav.stack) = Len(w.nav.stack)
         /\ Rewrites(d, UrlOf(w.nav), UrlOf(x.nav))
  <1>1. PICK n, s, l : n = w.nav /\ s = w.dom /\ l = w.load
    OBVIOUS
  <1>2. Rounds(n) /\ s \in DomainState(d) /\ l \in Loads
    BY <1>1 DEF Workable
  <1>3. PICK url : url = UrlOf(n)
    OBVIOUS
  <1>4. url \in Seq(Entries) /\ n.busy \in BOOLEAN
    <2>1. n \in Histories /\ n.stack \in Seq(Items) /\ n.at \in DOMAIN n.stack
      BY <1>2 DEF Rounds, Histories
    <2>2. n.stack[n.at] \in Items
      BY <2>1
    <2> QED
      BY <1>3, <2>1, <2>2 DEF UrlOf, Items, Histories
  <1>5. PICK live : live = NamesUnder(url, d)
    OBVIOUS
  <1> DEFINE Ext == {entry.ext : entry \in Entries}
  <1>6. live \in Seq(Ext) /\ ToSet(target) \subseteq Extensions[d]
    BY <1>4, <1>5, NamesUnderFacts, ElementsTyped
  <1>7. PICK dropped, added : /\ dropped = Without(live, ToSet(target))
                              /\ added = Without(target, ToSet(live))
    OBVIOUS
  <1>8. added \in Seq(Extensions[d]) /\ ToSet(added) \subseteq Extensions[d]
    BY <1>6, <1>7, WithoutFacts, ElementsTyped
  <1>9. PICK cleared : cleared = NestedBeneath(d, ToSet(dropped))
    OBVIOUS
  <1>10. PICK delta : delta = [swap |-> Len(dropped) = 1 /\ Len(added) = 1, dropped |-> dropped,
                               added |-> added, cleared |-> cleared]
    OBVIOUS
  <1>11. delta = Delta(live, target, cleared)
    BY <1>7, <1>10 DEF Delta
  <1>12. PICK new : new = BackProject(url, d, delta, InitialParams(l, d))
    OBVIOUS
  <1>13. /\ delta.swap \in BOOLEAN /\ delta.added = added /\ delta.dropped = dropped
         /\ delta.cleared = cleared /\ (delta.swap => Len(delta.added) = 1)
    BY <1>10
  <1>14. InitialParams(l, d) \in [Extensions[d] -> Param]
    BY <1>2, InitialParamsFacts
  <1>15. /\ new \in Seq(Entries)
         /\ \A entry \in ToSet(new) :
              entry.key = d \/ (entry \in ToSet(url) /\ entry.key \notin delta.cleared)
         /\ \A entry \in ToSet(url) :
              /\ entry.key # d /\ entry.key \notin delta.cleared => entry \in ToSet(new)
              /\ entry.key = d /\ entry.ext \notin ToSet(delta.dropped) => entry \in ToSet(new)
    BY <1>4, <1>8, <1>12, <1>13, <1>14, BackProjectFacts
  <1>16. Rewrites(d, url, new)
    <2>1. PICK gone : gone = ToSet(dropped)
      OBVIOUS
    <2> QED
      BY <1>9, <1>13, <1>15, <2>1 DEF Rewrites
  <1>17. PICK m : m = Write(n, new, verb)
    OBVIOUS
  <1>18. /\ Navigated(n, m, verb) /\ UrlOf(m) = new
         /\ verb = "replace" => m.at = n.at /\ Len(m.stack) = Len(n.stack)
    BY <1>2, <1>15, <1>17, WriteFacts
  <1>19. PICK marks : marks = {<<d, e>> : e \in ToSet(added)}
    OBVIOUS
  <1>20. marks \in SUBSET Marks
    BY <1>8, <1>19 DEF Marks
  <1>21. MarkWritten(l, n.busy, marks) \in Loads
    BY <1>2, <1>4, <1>20, MarkWrittenFacts
  <1>22. x = [w EXCEPT !.nav = m, !.load = MarkWritten(l, n.busy, marks)]
    BY <1>1, <1>3, <1>5, <1>7, <1>9, <1>11, <1>12, <1>13, <1>17, <1>19 DEF Project
  <1>23. x = [nav |-> m, dom |-> s, load |-> MarkWritten(l, n.busy, marks)]
    BY <1>1, <1>22 DEF Workable
  <1> QED
    BY <1>1, <1>3, <1>16, <1>18, <1>21, <1>23

(* What a deferral does not touch of a routed domain. *)
SameDomain(s, c) ==
  /\ c.admitted = s.admitted /\ c.recorded = s.recorded /\ c.names = s.names
  /\ c.on = s.on /\ c.base = s.base /\ c.last = s.last

LEMMA NothingDeferredFacts ==
  ASSUME NEW d \in Routed, NEW s \in DomainState(d), NEW c,
         c = NothingDeferred(s)
  PROVE  c \in DomainState(d) /\ SameDomain(s, c) /\ ~c.deferred /\ c.verb = "none"
  <1>1. s = [admitted |-> s.admitted, recorded |-> s.recorded, names |-> s.names, on |-> s.on,
             base |-> s.base, last |-> s.last, deferred |-> s.deferred, target |-> s.target,
             verb |-> s.verb]
    BY DEF DomainState
  <1>2. c = [admitted |-> s.admitted, recorded |-> s.recorded, names |-> s.names, on |-> s.on,
             base |-> s.base, last |-> s.last, deferred |-> FALSE, target |-> <<>>,
             verb |-> "none"]
    BY <1>1 DEF NothingDeferred
  <1>3. SameDomain(s, c) /\ ~c.deferred /\ c.verb = "none"
    BY <1>2 DEF SameDomain
  <1>4. <<>> \in Seq(Extensions[d])
    OBVIOUS
  <1>5. c \in DomainState(d)
    BY <1>2, <1>4 DEF DomainState
  <1> QED
    BY <1>3, <1>5

Deferral(s, target, v) == [s EXCEPT !.deferred = TRUE, !.target = target, !.verb = v]

LEMMA WriteDeferredFacts ==
  ASSUME NEW d \in Routed, NEW s \in DomainState(d), NEW target \in Seq(Extensions[d]),
         NEW v \in {"push", "replace"}, NEW c,
         c = Deferral(s, target, v)
  PROVE  c \in DomainState(d) /\ SameDomain(s, c) /\ c.deferred /\ c.verb = v
  <1>1. s = [admitted |-> s.admitted, recorded |-> s.recorded, names |-> s.names, on |-> s.on,
             base |-> s.base, last |-> s.last, deferred |-> s.deferred, target |-> s.target,
             verb |-> s.verb]
    BY DEF DomainState
  <1>2. c = [admitted |-> s.admitted, recorded |-> s.recorded, names |-> s.names, on |-> s.on,
             base |-> s.base, last |-> s.last, deferred |-> TRUE, target |-> target,
             verb |-> v]
    BY <1>1 DEF Deferral
  <1>3. SameDomain(s, c) /\ c.deferred /\ c.verb = v
    BY <1>2 DEF SameDomain
  <1>4. <<>> \in Seq(Extensions[d])
    OBVIOUS
  <1>5. c \in DomainState(d)
    BY <1>2, <1>4 DEF DomainState
  <1> QED
    BY <1>3, <1>5

LEMMA CancelFacts ==
  ASSUME NEW d \in Routed, NEW w, Workable(d, w),
         w.dom.deferred <=> DeferredToken(d) \in w.nav.live,
         w.dom.verb = "push" => w.dom.deferred, NEW x, x = Cancel(d, w)
  PROVE  /\ Workable(d, x) /\ x.load = w.load
         /\ ~x.dom.deferred /\ DeferredToken(d) \notin x.nav.live /\ x.dom.verb # "push"
         /\ SameDomain(w.dom, x.dom)
         /\ Same(w.nav, x.nav) /\ x.nav.rest = w.nav.rest \ {DeferredToken(d)}
         /\ x.nav.live = w.nav.live \ {DeferredToken(d)}
         /\ \A pair \in w.nav.before :
              pair[1] # DeferredToken(d) /\ pair[2] # DeferredToken(d) => pair \in x.nav.before
  <1>1. PICK n, s, l : n = w.nav /\ s = w.dom /\ l = w.load
    OBVIOUS
  <1>2. /\ Rounds(n) /\ s \in DomainState(d) /\ l \in Loads
        /\ w = [nav |-> n, dom |-> s, load |-> l]
    BY <1>1 DEF Workable
  <1>3. CASE s.deferred
    <2>1. PICK m : m = Unsubscribe(n, {DeferredToken(d)})
      OBVIOUS
    <2>2. /\ Rounds(m) /\ Same(n, m) /\ m.rest = n.rest \ {DeferredToken(d)}
          /\ m.live = n.live \ {DeferredToken(d)}
          /\ \A pair \in n.before :
               pair[1] # DeferredToken(d) /\ pair[2] # DeferredToken(d) => pair \in m.before
      BY <1>2, <2>1, UnsubscribeFacts
    <2>3. PICK c : c = NothingDeferred(s)
      OBVIOUS
    <2>4. c \in DomainState(d) /\ ~c.deferred /\ c.verb = "none" /\ SameDomain(s, c)
      BY <1>2, <2>3, NothingDeferredFacts
    <2>5. x = [nav |-> m, dom |-> c, load |-> l]
      BY <1>1, <1>2, <1>3, <2>1, <2>3 DEF Cancel
    <2> QED
      BY <1>1, <1>2, <2>2, <2>3, <2>4, <2>5 DEF Workable
  <1>4. CASE ~s.deferred
    <2>1. x = w
      BY <1>1, <1>4 DEF Cancel
    <2>2. DeferredToken(d) \notin n.live /\ n.rest \subseteq n.live
      BY <1>1, <1>2, <1>4 DEF Rounds
    <2> QED
      BY <1>1, <1>4, <2>1, <2>2 DEF Same, SameDomain
  <1> QED
    BY <1>3, <1>4

LEMMA DeferFacts ==
  ASSUME NEW d \in Routed, NEW w, Workable(d, w),
         w.dom.deferred => DeferredToken(d) \in w.nav.live, NEW target \in Seq(Extensions[d]),
         NEW verb \in {"push", "replace"}, NEW x, x = Defer(d, w, target, verb)
  PROVE  /\ Workable(d, x) /\ x.load = w.load
         /\ x.dom.deferred /\ DeferredToken(d) \in x.nav.live
         /\ x.dom.verb = "push" => verb = "push"
         /\ SameDomain(w.dom, x.dom)
         /\ Same(w.nav, x.nav) /\ x.nav.rest = w.nav.rest
         /\ x.nav.live = w.nav.live \cup {DeferredToken(d)}
         /\ w.nav.before \subseteq x.nav.before
         /\ ~w.dom.deferred => \A t \in w.nav.live : <<t, DeferredToken(d)>> \in x.nav.before
  <1>1. PICK n, s, l : n = w.nav /\ s = w.dom /\ l = w.load
    OBVIOUS
  <1>2. /\ Rounds(n) /\ s \in DomainState(d) /\ l \in Loads
        /\ w = [nav |-> n, dom |-> s, load |-> l]
    BY <1>1 DEF Workable
  <1>3. PICK m : m = IF s.deferred THEN n ELSE Subscribe(n, DeferredToken(d))
    OBVIOUS
  <1>4. /\ Rounds(m) /\ Same(n, m) /\ m.rest = n.rest /\ m.live = n.live \cup {DeferredToken(d)}
        /\ n.before \subseteq m.before
        /\ ~s.deferred => \A t \in n.live : <<t, DeferredToken(d)>> \in m.before
    <2>1. CASE s.deferred
      <3>1. m = n /\ DeferredToken(d) \in n.live
        BY <1>1, <1>3, <2>1
      <3> QED
        BY <1>2, <2>1, <3>1 DEF Same
    <2>2. CASE ~s.deferred
      <3>1. /\ Rounds(m) /\ Same(n, m) /\ m.rest = n.rest
            /\ m.live = n.live \cup {DeferredToken(d)}
            /\ m.before = n.before \cup (n.live \X {DeferredToken(d)})
        BY <1>2, <1>3, <2>2, TokenFacts, SubscribeFacts
      <3> QED
        BY <3>1
    <2> QED
      BY <2>1, <2>2
  <1>5. PICK v : v = IF "replace" \in {s.verb, verb} THEN "replace" ELSE "push"
    OBVIOUS
  <1>6. v \in {"push", "replace"} /\ (v = "push" => verb = "push")
    BY <1>5
  <1>7. PICK c : c = Deferral(s, target, v)
    OBVIOUS
  <1>8. c \in DomainState(d) /\ c.deferred /\ c.verb = v /\ SameDomain(s, c)
    BY <1>2, <1>6, <1>7, WriteDeferredFacts
  <1>9. x = [nav |-> m, dom |-> c, load |-> l]
    BY <1>1, <1>2, <1>3, <1>5, <1>7 DEF Defer, Deferral
  <1>10. Workable(d, x) /\ x.nav = m /\ x.dom = c /\ x.load = l
    BY <1>2, <1>4, <1>8, <1>9 DEF Workable
  <1> QED
    BY <1>1, <1>4, <1>6, <1>8, <1>10

-----------------------------------------------------------------------------
(* What a step leaves of the history, for everybody it is not about. *)

(* What a task or a call leaves of the history for the domains it is not about: it *)
(* subscribes and unsubscribes tokens of T alone, the calls made are those in C,   *)
(* and a navigation is yet to be heard of by everyone.                             *)
Carried(n, m, T, C) ==
  /\ Rounds(m)
  /\ n.live \ T \subseteq m.live /\ m.live \subseteq n.live \cup T \cup Copies
  /\ \A pair \in n.before : pair[1] \notin T /\ pair[2] \notin T => pair \in m.before
  /\ \A t \in n.live \ (T \cup C) : Unheard(n, t) => Unheard(m, t)
  /\ \/ UrlOf(m) = UrlOf(n) /\ m.pos = n.pos
     \/ \A t \in m.live : Unheard(m, t)
  /\ n.busy => m.busy /\ m.note = n.note /\ m.origin = n.origin /\ n.rest \ (T \cup C) \subseteq m.rest
  /\ ~n.busy /\ m.busy => m.rest = m.live /\ (m.origin = "history" => m.note.kind = "history")

(* A navigation, after subscriptions have changed. *)
LEMMA NavigatedCarries ==
  ASSUME NEW n, NEW k, NEW m, NEW T, NEW C, NEW kind, Rounds(n), Same(n, k), k.rest = n.rest \ (T \cup C),
         n.live \ T \subseteq k.live, k.live \subseteq n.live \cup T \cup Copies,
         \A pair \in n.before : pair[1] \notin T /\ pair[2] \notin T => pair \in k.before,
         Navigated(k, m, kind)
  PROVE  Carried(n, m, T, C)
  <1>1. \A t \in m.live : Unheard(m, t)
    BY DEF Navigated, Unheard, Rounds, Same
  <1>2. n.live \ T \subseteq m.live
    BY DEF Navigated
  <1> QED
    BY <1>1, <1>2 DEF Carried, Navigated, Same

(* Nothing but subscriptions has changed. *)
LEMMA SameCarries ==
  ASSUME NEW n, NEW m, NEW T, NEW C, Rounds(n), Rounds(m), Same(n, m),
         n.rest \ (T \cup C) \subseteq m.rest,
         n.live \ T \subseteq m.live, m.live \subseteq n.live \cup T \cup Copies,
         \A pair \in n.before : pair[1] \notin T /\ pair[2] \notin T => pair \in m.before
  PROVE  Carried(n, m, T, C)
  BY DEF Carried, Same, Unheard, UrlOf

(* What a domain's state says of its own subscriptions. *)
Fits(d, n, s) ==
  /\ s.deferred <=> DeferredToken(d) \in n.live
  /\ s.deferred => <<RouterToken(Host[d]), DeferredToken(d)>> \in n.before
  /\ s.verb = "push" => s.deferred

LEMMA WriteEntriesFacts ==
  ASSUME NEW d \in Routed, NEW w, Workable(d, w), Fits(d, w.nav, w.dom),
         RouterToken(Host[d]) \in w.nav.live, NEW target \in Seq(Extensions[d]),
         NEW verb \in {"push", "replace"}, NEW x, x = WriteEntries(d, w, target, verb)
  PROVE  /\ x = [nav |-> x.nav, dom |-> x.dom, load |-> x.load]
         /\ x.dom \in DomainState(d) /\ x.load \in Loads /\ SameDomain(w.dom, x.dom)
         /\ Carried(w.nav, x.nav, {DeferredToken(d)}, {}) /\ Fits(d, x.nav, x.dom)
         /\ x.dom.deferred => EnclosingAbsent(d, UrlOf(x.nav))
         /\ x.dom.verb = "push" => verb = "push"
         /\ verb = "replace" => x.nav.at = w.nav.at /\ Len(x.nav.stack) = Len(w.nav.stack)
         /\ x.nav.stack = w.nav.stack \/ Rewrites(d, UrlOf(w.nav), UrlOf(x.nav))
  <1>1. PICK c : c = Cancel(d, w)
    OBVIOUS
  <1>2. /\ Workable(d, c) /\ c.load = w.load
        /\ ~c.dom.deferred /\ DeferredToken(d) \notin c.nav.live /\ c.dom.verb # "push"
        /\ SameDomain(w.dom, c.dom)
        /\ Same(w.nav, c.nav) /\ c.nav.rest = w.nav.rest \ {DeferredToken(d)}
        /\ c.nav.live = w.nav.live \ {DeferredToken(d)}
        /\ \A pair \in w.nav.before :
             pair[1] # DeferredToken(d) /\ pair[2] # DeferredToken(d) => pair \in c.nav.before
    BY <1>1, CancelFacts DEF Fits
  <1>3. RouterToken(Host[d]) # DeferredToken(d)
    BY TokenFacts
  <1>4. CASE Shows(NamesUnder(UrlOf(w.nav), d), target)
    <2>1. x = c
      BY <1>1, <1>4 DEF WriteEntries
    <2>2. Carried(w.nav, c.nav, {DeferredToken(d)}, {})
      BY <1>2, SameCarries DEF Workable
    <2>3. Fits(d, c.nav, c.dom)
      BY <1>2 DEF Fits
    <2> QED
      BY <1>2, <2>1, <2>2, <2>3 DEF Workable, Same
  <1>5. CASE ~Shows(NamesUnder(UrlOf(w.nav), d), target) /\ EnclosingAbsent(d, UrlOf(w.nav))
    <2>1. x = Defer(d, w, target, verb)
      BY <1>5 DEF WriteEntries
    <2>2. /\ Workable(d, x) /\ x.load = w.load
          /\ x.dom.deferred /\ DeferredToken(d) \in x.nav.live
          /\ x.dom.verb = "push" => verb = "push"
          /\ SameDomain(w.dom, x.dom)
          /\ Same(w.nav, x.nav) /\ x.nav.rest = w.nav.rest
          /\ x.nav.live = w.nav.live \cup {DeferredToken(d)}
          /\ w.nav.before \subseteq x.nav.before
          /\ ~w.dom.deferred => \A t \in w.nav.live : <<t, DeferredToken(d)>> \in x.nav.before
      BY <2>1, DeferFacts DEF Fits
    <2>3. Carried(w.nav, x.nav, {DeferredToken(d)}, {})
      BY <2>2, SameCarries DEF Workable
    <2>4. Fits(d, x.nav, x.dom)
      BY <2>2 DEF Fits
    <2> QED
      BY <1>5, <2>2, <2>3, <2>4 DEF Workable, Same, UrlOf
  <1>6. CASE ~Shows(NamesUnder(UrlOf(w.nav), d), target) /\ ~EnclosingAbsent(d, UrlOf(w.nav))
    <2>1. x = Project(d, c, target, verb)
      BY <1>1, <1>6 DEF WriteEntries
    <2>2. /\ x = [nav |-> x.nav, dom |-> c.dom, load |-> x.load] /\ x.load \in Loads
          /\ Navigated(c.nav, x.nav, verb)
          /\ verb = "replace" => x.nav.at = c.nav.at /\ Len(x.nav.stack) = Len(c.nav.stack)
          /\ Rewrites(d, UrlOf(c.nav), UrlOf(x.nav))
      BY <1>2, <2>1, ProjectFacts
    <2>3. Carried(w.nav, x.nav, {DeferredToken(d)}, {})
      <3>1. Rounds(w.nav)
        BY DEF Workable
      <3> QED
        BY <1>2, <2>2, <3>1, NavigatedCarries
    <2>4. x.dom = c.dom /\ UrlOf(c.nav) = UrlOf(w.nav)
      BY <1>2, <2>2 DEF Same, UrlOf
    <2>5. Fits(d, x.nav, x.dom)
      BY <1>2, <2>2, <2>4 DEF Fits, Navigated
    <2> QED
      BY <1>2, <2>2, <2>3, <2>4, <2>5 DEF Workable, Same
  <1> QED
    BY <1>4, <1>5, <1>6

-----------------------------------------------------------------------------
(* The invariant, said of one domain and one step. *)

(* The invariant after a step, said of the values it leaves. *)
DomainAfter(d, n, s, h) ==
  /\ s.on <=> ObserverToken(d) \in n.live
  /\ s.on => Unheard(n, ObserverToken(d)) \/ s.base = Under(UrlOf(n), d)
  /\ s.deferred => \/ Unheard(n, DeferredToken(d))
                   \/ Host[d] \in h /\ ~Carries(UrlOf(n), Host[d])
  /\ Fits(d, n, s)
  /\ s.on \/ s.deferred => RouterToken(Host[d]) \in n.live
  /\ n.busy /\ n.origin = "history" /\ s.verb = "push"
       => n.note.kind = "history" /\ RouterToken(Host[d]) \in n.rest
  /\ s.recorded <=> s.admitted /\ Host[d] \in h

EngineAfter(n, e) ==
  e.on =>
    /\ EngineToken \in n.live
    /\ \/ Unheard(n, EngineToken)
       \/ Carries(UrlOf(n), Engine) =>
            e.loc = ParamsAt(UrlOf(n), Engine) /\ e.pos = n.pos

LEMMA Before ==
  RoutingInv <=> /\ RoutingTyped /\ Rounds(nav) /\ EngineAfter(nav, engine)
                 /\ \A d \in Routed : DomainAfter(d, nav, router[d], supplied)
  BY DEF RoutingInv, EngineInv, EngineAfter, DomainInv, ObserverInv, DeferredInv, OrderInv,
         RecordInv, DomainAfter, Fits, EnclosingAbsent, Url

LEMMA After ==
  ASSUME router' = [d \in Routed |-> router'[d]], \A d \in Routed : router'[d] \in DomainState(d),
         load' \in Loads, engine' \in Engines, Rounds(nav'), EngineAfter(nav', engine'),
         \A d \in Routed : DomainAfter(d, nav', router'[d], supplied')
  PROVE  RoutingInv'
  <1>1. RoutingTyped'
    BY DEF RoutingTyped
  <1>2. EngineInv'
    BY DEF EngineInv, EngineAfter, Url
  <1>3. ASSUME NEW d \in Routed  PROVE DomainInv(d)'
    <2>1. DomainAfter(d, nav', router'[d], supplied')
      OBVIOUS
    <2>2. ObserverInv(d)'
      BY <2>1 DEF ObserverInv, DomainAfter, Url
    <2>3. DeferredInv(d)'
      BY <2>1 DEF DeferredInv, DomainAfter, Fits, EnclosingAbsent, Url
    <2>4. OrderInv(d)'
      BY <2>1 DEF OrderInv, DomainAfter, Fits
    <2>5. RecordInv(d)'
      BY <2>1 DEF RecordInv, DomainAfter
    <2> QED
      BY <2>2, <2>3, <2>4, <2>5 DEF DomainInv
  <1> QED
    BY <1>1, <1>2, <1>3 DEF RoutingInv

(* A domain the step is not about. *)
LEMMA OthersKeep ==
  ASSUME NEW d \in Routed, NEW n, NEW m, NEW s, NEW h, NEW g, NEW T, NEW C, Rounds(n),
         DomainAfter(d, n, s, h), Carried(n, m, T, C), h \subseteq g,
         s.recorded => s.admitted /\ Host[d] \in g, s.admitted /\ Host[d] \in g => s.recorded,
         ObserverToken(d) \notin T \cup C, DeferredToken(d) \notin T \cup C,
         RouterToken(Host[d]) \notin T, RouterToken(Host[d]) \in C => s.verb # "push" \/ (n.busy /\ n.origin # "history")
  PROVE  DomainAfter(d, m, s, g)
  <1>1. /\ ObserverToken(d) \notin Copies /\ DeferredToken(d) \notin Copies
    BY TokenFacts
  <1>2. /\ ObserverToken(d) \in n.live <=> ObserverToken(d) \in m.live
        /\ DeferredToken(d) \in n.live <=> DeferredToken(d) \in m.live
        /\ RouterToken(Host[d]) \in n.live => RouterToken(Host[d]) \in m.live
    BY <1>1 DEF Carried
  <1>3. s.on => Unheard(m, ObserverToken(d)) \/ s.base = Under(UrlOf(m), d)
    BY <1>2 DEF DomainAfter, Carried
  <1>4. s.deferred => \/ Unheard(m, DeferredToken(d))
                      \/ Host[d] \in g /\ ~Carries(UrlOf(m), Host[d])
    BY <1>2 DEF DomainAfter, Carried, Fits
  <1>5. Fits(d, m, s)
    <2>1. s.deferred => <<RouterToken(Host[d]), DeferredToken(d)>> \in m.before
      BY DEF DomainAfter, Carried, Fits
    <2> QED
      BY <1>2, <2>1 DEF DomainAfter, Fits
  <1>6. m.busy /\ m.origin = "history" /\ s.verb = "push"
          => m.note.kind = "history" /\ RouterToken(Host[d]) \in m.rest
    BY <1>2 DEF DomainAfter, Carried, Fits
  <1> QED
    BY <1>2, <1>3, <1>4, <1>5, <1>6 DEF DomainAfter

LEMMA EngineKeeps ==
  ASSUME NEW n, NEW m, NEW e, NEW T, NEW C, EngineAfter(n, e), Carried(n, m, T, C),
         EngineToken \notin T \cup C
  PROVE  EngineAfter(m, e)
  BY DEF EngineAfter, Carried

LEMMA StandsStill ==
  ASSUME Rounds(nav)  PROVE Carried(nav, nav, {}, {})
  BY SameCarries DEF Same

(* A step about one domain. *)
LEMMA DomainStep ==
  ASSUME RoutingInv, NEW d \in Routed, NEW T, NEW C, NEW s \in DomainState(d),
         T \subseteq {ObserverToken(d), DeferredToken(d)},
         C \subseteq {ObserverToken(d), DeferredToken(d)},
         Carried(nav, nav', T, C), router' = [router EXCEPT ![d] = s], supplied' = supplied,
         load' \in Loads, engine' = engine, DomainAfter(d, nav', s, supplied)
  PROVE  RoutingInv'
  <1>1. /\ RoutingTyped /\ Rounds(nav) /\ EngineAfter(nav, engine)
        /\ \A k \in Routed : DomainAfter(k, nav, router[k], supplied)
    BY Before
  <1>2. /\ router' = [k \in Routed |-> router'[k]]
        /\ \A k \in Routed : router'[k] = IF k = d THEN s ELSE router[k]
    BY <1>1 DEF RoutingTyped
  <1>3. \A k \in Routed : router'[k] \in DomainState(k)
    BY <1>1, <1>2 DEF RoutingTyped
  <1>4. ASSUME NEW k \in Routed \ {d}  PROVE DomainAfter(k, nav', router'[k], supplied')
    <2>1. /\ ObserverToken(k) \notin T \cup C /\ DeferredToken(k) \notin T \cup C
          /\ RouterToken(Host[k]) \notin T \cup C
      BY TokenFacts
    <2>2. DomainAfter(k, nav, router[k], supplied)
      BY <1>1
    <2>3. /\ router[k].recorded => router[k].admitted /\ Host[k] \in supplied
          /\ router[k].admitted /\ Host[k] \in supplied => router[k].recorded
      BY <2>2 DEF DomainAfter
    <2>4. DomainAfter(k, nav', router[k], supplied)
      BY <1>1, <2>1, <2>2, <2>3, OthersKeep
    <2> QED
      BY <1>2, <2>4
  <1>5. \A k \in Routed : DomainAfter(k, nav', router'[k], supplied')
    <2>1. DomainAfter(d, nav', router'[d], supplied')
      BY <1>2
    <2> QED
      BY <1>4, <2>1
  <1>6. EngineAfter(nav', engine')
    <2>1. EngineToken \notin T \cup C
      BY TokenFacts
    <2> QED
      BY <1>1, <2>1, EngineKeeps
  <1>7. Rounds(nav') /\ engine' \in Engines
    BY <1>1 DEF Carried, RoutingTyped
  <1> QED
    BY <1>2, <1>3, <1>5, <1>6, <1>7, After

-----------------------------------------------------------------------------
(* The runtime's calls. *)

LEMMA DomainTyped ==
  ASSUME NEW d \in Routed, NEW s \in DomainState(d)
  PROVE  /\ s = [admitted |-> s.admitted, recorded |-> s.recorded, names |-> s.names, on |-> s.on,
                 base |-> s.base, last |-> s.last, deferred |-> s.deferred,
                 target |-> s.target, verb |-> s.verb]
         /\ s.admitted \in BOOLEAN /\ s.recorded \in BOOLEAN /\ s.names \subseteq Extensions[d]
         /\ s.on \in BOOLEAN /\ s.base \in Seq(Entries) /\ s.last \in Seq(Extensions[d])
         /\ s.deferred \in BOOLEAN /\ s.target \in Seq(Extensions[d])
         /\ s.verb \in {"none", "push", "replace"}
  BY DEF DomainState

(* What the invariant says of one domain. *)
LEMMA DomainStands ==
  ASSUME RoutingInv, NEW d \in Routed
  PROVE  /\ Rounds(nav) /\ router[d] \in DomainState(d) /\ DomainAfter(d, nav, router[d], supplied)
         /\ load \in Loads /\ engine \in Engines /\ EngineAfter(nav, engine)
         /\ router = [k \in Routed |-> router[k]] /\ DOMAIN router = Routed
  <1>1. router = [k \in Routed |-> router[k]]
    BY DEF RoutingInv, RoutingTyped
  <1>2. DOMAIN router = Routed
    BY <1>1
  <1> QED
    BY <1>1, <1>2, Before DEF RoutingTyped

(* A step that leaves the history alone. *)
LEMMA QuietStep ==
  ASSUME RoutingInv, NoRound, NEW d \in Routed, NEW s \in DomainState(d),
         router' = [router EXCEPT ![d] = s], nav' = nav, supplied' = supplied,
         load' = load, engine' = engine,
         s.on = router[d].on, s.base = router[d].base, s.deferred = router[d].deferred,
         s.verb = router[d].verb, s.recorded <=> s.admitted /\ Host[d] \in supplied
  PROVE  RoutingInv'
  <1>1. /\ Rounds(nav) /\ DomainAfter(d, nav, router[d], supplied) /\ load \in Loads
    BY DomainStands
  <1>2. Carried(nav, nav', {}, {})
    BY <1>1, StandsStill
  <1>3. DomainAfter(d, nav', s, supplied)
    BY <1>1 DEF DomainAfter, Fits, NoRound
  <1> QED
    BY <1>1, <1>2, <1>3, DomainStep

LEMMA AdmitDomainKeeps ==
  ASSUME RoutingInv, NEW d \in Routed, AdmitDomain(d)
  PROVE  RoutingInv'
  <1>1. router[d] \in DomainState(d)
    BY DomainStands
  <1>2. PICK b \in BOOLEAN : b = (Host[d] \in supplied)
    <2>1. CASE Host[d] \in supplied
      <3>1. TRUE = (Host[d] \in supplied)
        BY <2>1
      <3> QED
        BY <3>1
    <2>2. CASE Host[d] \notin supplied
      <3>1. FALSE = (Host[d] \in supplied)
        BY <2>2
      <3> QED
        BY <3>1
    <2> QED
      BY <2>1, <2>2
  <1>3. PICK r : r = router[d]
    OBVIOUS
  <1>s. PICK s : s = [r EXCEPT !.admitted = TRUE, !.recorded = b]
    OBVIOUS
  <1>4. s = [admitted |-> TRUE, recorded |-> b, names |-> r.names, on |-> r.on, base |-> r.base,
             last |-> r.last, deferred |-> r.deferred, target |-> r.target, verb |-> r.verb]
    <2>1. r = [admitted |-> r.admitted, recorded |-> r.recorded, names |-> r.names, on |-> r.on,
               base |-> r.base, last |-> r.last, deferred |-> r.deferred,
               target |-> r.target, verb |-> r.verb]
      BY <1>1, <1>3, DomainTyped
    <2> QED
      BY <2>1, <1>s
  <1>5. router' = [router EXCEPT ![d] = s]
    BY <1>2, <1>3, <1>s DEF AdmitDomain
  <1>6. s \in DomainState(d)
    BY <1>1, <1>3, <1>4, DomainTyped DEF DomainState
  <1>7. /\ s.on = router[d].on /\ s.base = router[d].base /\ s.deferred = router[d].deferred
        /\ s.verb = router[d].verb /\ (s.recorded <=> (s.admitted /\ Host[d] \in supplied))
    BY <1>2, <1>3, <1>4
  <1>8. NoRound /\ nav' = nav /\ supplied' = supplied /\ load' = load /\ engine' = engine
    BY DEF AdmitDomain
  <1> QED
    BY <1>5, <1>6, <1>7, <1>8, QuietStep

LEMMA AdmitExtensionKeeps ==
  ASSUME RoutingInv, NEW d \in Routed, NEW ext \in Extensions[d], AdmitExtension(d, ext)
  PROVE  RoutingInv'
  <1>s. PICK s : s = [router[d] EXCEPT !.names = @ \cup {ext}]
    OBVIOUS
  <1>1. router[d] \in DomainState(d) /\ DomainAfter(d, nav, router[d], supplied)
    BY DomainStands
  <1>2. s = [admitted |-> router[d].admitted, recorded |-> router[d].recorded,
             names |-> router[d].names \cup {ext},
             on |-> router[d].on, base |-> router[d].base, last |-> router[d].last,
             deferred |-> router[d].deferred, target |-> router[d].target, verb |-> router[d].verb]
    <2>1. router[d] = [admitted |-> router[d].admitted, recorded |-> router[d].recorded,
             names |-> router[d].names, on |-> router[d].on, base |-> router[d].base,
             last |-> router[d].last, deferred |-> router[d].deferred,
             target |-> router[d].target, verb |-> router[d].verb]
      BY <1>1, DomainTyped
    <2> QED
      BY <2>1, <1>s
  <1>3. s \in DomainState(d)
    BY <1>1, <1>2, DomainTyped DEF DomainState
  <1>4. router' = [router EXCEPT ![d] = s]
    BY <1>s DEF AdmitExtension
  <1>5. /\ s.on = router[d].on /\ s.base = router[d].base /\ s.deferred = router[d].deferred
        /\ s.verb = router[d].verb /\ (s.recorded <=> (s.admitted /\ Host[d] \in supplied))
    BY <1>1, <1>2 DEF DomainAfter
  <1>6. NoRound /\ nav' = nav /\ supplied' = supplied /\ load' = load /\ engine' = engine
    BY DEF AdmitExtension
  <1> QED
    BY <1>3, <1>4, <1>5, <1>6, QuietStep

LEMMA ReleaseExtensionKeeps ==
  ASSUME RoutingInv, NEW d \in Routed, NEW ext \in Extensions[d], ReleaseExtension(d, ext)
  PROVE  RoutingInv'
  <1>1. router[d] \in DomainState(d) /\ DomainAfter(d, nav, router[d], supplied)
    BY DomainStands
  <1>2. PICK last \in Seq(Extensions[d]) : last = Without(router[d].last, {ext})
    BY <1>1, DomainTyped, WithoutFacts
  <1>3. PICK target \in Seq(Extensions[d]) : target = Without(router[d].target, {ext})
    BY <1>1, DomainTyped, WithoutFacts
  <1>4. PICK r : r = router[d]
    OBVIOUS
  <1>s. PICK s : s = [r EXCEPT !.names = @ \ {ext}, !.last = last, !.target = target]
    OBVIOUS
  <1>5. s = [admitted |-> r.admitted, recorded |-> r.recorded, names |-> r.names \ {ext},
             on |-> r.on, base |-> r.base, last |-> last, deferred |-> r.deferred,
             target |-> target, verb |-> r.verb]
    <2>1. r = [admitted |-> r.admitted, recorded |-> r.recorded, names |-> r.names, on |-> r.on,
               base |-> r.base, last |-> r.last, deferred |-> r.deferred,
               target |-> r.target, verb |-> r.verb]
      BY <1>1, <1>4, DomainTyped
    <2> QED
      BY <2>1, <1>s
  <1>6. router' = [router EXCEPT ![d] = s]
    BY <1>2, <1>3, <1>4, <1>s DEF ReleaseExtension
  <1>7. s \in DomainState(d)
    BY <1>1, <1>4, <1>5, DomainTyped DEF DomainState
  <1>8. /\ s.on = router[d].on /\ s.base = router[d].base /\ s.deferred = router[d].deferred
        /\ s.verb = router[d].verb /\ (s.recorded <=> (s.admitted /\ Host[d] \in supplied))
    BY <1>1, <1>4, <1>5 DEF DomainAfter
  <1>9. NoRound /\ nav' = nav /\ supplied' = supplied /\ load' = load /\ engine' = engine
    BY DEF ReleaseExtension
  <1> QED
    BY <1>6, <1>7, <1>8, <1>9, QuietStep

LEMMA SupplyNavigationKeeps ==
  ASSUME RoutingInv, NEW h \in Runtime, SupplyNavigation(h)
  PROVE  RoutingInv'
  <1>1. /\ RoutingTyped /\ Rounds(nav) /\ EngineAfter(nav, engine)
        /\ \A d \in Routed : DomainAfter(d, nav, router[d], supplied)
    BY Before
  <1>2. Carried(nav, nav', {}, {})
    BY <1>1, StandsStill DEF SupplyNavigation
  <1>3. router' = [d \in Routed |-> router'[d]]
    BY DEF SupplyNavigation
  <1>4. ASSUME NEW d \in Routed
        PROVE  router'[d] \in DomainState(d) /\ DomainAfter(d, nav', router'[d], supplied')
    <2>1. router[d] \in DomainState(d) /\ DomainAfter(d, nav, router[d], supplied)
      BY <1>1 DEF RoutingTyped
    <2>2. supplied' = supplied \cup {h} /\ nav' = nav
      BY DEF SupplyNavigation
    <2>3. CASE d \in OfRuntime(h)
      <3>1. router'[d] = [router[d] EXCEPT !.recorded = router[d].admitted]
        BY <2>3 DEF SupplyNavigation
      <3>2. router'[d] = [admitted |-> router[d].admitted, recorded |-> router[d].admitted,
             names |-> router[d].names, on |-> router[d].on, base |-> router[d].base,
             last |-> router[d].last, deferred |-> router[d].deferred,
             target |-> router[d].target, verb |-> router[d].verb]
        BY <2>1, <3>1 DEF DomainState
      <3>3. router'[d] \in DomainState(d)
        BY <2>1, <3>2, DomainTyped DEF DomainState
      <3>4. Host[d] \in supplied'
        BY <2>2, <2>3 DEF OfRuntime
      <3> QED
        BY <2>1, <2>2, <3>2, <3>3, <3>4 DEF DomainAfter, Fits
    <2>4. CASE d \notin OfRuntime(h)
      <3>1. router'[d] = router[d]
        BY <2>4 DEF SupplyNavigation
      <3>2. Host[d] \in supplied' <=> Host[d] \in supplied
        BY <2>2, <2>4 DEF OfRuntime
      <3> QED
        BY <2>1, <2>2, <3>1, <3>2 DEF DomainAfter, Fits
    <2> QED
      BY <2>3, <2>4
  <1>5. /\ Rounds(nav') /\ EngineAfter(nav', engine') /\ load' \in Loads /\ engine' \in Engines
    BY <1>1 DEF SupplyNavigation, RoutingTyped
  <1> QED
    BY <1>3, <1>4, <1>5, After

LEMMA UrlTyped ==
  ASSUME NEW n, Rounds(n)
  PROVE  UrlOf(n) \in Seq(Entries)
  <1>1. n.stack \in Seq(Items) /\ n.at \in DOMAIN n.stack
    BY DEF Rounds, Histories
  <1>2. n.stack[n.at] \in Items
    BY <1>1
  <1> QED
    BY <1>2 DEF Items, UrlOf

LEMMA RouterSubscribed ==
  ASSUME NEW n, Rounds(n), NEW h \in Runtime, NEW m, m = WithRouter(n, h)
  PROVE  /\ Rounds(m) /\ Same(n, m) /\ m.rest = n.rest /\ m.live = n.live \cup {RouterToken(h)}
         /\ n.before \subseteq m.before
  <1>1. CASE RouterToken(h) \in n.live
    BY <1>1 DEF WithRouter, Same
  <1>2. CASE RouterToken(h) \notin n.live
    <2>1. m = Subscribe(n, RouterToken(h)) /\ RouterToken(h) \in Tokens
      BY <1>2, TokenFacts DEF WithRouter
    <2> QED
      BY <2>1, SubscribeFacts
  <1> QED
    BY <1>1, <1>2

(* A call made, a copy subscribed, and then what else the step does. *)
LEMMA CarriedAfter ==
  ASSUME NEW n, NEW k, NEW m, NEW T, NEW C, Rounds(n), Same(n, k), n.rest \ C \subseteq k.rest,
         n.live \subseteq k.live, k.live \subseteq n.live \cup Copies, n.before \subseteq k.before,
         Carried(k, m, T, {})
  PROVE  Carried(n, m, T, C)
  <1>1. UrlOf(k) = UrlOf(n)
    BY DEF Same, UrlOf
  <1>2. Rounds(m) /\ n.live \ T \subseteq m.live /\ m.live \subseteq n.live \cup T \cup Copies
    BY DEF Carried
  <1>3. \A pair \in n.before : pair[1] \notin T /\ pair[2] \notin T => pair \in m.before
    BY DEF Carried
  <1>4. ASSUME NEW t \in n.live \ (T \cup C), Unheard(n, t)  PROVE Unheard(m, t)
    <2>1. Unheard(k, t)
      BY <1>4 DEF Unheard, Same
    <2>2. t \in k.live \ (T \cup {})
      BY <1>4
    <2> QED
      BY <2>1, <2>2 DEF Carried
  <1>5. (UrlOf(m) = UrlOf(n) /\ m.pos = n.pos) \/ \A t \in m.live : Unheard(m, t)
    BY <1>1 DEF Carried, Same
  <1>6. n.busy => /\ m.busy /\ m.note = n.note /\ m.origin = n.origin
                  /\ n.rest \ (T \cup C) \subseteq m.rest
    BY DEF Carried, Same
  <1>7. ~n.busy /\ m.busy => m.rest = m.live /\ (m.origin = "history" => m.note.kind = "history")
    BY DEF Carried, Same
  <1> QED
    BY <1>2, <1>3, <1>4, <1>5, <1>6, <1>7 DEF Carried

(* A domain that has written, or deferred its write. *)
LEMMA Written ==
  ASSUME NEW d \in Routed, NEW n, NEW m, NEW s, NEW c, NEW C, Rounds(n),
         DomainAfter(d, n, s, supplied), Carried(n, m, {DeferredToken(d)}, C),
         C \subseteq {ObserverToken(d), DeferredToken(d)}, s.on \/ s.deferred, c.on = s.on,
         c.admitted = s.admitted, c.recorded = s.recorded,
         c.on => \/ c.base = s.base /\ ObserverToken(d) \notin C
                 \/ c.base = Under(UrlOf(n), d),
         Fits(d, m, c), c.deferred => EnclosingAbsent(d, UrlOf(m)), c.verb = "push" => ~n.busy
  PROVE  DomainAfter(d, m, c, supplied)
  <1>1. /\ ObserverToken(d) \notin Copies /\ ObserverToken(d) # DeferredToken(d)
        /\ RouterToken(Host[d]) # DeferredToken(d)
    BY TokenFacts
  <1>2. /\ ObserverToken(d) \in n.live <=> ObserverToken(d) \in m.live
        /\ RouterToken(Host[d]) \in m.live
    BY <1>1 DEF Carried, DomainAfter
  <1>3. c.on => Unheard(m, ObserverToken(d)) \/ c.base = Under(UrlOf(m), d)
    BY <1>1, <1>2 DEF DomainAfter, Carried
  <1>4. m.busy /\ m.origin = "history" /\ c.verb = "push"
          => m.note.kind = "history" /\ RouterToken(Host[d]) \in m.rest
    BY <1>2 DEF Carried
  <1> QED
    BY <1>2, <1>3, <1>4 DEF DomainAfter, Fits, EnclosingAbsent

(* The first observer of the page may clear the URL; no other start writes. *)
LEMMA StartDomainFacts ==
  ASSUME RoutingInv, NEW d \in Routed, StartDomain(d)
  PROVE  RoutingInv' /\ (nav'.stack = nav.stack \/ UrlOf(nav') = <<>>)
  <1>1. /\ Rounds(nav) /\ router[d] \in DomainState(d) /\ DomainAfter(d, nav, router[d], supplied)
        /\ load \in Loads /\ Host[d] \in Runtime /\ ~nav.busy
    BY DomainStands, TokenFacts DEF StartDomain, NoRound
  <1>2. Url \in Seq(Entries)
    BY <1>1, UrlTyped DEF Url
  <1>k. PICK k : k = WithRouter(nav, Host[d])
    OBVIOUS
  <1>3. /\ Rounds(k) /\ Same(nav, k) /\ k.rest = nav.rest
        /\ k.live = nav.live \cup {RouterToken(Host[d])} /\ nav.before \subseteq k.before
    BY <1>1, <1>k, RouterSubscribed
  <1>n. PICK n : n = Subscribe(k, ObserverToken(d))
    OBVIOUS
  <1>4. /\ Rounds(n) /\ Same(k, n) /\ n.rest = k.rest /\ n.live = k.live \cup {ObserverToken(d)}
        /\ n.before = k.before \cup (k.live \X {ObserverToken(d)})
    <2>1. ObserverToken(d) \in Tokens
      BY TokenFacts
    <2> QED
      BY <1>3, <1>n, <2>1, SubscribeFacts
  <1>5. /\ Same(nav, n) /\ n.rest = nav.rest /\ nav.before \subseteq n.before
        /\ n.live = nav.live \cup {RouterToken(Host[d]), ObserverToken(d)}
    BY <1>3, <1>4 DEF Same
  <1>6. /\ ObserverToken(d) \notin Copies /\ RouterToken(Host[d]) \in Copies
        /\ ObserverToken(d) # DeferredToken(d) /\ DeferredToken(d) \notin Copies
    BY TokenFacts
  <1>7. nav' = IF ~load.cleared /\ Url # <<>> THEN Replace(n, <<>>) ELSE n
    BY <1>k, <1>n DEF StartDomain
  <1>b. PICK base \in Seq(Entries) : base = Under(Url, d)
    BY <1>2, UnderFacts
  <1>r. PICK r : r = router[d]
    OBVIOUS
  <1>s. PICK s : s = [r EXCEPT !.on = TRUE, !.base = base]
    OBVIOUS
  <1>8. s = [admitted |-> r.admitted, recorded |-> r.recorded, names |-> r.names, on |-> TRUE,
             base |-> base, last |-> r.last, deferred |-> r.deferred, target |-> r.target,
             verb |-> r.verb]
    <2>1. r = [admitted |-> r.admitted, recorded |-> r.recorded, names |-> r.names, on |-> r.on,
               base |-> r.base, last |-> r.last, deferred |-> r.deferred,
               target |-> r.target, verb |-> r.verb]
      BY <1>1, <1>r, DomainTyped
    <2> QED
      BY <2>1, <1>s
  <1>9. s \in DomainState(d)
    BY <1>1, <1>r, <1>8, DomainTyped DEF DomainState
  <1>10. router' = [router EXCEPT ![d] = s]
    BY <1>b, <1>r, <1>s DEF StartDomain
  <1>11. load' \in Loads
    BY <1>1, <1>2, LoadFacts DEF StartDomain
  <1>12. Carried(nav, nav', {ObserverToken(d)}, {}) /\ DomainAfter(d, nav', s, supplied)
    <2>1. CASE ~load.cleared /\ Url # <<>>
      <3>1. nav' = Replace(n, <<>>) /\ <<>> \in Seq(Entries)
        BY <1>7, <2>1
      <3>2. Navigated(n, nav', "replace")
        BY <1>4, <3>1, ReplaceFacts
      <3>3. Carried(nav, nav', {ObserverToken(d)}, {})
        <4>1. n.rest = nav.rest \ ({ObserverToken(d)} \cup {})
          BY <1>1, <1>5 DEF Rounds
        <4>2. /\ nav.live \ {ObserverToken(d)} \subseteq n.live
              /\ n.live \subseteq nav.live \cup {ObserverToken(d)} \cup Copies
              /\ \A pair \in nav.before : pair \in n.before
          BY <1>5, <1>6
        <4> QED
          BY <1>1, <1>5, <3>2, <4>1, <4>2, NavigatedCarries
      <3>4. /\ nav'.live = n.live /\ nav'.before = n.before /\ nav'.rest = n.live
            /\ nav'.origin = "replace"
        BY <1>1, <1>5, <3>2 DEF Navigated, Same
      <3> QED
        BY <1>1, <1>5, <1>6, <1>r, <1>8, <3>3, <3>4 DEF DomainAfter, Fits, Unheard
    <2>2. CASE ~(~load.cleared /\ Url # <<>>)
      <3>1. nav' = n
        BY <1>7, <2>2
      <3>2. Carried(nav, nav', {ObserverToken(d)}, {})
        BY <1>1, <1>4, <1>5, <1>6, <3>1, SameCarries
      <3>3. UrlOf(n) = Url /\ ~n.busy
        BY <1>1, <1>5 DEF Same, UrlOf, Url
      <3>4. s.deferred => \/ Unheard(n, DeferredToken(d))
                          \/ Host[d] \in supplied /\ ~Carries(UrlOf(n), Host[d])
        BY <1>1, <1>5, <1>r, <1>8, <3>3 DEF DomainAfter, Unheard, Same, Url
      <3> QED
        BY <1>1, <1>5, <1>6, <1>b, <1>r, <1>8, <3>1, <3>2, <3>3, <3>4 DEF DomainAfter, Fits
    <2> QED
      BY <2>1, <2>2
  <1>13. supplied' = supplied /\ engine' = engine
    BY DEF StartDomain
  <1>14. nav'.stack = nav.stack \/ UrlOf(nav') = <<>>
    <2>1. CASE ~load.cleared /\ Url # <<>>
      <3>1. nav' = Replace(n, <<>>) /\ <<>> \in Seq(Entries)
        BY <1>7, <2>1
      <3> QED
        BY <1>4, <3>1, ReplaceFacts
    <2>2. CASE ~(~load.cleared /\ Url # <<>>)
      BY <1>5, <1>7, <2>2 DEF Same
    <2> QED
      BY <2>1, <2>2
  <1>15. RoutingInv'
    BY <1>9, <1>10, <1>11, <1>12, <1>13, DomainStep
  <1> QED
    BY <1>14, <1>15

(* A call of the domain's router begins on the state as it is. *)
LEMMA WorkingFacts ==
  ASSUME NEW d \in Routed, NEW n, Rounds(n), NEW l \in Loads, router[d] \in DomainState(d),
         NEW w, w = Working(d, n, l)
  PROVE  Workable(d, w) /\ w.nav = n /\ w.dom = router[d] /\ w.load = l
  BY DEF Working, Workable

(* A domain given up with whatever it had deferred. *)
LEMMA GivenUp ==
  ASSUME RoutingInv, NoRound, NEW d \in Routed, NEW x, x = Cancel(d, Working(d, nav, load)),
         nav' = Unsubscribe(x.nav, {ObserverToken(d)}), load' = x.load, supplied' = supplied,
         engine' = engine, NEW s \in DomainState(d), router' = [router EXCEPT ![d] = s],
         ~s.on, ~s.deferred, s.verb # "push", s.recorded <=> (s.admitted /\ Host[d] \in supplied)
  PROVE  RoutingInv' /\ nav'.stack = nav.stack
  <1>1. /\ Rounds(nav) /\ router[d] \in DomainState(d) /\ DomainAfter(d, nav, router[d], supplied)
        /\ load \in Loads /\ ~nav.busy
    BY DomainStands DEF NoRound
  <1>w. PICK w : w = Working(d, nav, load)
    OBVIOUS
  <1>2. Workable(d, w) /\ w.nav = nav /\ w.dom = router[d] /\ w.load = load
    BY <1>1, <1>w, WorkingFacts
  <1>3. /\ w.dom.deferred <=> DeferredToken(d) \in w.nav.live
        /\ w.dom.verb = "push" => w.dom.deferred
    BY <1>1, <1>2 DEF DomainAfter, Fits
  <1>4. x = Cancel(d, w)
    BY <1>w
  <1>5. /\ Workable(d, x) /\ x.load = load /\ Same(nav, x.nav)
        /\ x.nav.rest = nav.rest \ {DeferredToken(d)} /\ x.nav.live = nav.live \ {DeferredToken(d)}
        /\ \A pair \in nav.before :
             pair[1] # DeferredToken(d) /\ pair[2] # DeferredToken(d) => pair \in x.nav.before
    BY <1>2, <1>3, <1>4, CancelFacts
  <1>6. Rounds(x.nav)
    BY <1>5 DEF Workable
  <1>7. /\ Rounds(nav') /\ Same(x.nav, nav') /\ nav'.rest = x.nav.rest \ {ObserverToken(d)}
        /\ nav'.live = x.nav.live \ {ObserverToken(d)}
        /\ \A pair \in x.nav.before :
             pair[1] \notin {ObserverToken(d)} /\ pair[2] \notin {ObserverToken(d)} => pair \in nav'.before
    BY <1>6, UnsubscribeFacts
  <1>8. Same(nav, nav')
    BY <1>5, <1>7 DEF Same
  <1> DEFINE T == {ObserverToken(d), DeferredToken(d)}
  <1>9. /\ nav.rest \ (T \cup {}) \subseteq nav'.rest /\ nav.live \ T \subseteq nav'.live
        /\ nav'.live \subseteq nav.live \cup T \cup Copies
        /\ \A pair \in nav.before : pair[1] \notin T /\ pair[2] \notin T => pair \in nav'.before
    BY <1>5, <1>7
  <1>10. Carried(nav, nav', T, {})
    BY <1>1, <1>7, <1>8, <1>9, SameCarries
  <1>11. ObserverToken(d) \notin nav'.live /\ DeferredToken(d) \notin nav'.live
    BY <1>5, <1>7
  <1>12. DomainAfter(d, nav', s, supplied)
    BY <1>11 DEF DomainAfter, Fits
  <1>13. load' \in Loads
    BY <1>1, <1>5
  <1>14. T \subseteq {ObserverToken(d), DeferredToken(d)}
    OBVIOUS
  <1> HIDE DEF T
  <1>15. RoutingInv'
    BY <1>10, <1>12, <1>13, <1>14, DomainStep
  <1> QED
    BY <1>8, <1>15 DEF Same

LEMMA StopDomainFacts ==
  ASSUME RoutingInv, NEW d \in Routed, StopDomain(d)
  PROVE  RoutingInv' /\ nav'.stack = nav.stack
  <1>1. /\ Rounds(nav) /\ router[d] \in DomainState(d) /\ DomainAfter(d, nav, router[d], supplied)
        /\ load \in Loads
    BY DomainStands
  <1>x. PICK x : x = Cancel(d, Working(d, nav, load))
    OBVIOUS
  <1>r. PICK r : r = x.dom
    OBVIOUS
  <1>s. PICK s : s = [r EXCEPT !.on = FALSE, !.base = <<>>, !.last = <<>>]
    OBVIOUS
  <1>2. Workable(d, x) /\ ~r.deferred /\ r.verb # "push" /\ SameDomain(router[d], r)
    <2>w. PICK w : w = Working(d, nav, load)
      OBVIOUS
    <2>1. Workable(d, w) /\ w.nav = nav /\ w.dom = router[d]
      BY <1>1, <2>w, WorkingFacts
    <2>2. /\ w.dom.deferred <=> DeferredToken(d) \in w.nav.live
          /\ w.dom.verb = "push" => w.dom.deferred
      BY <1>1, <2>1 DEF DomainAfter, Fits
    <2>3. x = Cancel(d, w)
      BY <1>x, <2>w
    <2> QED
      BY <1>r, <2>1, <2>2, <2>3, CancelFacts
  <1>3. r \in DomainState(d) /\ x = [nav |-> x.nav, dom |-> r, load |-> x.load]
    BY <1>2, <1>r DEF Workable
  <1>4. s = [admitted |-> r.admitted, recorded |-> r.recorded, names |-> r.names, on |-> FALSE,
             base |-> <<>>, last |-> <<>>, deferred |-> r.deferred, target |-> r.target,
             verb |-> r.verb]
    <2>1. r = [admitted |-> r.admitted, recorded |-> r.recorded, names |-> r.names, on |-> r.on,
               base |-> r.base, last |-> r.last, deferred |-> r.deferred,
               target |-> r.target, verb |-> r.verb]
      BY <1>3, DomainTyped
    <2> QED
      BY <2>1, <1>s
  <1>5. s \in DomainState(d)
    <2>1. <<>> \in Seq(Entries) /\ <<>> \in Seq(Extensions[d])
      OBVIOUS
    <2> QED
      BY <1>3, <1>4, <2>1, DomainTyped DEF DomainState
  <1>6. /\ nav' = Unsubscribe(x.nav, {ObserverToken(d)}) /\ load' = x.load
        /\ router' = [router EXCEPT ![d] = s]
    <2>y. PICK y : y = [x EXCEPT !.nav = Unsubscribe(@, {ObserverToken(d)}),
                                 !.dom = [@ EXCEPT !.on = FALSE, !.base = <<>>, !.last = <<>>]]
      OBVIOUS
    <2>n. PICK n : n = Unsubscribe(x.nav, {ObserverToken(d)})
      OBVIOUS
    <2>z. PICK z : z = [x EXCEPT !.nav = n, !.dom = s]
      OBVIOUS
    <2>1. z.nav = n /\ z.dom = s /\ z.load = x.load
      BY <1>3, <2>z
    <2>2. s = [x.dom EXCEPT !.on = FALSE, !.base = <<>>, !.last = <<>>]
      BY <1>r, <1>s
    <2>3. y = z
      BY <2>2, <2>n, <2>y, <2>z, Zenon
    <2>4. nav' = y.nav /\ load' = y.load /\ router' = [router EXCEPT ![d] = y.dom]
      BY <1>x, <2>y DEF StopDomain, Commits
    <2> QED
      BY <2>1, <2>3, <2>4, <2>n
  <1>7. NoRound /\ supplied' = supplied /\ engine' = engine
    BY DEF StopDomain
  <1>8. /\ ~s.on /\ ~s.deferred /\ s.verb # "push"
        /\ s.recorded <=> (s.admitted /\ Host[d] \in supplied)
    BY <1>1, <1>2, <1>4 DEF DomainAfter, SameDomain
  <1> QED
    BY <1>x, <1>5, <1>6, <1>7, <1>8, GivenUp

LEMMA ReleaseDomainFacts ==
  ASSUME RoutingInv, NEW d \in Routed, ReleaseDomain(d)
  PROVE  RoutingInv' /\ nav'.stack = nav.stack
  <1>1. /\ Rounds(nav) /\ router[d] \in DomainState(d) /\ load \in Loads
        /\ DomainAfter(d, nav, router[d], supplied)
    BY DomainStands
  <1>x. PICK x : x = Cancel(d, Working(d, nav, load))
    OBVIOUS
  <1>2. x = [nav |-> x.nav, dom |-> x.dom, load |-> x.load]
    <2>w. PICK w : w = Working(d, nav, load)
      OBVIOUS
    <2>1. Workable(d, w) /\ w.nav = nav /\ w.dom = router[d]
      BY <1>1, <2>w, WorkingFacts
    <2>2. /\ w.dom.deferred <=> DeferredToken(d) \in w.nav.live
          /\ w.dom.verb = "push" => w.dom.deferred
      BY <1>1, <2>1 DEF DomainAfter, Fits
    <2>3. x = Cancel(d, w)
      BY <1>x, <2>w
    <2>4. Workable(d, x)
      BY <2>1, <2>2, <2>3, CancelFacts
    <2> QED
      BY <2>4 DEF Workable
  <1>3. PICK s : s = NotAdmitted
    OBVIOUS
  <1>4. /\ s \in DomainState(d) /\ ~s.on /\ ~s.deferred /\ s.verb # "push"
        /\ s.recorded <=> (s.admitted /\ Host[d] \in supplied)
    <2>1. <<>> \in Seq(Entries) /\ <<>> \in Seq(Extensions[d])
      OBVIOUS
    <2> QED
      BY <1>3, <2>1 DEF NotAdmitted, DomainState
  <1>5. /\ nav' = Unsubscribe(x.nav, {ObserverToken(d)}) /\ load' = x.load
        /\ router' = [router EXCEPT ![d] = s]
    <2>y. PICK y : y = [x EXCEPT !.nav = Unsubscribe(@, {ObserverToken(d)}), !.dom = NotAdmitted]
      OBVIOUS
    <2>1. y.nav = Unsubscribe(x.nav, {ObserverToken(d)}) /\ y.dom = s /\ y.load = x.load
      BY <1>2, <1>3, <2>y
    <2>2. nav' = y.nav /\ load' = y.load /\ router' = [router EXCEPT ![d] = y.dom]
      BY <1>x, <2>y DEF ReleaseDomain, Commits
    <2> QED
      BY <2>1, <2>2
  <1>6. NoRound /\ supplied' = supplied /\ engine' = engine
    BY DEF ReleaseDomain
  <1> QED
    BY <1>x, <1>4, <1>5, <1>6, GivenUp

LEMMA NamesOfFacts ==
  ASSUME NEW d \in Routed, NEW s \in DomainState(d), NEW S, NEW ids \in Seq(S)
  PROVE  NamesOf(s, ids) \in Seq(Extensions[d])
  <1>1. NamesOf(s, ids) \in Seq(s.names)
    BY ThoseTyped DEF NamesOf
  <1>2. s.names \subseteq Extensions[d]
    BY DomainTyped
  <1> QED
    BY <1>1, <1>2, SeqWidens

(* What a command leaves of its domain, of the history and of the URL. *)
LEMMA ReflectFacts ==
  ASSUME RoutingInv, NEW d \in Routed, NEW ids \in Targets[d], NEW verb \in {"push", "replace"},
         Reflect(d, ids, verb)
  PROVE  /\ RoutingInv'
         /\ nav'.stack = nav.stack \/ Rewrites(d, Url, UrlOf(nav'))
  <1>1. /\ Rounds(nav) /\ router[d] \in DomainState(d) /\ DomainAfter(d, nav, router[d], supplied)
        /\ load \in Loads /\ Host[d] \in Runtime /\ ~nav.busy
    BY DomainStands, TokenFacts DEF Reflect, NoRound
  <1>2. ids \in Seq(Extensions[d])
    BY SessionsAssumption
  <1>n. PICK n : n = IF verb = "push" THEN WithRouter(nav, Host[d]) ELSE nav
    OBVIOUS
  <1>l. PICK l : l = IF verb = "push" THEN Discard(load) ELSE load
    OBVIOUS
  <1>3. l \in Loads
    <2>1. <<>> \in Seq(Entries)
      OBVIOUS
    <2> QED
      BY <1>1, <1>l, <2>1, LoadFacts
  <1>4. /\ Rounds(n) /\ Same(nav, n) /\ n.rest = nav.rest /\ nav.live \subseteq n.live
        /\ n.live \subseteq nav.live \cup Copies /\ nav.before \subseteq n.before
    <2>1. CASE verb = "push"
      <3>1. n = WithRouter(nav, Host[d])
        BY <1>n, <2>1
      <3>2. RouterToken(Host[d]) \in Copies
        BY TokenFacts
      <3> QED
        BY <1>1, <3>1, <3>2, RouterSubscribed
    <2>2. CASE verb # "push"
      BY <1>1, <1>n, <2>2 DEF Same
    <2> QED
      BY <2>1, <2>2
  <1>r. PICK r : r = router[d]
    OBVIOUS
  <1>5. /\ r = [admitted |-> r.admitted, recorded |-> r.recorded, names |-> r.names, on |-> r.on,
                base |-> r.base, last |-> r.last, deferred |-> r.deferred,
                target |-> r.target, verb |-> r.verb]
        /\ r \in DomainState(d)
    BY <1>1, <1>r, DomainTyped
  <1>s. PICK s : s = IF r.admitted THEN [r EXCEPT !.last = ids] ELSE r
    OBVIOUS
  <1>6. s = [admitted |-> r.admitted, recorded |-> r.recorded, names |-> r.names, on |-> r.on,
             base |-> r.base, last |-> s.last, deferred |-> r.deferred,
             target |-> r.target, verb |-> r.verb] /\ (s.last = ids \/ s.last = r.last)
    <2>1. CASE r.admitted
      <3>1. s = [r EXCEPT !.last = ids]
        BY <1>s, <2>1
      <3> QED
        BY <1>5, <3>1
    <2>2. CASE ~r.admitted
      <3>1. s = r
        BY <1>s, <2>2
      <3> QED
        BY <1>5, <3>1
    <2> QED
      BY <2>1, <2>2
  <1>7. s \in DomainState(d)
    BY <1>2, <1>5, <1>6, DomainTyped DEF DomainState
  <1>w. PICK w : w = IF router[d].admitted THEN [Working(d, n, l) EXCEPT !.dom.last = ids]
                                           ELSE Working(d, n, l)
    OBVIOUS
  <1>8. w = [nav |-> n, dom |-> s, load |-> l]
    <2>1. Working(d, n, l) = [nav |-> n, dom |-> r, load |-> l]
      BY <1>r DEF Working
    <2>2. CASE r.admitted
      <3>1. s = [r EXCEPT !.last = ids]
        BY <1>s, <2>2
      <3>2. w = [[nav |-> n, dom |-> r, load |-> l] EXCEPT !.dom.last = ids]
        BY <1>r, <1>w, <2>1, <2>2
      <3>3. w = [nav |-> n, dom |-> [r EXCEPT !.last = ids], load |-> l]
        BY <3>2
      <3> QED
        BY <3>1, <3>3
    <2>3. CASE ~r.admitted
      <3>1. s = r
        BY <1>s, <2>3
      <3> QED
        BY <1>r, <1>w, <2>1, <2>3, <3>1
    <2> QED
      BY <2>2, <2>3
  <1>9. Workable(d, w) /\ w.nav = n /\ w.dom = s /\ w.load = l
    BY <1>3, <1>4, <1>7, <1>8 DEF Workable
  <1>x. PICK x : x = IF w.dom.on THEN WriteEntries(d, w, NamesOf(w.dom, ids), verb) ELSE w
    OBVIOUS
  <1>10. nav' = x.nav /\ load' = x.load /\ router' = [router EXCEPT ![d] = x.dom]
    <2>1. Commits(d, x)
      BY <1>n, <1>l, <1>w, <1>x DEF Reflect
    <2> QED
      BY <2>1 DEF Commits
  <1>11. supplied' = supplied /\ engine' = engine
    BY DEF Reflect
  <1>12. /\ x.dom \in DomainState(d) /\ x.load \in Loads
         /\ Carried(nav, x.nav, {DeferredToken(d)}, {}) /\ DomainAfter(d, x.nav, x.dom, supplied)
         /\ x.nav.stack = nav.stack \/ Rewrites(d, Url, UrlOf(x.nav))
    <2>1. CASE s.on
      <3>t. PICK target \in Seq(Extensions[d]) : target = NamesOf(s, ids)
        BY <1>2, <1>7, NamesOfFacts
      <3>1. x = WriteEntries(d, w, target, verb)
        BY <1>9, <1>x, <2>1, <3>t
      <3>2. Fits(d, w.nav, w.dom) /\ RouterToken(Host[d]) \in w.nav.live
        <4>1. /\ s.deferred <=> DeferredToken(d) \in nav.live
              /\ s.deferred => <<RouterToken(Host[d]), DeferredToken(d)>> \in nav.before
              /\ s.verb = "push" => s.deferred
              /\ RouterToken(Host[d]) \in nav.live
          BY <1>1, <1>6, <1>r, <2>1 DEF DomainAfter, Fits
        <4>2. DeferredToken(d) \notin Copies
          BY TokenFacts
        <4>3. s.deferred <=> DeferredToken(d) \in n.live
          BY <1>4, <4>1, <4>2
        <4> QED
          BY <1>4, <1>9, <4>1, <4>3 DEF Fits
      <3>3. /\ x.dom \in DomainState(d) /\ x.load \in Loads /\ SameDomain(w.dom, x.dom)
            /\ Carried(w.nav, x.nav, {DeferredToken(d)}, {}) /\ Fits(d, x.nav, x.dom)
            /\ x.dom.deferred => EnclosingAbsent(d, UrlOf(x.nav))
            /\ x.nav.stack = w.nav.stack \/ Rewrites(d, UrlOf(w.nav), UrlOf(x.nav))
        BY <1>9, <3>1, <3>2, WriteEntriesFacts
      <3>4. Carried(nav, x.nav, {DeferredToken(d)}, {})
        <4>1. nav.rest \ {} \subseteq n.rest /\ w.nav = n
          BY <1>4, <1>9
        <4> QED
          BY <1>1, <1>4, <3>3, <4>1, CarriedAfter
      <3>5. /\ x.dom.on = r.on /\ x.dom.base = r.base /\ x.dom.admitted = r.admitted
            /\ x.dom.recorded = r.recorded /\ r.on
        BY <1>6, <1>9, <2>1, <3>3 DEF SameDomain
      <3>6. DomainAfter(d, x.nav, x.dom, supplied)
        <4>1. DomainAfter(d, nav, r, supplied)
          BY <1>1, <1>r
        <4>2. PICK m : m = x.nav
          OBVIOUS
        <4>3. PICK c : c = x.dom
          OBVIOUS
        <4>C. PICK C : C = {}
          OBVIOUS
        <4>4. /\ c.on = r.on /\ c.admitted = r.admitted /\ c.recorded = r.recorded
              /\ r.on \/ r.deferred
              /\ c.on => \/ c.base = r.base /\ ObserverToken(d) \notin C
                         \/ c.base = Under(UrlOf(nav), d)
              /\ c.verb = "push" => ~nav.busy
          BY <1>1, <3>5, <4>3, <4>C
        <4>5. /\ Fits(d, m, c)
              /\ c.deferred => EnclosingAbsent(d, UrlOf(m))
              /\ Carried(nav, m, {DeferredToken(d)}, C)
              /\ C \subseteq {ObserverToken(d), DeferredToken(d)}
          BY <3>3, <3>4, <4>2, <4>3, <4>C
        <4>6. DomainAfter(d, m, c, supplied)
          BY <1>1, <4>1, <4>4, <4>5, Written
        <4> QED
          BY <4>2, <4>3, <4>6
      <3>7. x.nav.stack = nav.stack \/ Rewrites(d, Url, UrlOf(x.nav))
        BY <1>4, <1>9, <3>3 DEF Same, UrlOf, Url
      <3> QED
        BY <3>3, <3>4, <3>6, <3>7
    <2>2. CASE ~s.on
      <3>1. x = w
        BY <1>9, <1>x, <2>2
      <3>2. Carried(nav, n, {DeferredToken(d)}, {})
        BY <1>1, <1>4, SameCarries
      <3>3. DomainAfter(d, n, s, supplied)
        <4>1. DomainAfter(d, nav, r, supplied) /\ ~r.on
          BY <1>1, <1>6, <1>r, <2>2
        <4>2. DeferredToken(d) \notin Copies /\ ObserverToken(d) \notin Copies
          BY TokenFacts
        <4>3. UrlOf(n) = UrlOf(nav) /\ ~n.busy
          BY <1>1, <1>4 DEF Same, UrlOf
        <4>4. s.deferred => \/ Unheard(n, DeferredToken(d))
                            \/ Host[d] \in supplied /\ ~Carries(UrlOf(n), Host[d])
          BY <1>4, <1>6, <4>1, <4>3 DEF DomainAfter, Unheard, Same
        <4>5. /\ s.on <=> ObserverToken(d) \in n.live
              /\ s.deferred <=> DeferredToken(d) \in n.live
          BY <1>4, <1>6, <2>2, <4>1, <4>2 DEF DomainAfter, Fits
        <4>6. /\ s.on \/ s.deferred => RouterToken(Host[d]) \in n.live
              /\ s.deferred => <<RouterToken(Host[d]), DeferredToken(d)>> \in n.before
              /\ s.verb = "push" => s.deferred
              /\ s.recorded <=> s.admitted /\ Host[d] \in supplied
          BY <1>4, <1>6, <4>1 DEF DomainAfter, Fits
        <4> QED
          BY <2>2, <4>3, <4>4, <4>5, <4>6 DEF DomainAfter, Fits
      <3> QED
        BY <1>3, <1>4, <1>7, <1>9, <3>1, <3>2, <3>3 DEF Same
    <2> QED
      BY <2>1, <2>2
  <1>13. {} \subseteq {ObserverToken(d), DeferredToken(d)}
    OBVIOUS
  <1>14. RoutingInv'
    BY <1>10, <1>11, <1>12, <1>13, DomainStep
  <1> QED
    BY <1>10, <1>12, <1>14

(* A step about no domain. *)
LEMMA HistoryStep ==
  ASSUME RoutingInv, NEW T, NEW C, Carried(nav, nav', T, C), router' = router,
         supplied' = supplied, load' \in Loads, engine' \in Engines, EngineAfter(nav', engine'),
         T \subseteq {EngineToken}, C \subseteq Copies \cup {EngineToken},
         \A d \in Routed : RouterToken(Host[d]) \in C
                             => router[d].verb # "push" \/ (nav.busy /\ nav.origin # "history")
  PROVE  RoutingInv'
  <1>1. /\ RoutingTyped /\ Rounds(nav) /\ EngineAfter(nav, engine)
        /\ \A k \in Routed : DomainAfter(k, nav, router[k], supplied)
    BY Before
  <1>2. router' = [k \in Routed |-> router'[k]] /\ \A k \in Routed : router'[k] \in DomainState(k)
    BY <1>1 DEF RoutingTyped
  <1>3. ASSUME NEW k \in Routed  PROVE DomainAfter(k, nav', router'[k], supplied')
    <2>1. /\ ObserverToken(k) \notin T \cup C /\ DeferredToken(k) \notin T \cup C
          /\ RouterToken(Host[k]) \notin T
      BY TokenFacts
    <2>2. DomainAfter(k, nav, router[k], supplied)
      BY <1>1
    <2>3. /\ router[k].recorded => router[k].admitted /\ Host[k] \in supplied
          /\ router[k].admitted /\ Host[k] \in supplied => router[k].recorded
      BY <2>2 DEF DomainAfter
    <2>4. DomainAfter(k, nav', router[k], supplied)
      BY <1>1, <2>1, <2>2, <2>3, OthersKeep
    <2> QED
      BY <2>4
  <1>4. Rounds(nav')
    BY DEF Carried
  <1> QED
    BY <1>2, <1>3, <1>4, After

LEMMA UserStepsFacts ==
  ASSUME RoutingInv, NEW entry \in DOMAIN nav.stack, UserSteps(entry)
  PROVE  RoutingInv' /\ nav'.stack = nav.stack
  <1>1. /\ RoutingTyped /\ Rounds(nav) /\ EngineAfter(nav, engine) /\ ~nav.busy
    BY Before DEF UserSteps, NoRound
  <1>2. Navigated(nav, nav', "history") /\ nav'.stack = nav.stack
    BY <1>1, PopFacts DEF UserSteps
  <1>3. /\ Same(nav, nav) /\ nav.rest = nav.rest \ ({} \cup {}) /\ nav.live \ {} \subseteq nav.live
        /\ nav.live \subseteq nav.live \cup {} \cup Copies
    BY DEF Same
  <1>4. Carried(nav, nav', {}, {})
    BY <1>1, <1>2, <1>3, NavigatedCarries
  <1>5. EngineAfter(nav', engine)
    BY <1>1, <1>4, EngineKeeps
  <1>6. router' = router /\ supplied' = supplied /\ load' \in Loads /\ engine' \in Engines /\ engine' = engine
    BY <1>1 DEF UserSteps, RoutingTyped
  <1>7. RoutingInv'
    BY <1>4, <1>5, <1>6, HistoryStep
  <1> QED
    BY <1>2, <1>7

LEMMA EngineTyped ==
  ASSUME NEW e \in Engines
  PROVE  /\ e = [on |-> e.on, loc |-> e.loc, pos |-> e.pos, own |-> e.own]
         /\ e.on \in BOOLEAN /\ e.loc \in Param /\ e.pos \in Nat /\ e.own \in BOOLEAN
  BY DEF Engines

(* The engine's location and position after a reading. *)
LEMMA ReadsFacts ==
  ASSUME NEW e \in Engines, NEW pos \in Nat, Url \in Seq(Entries), NEW r, r = Reads(e, pos)
  PROVE  /\ r \in Engines /\ r.on = e.on /\ r.own = e.own
         /\ Carries(Url, Engine) => r.loc = ParamsAt(Url, Engine) /\ r.pos = pos
  <1>1. /\ e = [on |-> e.on, loc |-> e.loc, pos |-> e.pos, own |-> e.own]
        /\ e.on \in BOOLEAN /\ e.loc \in Param /\ e.pos \in Nat /\ e.own \in BOOLEAN
    BY EngineTyped
  <1>2. CASE Carries(Url, Engine)
    <2>1. PICK par \in Param : par = ParamsAt(Url, Engine)
      BY <1>2, ParamsAtFacts
    <2>2. r = [e EXCEPT !.loc = par, !.pos = pos]
      BY <1>2, <2>1 DEF Reads
    <2>3. r = [on |-> e.on, loc |-> par, pos |-> pos, own |-> e.own]
      BY <1>1, <2>2
    <2> QED
      BY <1>1, <2>1, <2>3 DEF Engines
  <1>3. CASE ~Carries(Url, Engine)
    BY <1>3 DEF Reads
  <1> QED
    BY <1>2, <1>3

LEMMA EngineAttachesFacts ==
  ASSUME RoutingInv, EngineAttaches
  PROVE  RoutingInv' /\ nav'.stack = nav.stack
  <1>1. /\ RoutingTyped /\ Rounds(nav) /\ ~nav.busy /\ engine \in Engines /\ Url \in Seq(Entries)
    BY Before, UrlTyped DEF EngineAttaches, NoRound, RoutingTyped, Url
  <1>2. nav.pos \in Nat
    BY <1>1 DEF Rounds, Histories
  <1>3. /\ Rounds(nav') /\ Same(nav, nav') /\ nav'.rest = nav.rest
        /\ nav'.live = nav.live \cup {EngineToken}
        /\ nav'.before = nav.before \cup (nav.live \X {EngineToken})
    <2>1. EngineToken \in Tokens /\ nav' = Subscribe(nav, EngineToken)
      BY TokenFacts DEF EngineAttaches
    <2> QED
      BY <1>1, <2>1, SubscribeFacts
  <1>4. Carried(nav, nav', {EngineToken}, {})
    BY <1>1, <1>3, SameCarries
  <1>r. PICK r : r = Reads(engine, nav.pos)
    OBVIOUS
  <1>5. /\ r \in Engines
        /\ Carries(Url, Engine) => r.loc = ParamsAt(Url, Engine) /\ r.pos = nav.pos
    BY <1>1, <1>2, <1>r, ReadsFacts
  <1>6. engine' = [r EXCEPT !.on = TRUE]
    BY <1>r DEF EngineAttaches
  <1>7. engine' = [on |-> TRUE, loc |-> r.loc, pos |-> r.pos, own |-> r.own]
    <2>1. r = [on |-> r.on, loc |-> r.loc, pos |-> r.pos, own |-> r.own]
      BY <1>5, EngineTyped
    <2> QED
      BY <1>6, <2>1
  <1>8. engine' \in Engines
    BY <1>5, <1>7, EngineTyped DEF Engines
  <1>9. UrlOf(nav') = Url /\ nav'.pos = nav.pos
    BY <1>3 DEF Same, UrlOf, Url
  <1>10. EngineAfter(nav', engine')
    BY <1>3, <1>5, <1>7, <1>9 DEF EngineAfter
  <1>11. router' = router /\ supplied' = supplied /\ load' \in Loads
    BY <1>1 DEF EngineAttaches, RoutingTyped
  <1>12. RoutingInv'
    BY <1>4, <1>8, <1>10, <1>11, HistoryStep
  <1> QED
    BY <1>3, <1>12 DEF Same

LEMMA EngineDetachesFacts ==
  ASSUME RoutingInv, EngineDetaches
  PROVE  RoutingInv' /\ nav'.stack = nav.stack
  <1>1. /\ RoutingTyped /\ Rounds(nav) /\ ~nav.busy /\ engine \in Engines
    BY Before DEF EngineDetaches, NoRound, RoutingTyped
  <1>2. /\ Rounds(nav') /\ Same(nav, nav') /\ nav'.rest = nav.rest \ {EngineToken}
        /\ nav'.live = nav.live \ {EngineToken}
        /\ \A pair \in nav.before :
             pair[1] \notin {EngineToken} /\ pair[2] \notin {EngineToken} => pair \in nav'.before
    BY <1>1, UnsubscribeFacts DEF EngineDetaches
  <1>3. Carried(nav, nav', {EngineToken}, {})
    BY <1>1, <1>2, SameCarries
  <1>4. engine' = [on |-> FALSE, loc |-> engine.loc, pos |-> engine.pos, own |-> engine.own]
    <2>1. engine = [on |-> engine.on, loc |-> engine.loc, pos |-> engine.pos, own |-> engine.own]
      BY <1>1, EngineTyped
    <2> QED
      BY <2>1 DEF EngineDetaches
  <1>5. engine' \in Engines /\ EngineAfter(nav', engine')
    BY <1>1, <1>4, EngineTyped DEF Engines, EngineAfter
  <1>6. router' = router /\ supplied' = supplied /\ load' \in Loads
    BY <1>1 DEF EngineDetaches, RoutingTyped
  <1>7. RoutingInv'
    BY <1>3, <1>5, <1>6, HistoryStep
  <1> QED
    BY <1>2, <1>7 DEF Same

LEMMA OtherTyped ==
  ASSUME NEW loc  PROVE Other(loc) \in Param
  BY DEF Other, Param

(* The engine rewrites its own entry, and every entry stays. *)
LEMMA EngineWritesFacts ==
  ASSUME RoutingInv, NEW verb \in {"push", "replace"}, EngineWrites(verb)
  PROVE  RoutingInv' /\ \A any : Carries(UrlOf(nav'), any) <=> Carries(Url, any)
  <1>1. /\ RoutingTyped /\ Rounds(nav) /\ EngineAfter(nav, engine) /\ engine \in Engines
        /\ Url \in Seq(Entries)
    BY Before, UrlTyped DEF RoutingTyped, Url
  <1>2. PICK url \in Seq(Entries) : /\ url = WithParams(Url, Engine, Other(engine.loc))
                                   /\ \A any : Carries(url, any) <=> Carries(Url, any)
    <2>1. PICK par \in Param : par = Other(engine.loc)
      BY OtherTyped
    <2> QED
      BY <1>1, <2>1, WithParamsFacts
  <1>3. Navigated(nav, nav', verb) /\ UrlOf(nav') = url
    BY <1>1, <1>2, WriteFacts DEF EngineWrites
  <1>4. /\ Same(nav, nav) /\ nav.rest = nav.rest \ ({} \cup {}) /\ nav.live \ {} \subseteq nav.live
        /\ nav.live \subseteq nav.live \cup {} \cup Copies
    BY DEF Same
  <1>5. Carried(nav, nav', {}, {})
    BY <1>1, <1>3, <1>4, NavigatedCarries
  <1>6. engine' = [on |-> engine.on, loc |-> engine.loc, pos |-> engine.pos, own |-> TRUE]
    <2>1. engine = [on |-> engine.on, loc |-> engine.loc, pos |-> engine.pos, own |-> engine.own]
      BY <1>1, EngineTyped
    <2> QED
      BY <2>1 DEF EngineWrites
  <1>7. engine' \in Engines /\ EngineAfter(nav', engine')
    <2>1. EngineAfter(nav', engine)
      BY <1>1, <1>5, EngineKeeps
    <2> QED
      BY <1>1, <1>6, <2>1, EngineTyped DEF Engines, EngineAfter
  <1>8. router' = router /\ supplied' = supplied /\ load' \in Loads
    BY <1>1 DEF EngineWrites, RoutingTyped
  <1>9. RoutingInv'
    BY <1>5, <1>7, <1>8, HistoryStep
  <1> QED
    BY <1>2, <1>3, <1>9

LEMMA CallEngineFacts ==
  ASSUME RoutingInv, CallEngine
  PROVE  RoutingInv' /\ \A any : Carries(UrlOf(nav'), any) <=> Carries(Url, any)
  <1>1. /\ RoutingTyped /\ Rounds(nav) /\ EngineAfter(nav, engine) /\ engine \in Engines
        /\ Url \in Seq(Entries) /\ nav.busy
    BY Before, UrlTyped DEF RoutingTyped, Url, CallEngine, Calls, Due
  <1>2. nav.note.pos \in Nat
    BY <1>1 DEF Rounds, Histories, Notes
  <1>n. PICK n : n = NextCall(nav, EngineToken)
    OBVIOUS
  <1>e. PICK e : e = Reads(engine, nav.note.pos)
    OBVIOUS
  <1>3. /\ Rounds(n) /\ Same(nav, n) /\ n.rest = nav.rest \ {EngineToken} /\ n.live = nav.live
        /\ n.before = nav.before
    BY <1>1, <1>n, NextCallFacts
  <1>4. /\ e \in Engines /\ e.on = engine.on
        /\ Carries(Url, Engine) => e.loc = ParamsAt(Url, Engine) /\ e.pos = nav.note.pos
    <2>1. PICK pos \in Nat : pos = nav.note.pos
      BY <1>2
    <2>2. e = Reads(engine, pos)
      BY <1>e, <2>1
    <2>3. /\ e \in Engines /\ e.on = engine.on
          /\ Carries(Url, Engine) => e.loc = ParamsAt(Url, Engine) /\ e.pos = pos
      BY <1>1, <2>2, ReadsFacts
    <2> QED
      BY <2>1, <2>3
  <1>5. \/ nav' = n /\ engine' = e
        \/ /\ \E verb \in {"push", "replace"} :
                 nav' = Write(n, WithParams(Url, Engine, Other(e.loc)), verb)
           /\ engine' = [e EXCEPT !.own = FALSE]
    BY <1>n, <1>e DEF CallEngine, Verbs
  <1>6. /\ n.rest = nav.rest \ ({} \cup {EngineToken}) /\ nav.live \ {} \subseteq n.live
        /\ n.live \subseteq nav.live \cup {} \cup Copies
        /\ \A pair \in nav.before : pair \in n.before
    BY <1>3
  <1>7. /\ Carried(nav, nav', {}, {EngineToken}) /\ EngineAfter(nav', engine') /\ engine' \in Engines
        /\ \A any : Carries(UrlOf(nav'), any) <=> Carries(Url, any)
    <2>1. CASE nav' = n /\ engine' = e
      <3>1. Carried(nav, nav', {}, {EngineToken})
        BY <1>1, <1>3, <1>6, <2>1, SameCarries
      <3>2. UrlOf(n) = Url /\ n.pos = nav.pos
        BY <1>3 DEF Same, UrlOf, Url
      <3>3. n.queue = <<>> => n.pos = nav.note.pos
        BY <1>1, <1>3, <3>2 DEF Rounds, Same
      <3>4. engine.on => EngineToken \in n.live
        BY <1>1, <1>3 DEF EngineAfter
      <3> QED
        BY <1>4, <2>1, <3>1, <3>2, <3>3, <3>4 DEF EngineAfter, Unheard
    <2>2. CASE /\ \E verb \in {"push", "replace"} :
                     nav' = Write(n, WithParams(Url, Engine, Other(e.loc)), verb)
               /\ engine' = [e EXCEPT !.own = FALSE]
      <3>v. PICK verb \in {"push", "replace"} :
                   nav' = Write(n, WithParams(Url, Engine, Other(e.loc)), verb)
        BY <2>2
      <3>1. PICK url \in Seq(Entries) : /\ url = WithParams(Url, Engine, Other(e.loc))
                                       /\ \A any : Carries(url, any) <=> Carries(Url, any)
        <4>1. PICK par \in Param : par = Other(e.loc)
          BY OtherTyped
        <4> QED
          BY <1>1, <4>1, WithParamsFacts
      <3>2. Navigated(n, nav', verb) /\ UrlOf(nav') = url
        BY <1>3, <3>v, <3>1, WriteFacts
      <3>3. Carried(nav, nav', {}, {EngineToken})
        BY <1>1, <1>3, <1>6, <3>2, NavigatedCarries
      <3>4. nav'.queue # <<>> /\ nav'.live = nav.live
        BY <1>1, <1>3, <3>2 DEF Navigated, Same
      <3>5. engine' = [on |-> e.on, loc |-> e.loc, pos |-> e.pos, own |-> FALSE]
        <4>1. e = [on |-> e.on, loc |-> e.loc, pos |-> e.pos, own |-> e.own]
          BY <1>4, EngineTyped
        <4> QED
          BY <2>2, <4>1
      <3>6. engine' \in Engines
        BY <1>4, <3>5, EngineTyped DEF Engines
      <3>7. EngineAfter(nav', engine')
        BY <1>1, <1>4, <3>4, <3>5 DEF EngineAfter, Unheard
      <3> QED
        BY <3>1, <3>2, <3>3, <3>6, <3>7
    <2> QED
      BY <1>5, <2>1, <2>2
  <1>8. router' = router /\ supplied' = supplied /\ load' \in Loads
    BY <1>1 DEF CallEngine, RoutingTyped
  <1>9. \A d \in Routed : RouterToken(Host[d]) \notin {EngineToken}
    BY TokenFacts
  <1>10. RoutingInv'
    BY <1>7, <1>8, <1>9, HistoryStep
  <1> QED
    BY <1>7, <1>10

-----------------------------------------------------------------------------
(* The drain's calls. *)

LEMMA AfterUserChangeFacts ==
  ASSUME NEW d \in Routed, router[d] \in DomainState(d), NEW live \in Seq(Entries)
  PROVE  AfterUserChange(d, live) \in Seq(Extensions[d])
  <1>1. PICK names \in Seq({entry.ext : entry \in Entries}) : names = NamesOfEntries(live)
    <2>1. \A i \in DOMAIN live : live[i].ext \in {entry.ext : entry \in Entries}
      OBVIOUS
    <2>2. NamesOfEntries(live) \in Seq({entry.ext : entry \in Entries})
      BY <2>1 DEF NamesOfEntries
    <2> QED
      BY <2>2
  <1>2. NamesOf(router[d], names) \in Seq(Extensions[d])
    BY NamesOfFacts
  <1>3. NamesOf(router[d], router[d].last) \in Seq(Extensions[d])
    <2>1. PICK last \in Seq(Extensions[d]) : last = router[d].last
      BY DomainTyped
    <2> QED
      BY <2>1, NamesOfFacts
  <1> QED
    BY <1>1, <1>2, <1>3 DEF AfterUserChange

(* What a report leaves, with the write a back or forward step ends in. *)
LEMMA CallObserverFacts ==
  ASSUME RoutingInv, NEW d \in Routed, CallObserver(d)
  PROVE  /\ RoutingInv'
         /\ nav'.at = nav.at /\ Len(nav'.stack) = Len(nav.stack)
         /\ nav'.stack = nav.stack \/ Rewrites(d, Url, UrlOf(nav'))
  <1>1. /\ Rounds(nav) /\ router[d] \in DomainState(d) /\ DomainAfter(d, nav, router[d], supplied)
        /\ load \in Loads /\ Url \in Seq(Entries) /\ nav.busy /\ ObserverToken(d) \in nav.rest
    BY DomainStands, UrlTyped DEF CallObserver, Calls, Due, Url
  <1>2. router[d].on /\ RouterToken(Host[d]) \in nav.live
    BY <1>1 DEF Rounds, DomainAfter
  <1>n. PICK n : n = NextCall(nav, ObserverToken(d))
    OBVIOUS
  <1>3. /\ Rounds(n) /\ Same(nav, n) /\ n.rest = nav.rest \ {ObserverToken(d)} /\ n.live = nav.live
        /\ n.before = nav.before
    BY <1>1, <1>n, NextCallFacts
  <1>w. PICK w : w = Working(d, n, load)
    OBVIOUS
  <1>4. Workable(d, w) /\ w.nav = n /\ w.dom = router[d] /\ w.load = load
    BY <1>1, <1>3, <1>w, WorkingFacts
  <1>v. PICK live \in Seq(Entries) : live = Under(Url, d)
    BY <1>1, UnderFacts
  <1>t. PICK target \in Seq(Extensions[d]) : target = AfterUserChange(d, live)
    BY <1>1, AfterUserChangeFacts
  <1>x. PICK x : x = IF nav.note.kind = "history" /\ ~NothingChanged(w.dom.base, live)
                     THEN WriteEntries(d, w, target, "replace") ELSE w
    OBVIOUS
  <1>5. UrlOf(n) = Url
    BY <1>3 DEF Same, UrlOf, Url
  <1>6. /\ x = [nav |-> x.nav, dom |-> x.dom, load |-> x.load]
        /\ x.dom \in DomainState(d) /\ x.load \in Loads /\ SameDomain(router[d], x.dom)
        /\ Carried(nav, x.nav, {DeferredToken(d)}, {ObserverToken(d)}) /\ Fits(d, x.nav, x.dom)
        /\ x.dom.deferred => \/ Unheard(x.nav, DeferredToken(d))
                             \/ EnclosingAbsent(d, UrlOf(x.nav))
        /\ x.dom.verb = "push" =>
             \/ x.dom.verb = "push" /\ nav.origin # "history"
             \/ x.nav.note.kind = "history" /\ RouterToken(Host[d]) \in x.nav.rest
        /\ x.nav.at = nav.at /\ Len(x.nav.stack) = Len(nav.stack)
        /\ x.nav.stack = nav.stack \/ Rewrites(d, Url, UrlOf(x.nav))
    <2>1. Fits(d, n, router[d]) /\ RouterToken(Host[d]) \in n.live
      BY <1>1, <1>2, <1>3 DEF DomainAfter, Fits
    <2>2. CASE nav.note.kind = "history" /\ ~NothingChanged(w.dom.base, live)
      <3>1. x = WriteEntries(d, w, target, "replace")
        BY <1>x, <2>2
      <3>2. Fits(d, w.nav, w.dom) /\ RouterToken(Host[d]) \in w.nav.live
        BY <1>4, <2>1
      <3>3. /\ x = [nav |-> x.nav, dom |-> x.dom, load |-> x.load]
            /\ x.dom \in DomainState(d) /\ x.load \in Loads /\ SameDomain(w.dom, x.dom)
            /\ Carried(w.nav, x.nav, {DeferredToken(d)}, {}) /\ Fits(d, x.nav, x.dom)
            /\ x.dom.deferred => EnclosingAbsent(d, UrlOf(x.nav))
            /\ x.dom.verb # "push"
            /\ x.nav.at = w.nav.at /\ Len(x.nav.stack) = Len(w.nav.stack)
            /\ x.nav.stack = w.nav.stack \/ Rewrites(d, UrlOf(w.nav), UrlOf(x.nav))
        BY <1>4, <3>1, <3>2, WriteEntriesFacts
      <3>4. Carried(nav, x.nav, {DeferredToken(d)}, {ObserverToken(d)})
        <4>1. /\ nav.rest \ {ObserverToken(d)} \subseteq n.rest /\ nav.live \subseteq n.live
              /\ n.live \subseteq nav.live \cup Copies /\ nav.before \subseteq n.before
          BY <1>3
        <4>2. Carried(n, x.nav, {DeferredToken(d)}, {})
          BY <1>4, <3>3
        <4> QED
          BY <1>1, <1>3, <4>1, <4>2, CarriedAfter
      <3>5. n.at = nav.at /\ n.stack = nav.stack
        BY <1>3 DEF Same
      <3> QED
        BY <1>4, <1>5, <3>3, <3>4, <3>5
    <2>3. CASE ~(nav.note.kind = "history" /\ ~NothingChanged(w.dom.base, live))
      <3>1. x = w
        BY <1>x, <2>3
      <3>2. Carried(nav, n, {DeferredToken(d)}, {ObserverToken(d)})
        <4>1. /\ nav.rest \ ({DeferredToken(d)} \cup {ObserverToken(d)}) \subseteq n.rest
              /\ nav.live \ {DeferredToken(d)} \subseteq n.live
              /\ n.live \subseteq nav.live \cup {DeferredToken(d)} \cup Copies
              /\ \A pair \in nav.before : pair \in n.before
          BY <1>3
        <4> QED
          BY <1>1, <1>3, <4>1, SameCarries
      <3>3. router[d].deferred => \/ Unheard(n, DeferredToken(d))
                                  \/ EnclosingAbsent(d, UrlOf(n))
        <4>1. DeferredToken(d) # ObserverToken(d)
          BY TokenFacts
        <4> QED
          BY <1>1, <1>3, <1>5, <4>1 DEF DomainAfter, Unheard, Same, EnclosingAbsent, Url
      <3>4. router[d].verb = "push" =>
              \/ nav.origin # "history"
              \/ n.note.kind = "history" /\ RouterToken(Host[d]) \in n.rest
        <4>1. RouterToken(Host[d]) # ObserverToken(d)
          BY TokenFacts
        <4> QED
          BY <1>1, <1>3, <4>1 DEF DomainAfter, Same
      <3>5. n.at = nav.at /\ n.stack = nav.stack
        BY <1>3 DEF Same
      <3>6. w = [nav |-> w.nav, dom |-> w.dom, load |-> w.load] /\ SameDomain(w.dom, w.dom)
        BY <1>4 DEF Workable, SameDomain
      <3> QED
        BY <1>1, <1>4, <2>1, <3>1, <3>2, <3>3, <3>4, <3>5, <3>6
    <2> QED
      BY <2>2, <2>3
  <1>r. PICK r : r = x.dom
    OBVIOUS
  <1>s. PICK s : s = [r EXCEPT !.base = live]
    OBVIOUS
  <1>7. s = [admitted |-> r.admitted, recorded |-> r.recorded, names |-> r.names, on |-> r.on,
             base |-> live, last |-> r.last, deferred |-> r.deferred, target |-> r.target,
             verb |-> r.verb]
    <2>1. r = [admitted |-> r.admitted, recorded |-> r.recorded, names |-> r.names, on |-> r.on,
               base |-> r.base, last |-> r.last, deferred |-> r.deferred,
               target |-> r.target, verb |-> r.verb]
      BY <1>6, <1>r, DomainTyped
    <2> QED
      BY <2>1, <1>s
  <1>8. s \in DomainState(d)
    BY <1>6, <1>r, <1>7, DomainTyped DEF DomainState
  <1>9. nav' = x.nav /\ load' = x.load /\ router' = [router EXCEPT ![d] = s]
    <2>y. PICK y : y = [x EXCEPT !.dom.base = live]
      OBVIOUS
    <2>1. Commits(d, y)
      BY <1>n, <1>w, <1>v, <1>t, <1>x, <2>y DEF CallObserver
    <2>2. y = [nav |-> x.nav, dom |-> s, load |-> x.load]
      <3>1. y = [[nav |-> x.nav, dom |-> r, load |-> x.load] EXCEPT !.dom.base = live]
        BY <1>6, <1>r, <2>y
      <3> QED
        BY <1>s, <3>1
    <2> QED
      BY <2>1, <2>2 DEF Commits
  <1>10. supplied' = supplied /\ engine' = engine
    BY DEF CallObserver
  <1>m. PICK m : m = x.nav
    OBVIOUS
  <1>11. DomainAfter(d, m, s, supplied)
    <2>1. /\ ObserverToken(d) \notin Copies /\ ObserverToken(d) # DeferredToken(d)
          /\ RouterToken(Host[d]) # DeferredToken(d)
      BY TokenFacts
    <2>2. /\ s.on /\ ObserverToken(d) \in m.live /\ RouterToken(Host[d]) \in m.live
      <3>1. s.on
        BY <1>2, <1>6, <1>r, <1>7 DEF SameDomain
      <3>2. ObserverToken(d) \in nav.live
        BY <1>1 DEF Rounds
      <3> QED
        BY <1>2, <1>6, <1>m, <2>1, <3>1, <3>2 DEF Carried
    <2>3. Unheard(m, ObserverToken(d)) \/ s.base = Under(UrlOf(m), d)
      BY <1>6, <1>m, <1>v, <1>7, <2>2 DEF Carried, Url
    <2>4. Fits(d, m, s)
      BY <1>6, <1>m, <1>r, <1>7 DEF Fits
    <2>5. s.deferred => \/ Unheard(m, DeferredToken(d))
                        \/ Host[d] \in supplied /\ ~Carries(UrlOf(m), Host[d])
      BY <1>6, <1>m, <1>r, <1>7 DEF EnclosingAbsent
    <2>6. m.busy /\ m.origin = "history" /\ s.verb = "push"
            => m.note.kind = "history" /\ RouterToken(Host[d]) \in m.rest
      <3>1. m.origin = nav.origin
        BY <1>1, <1>6, <1>m DEF Carried
      <3> QED
        BY <1>6, <1>m, <1>r, <1>7, <3>1
    <2>7. s.recorded <=> s.admitted /\ Host[d] \in supplied
      BY <1>1, <1>6, <1>r, <1>7 DEF DomainAfter, SameDomain
    <2> QED
      BY <2>2, <2>3, <2>4, <2>5, <2>6, <2>7 DEF DomainAfter
  <1>12. RoutingInv'
    <2>1. /\ Carried(nav, nav', {DeferredToken(d)}, {ObserverToken(d)}) /\ load' \in Loads
          /\ DomainAfter(d, nav', s, supplied)
      BY <1>6, <1>9, <1>m, <1>11
    <2>2. /\ {DeferredToken(d)} \subseteq {ObserverToken(d), DeferredToken(d)}
          /\ {ObserverToken(d)} \subseteq {ObserverToken(d), DeferredToken(d)}
      OBVIOUS
    <2> QED
      BY <1>8, <1>9, <1>10, <2>1, <2>2, DomainStep
  <1> QED
    BY <1>6, <1>9, <1>12

(* A deferred write goes out as the navigation it was asked to be. *)
LEMMA ProjectVerb ==
  ASSUME NEW d, NEW w, NEW target, NEW verb, NEW v,
         v = IF verb = "push" THEN "push" ELSE "replace"
  PROVE  Project(d, w, target, verb) = Project(d, w, target, v)
  <1>1. \A n, url : Write(n, url, verb) = Write(n, url, v)
    BY DEF Write
  <1> QED
    BY <1>1 DEF Project

(* A deferred write is never a push while a back or forward step is under way. *)
LEMMA NoPushIsDue ==
  ASSUME RoutingInv, NEW d \in Routed, Calls(DeferredToken(d)), nav.origin = "history"
  PROVE  router[d].verb # "push"
  <1>1. /\ Rounds(nav) /\ DomainAfter(d, nav, router[d], supplied)
        /\ nav.busy /\ DeferredToken(d) \in nav.rest
        /\ \A other \in nav.rest : <<other, DeferredToken(d)>> \notin nav.before
    BY DomainStands DEF Calls, Due
  <1>2. DeferredToken(d) \in nav.live
    BY <1>1 DEF Rounds
  <1> QED
    BY <1>1, <1>2 DEF DomainAfter, Fits

(* What a deferred write's call leaves. *)
LEMMA CallDeferredFacts ==
  ASSUME RoutingInv, NEW d \in Routed, CallDeferred(d)
  PROVE  /\ RoutingInv'
         /\ nav.origin = "history" => nav'.at = nav.at /\ Len(nav'.stack) = Len(nav.stack)
         /\ nav'.stack = nav.stack \/ Rewrites(d, Url, UrlOf(nav'))
  <1>1. /\ Rounds(nav) /\ router[d] \in DomainState(d) /\ DomainAfter(d, nav, router[d], supplied)
        /\ load \in Loads /\ Url \in Seq(Entries) /\ nav.busy /\ DeferredToken(d) \in nav.rest
        /\ Calls(DeferredToken(d))
    BY DomainStands, UrlTyped DEF CallDeferred, Calls, Due, Url
  <1>2. /\ DeferredToken(d) \in nav.live /\ router[d].deferred
        /\ RouterToken(Host[d]) \in nav.live
    BY <1>1 DEF Rounds, DomainAfter, Fits
  <1>3. nav.origin = "history" => router[d].verb # "push"
    BY <1>1, NoPushIsDue
  <1>n. PICK n : n = NextCall(nav, DeferredToken(d))
    OBVIOUS
  <1>4. /\ Rounds(n) /\ Same(nav, n) /\ n.rest = nav.rest \ {DeferredToken(d)} /\ n.live = nav.live
        /\ n.before = nav.before
    BY <1>1, <1>n, NextCallFacts
  <1>w. PICK w : w = Working(d, n, load)
    OBVIOUS
  <1>5. Workable(d, w) /\ w.nav = n /\ w.dom = router[d] /\ w.load = load
    BY <1>1, <1>4, <1>w, WorkingFacts
  <1>t. PICK target \in Seq(Extensions[d]) : target = router[d].target
    BY <1>1, DomainTyped
  <1>v. PICK v \in {"push", "replace"} : v = IF router[d].verb = "push" THEN "push" ELSE "replace"
    OBVIOUS
  <1>y. PICK y : y = Cancel(d, w)
    OBVIOUS
  <1>x. PICK x : x = IF EnclosingAbsent(d, Url) THEN w
                     ELSE IF Shows(NamesUnder(Url, d), w.dom.target) THEN y
                     ELSE Project(d, y, w.dom.target, w.dom.verb)
    OBVIOUS
  <1>6. nav' = x.nav /\ load' = x.load /\ router' = [router EXCEPT ![d] = x.dom]
    <2>1. Commits(d, x)
      BY <1>n, <1>w, <1>y, <1>x DEF CallDeferred
    <2> QED
      BY <2>1 DEF Commits
  <1>7. UrlOf(n) = Url /\ n.at = nav.at /\ n.stack = nav.stack
    BY <1>4 DEF Same, UrlOf, Url
  <1>8. /\ Workable(d, y) /\ y.load = w.load
        /\ ~y.dom.deferred /\ DeferredToken(d) \notin y.nav.live /\ y.dom.verb # "push"
        /\ SameDomain(w.dom, y.dom)
        /\ Same(n, y.nav) /\ y.nav.rest = n.rest \ {DeferredToken(d)}
        /\ y.nav.live = n.live \ {DeferredToken(d)}
        /\ \A pair \in n.before :
             pair[1] # DeferredToken(d) /\ pair[2] # DeferredToken(d) => pair \in y.nav.before
    <2>1. w.dom.deferred /\ DeferredToken(d) \in w.nav.live
      BY <1>2, <1>4, <1>5
    <2> QED
      BY <1>5, <1>y, <2>1, CancelFacts
  <1> DEFINE T == {DeferredToken(d)}
  <1>9. Rounds(y.nav) /\ y.dom \in DomainState(d) /\ y.load \in Loads
    BY <1>8 DEF Workable
  <1>10. /\ Same(nav, y.nav) /\ y.nav.rest = nav.rest \ (T \cup T)
         /\ nav.live \ T \subseteq y.nav.live /\ y.nav.live \subseteq nav.live \cup T \cup Copies
         /\ \A pair \in nav.before : pair[1] \notin T /\ pair[2] \notin T => pair \in y.nav.before
    BY <1>4, <1>8 DEF Same
  <1>11. /\ x.dom \in DomainState(d) /\ x.load \in Loads /\ SameDomain(router[d], x.dom)
         /\ Carried(nav, x.nav, T, T) /\ Fits(d, x.nav, x.dom)
         /\ x.dom.deferred => EnclosingAbsent(d, UrlOf(x.nav))
         /\ x.dom.verb = "push" => nav.origin # "history"
         /\ nav.origin = "history" => x.nav.at = nav.at /\ Len(x.nav.stack) = Len(nav.stack)
         /\ x.nav.stack = nav.stack \/ Rewrites(d, Url, UrlOf(x.nav))
    <2>1. CASE EnclosingAbsent(d, Url)
      <3>1. x = w
        BY <1>x, <2>1
      <3>2. /\ nav.rest \ (T \cup T) \subseteq n.rest /\ nav.live \ T \subseteq n.live
            /\ n.live \subseteq nav.live \cup T \cup Copies
            /\ \A pair \in nav.before : pair \in n.before
        BY <1>4
      <3>3. Carried(nav, n, T, T)
        BY <1>1, <1>4, <3>2, SameCarries
      <3>4. Fits(d, n, router[d])
        BY <1>1, <1>4 DEF DomainAfter, Fits
      <3>5. SameDomain(router[d], router[d])
        BY DEF SameDomain
      <3> HIDE DEF T
      <3> QED
        BY <1>1, <1>3, <1>5, <1>7, <2>1, <3>1, <3>3, <3>4, <3>5
    <2>2. CASE ~EnclosingAbsent(d, Url) /\ Shows(NamesUnder(Url, d), w.dom.target)
      <3>1. x = y
        BY <1>x, <2>2
      <3>2. Carried(nav, y.nav, T, T)
        <4>1. nav.rest \ (T \cup T) \subseteq y.nav.rest
          BY <1>10
        <4> HIDE DEF T
        <4> QED
          BY <1>1, <1>9, <1>10, <4>1, SameCarries
      <3>3. Fits(d, y.nav, y.dom)
        BY <1>8 DEF Fits
      <3>4. y.nav.at = nav.at /\ y.nav.stack = nav.stack
        BY <1>10 DEF Same
      <3> HIDE DEF T
      <3> QED
        BY <1>5, <1>8, <1>9, <3>1, <3>2, <3>3, <3>4
    <2>3. CASE ~EnclosingAbsent(d, Url) /\ ~Shows(NamesUnder(Url, d), w.dom.target)
      <3>1. x = Project(d, y, target, v)
        <4>1. x = Project(d, y, target, router[d].verb)
          BY <1>5, <1>x, <1>t, <2>3
        <4> QED
          BY <1>v, <4>1, ProjectVerb
      <3>2. /\ x = [nav |-> x.nav, dom |-> y.dom, load |-> x.load] /\ x.load \in Loads
            /\ Navigated(y.nav, x.nav, v)
            /\ v = "replace" => x.nav.at = y.nav.at /\ Len(x.nav.stack) = Len(y.nav.stack)
            /\ Rewrites(d, UrlOf(y.nav), UrlOf(x.nav))
        BY <1>8, <3>1, ProjectFacts
      <3>3. Carried(nav, x.nav, T, T)
        <4> HIDE DEF T
        <4> QED
          BY <1>1, <1>10, <3>2, NavigatedCarries
      <3>4. Fits(d, x.nav, y.dom) /\ x.dom = y.dom
        BY <1>8, <3>2 DEF Fits, Navigated
      <3>5. /\ nav.origin = "history" => x.nav.at = nav.at /\ Len(x.nav.stack) = Len(nav.stack)
            /\ UrlOf(y.nav) = Url
        BY <1>3, <1>v, <1>10, <3>2 DEF Same, UrlOf, Url
      <3> HIDE DEF T
      <3> QED
        BY <1>5, <1>8, <1>9, <3>2, <3>3, <3>4, <3>5
    <2> QED
      BY <2>1, <2>2, <2>3
  <1>12. supplied' = supplied /\ engine' = engine
    BY DEF CallDeferred
  <1>m. PICK m : m = x.nav
    OBVIOUS
  <1>s. PICK s : s = x.dom
    OBVIOUS
  <1>13. DomainAfter(d, m, s, supplied)
    <2>1. /\ ObserverToken(d) \notin Copies /\ ObserverToken(d) # DeferredToken(d)
          /\ RouterToken(Host[d]) # DeferredToken(d)
      BY TokenFacts
    <2>2. /\ s.on <=> ObserverToken(d) \in m.live
          /\ RouterToken(Host[d]) \in m.live
      BY <1>1, <1>2, <1>11, <1>m, <1>s, <2>1 DEF Carried, DomainAfter, SameDomain
    <2>3. s.on => Unheard(m, ObserverToken(d)) \/ s.base = Under(UrlOf(m), d)
      <3>1. s.on => ObserverToken(d) \in nav.live \ (T \cup T)
        BY <1>1, <1>11, <1>s, <2>1 DEF DomainAfter, SameDomain
      <3>2. s.on => Unheard(nav, ObserverToken(d)) \/ s.base = Under(UrlOf(nav), d)
        BY <1>1, <1>11, <1>s DEF DomainAfter, SameDomain
      <3>3. Carried(nav, m, T, T)
        BY <1>11, <1>m
      <3> HIDE DEF T
      <3> QED
        BY <2>2, <3>1, <3>2, <3>3 DEF Carried
    <2>4. Fits(d, m, s)
      BY <1>11, <1>m, <1>s
    <2>5. s.deferred => Host[d] \in supplied /\ ~Carries(UrlOf(m), Host[d])
      BY <1>11, <1>m, <1>s DEF EnclosingAbsent
    <2>6. m.busy /\ m.origin = "history" => s.verb # "push"
      BY <1>1, <1>11, <1>m, <1>s DEF Carried
    <2>7. s.recorded <=> s.admitted /\ Host[d] \in supplied
      BY <1>1, <1>11, <1>s DEF DomainAfter, SameDomain
    <2> QED
      BY <2>2, <2>3, <2>4, <2>5, <2>6, <2>7 DEF DomainAfter
  <1>14. RoutingInv'
    <2>1. /\ Carried(nav, nav', T, T) /\ load' \in Loads /\ DomainAfter(d, nav', s, supplied)
          /\ s \in DomainState(d) /\ router' = [router EXCEPT ![d] = s]
      BY <1>6, <1>11, <1>13, <1>m, <1>s
    <2>2. T \subseteq {ObserverToken(d), DeferredToken(d)}
      OBVIOUS
    <2> HIDE DEF T
    <2> QED
      BY <1>12, <2>1, <2>2, DomainStep
  <1> QED
    BY <1>6, <1>11, <1>14

(* The call of a router copy ends what its runtime has deferred, when the step is the user's. *)
LEMMA CallRouterFacts ==
  ASSUME RoutingInv, NEW h \in Runtime, CallRouter(h)
  PROVE  RoutingInv' /\ nav'.stack = nav.stack
  <1>1. /\ RoutingTyped /\ Rounds(nav) /\ EngineAfter(nav, engine) /\ load \in Loads
        /\ \A k \in Routed : DomainAfter(k, nav, router[k], supplied)
        /\ nav.busy /\ supplied' = supplied /\ engine' = engine /\ engine \in Engines
    BY Before DEF RoutingTyped, CallRouter, Calls, Due
  <1>n. PICK n : n = NextCall(nav, RouterToken(h))
    OBVIOUS
  <1>2. /\ Rounds(n) /\ Same(nav, n) /\ n.rest = nav.rest \ {RouterToken(h)} /\ n.live = nav.live
        /\ n.before = nav.before
    BY <1>1, <1>n, NextCallFacts
  <1>C. PICK C : C = {RouterToken(h)}
    OBVIOUS
  <1>3. RouterToken(h) \in Copies
    BY DEF Copies
  <1>4. CASE nav.note.kind # "history"
    <2>1. nav' = n /\ router' = router /\ load' = load
      BY <1>4, <1>n DEF CallRouter
    <2>2. Carried(nav, nav', {}, C)
      <3>1. /\ nav.rest \ ({} \cup C) \subseteq n.rest /\ nav.live \ {} \subseteq n.live
            /\ n.live \subseteq nav.live \cup {} \cup Copies /\ \A pair \in nav.before : pair \in n.before
        BY <1>2, <1>C
      <3> QED
        BY <1>1, <1>2, <2>1, <3>1, SameCarries
    <2>3. EngineAfter(nav', engine')
      <3>1. EngineToken \notin {} \cup C
        BY <1>3, <1>C, TokenFacts
      <3> QED
        BY <1>1, <2>2, <3>1, EngineKeeps
    <2>4. \A d \in Routed : RouterToken(Host[d]) \in C
                              => router[d].verb # "push" \/ (nav.busy /\ nav.origin # "history")
      BY <1>1, <1>4 DEF DomainAfter
    <2>5. {} \subseteq {EngineToken} /\ C \subseteq Copies \cup {EngineToken}
      BY <1>3, <1>C
    <2>6. RoutingInv'
      BY <1>1, <2>1, <2>2, <2>3, <2>4, <2>5, HistoryStep
    <2> QED
      BY <1>2, <2>1, <2>6 DEF Same
  <1>5. CASE nav.note.kind = "history"
    <2>w. PICK waiting : waiting = {d \in OfRuntime(h) : router[d].deferred}
      OBVIOUS
    <2>T. PICK T : T = {DeferredToken(d) : d \in waiting}
      OBVIOUS
    <2>1. /\ nav' = Unsubscribe(n, T) /\ load' = Discard(load)
          /\ router' = [d \in Routed |->
                          IF d \in waiting THEN NothingDeferred(router[d]) ELSE router[d]]
      BY <1>5, <1>n, <2>w, <2>T DEF CallRouter
    <2>2. /\ Rounds(nav') /\ Same(n, nav') /\ nav'.rest = n.rest \ T /\ nav'.live = n.live \ T
          /\ \A pair \in n.before : pair[1] \notin T /\ pair[2] \notin T => pair \in nav'.before
      BY <1>2, <2>1, UnsubscribeFacts
    <2>3. Carried(nav, nav', T, C)
      <3>1. Same(nav, nav')
        BY <1>2, <2>2 DEF Same
      <3>2. /\ nav.rest \ (T \cup C) \subseteq nav'.rest /\ nav.live \ T \subseteq nav'.live
            /\ nav'.live \subseteq nav.live \cup T \cup Copies
            /\ \A pair \in nav.before : pair[1] \notin T /\ pair[2] \notin T => pair \in nav'.before
        BY <1>2, <1>C, <2>2
      <3> QED
        BY <1>1, <2>2, <3>1, <3>2, SameCarries
    <2>4. /\ EngineToken \notin T /\ EngineToken \notin C
          /\ \A k \in Routed : /\ ObserverToken(k) \notin T \cup C
                               /\ RouterToken(Host[k]) \notin T
                               /\ DeferredToken(k) \notin C
                               /\ DeferredToken(k) \in T <=> k \in waiting
                               /\ RouterToken(Host[k]) \in C => Host[k] = h
      <3>1. waiting \subseteq Routed
        BY <2>w DEF OfRuntime
      <3>2. EngineToken \notin T /\ EngineToken \notin C
        BY <1>3, <1>C, <2>T, <3>1, TokenFacts
      <3>3. ASSUME NEW k \in Routed
            PROVE  /\ ObserverToken(k) \notin T \cup C /\ RouterToken(Host[k]) \notin T
                   /\ DeferredToken(k) \notin C /\ (DeferredToken(k) \in T <=> k \in waiting)
        BY <1>3, <1>C, <2>T, <3>1, TokenFacts
      <3>4. \A k \in Routed : RouterToken(Host[k]) \in C => Host[k] = h
        BY <1>C DEF RouterToken
      <3> QED
        BY <3>2, <3>3, <3>4
    <2>5. ASSUME NEW k \in Routed
          PROVE  router'[k] \in DomainState(k) /\ DomainAfter(k, nav', router'[k], supplied')
      <3>1. router[k] \in DomainState(k) /\ DomainAfter(k, nav, router[k], supplied)
        BY <1>1 DEF RoutingTyped
      <3>2. CASE k \in waiting
        <4>s. PICK s : s = NothingDeferred(router[k])
          OBVIOUS
        <4>1. router'[k] = s
          BY <2>1, <3>2, <4>s
        <4>2. s \in DomainState(k) /\ SameDomain(router[k], s) /\ ~s.deferred /\ s.verb = "none"
          BY <3>1, <4>s, NothingDeferredFacts
        <4>3. ObserverToken(k) \notin Copies /\ ObserverToken(k) \notin T \cup C
          BY <2>4, TokenFacts
        <4>4. s.on <=> ObserverToken(k) \in nav'.live
          BY <2>3, <3>1, <4>2, <4>3 DEF DomainAfter, Carried, SameDomain
        <4>5. s.on => Unheard(nav', ObserverToken(k)) \/ s.base = Under(UrlOf(nav'), k)
          BY <2>3, <3>1, <4>2, <4>3, <4>4 DEF DomainAfter, Carried, SameDomain
        <4>6. DeferredToken(k) \notin nav'.live
          BY <2>2, <2>4, <3>2
        <4>7. s.on => RouterToken(Host[k]) \in nav'.live
          BY <2>3, <2>4, <3>1, <4>2 DEF DomainAfter, Carried, SameDomain
        <4>8. s.recorded <=> s.admitted /\ Host[k] \in supplied
          BY <3>1, <4>2 DEF DomainAfter, SameDomain
        <4>9. DomainAfter(k, nav', s, supplied)
          BY <4>2, <4>4, <4>5, <4>6, <4>7, <4>8 DEF DomainAfter, Fits
        <4> QED
          BY <1>1, <4>1, <4>2, <4>9
      <3>3. CASE k \notin waiting
        <4>1. router'[k] = router[k]
          BY <2>1, <3>3
        <4>2. RouterToken(Host[k]) \in C => router[k].verb # "push"
          <5>1. Host[k] = h => ~router[k].deferred
            BY <2>w, <3>3 DEF OfRuntime
          <5> QED
            BY <2>4, <3>1, <5>1 DEF DomainAfter, Fits
        <4>3. /\ ObserverToken(k) \notin T \cup C /\ DeferredToken(k) \notin T \cup C
              /\ RouterToken(Host[k]) \notin T
          BY <2>4, <3>3
        <4>4. /\ router[k].recorded => router[k].admitted /\ Host[k] \in supplied
              /\ router[k].admitted /\ Host[k] \in supplied => router[k].recorded
          BY <3>1 DEF DomainAfter
        <4>5. DomainAfter(k, nav', router[k], supplied)
          BY <1>1, <2>3, <3>1, <4>2, <4>3, <4>4, OthersKeep
        <4> QED
          BY <1>1, <3>1, <4>1, <4>5
      <3> QED
        BY <3>2, <3>3
    <2>6. EngineAfter(nav', engine')
      BY <1>1, <2>3, <2>4, EngineKeeps
    <2>7. load' \in Loads
      <3>1. <<>> \in Seq(Entries)
        OBVIOUS
      <3> QED
        BY <1>1, <2>1, <3>1, LoadFacts
    <2>8. router' = [d \in Routed |-> router'[d]]
      BY <2>1
    <2>9. RoutingInv'
      BY <1>1, <2>2, <2>5, <2>6, <2>7, <2>8, After
    <2> QED
      BY <1>2, <2>2, <2>9 DEF Same
  <1> QED
    BY <1>4, <1>5

(* The round is over and the next one, or none, begins: what was heard of stays heard. *)
LEMMA RoundsPass ==
  ASSUME RoutingInv, NEW m, Rounds(m), m.live = nav.live, m.before = nav.before,
         m.stack = nav.stack, m.at = nav.at, m.pos = nav.pos, m.busy => m.origin = nav.origin,
         nav' = m, router' = router,
         supplied' = supplied, load' \in Loads, engine' \in Engines, RoundIsOver(nav),
         engine'.on = engine.on, engine'.loc = engine.loc, engine'.pos = engine.pos,
         (\A t \in nav.live : Unheard(m, t)) \/ nav.queue = <<>>
  PROVE  RoutingInv' /\ nav'.stack = nav.stack
  <1>1. /\ RoutingTyped /\ Rounds(nav) /\ EngineAfter(nav, engine)
        /\ \A k \in Routed : DomainAfter(k, nav, router[k], supplied)
        /\ nav.busy /\ nav.rest = {} /\ ~nav.lost
    BY Before DEF RoundIsOver, Rounds
  <1>2. UrlOf(m) = UrlOf(nav)
    BY DEF UrlOf
  <1>3. \A t \in nav.live : Unheard(nav, t) => Unheard(m, t)
    BY <1>1 DEF Unheard
  <1>4. ASSUME NEW k \in Routed  PROVE DomainAfter(k, m, router[k], supplied)
    <2>1. DomainAfter(k, nav, router[k], supplied)
      BY <1>1
    <2>2. m.origin = "history" /\ m.busy => router[k].verb # "push"
      BY <1>1, <2>1 DEF DomainAfter
    <2> QED
      BY <1>2, <1>3, <2>1, <2>2 DEF DomainAfter, Fits
  <1>5. EngineAfter(m, engine')
    BY <1>1, <1>2, <1>3 DEF EngineAfter
  <1>6. router' = [k \in Routed |-> router'[k]] /\ \A k \in Routed : router'[k] \in DomainState(k)
    BY <1>1 DEF RoutingTyped
  <1> QED
    BY <1>4, <1>5, <1>6, After

LEMMA HistoryTyped ==
  ASSUME NEW n \in Histories
  PROVE  /\ n = [stack |-> n.stack, at |-> n.at, pos |-> n.pos, live |-> n.live, before |-> n.before,
                 busy |-> n.busy, note |-> n.note, rest |-> n.rest, queue |-> n.queue,
                 drained |-> n.drained, origin |-> n.origin, lost |-> n.lost]
         /\ n.stack \in Seq(Items) /\ n.at \in Nat /\ n.pos \in Nat /\ n.live \in SUBSET Tokens
         /\ n.before \in SUBSET (Tokens \X Tokens) /\ n.busy \in BOOLEAN /\ n.note \in Notes
         /\ n.rest \in SUBSET Tokens /\ n.queue \in Seq(Notes) /\ n.drained \in Nat
         /\ n.origin \in Kinds /\ n.lost \in BOOLEAN
  BY DEF Histories

LEMMA EndedFacts ==
  ASSUME NEW n, Rounds(n), n.rest = {}, NEW m, m = Ended(n)
  PROVE  m = [stack |-> n.stack, at |-> n.at, pos |-> n.pos, live |-> n.live, before |-> n.before,
              busy |-> FALSE, note |-> Notification("none", 0), rest |-> {}, queue |-> n.queue,
              drained |-> 0, origin |-> "none", lost |-> n.lost]
  <1>1. n = [stack |-> n.stack, at |-> n.at, pos |-> n.pos, live |-> n.live, before |-> n.before,
             busy |-> n.busy, note |-> n.note, rest |-> n.rest, queue |-> n.queue,
             drained |-> n.drained, origin |-> n.origin, lost |-> n.lost]
    BY HistoryTyped DEF Rounds
  <1> QED
    BY <1>1 DEF Ended

LEMMA NextRoundFacts ==
  ASSUME RoutingInv, NextRound
  PROVE  RoutingInv' /\ nav'.stack = nav.stack
  <1>1. /\ RoutingTyped /\ Rounds(nav) /\ RoundIsOver(nav) /\ nav.queue # <<>>
        /\ nav.busy /\ nav.rest = {}
    BY Before DEF NextRound, RoundIsOver
  <1>2. nav \in Histories /\ nav.queue \in Seq(Notes)
    BY <1>1, HistoryTyped DEF Rounds
  <1>n. PICK n : n = nav
    OBVIOUS
  <1>h. PICK note \in Notes : note = Head(n.queue)
    BY <1>1, <1>2, <1>n
  <1>q. PICK later \in Seq(Notes) : /\ later = Tail(n.queue) /\ Len(later) = Len(n.queue) - 1
                                    /\ \A i \in 1..Len(later) : later[i] = n.queue[i + 1]
    <2>1. PICK waiting \in Seq(Notes) : waiting = n.queue /\ waiting # <<>>
      BY <1>1, <1>2, <1>n
    <2>2. /\ Tail(waiting) \in Seq(Notes) /\ Len(Tail(waiting)) = Len(waiting) - 1
          /\ \A i \in 1..Len(Tail(waiting)) : Tail(waiting)[i] = waiting[i + 1]
      BY <2>1
    <2> QED
      BY <2>1, <2>2
  <1>k. PICK k : k = [n EXCEPT !.note = note, !.rest = n.live]
    OBVIOUS
  <1>m. PICK m : m = [k EXCEPT !.queue = later, !.drained = n.drained + 1]
    OBVIOUS
  <1>3. k = [stack |-> n.stack, at |-> n.at, pos |-> n.pos, live |-> n.live, before |-> n.before,
             busy |-> n.busy, note |-> note, rest |-> n.live, queue |-> n.queue,
             drained |-> n.drained, origin |-> n.origin, lost |-> n.lost]
    <2>1. n = [stack |-> n.stack, at |-> n.at, pos |-> n.pos, live |-> n.live, before |-> n.before,
               busy |-> n.busy, note |-> n.note, rest |-> n.rest, queue |-> n.queue,
               drained |-> n.drained, origin |-> n.origin, lost |-> n.lost]
      BY <1>2, <1>n, HistoryTyped
    <2> QED
      BY <1>k, <2>1
  <1>4. m = [stack |-> n.stack, at |-> n.at, pos |-> n.pos, live |-> n.live, before |-> n.before,
             busy |-> n.busy, note |-> note, rest |-> n.live, queue |-> later,
             drained |-> n.drained + 1, origin |-> n.origin, lost |-> n.lost]
    BY <1>3, <1>m
  <1>5. nav' = m
    <2>1. nav' = [StartRound(nav, Head(nav.queue)) EXCEPT !.queue = Tail(@), !.drained = @ + 1]
      BY DEF NextRound, ServeQueued
    <2>2. StartRound(nav, Head(nav.queue)) = k
      BY <1>n, <1>h, <1>k DEF StartRound
    <2>3. nav' = [k EXCEPT !.queue = Tail(@), !.drained = @ + 1]
      BY <2>1, <2>2
    <2>4. Tail(k.queue) = later /\ k.drained + 1 = n.drained + 1
      BY <1>3, <1>q
    <2> QED
      BY <1>m, <2>3, <2>4
  <1>6. Rounds(m)
    <2>1. n.drained + 1 \in Nat
      BY <1>2, <1>n, HistoryTyped
    <2>2. m \in Histories
      BY <1>2, <1>n, <1>4, <2>1, HistoryTyped DEF Histories
    <2>3. m.pos = IF m.queue = <<>> THEN m.note.pos ELSE m.queue[Len(m.queue)].pos
      <3>1. n.pos = n.queue[Len(n.queue)].pos
        BY <1>1, <1>n DEF Rounds
      <3>2. CASE later = <<>>
        <4>1. Len(n.queue) = 1
          <5>1. Len(n.queue) \in Nat
            BY <1>2, <1>n
          <5>2. Len(later) = 0
            BY <3>2
          <5> QED
            BY <1>q, <5>1, <5>2
        <4> QED
          BY <1>1, <1>2, <1>n, <1>h, <1>4, <3>1, <3>2, <4>1
      <3>3. CASE later # <<>>
        <4>1. later[Len(later)] = n.queue[Len(n.queue)]
          BY <1>1, <1>2, <1>n, <1>q, <3>3
        <4> QED
          BY <1>4, <3>1, <3>3, <4>1
      <3> QED
        BY <3>2, <3>3
    <2> QED
      BY <1>1, <1>n, <1>4, <2>2, <2>3 DEF Rounds
  <1>7. \A t \in nav.live : Unheard(m, t)
    BY <1>n, <1>4 DEF Unheard
  <1>8. /\ router' = router /\ supplied' = supplied /\ load' \in Loads /\ engine' \in Engines
        /\ engine' = engine
    BY <1>1 DEF NextRound, RoutingTyped
  <1>9. /\ m.live = nav.live /\ m.before = nav.before /\ m.stack = nav.stack /\ m.at = nav.at
        /\ m.pos = nav.pos /\ m.origin = nav.origin
    BY <1>n, <1>4
  <1> QED
    BY <1>1, <1>5, <1>6, <1>7, <1>8, <1>9, RoundsPass

LEMMA NotOwnFacts ==
  ASSUME NEW e \in Engines, NEW m, m = [e EXCEPT !.own = FALSE]
  PROVE  m \in Engines /\ m.on = e.on /\ m.loc = e.loc /\ m.pos = e.pos
  <1>1. e = [on |-> e.on, loc |-> e.loc, pos |-> e.pos, own |-> e.own]
    BY EngineTyped
  <1>2. m = [on |-> e.on, loc |-> e.loc, pos |-> e.pos, own |-> FALSE]
    BY <1>1
  <1> QED
    BY <1>2, EngineTyped DEF Engines

LEMMA DrainEndsFacts ==
  ASSUME RoutingInv, DrainEnds
  PROVE  RoutingInv' /\ nav'.stack = nav.stack
  <1>1. /\ RoutingTyped /\ Rounds(nav) /\ RoundIsOver(nav) /\ nav.queue = <<>> /\ nav.rest = {}
        /\ load \in Loads /\ engine \in Engines /\ nav \in Histories
    BY Before DEF DrainEnds, RoundIsOver, RoutingTyped, Rounds
  <1>n. PICK n : n = nav
    OBVIOUS
  <1>m. PICK m : m = Ended(n)
    OBVIOUS
  <1>2. m = [stack |-> n.stack, at |-> n.at, pos |-> n.pos, live |-> n.live, before |-> n.before,
             busy |-> FALSE, note |-> Notification("none", 0), rest |-> {}, queue |-> n.queue,
             drained |-> 0, origin |-> "none", lost |-> n.lost]
    BY <1>1, <1>n, <1>m, EndedFacts
  <1>3. nav' = m /\ engine' = [engine EXCEPT !.own = FALSE] /\ load' = CallReturns(load)
    BY <1>n, <1>m DEF DrainEnds, Drained
  <1>4. Rounds(m)
    <2>1. m \in Histories
      BY <1>1, <1>n, <1>2, HistoryTyped DEF Histories, Notification, Notes, Kinds
    <2> QED
      BY <1>1, <1>n, <1>2, <2>1 DEF Rounds
  <1>5. load' \in Loads
    <2>1. <<>> \in Seq(Entries)
      OBVIOUS
    <2> QED
      BY <1>1, <1>3, <2>1, LoadFacts
  <1>6. engine' \in Engines /\ engine'.on = engine.on /\ engine'.loc = engine.loc /\ engine'.pos = engine.pos
    BY <1>1, <1>3, NotOwnFacts
  <1>7. /\ m.live = nav.live /\ m.before = nav.before /\ m.stack = nav.stack /\ m.at = nav.at
        /\ m.pos = nav.pos /\ ~m.busy
    BY <1>n, <1>2
  <1>8. router' = router /\ supplied' = supplied
    BY DEF DrainEnds
  <1> QED
    BY <1>1, <1>3, <1>4, <1>5, <1>6, <1>7, <1>8, RoundsPass

LEMMA DrainIsAbandonedFacts ==
  ASSUME RoutingInv, DrainIsAbandoned
  PROVE  RoutingInv' /\ nav'.stack = nav.stack
  <1>1. /\ RoutingTyped /\ Rounds(nav) /\ RoundIsOver(nav) /\ nav.rest = {}
        /\ load \in Loads /\ engine \in Engines /\ nav \in Histories
    BY Before DEF DrainIsAbandoned, RoundIsOver, RoutingTyped, Rounds
  <1>n. PICK n : n = nav
    OBVIOUS
  <1>k. PICK k : k = Ended(n)
    OBVIOUS
  <1>m. PICK m : m = [k EXCEPT !.queue = <<>>, !.lost = TRUE]
    OBVIOUS
  <1>2. m = [stack |-> n.stack, at |-> n.at, pos |-> n.pos, live |-> n.live, before |-> n.before,
             busy |-> FALSE, note |-> Notification("none", 0), rest |-> {}, queue |-> <<>>,
             drained |-> 0, origin |-> "none", lost |-> TRUE]
    <2>1. k = [stack |-> n.stack, at |-> n.at, pos |-> n.pos, live |-> n.live, before |-> n.before,
               busy |-> FALSE, note |-> Notification("none", 0), rest |-> {}, queue |-> n.queue,
               drained |-> 0, origin |-> "none", lost |-> n.lost]
      BY <1>1, <1>n, <1>k, EndedFacts
    <2> QED
      BY <1>m, <2>1
  <1>3. nav' = m /\ engine' = [engine EXCEPT !.own = FALSE] /\ load' = CallThrows(load)
    BY <1>n, <1>k, <1>m DEF DrainIsAbandoned, Abandoned
  <1>4. Rounds(m)
    <2>1. m \in Histories
      <3>1. <<>> \in Seq(Notes)
        OBVIOUS
      <3> QED
        BY <1>1, <1>n, <1>2, <3>1, HistoryTyped DEF Histories, Notification, Notes, Kinds
    <2> QED
      BY <1>1, <1>n, <1>2, <2>1 DEF Rounds
  <1>5. load' \in Loads
    <2>1. <<>> \in Seq(Entries)
      OBVIOUS
    <2> QED
      BY <1>1, <1>3, <2>1, LoadFacts
  <1>6. engine' \in Engines /\ engine'.on = engine.on /\ engine'.loc = engine.loc /\ engine'.pos = engine.pos
    BY <1>1, <1>3, NotOwnFacts
  <1>7. /\ m.live = nav.live /\ m.before = nav.before /\ m.stack = nav.stack /\ m.at = nav.at
        /\ m.pos = nav.pos /\ ~m.busy /\ \A t \in nav.live : Unheard(m, t)
    BY <1>n, <1>2 DEF Unheard
  <1>8. router' = router /\ supplied' = supplied
    BY DEF DrainIsAbandoned
  <1> QED
    BY <1>1, <1>3, <1>4, <1>5, <1>6, <1>7, <1>8, RoundsPass

-----------------------------------------------------------------------------
(* The routers from the start on. *)

(* A page opens typed and with nothing under way. *)
LEMMA OpenedFacts ==
  ASSUME NEW urls \in Sessions, NEW n, n = OpenedOn(urls)
  PROVE  Rounds(n) /\ n.live = {} /\ ~n.busy
  <1>1. urls \in Seq(Seq(Entries)) /\ urls # <<>>
    BY SessionsAssumption
  <1>2. Len(urls) \in Nat /\ Len(urls) # 0 /\ DOMAIN urls = 1..Len(urls)
    BY <1>1
  <1>s. PICK stack : stack = [i \in DOMAIN urls |-> [url |-> urls[i], pos |-> i - 1]]
    OBVIOUS
  <1>3. stack \in Seq(Items) /\ DOMAIN stack = 1..Len(urls)
    <2>1. \A i \in 1..Len(urls) : [url |-> urls[i], pos |-> i - 1] \in Items
      BY <1>1, <1>2 DEF Items
    <2> QED
      BY <1>2, <1>s, <2>1
  <1>4. n = [stack |-> stack, at |-> Len(urls), pos |-> Len(urls) - 1, live |-> {}, before |-> {},
             busy |-> FALSE, note |-> Notification("none", 0), rest |-> {},
             queue |-> <<>>, drained |-> 0, origin |-> "none", lost |-> FALSE]
    BY <1>s DEF OpenedOn
  <1>5. Len(urls) - 1 \in Nat /\ <<>> \in Seq(Notes) /\ Notification("none", 0) \in Notes
    BY <1>2 DEF Notification, Notes, Kinds
  <1>6. n \in Histories
    BY <1>2, <1>3, <1>4, <1>5 DEF Histories, Kinds
  <1>7. n.at \in DOMAIN n.stack
    BY <1>2, <1>3, <1>4
  <1> QED
    BY <1>4, <1>6, <1>7 DEF Rounds

(* The invariant holds when the page opens, and every step keeps it. *)
LEMMA RoutingStarts == RoutingInit => RoutingInv
  <1> SUFFICES ASSUME RoutingInit  PROVE RoutingInv
    OBVIOUS
  <1>1. Rounds(nav) /\ nav.live = {} /\ ~nav.busy
    <2>1. PICK urls \in Sessions : nav = OpenedOn(urls)
      BY DEF RoutingInit
    <2> QED
      BY <2>1, OpenedFacts
  <1>2. router = [d \in Routed |-> router[d]]
    BY DEF RoutingInit
  <1>3. ASSUME NEW d \in Routed
        PROVE  router[d] \in DomainState(d) /\ DomainAfter(d, nav, router[d], supplied)
    <2>1. PICK b \in BOOLEAN : b = (Host[d] \in Adopted)
      <3>1. CASE Host[d] \in Adopted
        <4>1. TRUE = (Host[d] \in Adopted)
          BY <3>1
        <4> QED
          BY <4>1
      <3>2. CASE Host[d] \notin Adopted
        <4>1. FALSE = (Host[d] \in Adopted)
          BY <3>2
        <4> QED
          BY <4>1
      <3> QED
        BY <3>1, <3>2
    <2>2. router[d] = [admitted |-> TRUE, recorded |-> b, names |-> Extensions[d], on |-> FALSE,
                       base |-> <<>>, last |-> <<>>, deferred |-> FALSE, target |-> <<>>,
                       verb |-> "none"]
      <3>1. router[d] = [NotAdmitted EXCEPT !.admitted = TRUE, !.names = Extensions[d],
                                            !.recorded = b]
        BY <2>1 DEF RoutingInit
      <3> QED
        BY <3>1 DEF NotAdmitted
    <2>3. router[d] \in DomainState(d)
      <3>1. <<>> \in Seq(Entries) /\ <<>> \in Seq(Extensions[d])
        OBVIOUS
      <3> QED
        BY <2>2, <3>1 DEF DomainState
    <2>4. supplied = Adopted
      BY DEF RoutingInit
    <2>5. DomainAfter(d, nav, router[d], supplied)
      <3>1. /\ ~router[d].on /\ ~router[d].deferred /\ router[d].verb # "push"
            /\ router[d].admitted /\ (router[d].recorded <=> Host[d] \in supplied)
        <4>1. /\ ~router[d].on /\ ~router[d].deferred /\ router[d].verb # "push"
              /\ router[d].admitted /\ router[d].recorded = b
          BY <2>2
        <4>2. b <=> Host[d] \in supplied
          BY <2>1, <2>4
        <4> QED
          BY <4>1, <4>2
      <3> QED
        BY <1>1, <3>1 DEF DomainAfter, Fits
    <2> QED
      BY <2>3, <2>5
  <1>4. load \in Loads
    <2>1. <<>> \in Seq(Entries)
      OBVIOUS
    <2> QED
      BY <2>1 DEF RoutingInit, Fresh, Loads
  <1>5. engine \in Engines /\ EngineAfter(nav, engine)
    BY DEF RoutingInit, Engines, Param, EngineAfter
  <1>6. RoutingTyped
    BY <1>2, <1>3, <1>4, <1>5 DEF RoutingTyped
  <1> QED
    BY <1>1, <1>3, <1>5, <1>6, Before

LEMMA RoutingKept == RoutingInv /\ [RoutingNext]_routingVars => RoutingInv'
  <1> SUFFICES ASSUME RoutingInv, [RoutingNext]_routingVars  PROVE RoutingInv'
    OBVIOUS
  <1>1. CASE Drain
    BY <1>1, CallRouterFacts, CallObserverFacts, CallDeferredFacts, CallEngineFacts,
       NextRoundFacts, DrainEndsFacts, DrainIsAbandonedFacts DEF Drain
  <1>2. CASE Task
    <2>1. Verbs \subseteq {"push", "replace"}
      BY DEF Verbs
    <2>2. ASSUME NEW d \in Routed, \/ AdmitDomain(d) \/ ReleaseDomain(d)
                                   \/ StartDomain(d) \/ StopDomain(d)
          PROVE  RoutingInv'
      BY <2>2, AdmitDomainKeeps, ReleaseDomainFacts, StartDomainFacts, StopDomainFacts
    <2>3. ASSUME NEW d \in Routed, NEW ext \in Extensions[d],
                 AdmitExtension(d, ext) \/ ReleaseExtension(d, ext)
          PROVE  RoutingInv'
      BY <2>3, AdmitExtensionKeeps, ReleaseExtensionKeeps
    <2>4. ASSUME NEW d \in Routed, NEW ids \in Targets[d], NEW verb \in Verbs, Reflect(d, ids, verb)
          PROVE  RoutingInv'
      BY <2>1, <2>4, ReflectFacts
    <2>5. ASSUME NEW h \in Runtime, SupplyNavigation(h)  PROVE RoutingInv'
      BY <2>5, SupplyNavigationKeeps
    <2>6. ASSUME NEW entry \in DOMAIN nav.stack, UserSteps(entry)  PROVE RoutingInv'
      BY <2>6, UserStepsFacts
    <2>7. ASSUME NEW verb \in Verbs, EngineWrites(verb)  PROVE RoutingInv'
      BY <2>1, <2>7, EngineWritesFacts
    <2> QED
      BY <1>2, <2>2, <2>3, <2>4, <2>5, <2>6, <2>7, EngineAttachesFacts, EngineDetachesFacts DEF Task
  <1>3. CASE UNCHANGED routingVars
    <2>1. /\ RoutingTyped /\ Rounds(nav) /\ EngineAfter(nav, engine)
          /\ \A d \in Routed : DomainAfter(d, nav, router[d], supplied)
      BY Before
    <2> QED
      BY <1>3, <2>1, After DEF routingVars, RoutingTyped
  <1> QED
    BY <1>1, <1>2, <1>3 DEF RoutingNext

(* The inductive invariant of a page's routers, their history and the engine, for every    *)
(* set of domains nested in any way without a cycle, every session and any number of       *)
(* commands, steps and writes (createHistory, FrontXRouter, adaptVirtualLocationHistory).  *)
THEOREM RoutingInvariance == RoutingSpec => []RoutingInv
  <1> QED
    BY RoutingStarts, RoutingKept, PTL DEF RoutingSpec

(* Between the rounds there is nothing a subscriber has still to hear of. *)
LEMMA NothingUnheard ==
  ASSUME RoutingInv, NoRound, ~nav.lost, NEW t
  PROVE  ~Unheard(nav, t)
  BY DEF RoutingInv, Rounds, NoRound, Unheard

(* Once no round is under way every started observer has reported what the URL shows of    *)
(* its domain, whoever navigated and from inside whichever call (fanout-dispatch.ts,       *)
(* observe-change.ts); only a drain given up at the limit is excepted.                     *)
THEOREM ObserversCatchUp == RoutingSpec => []ObserversKeepUp
  <1>1. RoutingInv => ObserversKeepUp
    BY NothingUnheard DEF ObserversKeepUp, RoutingInv, DomainInv, ObserverInv
  <1> QED
    BY <1>1, RoutingInvariance, PTL

(* A write waits only while the entry of its runtime's host is absent from the URL         *)
(* (FrontXRouter.writeEntries and the one subscription it keeps).                          *)
THEOREM DeferredWritesGoOut == RoutingSpec => []NoWriteLeftWaiting
  <1>1. RoutingInv => NoWriteLeftWaiting
    BY NothingUnheard DEF NoWriteLeftWaiting, RoutingInv, DomainInv, DeferredInv
  <1> QED
    BY <1>1, RoutingInvariance, PTL

(* The engine of a mounted extension is at its entry's parameters and at the history's     *)
(* position, whichever runtime moved either (adaptVirtualLocationHistory).                 *)
THEOREM EngineStandsWithTheUrl == RoutingSpec => []EngineInStep
  <1>1. RoutingInv => EngineInStep
    BY NothingUnheard DEF EngineInStep, RoutingInv, EngineInv
  <1> QED
    BY <1>1, RoutingInvariance, PTL

(* Nothing that a back or forward step sets off in the routers adds to the browser's       *)
(* history: the copy of the router that has deferred a push hears of the step first.       *)
THEOREM WayForwardStays == RoutingSpec => StepsKeepTheWayForward
  <1>1. RoutingInv =>
          [\A d \in Routed : nav.origin = "history" /\ (CallObserver(d) \/ CallDeferred(d))
             => nav'.at = nav.at /\ Len(nav'.stack) = Len(nav.stack)]_routingVars
    BY CallObserverFacts, CallDeferredFacts
  <1> QED
    BY <1>1, RoutingInvariance, PTL DEF StepsKeepTheWayForward

(* No entry of a key is left when no entry of the URL has it. *)
LEMMA NothingUnder ==
  ASSUME NEW url \in Seq(Entries), NEW key, \A entry \in ToSet(url) : entry.key # key
  PROVE  Under(url, key) = <<>>
  <1>u. PICK under \in Seq(Entries) : under = Under(url, key)
    BY UnderFacts
  <1>1. ToSet(under) = {}
    BY <1>u, UnderFacts
  <1>2. under = <<>>
    <2>1. \A i \in DOMAIN under : under[i] \in ToSet(under)
      BY DEF ToSet
    <2>2. DOMAIN under = {}
      BY <1>1, <2>1
    <2> QED
      BY <2>2
  <1> QED
    BY <1>u, <1>2

(* What one domain's rewrite drops takes everything nested beneath it along. *)
LEMMA RewriteTakesTheNested ==
  ASSUME RoutingInv, NEW c \in Routed, NEW url \in Seq(Entries), NEW new \in Seq(Entries),
         Rewrites(c, url, new), NEW d \in Routed, NEW ext \in Extensions[d],
         Carries(url, <<d, ext>>), ~Carries(new, <<d, ext>>), NEW k \in StandBeneath(<<d, ext>>)
  PROVE  Under(new, k) = <<>>
  <1>1. PICK dropped :
          /\ \A entry \in ToSet(new) :
               entry.key = c \/ (entry \in ToSet(url) /\ entry.key \notin NestedBeneath(c, dropped))
          /\ \A entry \in ToSet(url) :
               /\ entry.key # c /\ entry.key \notin NestedBeneath(c, dropped) => entry \in ToSet(new)
               /\ entry.key = c /\ entry.ext \notin dropped => entry \in ToSet(new)
    BY DEF Rewrites
  <1>b. PICK beneath : beneath = NestedBeneath(c, dropped)
    OBVIOUS
  <1>2. /\ beneath \subseteq Routed /\ c \notin beneath
        /\ \A x \in dropped : KeysOf(<<c, x>>) \subseteq beneath
        /\ \A x \in beneath : KeysUnder(x) \subseteq beneath
    BY <1>b, NestedFacts
  <1>3. PICK entry \in ToSet(url) : entry.key = d /\ entry.ext = ext /\ entry \notin ToSet(new)
    <2>1. PICK i \in DOMAIN url : url[i].key = d /\ url[i].ext = ext
      BY DEF Carries, AddressOf
    <2>2. url[i] \in ToSet(url)
      BY DEF ToSet
    <2>3. url[i] \notin ToSet(new)
      <3>1. SUFFICES ASSUME url[i] \in ToSet(new)  PROVE FALSE
        OBVIOUS
      <3>2. PICK j \in DOMAIN new : new[j] = url[i]
        BY <3>1 DEF ToSet
      <3> QED
        BY <2>1, <3>2 DEF Carries, AddressOf
    <2> QED
      BY <2>1, <2>2, <2>3
  <1>4. KeysOf(<<d, ext>>) \subseteq beneath
    <2>1. CASE d = c
      BY <1>1, <1>2, <1>3, <2>1
    <2>2. CASE d # c
      <3>1. d \in beneath
        BY <1>1, <1>b, <1>3, <2>2
      <3> QED
        BY <1>2, <3>1 DEF KeysUnder
    <2> QED
      BY <2>1, <2>2
  <1>5. StandBeneath(<<d, ext>>) \subseteq beneath
    <2>1. \A x \in Routed : RecordInv(x)
      BY DEF RoutingInv, DomainInv
    <2> QED
      BY <1>2, <1>4, <2>1, StandBeneathFacts
  <1>6. \A other \in ToSet(new) : other.key # k
    BY <1>1, <1>b, <1>2, <1>5
  <1> QED
    BY <1>6, NothingUnder

(* The action of the property, named. *)
LeavesTheNested ==
  nav'.stack # nav.stack =>
    \A d \in Routed : \A ext \in Extensions[d] :
      Carries(Url, <<d, ext>>) /\ ~Carries(UrlOf(nav'), <<d, ext>>)
        => \A k \in StandBeneath(<<d, ext>>) : Under(UrlOf(nav'), k) = <<>>

LEMMA RewriteLeaves ==
  ASSUME RoutingInv, RoutingInv', NEW c \in Routed,
         nav'.stack = nav.stack \/ Rewrites(c, Url, UrlOf(nav'))
  PROVE  LeavesTheNested
  <1>1. Url \in Seq(Entries) /\ UrlOf(nav') \in Seq(Entries)
    BY UrlTyped DEF RoutingInv, Url
  <1> QED
    BY <1>1, RewriteTakesTheNested DEF LeavesTheNested

LEMMA ClearLeaves ==
  ASSUME nav'.stack = nav.stack \/ UrlOf(nav') = <<>>
  PROVE  LeavesTheNested
  <1>1. \A k : Under(<<>>, k) = <<>>
    <2>1. <<>> \in Seq(Entries) /\ ToSet(<<>>) = {}
      BY DEF ToSet
    <2> QED
      BY <2>1, NothingUnder
  <1> QED
    BY <1>1 DEF LeavesTheNested

LEMMA StepsLeaveTheNested ==
  ASSUME RoutingInv, RoutingNext
  PROVE  LeavesTheNested
  <1>i. RoutingInv'
    BY RoutingKept
  <1>1. CASE Drain
    <2>1. ASSUME NEW d \in Routed, CallObserver(d) \/ CallDeferred(d)  PROVE LeavesTheNested
      BY <1>i, <2>1, CallObserverFacts, CallDeferredFacts, RewriteLeaves
    <2>2. CASE CallEngine
      BY <2>2, CallEngineFacts DEF LeavesTheNested
    <2>3. CASE \/ \E h \in Runtime : CallRouter(h)
               \/ NextRound \/ DrainEnds \/ DrainIsAbandoned
      BY <2>3, CallRouterFacts, NextRoundFacts, DrainEndsFacts, DrainIsAbandonedFacts
         DEF LeavesTheNested
    <2> QED
      BY <1>1, <2>1, <2>2, <2>3 DEF Drain
  <1>2. CASE Task
    <2>1. Verbs \subseteq {"push", "replace"}
      BY DEF Verbs
    <2>2. ASSUME NEW d \in Routed, \/ AdmitDomain(d) \/ ReleaseDomain(d) \/ StopDomain(d)
          PROVE  LeavesTheNested
      BY <2>2, ReleaseDomainFacts, StopDomainFacts DEF AdmitDomain, LeavesTheNested
    <2>3. ASSUME NEW d \in Routed, StartDomain(d)  PROVE LeavesTheNested
      BY <2>3, StartDomainFacts, ClearLeaves
    <2>4. ASSUME NEW d \in Routed, NEW ext \in Extensions[d],
                 AdmitExtension(d, ext) \/ ReleaseExtension(d, ext)
          PROVE  LeavesTheNested
      BY <2>4 DEF AdmitExtension, ReleaseExtension, LeavesTheNested
    <2>5. ASSUME NEW d \in Routed, NEW ids \in Targets[d], NEW verb \in Verbs, Reflect(d, ids, verb)
          PROVE  LeavesTheNested
      BY <1>i, <2>1, <2>5, ReflectFacts, RewriteLeaves
    <2>6. ASSUME NEW h \in Runtime, SupplyNavigation(h)  PROVE LeavesTheNested
      BY <2>6 DEF SupplyNavigation, LeavesTheNested
    <2>7. ASSUME NEW entry \in DOMAIN nav.stack, UserSteps(entry)  PROVE LeavesTheNested
      BY <2>7, UserStepsFacts DEF LeavesTheNested
    <2>8. ASSUME NEW verb \in Verbs, EngineWrites(verb)  PROVE LeavesTheNested
      BY <2>1, <2>8, EngineWritesFacts DEF LeavesTheNested
    <2>9. CASE EngineAttaches \/ EngineDetaches
      BY <2>9, EngineAttachesFacts, EngineDetachesFacts DEF LeavesTheNested
    <2> QED
      BY <1>2, <2>2, <2>3, <2>4, <2>5, <2>6, <2>7, <2>8, <2>9 DEF Task
  <1> QED
    BY <1>1, <1>2 DEF RoutingNext

(* The entries of every domain that stands beneath a dropped extension, at any depth,      *)
(* leave in the write that drops it (nestedDomainKeysBeneath, url-back-projection.ts).     *)
THEOREM NestedLeaveTogether == RoutingSpec => LeavingTakesTheNested
  <1>1. RoutingInv /\ [RoutingNext]_routingVars => [LeavesTheNested]_routingVars
    BY StepsLeaveTheNested
  <1>2. RoutingSpec => [][LeavesTheNested]_routingVars
    BY <1>1, RoutingInvariance, PTL DEF RoutingSpec
  <1> QED
    BY <1>2, PTL DEF LeavingTakesTheNested, LeavesTheNested

-----------------------------------------------------------------------------
(* The execution of actions chains. *)

USE ChainAssumption

\* A step of one dispatch: what is said of the others stays.
Others(k) == \A j \in Dispatch \ {k} :
               /\ exec'[j] = exec[j] /\ begun'[j] = begun[j] /\ inTime'[j] = inTime[j]
               /\ invocations'[j] = invocations[j]

At(k) == exec[k].node

-----------------------------------------------------------------------------
(* The parts of the invariant, said of one dispatch. *)
BranchesOf(k) ==
  LET n == exec[k].node
  IN /\ exec[k].state = "idle" => begun[k] = {}
     /\ exec[k].state = "due" => n \notin begun[k]
     /\ exec[k].state \in Begun => n \in begun[k]
     /\ Underway(k) => /\ n \in inTime[k] <=> exec[k].state = "resolved"
                       /\ NextOf[n] \notin begun[k] /\ FallbackOf[n] \notin begun[k]
     /\ inTime[k] \subseteq begun[k]
     /\ \A p \in Node : /\ NextOf[p] \in Reached(k) => p \in inTime[k]
                        /\ FallbackOf[p] \in Reached(k) => p \in begun[k] \ inTime[k]

CallsOf(k) ==
  \A n \in Node :
    /\ invocations[k][n] <= 1 /\ (invocations[k][n] = 1 => n \in begun[k])
    /\ exec[k].state \in Reaching /\ exec[k].node = n => invocations[k][n] = 0

StateOf(k) ==
  /\ exec[k].state \in {"idle", "ended"} \cup Reaching \cup Begun
  /\ Underway(k) => exec[k].node \in Node

Each == \A k \in Dispatch : BranchesOf(k) /\ CallsOf(k)

LEMMA OneByOne == ChainsInv <=> ChainsTyped /\ Each
  BY DEF ChainsInv, BranchesInv, InvocationsInv, BranchesOf, CallsOf, Each

(* Where a dispatch moves. *)
LEMMA MovesFacts ==
  ASSUME ChainsTyped, NEW k \in Dispatch, NEW s, NEW m, NEW r, NEW f, Moves(k, s, m, r, f)
  PROVE  /\ exec' = [j \in Dispatch |-> [state |-> exec'[j].state, node |-> exec'[j].node,
                                         at |-> exec'[j].at, down |-> exec'[j].down]]
         /\ exec'[k].state = s /\ exec'[k].node = m
         /\ \A j \in Dispatch \ {k} : exec'[j] = exec[j]
  BY DEF ChainsTyped, Moves

LEMMA SettlesFacts ==
  ASSUME ChainsTyped, NEW k \in Dispatch, NEW s, exec' = [exec EXCEPT ![k].state = s]
  PROVE  /\ exec' = [j \in Dispatch |-> [state |-> exec'[j].state, node |-> exec'[j].node,
                                         at |-> exec'[j].at, down |-> exec'[j].down]]
         /\ exec'[k].state = s /\ exec'[k].node = exec[k].node
         /\ \A j \in Dispatch \ {k} : exec'[j] = exec[j]
  <1>1. /\ DOMAIN exec = Dispatch
        /\ \A j \in Dispatch : exec[j] = [state |-> exec[j].state, node |-> exec[j].node,
                                         at |-> exec[j].at, down |-> exec[j].down]
    BY DEF ChainsTyped
  <1>2. exec' = [exec EXCEPT ![k] = [exec[k] EXCEPT !.state = s]]
    OBVIOUS
  <1>3. [exec[k] EXCEPT !.state = s]
          = [state |-> s, node |-> exec[k].node, at |-> exec[k].at, down |-> exec[k].down]
    BY <1>1
  <1>4. exec' = [exec EXCEPT ![k] = [state |-> s, node |-> exec[k].node,
                                     at |-> exec[k].at, down |-> exec[k].down]]
    BY <1>2, <1>3
  <1>5. Moves(k, s, exec[k].node, exec[k].at, exec[k].down)
    BY <1>4 DEF Moves
  <1> QED
    BY <1>5, MovesFacts

(* The dispatches do not disturb each other. *)
LEMMA OneMoves ==
  ASSUME ChainsInv, NEW k \in Dispatch, Others(k),
         exec' = [j \in Dispatch |-> [state |-> exec'[j].state, node |-> exec'[j].node,
                                      at |-> exec'[j].at, down |-> exec'[j].down]],
         running' \in [Dispatch -> SUBSET Node], begun' \in [Dispatch -> SUBSET Node],
         inTime' \in [Dispatch -> SUBSET Node], invocations' \in [Dispatch -> [Node -> Nat]],
         StateOf(k)', BranchesOf(k)', CallsOf(k)'
  PROVE  ChainsInv'
  <1>1. ChainsTyped /\ \A j \in Dispatch : StateOf(j) /\ BranchesOf(j) /\ CallsOf(j)
    BY OneByOne DEF ChainsTyped, StateOf, Each
  <1>2. ASSUME NEW j \in Dispatch  PROVE StateOf(j)' /\ BranchesOf(j)' /\ CallsOf(j)'
    <2>1. CASE j = k
      BY <2>1
    <2>2. CASE j # k
      <3>1. /\ exec'[j] = exec[j] /\ begun'[j] = begun[j] /\ inTime'[j] = inTime[j]
            /\ invocations'[j] = invocations[j]
        BY <2>2 DEF Others
      <3> QED
        BY <1>1, <3>1 DEF StateOf, BranchesOf, CallsOf, Underway, Reached
    <2> QED
      BY <2>1, <2>2
  <1>3. ChainsTyped'
    BY <1>2 DEF ChainsTyped, StateOf, Underway
  <1>4. Each'
    BY <1>2 DEF Each
  <1> QED
    BY <1>3, <1>4, OneByOne, PTL

LEMMA NoneMoves ==
  ASSUME ChainsInv, UNCHANGED <<exec, begun, inTime, invocations>>,
         running' \in [Dispatch -> SUBSET Node]
  PROVE  ChainsInv'
  <1>1. ChainsTyped /\ BranchesInv /\ InvocationsInv
    BY DEF ChainsInv
  <1>2. \A k \in Dispatch : (Underway(k)' <=> Underway(k)) /\ Reached(k)' = Reached(k)
    BY DEF Underway, Reached
  <1>3. ChainsTyped'
    <2>1. exec' = [k \in Dispatch |-> [state |-> exec'[k].state, node |-> exec'[k].node,
                                       at |-> exec'[k].at, down |-> exec'[k].down]]
      BY <1>1 DEF ChainsTyped
    <2> QED
      BY <1>1, <1>2, <2>1 DEF ChainsTyped
  <1>4. BranchesInv'
    BY <1>1, <1>2 DEF BranchesInv
  <1>5. InvocationsInv'
    BY <1>1 DEF InvocationsInv
  <1> QED
    BY <1>3, <1>4, <1>5 DEF ChainsInv

(* A node that is reached is none of its own branches. *)
LEMMA NoBranchOfItself ==
  ASSUME NEW k \in Dispatch, StateOf(k), BranchesOf(k), Underway(k)
  PROVE  /\ At(k) \in Node /\ At(k) \in Reached(k)
         /\ NextOf[At(k)] # At(k) /\ FallbackOf[At(k)] # At(k)
  BY DEF StateOf, BranchesOf, Reached, At

-----------------------------------------------------------------------------
(* A dispatch goes on with a branch of the node it is at, which now has begun. *)
LEMMA GoesOnKeeps ==
  ASSUME ChainsAreTrees, NEW k \in Dispatch, ChainsTyped, StateOf(k), BranchesOf(k), CallsOf(k),
         Underway(k), NEW m \in {NextOf[At(k)], FallbackOf[At(k)]}, NEW r, GoesOn(k, m, r),
         begun'[k] = begun[k] \cup {At(k)}, inTime'[k] = inTime[k],
         invocations'[k] = invocations[k],
         m = NextOf[At(k)] /\ m \in Node => At(k) \in inTime[k],
         m = FallbackOf[At(k)] /\ m \in Node => At(k) \notin inTime[k]
  PROVE  StateOf(k)' /\ BranchesOf(k)' /\ CallsOf(k)'
  <1> DEFINE n == At(k)
  <1>1. n \in Node /\ n \in Reached(k) /\ NextOf[n] # n /\ FallbackOf[n] # n
    BY NoBranchOfItself
  <1>2. /\ begun[k] \subseteq Reached(k) /\ inTime[k] \subseteq begun[k]
        /\ \A p \in Node : /\ NextOf[p] \in Reached(k) => p \in inTime[k]
                           /\ FallbackOf[p] \in Reached(k) => p \in begun[k] \ inTime[k]
        /\ NextOf[n] \notin begun[k] /\ FallbackOf[n] \notin begun[k]
    BY DEF BranchesOf, Reached, At
  <1>3. m \in Node \cup {NoNode} /\ begun[k] \subseteq Node
    BY <1>1 DEF ChainsTyped
  <1>4. CASE m = NoNode
    <2>0. exec'[k].state = "ended"
      BY <1>4, MovesFacts DEF GoesOn
    <2>1. exec'[k].state = "ended" /\ ~Underway(k)'
      BY <2>0 DEF Underway, Reaching, Begun
    <2>2. Reached(k)' = begun[k] \cup {n}
      BY <2>1 DEF Reached
    <2> QED
      BY <1>1, <1>2, <2>1, <2>2
         DEF StateOf, BranchesOf, CallsOf, Reaching, Begun
  <1>5. CASE m \in Node
    <2>1. exec'[k].state = "due" /\ exec'[k].node = m
      BY <1>5, MovesFacts DEF GoesOn
    <2>2. Underway(k)' /\ Reached(k)' = begun[k] \cup {n, m}
      BY <2>1 DEF Underway, Reaching, Reached
    <2>3. m \notin begun'[k] /\ m \notin inTime[k]
      BY <1>1, <1>2
    <2>4. NextOf[m] \notin begun'[k] /\ FallbackOf[m] \notin begun'[k]
      BY <1>1, <1>2, <1>5, <2>3
    <2>5. ASSUME NEW p \in Node
          PROVE  /\ NextOf[p] \in Reached(k)' => p \in inTime[k]
                 /\ FallbackOf[p] \in Reached(k)' => p \in begun'[k] \ inTime[k]
      <3>1. ASSUME NextOf[p] = m  PROVE p \in inTime[k]
        <4>1. p = n /\ m = NextOf[n]
          BY <1>1, <1>5, <3>1 DEF ChainsAreTrees
        <4> QED
          BY <1>5, <4>1
      <3>2. ASSUME FallbackOf[p] = m  PROVE p \in begun'[k] \ inTime[k]
        <4>1. p = n /\ m = FallbackOf[n]
          BY <1>1, <1>5, <3>2 DEF ChainsAreTrees
        <4> QED
          BY <1>5, <4>1
      <3> QED
        BY <1>1, <1>2, <2>2, <3>1, <3>2
    <2>6. BranchesOf(k)'
      BY <1>2, <2>1, <2>2, <2>3, <2>4, <2>5 DEF BranchesOf, Begun
    <2>7. CallsOf(k)'
      <3>1. /\ invocations[k] \in [Node -> Nat] /\ invocations[k][m] \in Nat
            /\ invocations[k][m] <= 1 /\ invocations[k][m] # 1
        BY <1>5, <2>3 DEF ChainsTyped, CallsOf
      <3>2. invocations[k][m] = 0
        BY <3>1
      <3> QED
        BY <2>1, <3>1, <3>2 DEF CallsOf
    <2> QED
      BY <1>5, <2>1, <2>6, <2>7 DEF StateOf, Reaching
  <1> QED
    BY <1>3, <1>4, <1>5

(* It stays at its node, which now has begun. *)
LEMMA StaysKeeps ==
  ASSUME NEW k \in Dispatch, ChainsTyped, StateOf(k), BranchesOf(k), CallsOf(k), Underway(k),
         exec'[k].node = At(k), exec'[k].state \in Begun,
         begun'[k] = begun[k] \cup {At(k)},
         \/ exec'[k].state # "resolved" /\ At(k) \notin inTime[k] /\ inTime'[k] = inTime[k]
         \/ exec'[k].state = "resolved" /\ inTime'[k] = inTime[k] \cup {At(k)}
  PROVE  StateOf(k)' /\ BranchesOf(k)'
  <1> DEFINE n == At(k)
  <1>1. n \in Node /\ n \in Reached(k) /\ NextOf[n] # n /\ FallbackOf[n] # n
    BY NoBranchOfItself
  <1>2. /\ Underway(k)' /\ Reached(k)' = Reached(k)
        /\ exec'[k].state # "idle" /\ exec'[k].state # "due"
    BY DEF Underway, Begun, Reached, At
  <1>3. /\ begun[k] \subseteq Reached(k) /\ inTime[k] \subseteq begun[k]
        /\ \A p \in Node : /\ NextOf[p] \in Reached(k) => p \in inTime[k]
                           /\ FallbackOf[p] \in Reached(k) => p \in begun[k] \ inTime[k]
        /\ NextOf[n] \notin begun[k] /\ FallbackOf[n] \notin begun[k]
        /\ Reached(k) = begun[k] \cup {n}
    BY DEF BranchesOf, Reached, At
  <1>4. BranchesOf(k)'
    BY <1>1, <1>2, <1>3 DEF BranchesOf
  <1> QED
    BY <1>1, <1>4 DEF StateOf

-----------------------------------------------------------------------------
(* executeActionsChain. *)
LEMMA DispatchesKeeps ==
  ASSUME ChainsAreTrees, ChainsInv, NEW k \in Dispatch, NEW n \in Node, Dispatches(k, n)
  PROVE  ChainsInv'
  <1>1. ChainsTyped /\ BranchesOf(k) /\ CallsOf(k)
    BY OneByOne DEF Each
  <1>2. PICK r \in DispatchedBy[n] : GoesOn(k, n, r)
    BY DEF Dispatches
  <1>3. exec[k].state = "idle" /\ UNCHANGED <<tag, running, invocations, begun, inTime>>
    BY DEF Dispatches
  <1>4. Moves(k, "due", n, r, FALSE)
    BY <1>2 DEF GoesOn
  <1>5. /\ exec'[k].state = "due" /\ exec'[k].node = n
        /\ \A j \in Dispatch \ {k} : exec'[j] = exec[j]
        /\ exec' = [j \in Dispatch |-> [state |-> exec'[j].state, node |-> exec'[j].node,
                                        at |-> exec'[j].at, down |-> exec'[j].down]]
    BY <1>1, <1>4, MovesFacts
  <1>6. begun[k] = {} /\ inTime[k] = {} /\ Underway(k)' /\ Reached(k)' = {n}
    BY <1>1, <1>3, <1>5 DEF BranchesOf, Underway, Reached, Reaching
  <1>7. ASSUME NEW p \in Node  PROVE NextOf[p] # n /\ FallbackOf[p] # n
    BY <1>2 DEF ChainsAreTrees
  <1>8. BranchesOf(k)' /\ StateOf(k)'
    BY <1>3, <1>5, <1>6, <1>7 DEF BranchesOf, StateOf, Reaching, Begun
  <1>9. CallsOf(k)'
    <2>1. invocations[k][n] \in Nat /\ invocations[k][n] <= 1 /\ invocations[k][n] # 1
      BY <1>1, <1>6 DEF ChainsTyped, CallsOf
    <2>2. invocations[k][n] = 0
      BY <2>1
    <2> QED
      BY <1>1, <1>3, <1>5, <2>2 DEF CallsOf
  <1>10. Others(k)
    BY <1>3, <1>5 DEF Others
  <1> QED
    BY <1>1, <1>3, <1>5, <1>8, <1>9, <1>10, OneMoves DEF ChainsTyped

-----------------------------------------------------------------------------
(* executeChain: a handler is invoked, the node fails, or is handed over. *)
LEMMA ExecutesKeeps ==
  ASSUME ChainsAreTrees, ChainsInv, NEW k \in Dispatch, Executes(k)
  PROVE  ChainsInv'
  <1> DEFINE n == At(k)
             r == exec[k].at
             b == forwarding[r][TargetOf[n]]
  <1>1. ChainsTyped /\ StateOf(k) /\ BranchesOf(k) /\ CallsOf(k)
    BY OneByOne DEF Each, ChainsTyped, StateOf
  <1>2. /\ exec[k].state \in Reaching /\ Underway(k) /\ n \in Node
        /\ begun' = [begun EXCEPT ![k] = @ \cup {n}] /\ inTime' = inTime
        /\ n \notin inTime[k] /\ invocations[k][n] = 0
    BY <1>1 DEF Executes, Reaching, Underway, StateOf, BranchesOf, CallsOf, At
  <1>3. /\ begun' \in [Dispatch -> SUBSET Node] /\ begun'[k] = begun[k] \cup {n}
        /\ \A j \in Dispatch \ {k} : begun'[j] = begun[j]
    BY <1>1, <1>2 DEF ChainsTyped
  <1>4. CASE /\ Moves(k, "invoked", n, r, FALSE) /\ running' = [running EXCEPT ![k] = @ \cup {n}]
             /\ invocations' = [invocations EXCEPT ![k][n] = @ + 1]
    <2>1. /\ exec'[k].state = "invoked" /\ exec'[k].node = n
          /\ \A j \in Dispatch \ {k} : exec'[j] = exec[j]
          /\ exec' = [j \in Dispatch |-> [state |-> exec'[j].state, node |-> exec'[j].node,
                                          at |-> exec'[j].at, down |-> exec'[j].down]]
      BY <1>1, <1>4, MovesFacts
    <2>2. /\ invocations' \in [Dispatch -> [Node -> Nat]]
          /\ \A j \in Dispatch \ {k} : invocations'[j] = invocations[j]
          /\ invocations'[k][n] = 1 /\ \A m \in Node \ {n} : invocations'[k][m] = invocations[k][m]
      <3>1. invocations \in [Dispatch -> [Node -> Nat]] /\ invocations[k] \in [Node -> Nat]
        BY <1>1 DEF ChainsTyped
      <3>2. [invocations[k] EXCEPT ![n] = @ + 1] \in [Node -> Nat]
        BY <1>2, <3>1
      <3>3. invocations' = [invocations EXCEPT ![k] = [invocations[k] EXCEPT ![n] = @ + 1]]
        BY <1>4
      <3> QED
        BY <1>2, <3>1, <3>2, <3>3
    <2>3. running' \in [Dispatch -> SUBSET Node]
      BY <1>1, <1>2, <1>4 DEF ChainsTyped
    <2>4. StateOf(k)' /\ BranchesOf(k)'
      BY <1>1, <1>2, <1>3, <2>1, StaysKeeps DEF Begun
    <2>5. CallsOf(k)'
      BY <1>1, <1>3, <2>1, <2>2 DEF CallsOf, Reaching
    <2>6. Others(k)
      BY <1>2, <1>3, <2>1, <2>2 DEF Others
    <2> QED
      BY <1>1, <1>2, <1>3, <2>1, <2>2, <2>3, <2>4, <2>5, <2>6, OneMoves DEF ChainsTyped
  <1>5. ASSUME Fails(k, n, r), UNCHANGED <<running, invocations>>
        PROVE  ChainsInv'
    <2>1. GoesOn(k, FallbackOf[n], r) /\ FallbackOf[n] \in Node \cup {NoNode}
      BY <1>2, <1>5 DEF Fails
    <2>2. FallbackOf[n] = NextOf[n] => FallbackOf[n] \notin Node
      BY <1>2 DEF ChainsAreTrees
    <2>3. StateOf(k)' /\ BranchesOf(k)' /\ CallsOf(k)'
      BY <1>1, <1>2, <1>3, <1>5, <2>1, <2>2, GoesOnKeeps
    <2>4. PICK s, f : Moves(k, s, FallbackOf[n], r, f)
      BY <2>1 DEF GoesOn
    <2>5. /\ \A j \in Dispatch \ {k} : exec'[j] = exec[j]
          /\ exec' = [j \in Dispatch |-> [state |-> exec'[j].state, node |-> exec'[j].node,
                                          at |-> exec'[j].at, down |-> exec'[j].down]]
      BY <1>1, <2>4, MovesFacts
    <2>6. Others(k)
      BY <1>2, <1>3, <1>5, <2>5 DEF Others
    <2> QED
      BY <1>1, <1>2, <1>3, <1>5, <2>3, <2>5, <2>6, OneMoves DEF ChainsTyped
  <1>6. ASSUME NEW q, NEW accepted \in BOOLEAN, NEW down, HandsOver(k, n, q, accepted, down),
               UNCHANGED <<running, invocations>>
        PROVE  ChainsInv'
    <2>1. CASE ~accepted
      BY <1>5, <1>6, <2>1 DEF HandsOver
    <2>2. CASE accepted
      <3>1. Moves(k, "queued", n, q, down)
        BY <1>6, <2>2 DEF HandsOver
      <3>2. /\ exec'[k].state = "queued" /\ exec'[k].node = n
            /\ \A j \in Dispatch \ {k} : exec'[j] = exec[j]
            /\ exec' = [j \in Dispatch |-> [state |-> exec'[j].state, node |-> exec'[j].node,
                                            at |-> exec'[j].at, down |-> exec'[j].down]]
        BY <1>1, <3>1, MovesFacts
      <3>3. StateOf(k)' /\ BranchesOf(k)'
        BY <1>1, <1>2, <1>3, <3>2, StaysKeeps DEF Begun
      <3>4. CallsOf(k)'
        BY <1>1, <1>2, <1>3, <1>6, <3>2 DEF CallsOf
      <3>5. Others(k)
        BY <1>2, <1>3, <1>6, <3>2 DEF Others
      <3> QED
        BY <1>1, <1>2, <1>3, <1>6, <3>2, <3>3, <3>4, <3>5, OneMoves DEF ChainsTyped
    <2> QED
      BY <1>6, <2>1, <2>2
  <1>7. \/ /\ Moves(k, "invoked", n, r, FALSE) /\ running' = [running EXCEPT ![k] = @ \cup {n}]
           /\ invocations' = [invocations EXCEPT ![k][n] = @ + 1]
        \/ Fails(k, n, r) /\ UNCHANGED <<running, invocations>>
        \/ /\ HandsOver(k, n, b[1], ReceivesFromParent(b), TRUE)
           /\ UNCHANGED <<running, invocations>>
        \/ /\ HandsOver(k, n, Parent[r], ReceivesFromChild(r), FALSE)
           /\ UNCHANGED <<running, invocations>>
    BY DEF Executes, At
  <1>8. ReceivesFromParent(b) \in BOOLEAN /\ ReceivesFromChild(r) \in BOOLEAN
    BY DEF ReceivesFromParent, ReceivesFromChild
  <1> QED
    BY <1>4, <1>5, <1>6, <1>7, <1>8

-----------------------------------------------------------------------------
(* The answer and the timer. *)
LEMMA AnswersKeeps ==
  ASSUME ChainsInv, NEW k \in Dispatch, NEW n \in Node, NEW ok \in BOOLEAN, Answers(k, n, ok)
  PROVE  ChainsInv'
  <1>1. ChainsTyped /\ StateOf(k) /\ BranchesOf(k) /\ CallsOf(k)
    BY OneByOne DEF Each, ChainsTyped, StateOf
  <1>2. /\ running' = [running EXCEPT ![k] = @ \ {n}]
        /\ UNCHANGED <<nesting, tag, invocations, begun, trail>>
    BY DEF Answers
  <1>3. running' \in [Dispatch -> SUBSET Node]
    BY <1>1, <1>2 DEF ChainsTyped
  <1>4. CASE exec[k].state = "invoked" /\ exec[k].node = n
    <2> DEFINE s == IF ok THEN "resolved" ELSE "rejected"
    <2>1. /\ exec' = [exec EXCEPT ![k].state = s]
          /\ inTime' = [inTime EXCEPT ![k] = IF ok THEN @ \cup {n} ELSE @]
      BY <1>4 DEF Answers
    <2>2. /\ exec'[k].state = s /\ exec'[k].node = n
          /\ \A j \in Dispatch \ {k} : exec'[j] = exec[j]
          /\ exec' = [j \in Dispatch |-> [state |-> exec'[j].state, node |-> exec'[j].node,
                                          at |-> exec'[j].at, down |-> exec'[j].down]]
      BY <1>1, <1>4, <2>1, SettlesFacts
    <2>3. /\ inTime' \in [Dispatch -> SUBSET Node]
          /\ \A j \in Dispatch \ {k} : inTime'[j] = inTime[j]
          /\ inTime'[k] = IF ok THEN inTime[k] \cup {n} ELSE inTime[k]
      BY <1>1, <2>1 DEF ChainsTyped
    <2>4. Underway(k) /\ n \in begun[k] /\ n \notin inTime[k] /\ At(k) = n
      BY <1>1, <1>4 DEF Underway, Begun, BranchesOf, At
    <2>5. StateOf(k)' /\ BranchesOf(k)'
      <3>1. begun'[k] = begun[k] \cup {At(k)} /\ exec'[k].state \in Begun
        BY <1>2, <2>2, <2>4 DEF Begun
      <3> QED
        BY <1>1, <2>2, <2>3, <2>4, <3>1, StaysKeeps
    <2>6. CallsOf(k)'
      BY <1>1, <1>2, <2>2 DEF CallsOf, Reaching
    <2>7. Others(k)
      BY <1>2, <2>2, <2>3 DEF Others
    <2> QED
      BY <1>1, <1>2, <1>3, <2>2, <2>3, <2>5, <2>6, <2>7, OneMoves DEF ChainsTyped
  <1>5. CASE ~(exec[k].state = "invoked" /\ exec[k].node = n)
    <2>1. UNCHANGED <<exec, inTime>>
      BY <1>5 DEF Answers
    <2> QED
      BY <1>2, <1>3, <2>1, NoneMoves
  <1> QED
    BY <1>4, <1>5

LEMMA TimesOutKeeps ==
  ASSUME ChainsInv, NEW k \in Dispatch, TimesOut(k)
  PROVE  ChainsInv'
  <1>1. ChainsTyped /\ StateOf(k) /\ BranchesOf(k) /\ CallsOf(k)
    BY OneByOne DEF Each, ChainsTyped, StateOf
  <1>2. /\ exec[k].state = "invoked" /\ exec' = [exec EXCEPT ![k].state = "rejected"]
        /\ UNCHANGED <<running, invocations, begun, inTime>>
    BY DEF TimesOut
  <1>3. /\ exec'[k].state = "rejected" /\ exec'[k].node = exec[k].node
        /\ \A j \in Dispatch \ {k} : exec'[j] = exec[j]
        /\ exec' = [j \in Dispatch |-> [state |-> exec'[j].state, node |-> exec'[j].node,
                                        at |-> exec'[j].at, down |-> exec'[j].down]]
    BY <1>1, <1>2, SettlesFacts
  <1>4. Underway(k) /\ At(k) \in begun[k] /\ At(k) \notin inTime[k]
    BY <1>1, <1>2 DEF Underway, Begun, BranchesOf, At
  <1>5. StateOf(k)' /\ BranchesOf(k)'
    <2>1. begun'[k] = begun[k] \cup {At(k)} /\ exec'[k].state \in Begun /\ exec'[k].node = At(k)
      BY <1>2, <1>3, <1>4 DEF Begun, At
    <2> QED
      BY <1>1, <1>2, <1>3, <1>4, <2>1, StaysKeeps
  <1>6. CallsOf(k)'
    BY <1>1, <1>2, <1>3 DEF CallsOf, Reaching
  <1>7. Others(k)
    BY <1>2, <1>3 DEF Others
  <1> QED
    BY <1>1, <1>2, <1>3, <1>5, <1>6, <1>7, OneMoves DEF ChainsTyped

(* The await returns. *)
LEMMA ContinuesKeeps ==
  ASSUME ChainsAreTrees, ChainsInv, NEW k \in Dispatch, Continues(k)
  PROVE  ChainsInv'
  <1> DEFINE n == At(k)
             r == exec[k].at
             m == IF exec[k].state = "resolved" THEN NextOf[n] ELSE FallbackOf[n]
  <1>1. ChainsTyped /\ StateOf(k) /\ BranchesOf(k) /\ CallsOf(k)
    BY OneByOne DEF Each, ChainsTyped, StateOf
  <1>2. /\ exec[k].state \in {"resolved", "rejected"} /\ GoesOn(k, m, r)
        /\ UNCHANGED <<running, invocations, begun, inTime>>
    BY DEF Continues, Fails, At
  <1>3. /\ Underway(k) /\ n \in Node /\ n \in begun[k]
        /\ n \in inTime[k] <=> exec[k].state = "resolved"
    BY <1>1, <1>2 DEF Underway, Begun, StateOf, BranchesOf, At
  <1>4. /\ m = NextOf[n] /\ m \in Node => n \in inTime[k]
        /\ m = FallbackOf[n] /\ m \in Node => n \notin inTime[k]
    BY <1>2, <1>3 DEF ChainsAreTrees
  <1>5. StateOf(k)' /\ BranchesOf(k)' /\ CallsOf(k)'
    <2>1. begun'[k] = begun[k] \cup {n}
      BY <1>2, <1>3
    <2> QED
      BY <1>1, <1>2, <1>3, <1>4, <2>1, GoesOnKeeps
  <1>6. PICK s, f : Moves(k, s, m, r, f)
    BY <1>2 DEF GoesOn
  <1>7. /\ \A j \in Dispatch \ {k} : exec'[j] = exec[j]
        /\ exec' = [j \in Dispatch |-> [state |-> exec'[j].state, node |-> exec'[j].node,
                                        at |-> exec'[j].at, down |-> exec'[j].down]]
    BY <1>1, <1>6, MovesFacts
  <1>8. Others(k)
    BY <1>2, <1>7 DEF Others
  <1> QED
    BY <1>1, <1>2, <1>5, <1>7, <1>8, OneMoves DEF ChainsTyped

-----------------------------------------------------------------------------
LEMMA NextKeeps == ASSUME ChainsAreTrees, ChainsInv, [Next]_vars PROVE ChainsInv'
  <1>1. CASE UNCHANGED chains
    BY <1>1, NoneMoves DEF chains, ChainsInv, ChainsTyped
  <1>2. CASE \E k \in Dispatch : \/ Executes(k) \/ TimesOut(k) \/ Continues(k)
                                 \/ \E n \in Node : \/ Dispatches(k, n)
                                                    \/ \E ok \in BOOLEAN : Answers(k, n, ok)
    BY <1>2, DispatchesKeeps, ExecutesKeeps, AnswersKeeps, TimesOutKeeps, ContinuesKeeps
  <1> QED
    BY <1>1, <1>2 DEF Next, vars

LEMMA InitKeeps == ChainsInit => ChainsInv
  BY DEF ChainsInit, Idle, ChainsInv, ChainsTyped, BranchesInv, InvocationsInv, Underway, Reached,
         Reaching, Begun

(* However dispatches, handlers, timers and the registries they run in are     *)
(* ordered, a dispatch is at a node whose branches have not begun, and every   *)
(* node was reached through its parent and by that one's outcome.              *)
THEOREM Invariance == ASSUME ChainsAreTrees PROVE Spec => []ChainsInv
  BY InitKeeps, NextKeeps, PTL DEF Spec

(* Over all registries a chain crosses, each of its actions reaches a handler  *)
(* at most once; next is executed only if the handler succeeded before its     *)
(* timer, fallback only if it did not (executeChain).                          *)
THEOREM ActionsRunOnce == ASSUME ChainsAreTrees PROVE Spec => []EachActionOnce
  <1>1. ChainsInv => EachActionOnce
    BY DEF ChainsInv, ChainsTyped, BranchesInv, InvocationsInv, Reached, EachActionOnce
  <1> QED
    BY <1>1, Invariance, PTL

-----------------------------------------------------------------------------
(* The routes that the chains travel by.                                       *)
(*                                                                             *)
(* First the forest of registries.  By TreeAssumption what fails for a registry      *)
(* fails for one with nothing wrong at its parent.                             *)

(* The equation Up is defined by has a solution: the least sets closed under   *)
(* Parent.                                                                     *)
LEMMA UpUnfolds ==
  Up = [r \in Registry |-> IF r = Shell THEN {} ELSE {Parent[r]} \cup Up[Parent[r]]]
  <1> DEFINE Closed(C, r) == /\ r # Shell => Parent[r] \in C
                             /\ \A x \in C \ {Shell} : Parent[x] \in C
             Least(r) == {a \in Registry : \A C \in SUBSET Registry : Closed(C, r) => a \in C}
             f == [r \in Registry |-> Least(r)]
             step(g, r) == IF r = Shell THEN {} ELSE {Parent[r]} \cup g[Parent[r]]
  <1>1. Least(Shell) = {}
    <2>1. {} \in SUBSET Registry /\ Closed({}, Shell)
      OBVIOUS
    <2> QED
      BY <2>1
  <1>2. ASSUME NEW r \in Nested  PROVE Least(r) = {Parent[r]} \cup Least(Parent[r])
    <2> DEFINE p == Parent[r]
    <2>1. p \in Registry /\ r # Shell
      BY TreeAssumption DEF Nested
    <2>2. ASSUME NEW C \in SUBSET Registry, Closed(C, r)  PROVE Closed(C, p) /\ p \in C
      BY <2>1, <2>2
    <2>3. {p} \cup Least(p) \subseteq Least(r)
      BY <2>1, <2>2
    <2>4. {p} \cup Least(p) \in SUBSET Registry
      BY <2>1
    <2>5. ASSUME NEW x \in ({p} \cup Least(p)) \ {Shell}  PROVE Parent[x] \in Least(p)
      <3>1. x \in Registry /\ Parent[x] \in Registry
        BY <2>4, <2>5, TreeAssumption DEF Nested
      <3>2. ASSUME NEW C \in SUBSET Registry, Closed(C, p)  PROVE Parent[x] \in C
        BY <2>5, <3>2
      <3> QED
        BY <3>1, <3>2
    <2>6. Closed({p} \cup Least(p), r)
      BY <2>5
    <2>7. Least(r) \subseteq {p} \cup Least(p)
      BY <2>4, <2>6
    <2> QED
      BY <2>3, <2>7
  <1>3. f = [r \in Registry |-> step(f, r)]
    <2>1. ASSUME NEW r \in Registry  PROVE Least(r) = step(f, r)
      <3>1. CASE r = Shell
        BY <1>1, <3>1
      <3>2. CASE r # Shell
        <4>1. r \in Nested /\ Parent[r] \in Registry
          BY <3>2, TreeAssumption DEF Nested
        <4>2. f[Parent[r]] = Least(Parent[r])
          BY <4>1
        <4> HIDE DEF Least, f
        <4> QED
          BY <1>2, <3>2, <4>1, <4>2
      <3> QED
        BY <3>1, <3>2
    <2> HIDE DEF Least, step
    <2> QED
      BY <2>1
  <1> HIDE DEF f
  <1> QED
    BY <1>3 DEF Up

LEMMA UpFacts ==
  /\ Up[Shell] = {}
  /\ \A r \in Nested : /\ r \in Registry /\ Parent[r] \in Registry
                       /\ Up[r] = {Parent[r]} \cup Up[Parent[r]]
  BY UpUnfolds, TreeAssumption DEF Nested

(* A property of registries that holds of the shell, and of a nested one when  *)
(* it holds of its parent, holds of all: S are those it fails for.             *)
LEMMA Upwards ==
  ASSUME NEW S \in SUBSET Registry, Shell \notin S,
         \A r \in Nested : r \in S => Parent[r] \in S
  PROVE  S = {}
  BY TreeAssumption DEF Nested

LEMMA UpRegistries == \A r \in Registry : Up[r] \subseteq Registry
  <1> DEFINE S == {r \in Registry : ~ (Up[r] \subseteq Registry)}
  <1>1. Shell \notin S /\ \A r \in Nested : r \in S => Parent[r] \in S
    BY UpFacts
  <1> QED
    BY <1>1, Upwards

LEMMA UpTransitive == \A r \in Registry : \A a \in Up[r] : Up[a] \subseteq Up[r]
  <1> DEFINE S == {r \in Registry : \E a \in Up[r] : ~ (Up[a] \subseteq Up[r])}
  <1>1. Shell \notin S /\ \A r \in Nested : r \in S => Parent[r] \in S
    BY UpFacts
  <1> QED
    BY <1>1, Upwards

LEMMA UpIrreflexive == \A r \in Registry : r \notin Up[r]
  <1> DEFINE S == {r \in Registry : r \in Up[r]}
  <1>1. Shell \notin S
    BY UpFacts
  <1>2. ASSUME NEW r \in Nested, r \in S  PROVE Parent[r] \in S
    <2>1. r \in Up[r] /\ Parent[r] \in Up[r] /\ Up[r] = {Parent[r]} \cup Up[Parent[r]]
      BY <1>2, UpFacts
    <2>2. r = Parent[r] \/ Up[r] \subseteq Up[Parent[r]]
      BY <2>1, UpFacts, UpTransitive
    <2> QED
      BY <2>1, <2>2, UpFacts
  <1> QED
    BY <1>1, <1>2, Upwards

(* Of two registries on the way up from r one is above the other.              *)
LEMMA UpOrdered ==
  \A r \in Registry : \A x, y \in {r} \cup Up[r] : x = y \/ x \in Up[y] \/ y \in Up[x]
  <1> DEFINE Apart(r) == \E x, y \in {r} \cup Up[r] : x # y /\ x \notin Up[y] /\ y \notin Up[x]
             S == {r \in Registry : Apart(r)}
  <1>1. Shell \notin S
    BY UpFacts
  <1>2. ASSUME NEW r \in Nested, r \in S  PROVE Parent[r] \in S
    <2>1. PICK x, y \in {r} \cup Up[r] : x # y /\ x \notin Up[y] /\ y \notin Up[x]
      BY <1>2
    <2>2. x # r /\ y # r
      BY <2>1
    <2>3. x \in {Parent[r]} \cup Up[Parent[r]] /\ y \in {Parent[r]} \cup Up[Parent[r]]
      BY <2>1, <2>2, UpFacts
    <2> QED
      BY <2>1, <2>3, UpFacts
  <1> QED
    BY <1>1, <1>2, Upwards

(* Paths.                                                                      *)
LEMMA PathToParent ==
  ASSUME NEW r \in Nested  PROVE PathTo(r, Parent[r]) = {r}
  <1> DEFINE p == Parent[r]
  <1>1. r \in Registry /\ p \in Registry /\ Up[r] = {p} \cup Up[p] /\ p \notin Up[p]
    BY UpFacts, UpIrreflexive
  <1>2. \A x \in Up[p] : p \notin Up[x]
    BY <1>1, UpTransitive
  <1> QED
    BY <1>1, <1>2 DEF PathTo

LEMMA PathFacts ==
  ASSUME NEW r \in Registry, NEW a \in Up[r]
  PROVE  /\ a \in Registry /\ PathTo(r, a) \subseteq Nested /\ a \notin PathTo(r, a)
         /\ \E x \in PathTo(r, a) : Parent[x] = a
         /\ \A x \in PathTo(r, a) : Parent[x] = a =>
              /\ x = r \/ x \in Up[r]
              /\ PathTo(r, a) = {x} \cup IF x = r THEN {} ELSE PathTo(r, x)
  <1> DEFINE S == {z \in Registry : \E b \in Up[z] : \A x \in PathTo(z, b) : Parent[x] # b}
  <1>1. /\ a \in Registry /\ a \notin Up[a] /\ {r} \cup Up[r] \subseteq Registry
    BY UpRegistries, UpIrreflexive
  <1>2. PathTo(r, a) \subseteq Nested /\ a \notin PathTo(r, a)
    BY <1>1, UpFacts DEF PathTo, Nested
  <1>3. \E x \in PathTo(r, a) : Parent[x] = a
    <2>1. Shell \notin S
      BY UpFacts
    <2>2. ASSUME NEW z \in Nested, z \in S  PROVE Parent[z] \in S
      <3>1. PICK b \in Up[z] : \A x \in PathTo(z, b) : Parent[x] # b
        BY <2>2
      <3>2. Up[z] = {Parent[z]} \cup Up[Parent[z]] /\ z \in PathTo(z, b)
        BY <3>1, UpFacts DEF PathTo
      <3>3. b \in Up[Parent[z]]
        BY <3>1, <3>2
      <3>4. PathTo(Parent[z], b) \subseteq PathTo(z, b)
        BY <3>2 DEF PathTo
      <3> QED
        BY <3>1, <3>3, <3>4, UpFacts
    <2>3. S = {}
      BY <2>1, <2>2, Upwards
    <2> QED
      BY <2>3
  <1>4. ASSUME NEW x \in PathTo(r, a), Parent[x] = a
        PROVE  /\ x = r \/ x \in Up[r]
               /\ PathTo(r, a) = {x} \cup IF x = r THEN {} ELSE PathTo(r, x)
    <2>1. x \in Nested /\ x \in {r} \cup Up[r] /\ a \in Up[x]
      BY <1>2, <1>4 DEF PathTo
    <2>2. CASE x = r
      BY <1>4, <2>1, <2>2, PathToParent
    <2>3. CASE x # r
      <3>1. ASSUME NEW y \in PathTo(r, a), y # x  PROVE x \in Up[y]
        <4>1. y \in {r} \cup Up[r] /\ a \in Up[y] /\ y \in Registry
          BY <1>1, <3>1 DEF PathTo
        <4>2. CASE y \in Up[x]
          BY <1>1, <1>4, <2>1, <4>1, <4>2, UpFacts, UpTransitive
        <4> QED
          BY <2>1, <3>1, <4>1, <4>2, UpOrdered
      <3>2. PathTo(r, a) \subseteq {x} \cup PathTo(r, x)
        BY <3>1 DEF PathTo
      <3>3. PathTo(r, x) \subseteq PathTo(r, a)
        BY <1>1, <2>1, UpTransitive DEF PathTo
      <3> QED
        BY <1>4, <2>1, <2>3, <3>2, <3>3
    <2> QED
      BY <2>1, <2>2, <2>3
  <1> QED
    BY <1>1, <1>2, <1>3, <1>4

-----------------------------------------------------------------------------
(* What an entry of the registry a over its child x leads to, at once or       *)
(* later.                                                                      *)
Entry(a, x, t) == /\ x \in Nested /\ Parent[x] = a /\ Linked(x)
                  /\ forwarding[a][t] = <<x, bridge[x]>>

LEMMA NestingFacts ==
  ASSUME RoutesInv
  PROVE  /\ RoutesTyped /\ Shell \in Registry
         /\ \A x \in Nested : /\ x \in Registry /\ x # Shell /\ Parent[x] \in Registry
                              /\ Parent[x] # x /\ bridge[x] \in Nat /\ minted[x] \in Nat
         /\ \A r \in Registry : link[r] \in Nat
         /\ \A a \in Registry, t \in Target : forwarding[a][t] # NoRoute =>
              \E x \in Nested : /\ Entry(a, x, t) /\ t \in propagated[x]
                                /\ t \in local[x] \cup leaving[x] \/ forwarding[x][t] # NoRoute
  <1>1. RoutesTyped /\ SentInv /\ RoutesLeadToTheTarget
    BY DEF RoutesInv
  <1>2. ASSUME NEW x \in Nested
        PROVE  x \in Registry /\ x # Shell /\ Parent[x] \in Registry /\ Parent[x] # x
    BY UpFacts, UpIrreflexive DEF Nested
  <1>3. ASSUME NEW a \in Registry, NEW t \in Target, forwarding[a][t] # NoRoute
        PROVE  \E x \in Nested : /\ Entry(a, x, t) /\ t \in propagated[x]
                                 /\ t \in local[x] \cup leaving[x] \/ forwarding[x][t] # NoRoute
    <2>1. forwarding[a][t] \in Nested \X Nat
      BY <1>1, <1>3 DEF RoutesTyped
    <2>2. PICK x \in Nested : x = forwarding[a][t][1]
      BY <2>1
    <2>3. /\ Entry(a, x, t)
          /\ t \in local[x] \cup leaving[x] \/ forwarding[x][t] # NoRoute
      BY <1>1, <1>3, <2>2 DEF RoutesLeadToTheTarget, Entry
    <2>4. t \in propagated[x]
      BY <1>1, <1>3, <2>2, <2>3 DEF SentInv, Entry
    <2> QED
      BY <2>3, <2>4
  <1> QED
    BY <1>1, <1>2, <1>3, TreeAssumption DEF RoutesTyped

LEMMA EntryFacts ==
  ASSUME RoutesInv, NEW a, NEW x, NEW t, Entry(a, x, t)
  PROVE  /\ x \in Nested /\ x \in Registry /\ a \in Registry /\ Parent[x] = a
         /\ forwarding[a][t] = LinkOf(x) /\ link[x] = bridge[x] /\ bridge[x] # 0
         /\ forwarding[a][t] # NoRoute /\ forwarding[a][t][1] = x
  <1>1. /\ x \in Nested /\ x \in Registry /\ Parent[x] = a /\ Parent[x] \in Registry
        /\ link[x] = bridge[x] /\ bridge[x] # 0 /\ forwarding[a][t] = <<x, bridge[x]>>
    BY NestingFacts DEF Entry, Linked
  <1>2. <<x, bridge[x]>> # NoRoute
    BY <1>1 DEF NoRoute
  <1> QED
    BY <1>1, <1>2 DEF LinkOf

(* The invariant, put together again from the entries after a step.            *)
EntryAfter(a, x, t) ==
  /\ x \in Nested /\ Parent[x] = a /\ link'[x] = bridge'[x] /\ bridge'[x] # 0
  /\ forwarding'[a][t] = <<x, bridge'[x]>> /\ t \in propagated'[x]
  /\ t \in local'[x] \cup leaving'[x] \/ forwarding'[x][t] # NoRoute

LEMMA EntriesAfter ==
  ASSUME RoutesTyped', AdvertisedInv',
         \A a \in Registry, t \in Target :
           forwarding'[a][t] # NoRoute => \E x \in Nested : EntryAfter(a, x, t)
  PROVE  RoutesInv'
  <1>1. RoutesLeadToTheTarget'
    <2> SUFFICES ASSUME NEW a \in Registry, NEW t \in Target, forwarding'[a][t] # NoRoute
                 PROVE  LET r == forwarding'[a][t][1]
                        IN /\ Parent[r] = a /\ forwarding'[a][t] = <<r, bridge'[r]>>
                           /\ r # Shell /\ link'[r] # 0 /\ link'[r] = bridge'[r]
                           /\ t \in local'[r] \cup leaving'[r] \/ forwarding'[r][t] # NoRoute
      BY DEF RoutesLeadToTheTarget, Linked
    <2>1. PICK x \in Nested : EntryAfter(a, x, t)
      OBVIOUS
    <2> QED
      BY <2>1 DEF EntryAfter, Nested
  <1>2. SentInv'
    <2> SUFFICES ASSUME NEW r \in Nested, NEW t \in Target, forwarding'[Parent[r]][t] # NoRoute,
                        forwarding'[Parent[r]][t][1] = r
                 PROVE  t \in propagated'[r]
      BY DEF SentInv
    <2>1. PICK x \in Nested : EntryAfter(Parent[r], x, t)
      BY UpFacts
    <2> QED
      BY <2>1 DEF EntryAfter
  <1> QED
    BY <1>1, <1>2 DEF RoutesInv

(* What a registry that records an advertised target knows of the one below.   *)
LEMMA RecordedOver ==
  ASSUME NEW r \in Registry, NEW t, NEW prop, NEW a \in Recording(r, t, prop),
         NEW x \in PathTo(r, a), Parent[x] = a
  PROVE  /\ a \in Registry /\ x \in Nested /\ IsRecorded(x, t, prop)
         /\ x = r \/ x \in Recording(r, t, prop)
  <1>1. a \in Up[r] /\ \A y \in PathTo(r, a) : IsRecorded(y, t, prop)
    BY DEF Recording
  <1>2. a \in Registry /\ x \in Nested /\ (x = r \/ x \in Up[r])
    BY <1>1, PathFacts
  <1>3. x # r => PathTo(r, x) \subseteq PathTo(r, a)
    BY <1>1, PathFacts
  <1> QED
    BY <1>1, <1>2, <1>3 DEF Recording

LEMMA RecordingFacts ==
  ASSUME NEW r \in Registry, NEW t, NEW prop, NEW a \in Recording(r, t, prop)
  PROVE  \E x \in PathTo(r, a) :
           /\ x = CHOOSE y \in PathTo(r, a) : Parent[y] = a
           /\ Parent[x] = a /\ x \in Nested /\ a \in Registry /\ IsRecorded(x, t, prop)
           /\ x = r \/ x \in Recording(r, t, prop)
  <1>1. a \in Up[r]
    BY DEF Recording
  <1>2. PICK x : x = CHOOSE y \in PathTo(r, a) : Parent[y] = a
    OBVIOUS
  <1>3. x \in PathTo(r, a) /\ Parent[x] = a
    BY <1>1, <1>2, PathFacts
  <1> QED
    BY <1>2, <1>3, RecordedOver

(* A registry drops its entry over x when x is where the retraction begins, or *)
(* drops its own.                                                              *)
LEMMA DroppedBelow ==
  ASSUME RoutesInv, NEW r \in Registry, NEW t, NEW a, NEW x, Entry(a, x, t),
         x = r \/ x \in Dropping(r, t)
  PROVE  a \in Dropping(r, t)
  <1>1. x \in Nested /\ Parent[x] = a /\ Linked(x) /\ forwarding[a][t] = LinkOf(x)
    <2>1. Linked(x)
      BY DEF Entry
    <2>2. x \in Nested /\ Parent[x] = a /\ forwarding[a][t] = LinkOf(x)
      BY EntryFacts
    <2> QED
      BY <2>1, <2>2
  <1>0. Up[x] = {a} \cup Up[a]
    BY <1>1, UpFacts
  <1>2. a \in Up[r] /\ x \in PathTo(r, a)
    <2>1. x \in {r} \cup Up[r]
      BY DEF Dropping
    <2> QED
      BY <1>0, <1>1, <2>1, UpTransitive DEF PathTo
  <1>3. PathTo(r, a) = {x} \cup IF x = r THEN {} ELSE PathTo(r, x)
    BY <1>1, <1>2, PathFacts
  <1>4. \A y \in PathTo(r, a) : Linked(y) /\ forwarding[Parent[y]][t] = LinkOf(y)
    BY <1>1, <1>3 DEF Dropping
  <1> QED
    BY <1>2, <1>4 DEF Dropping

LEMMA ForgottenTyped ==
  ASSUME RoutesTyped, NEW T, NEW at, forwarding' = Forgotten(T, at)
  PROVE  forwarding' \in [Registry -> [Target -> {NoRoute} \cup (Nested \X Nat)]]
  BY DEF RoutesTyped, Forgotten

-----------------------------------------------------------------------------
(* Registering a host, its later mounts and unmounts, and the beginning of a   *)
(* disposal leave the routes as they are.                                      *)
LEMMA RoutesKept ==
  ASSUME RoutesInv, UNCHANGED <<minted, bridge, link, local, leaving, advertisable, propagated,
                                forwarding>>
  PROVE  RoutesInv'
  BY DEF RoutesInv, RoutesTyped, AdvertisedInv, SentInv, RoutesLeadToTheTarget, Linked

(* The entry made for a recorded target.                                       *)
LEMMA RecordedEntry ==
  ASSUME RoutesInv, NEW r \in Registry, NEW t, NEW a \in Recording(r, t, propagated)
  PROVE  \E x \in PathTo(r, a) :
           /\ x = CHOOSE y \in PathTo(r, a) : Parent[y] = a
           /\ x \in Nested /\ x \in Registry /\ Parent[x] = a /\ a \in Registry
           /\ link[x] = bridge[x] /\ bridge[x] # 0 /\ bridge[x] \in Nat /\ LinkOf(x) # NoRoute
           /\ LinkOf(x) = <<x, bridge[x]>> /\ forwarding[a][t] = NoRoute
           /\ IsRecorded(x, t, propagated)
           /\ x = r \/ x \in Recording(r, t, propagated)
  <1>1. PICK x \in PathTo(r, a) :
           /\ x = CHOOSE y \in PathTo(r, a) : Parent[y] = a
           /\ Parent[x] = a /\ x \in Nested /\ a \in Registry /\ IsRecorded(x, t, propagated)
           /\ x = r \/ x \in Recording(r, t, propagated)
    BY RecordingFacts
  <1>2. /\ x \in Registry /\ link[x] = bridge[x] /\ bridge[x] # 0 /\ bridge[x] \in Nat
        /\ forwarding[a][t] = NoRoute
    BY <1>1, NestingFacts DEF IsRecorded, Linked
  <1>3. LinkOf(x) = <<x, bridge[x]>> /\ LinkOf(x) # NoRoute
    BY <1>2 DEF LinkOf, NoRoute
  <1> QED
    BY <1>1, <1>2, <1>3

LEMMA AdmitRoutes ==
  ASSUME RoutesInv, NEW r \in Registry, NEW t \in Target, NEW handled, Admit(r, t, handled)
  PROVE  RoutesInv'
  <1> DEFINE new(a, s) == s \in {t} /\ a \in Recording(r, s, propagated)
  <1>1. /\ local' = [local EXCEPT ![r] = @ \cup {t}]
        /\ minted' = minted /\ bridge' = bridge /\ leaving' = leaving /\ link' = link
        /\ advertisable' = [advertisable EXCEPT ![r] = @ \cup {t}]
        /\ Advertises(r, {t}, propagated)
    BY DEF Admit, mounts
  <1>2. RoutesTyped /\ AdvertisedInv
    BY DEF RoutesInv
  <1>3. ASSUME NEW a \in Registry, NEW s \in Target
        PROVE  /\ ~ new(a, s) => forwarding'[a][s] = forwarding[a][s]
               /\ new(a, s) => forwarding'[a][s] = LinkOf(CHOOSE x \in PathTo(r, a) : Parent[x] = a)
    BY <1>1 DEF Advertises
  <1>4. ASSUME NEW x \in Registry
        PROVE  /\ propagated[x] \subseteq propagated'[x] /\ propagated'[x] \subseteq Target
               /\ (x = r \/ x \in Recording(r, t, propagated)) /\ IsRecorded(x, t, propagated)
                    => t \in propagated'[x]
    BY <1>1, <1>2 DEF Advertises, RoutesTyped
  <1>5. ASSUME NEW a \in Registry, NEW s \in Target, new(a, s)
        PROVE  \E x \in Nested : EntryAfter(a, x, s) /\ forwarding'[a][s] \in Nested \X Nat
    <2>1. PICK x \in PathTo(r, a) :
           /\ x = CHOOSE y \in PathTo(r, a) : Parent[y] = a
           /\ x \in Nested /\ x \in Registry /\ Parent[x] = a
           /\ link[x] = bridge[x] /\ bridge[x] # 0 /\ bridge[x] \in Nat
           /\ LinkOf(x) = <<x, bridge[x]>> /\ IsRecorded(x, t, propagated)
           /\ x = r \/ x \in Recording(r, t, propagated)
      BY <1>5, RecordedEntry
    <2>2. forwarding'[a][s] = <<x, bridge'[x]>> /\ link'[x] = bridge'[x] /\ bridge'[x] # 0
      BY <1>1, <1>3, <1>5, <2>1
    <2>3. t \in propagated'[x]
      BY <1>4, <2>1
    <2>4. t \in local'[x] \cup leaving'[x] \/ forwarding'[x][t] # NoRoute
      <3>1. CASE x = r
        BY <1>1, <1>2, <2>1, <3>1 DEF RoutesTyped
      <3>2. CASE x \in Recording(r, t, propagated)
        <4>1. PICK y \in PathTo(r, x) : /\ y = CHOOSE z \in PathTo(r, x) : Parent[z] = x
                                        /\ LinkOf(y) # NoRoute
          BY <3>2, RecordedEntry
        <4> QED
          BY <1>3, <2>1, <3>2, <4>1
      <3> QED
        BY <2>1, <3>1, <3>2
    <2>5. s = t /\ forwarding'[a][s] \in Nested \X Nat
      <3>1. bridge' = bridge
        BY <1>1
      <3>2. s = t
        BY <1>5
      <3>3. x \in Nested /\ bridge[x] \in Nat
        BY <2>1
      <3>4. <<x, bridge[x]>> \in Nested \X Nat
        BY <3>3
      <3> QED
        BY <2>2, <3>1, <3>2, <3>4
    <2>6. EntryAfter(a, x, s)
      BY <2>1, <2>2, <2>3, <2>4, <2>5 DEF EntryAfter
    <2> QED
      BY <2>1, <2>5, <2>6
  <1>6. ASSUME NEW a \in Registry, NEW s \in Target, forwarding[a][s] # NoRoute
        PROVE  forwarding'[a][s] # NoRoute
    <2>1. ~ new(a, s)
      BY <1>6, RecordedEntry
    <2> QED
      BY <1>3, <1>6, <2>1
  <1>7. RoutesTyped'
    <2>1. propagated' \in [Registry -> SUBSET Target]
      BY <1>1, <1>4 DEF Advertises
    <2>2. \A a \in Registry, s \in Target : forwarding'[a][s] \in {NoRoute} \cup (Nested \X Nat)
      <3>1. ASSUME NEW a \in Registry, NEW s \in Target
            PROVE  forwarding'[a][s] \in {NoRoute} \cup (Nested \X Nat)
        <4>1. forwarding[a][s] \in {NoRoute} \cup (Nested \X Nat)
          BY <1>2 DEF RoutesTyped
        <4>2. CASE new(a, s)
          BY <1>5, <4>2
        <4>3. CASE ~ new(a, s)
          BY <1>3, <4>1, <4>3
        <4> QED
          BY <4>2, <4>3
      <3> QED
        BY <3>1
    <2>3. forwarding' \in [Registry -> [Target -> {NoRoute} \cup (Nested \X Nat)]]
      BY <1>1, <2>2 DEF Advertises
    <2> QED
      BY <1>1, <1>2, <2>1, <2>3 DEF RoutesTyped
  <1>8. AdvertisedInv'
    BY <1>1, <1>2 DEF AdvertisedInv, RoutesTyped
  <1>9. ASSUME NEW a \in Registry, NEW s \in Target, forwarding'[a][s] # NoRoute
        PROVE  \E x \in Nested : EntryAfter(a, x, s)
    <2>1. CASE new(a, s)
      BY <1>5, <2>1
    <2>2. CASE ~ new(a, s)
      <3>1. forwarding'[a][s] = forwarding[a][s] /\ forwarding[a][s] # NoRoute
        BY <1>3, <1>9, <2>2
      <3>2. PICK x \in Nested : /\ Entry(a, x, s) /\ s \in propagated[x]
                                /\ s \in local[x] \cup leaving[x] \/ forwarding[x][s] # NoRoute
        BY <3>1, NestingFacts
      <3>3. /\ x \in Registry /\ Parent[x] = a /\ link[x] = bridge[x] /\ bridge[x] # 0
            /\ forwarding[a][s] = <<x, bridge[x]>>
        BY <3>2, EntryFacts DEF Entry
      <3>4. local[x] \subseteq local'[x]
        BY <1>1, <1>2, <3>3 DEF RoutesTyped
      <3>5. s \in propagated'[x]
        BY <1>4, <3>2, <3>3
      <3>6. s \in local'[x] \cup leaving'[x] \/ forwarding'[x][s] # NoRoute
        BY <1>1, <1>6, <3>2, <3>3, <3>4
      <3> QED
        BY <1>1, <3>1, <3>2, <3>3, <3>5, <3>6 DEF EntryAfter
    <2> QED
      BY <2>1, <2>2
  <1> QED
    BY <1>7, <1>8, <1>9, EntriesAfter

LEMMA WithdrawRoutes ==
  ASSUME RoutesInv, NEW r \in Registry, NEW t \in Target, Withdraw(r, t)  PROVE RoutesInv'
  <1>1. /\ RoutesTyped /\ AdvertisedInv /\ SentInv /\ RoutesLeadToTheTarget
        /\ local' = [local EXCEPT ![r] = @ \ {t}] /\ leaving' = [leaving EXCEPT ![r] = @ \cup {t}]
        /\ UNCHANGED <<minted, bridge, link, advertisable, forwarding, propagated>>
    BY DEF RoutesInv, Withdraw, mounts, routes
  <1>2. ASSUME NEW x \in Registry
        PROVE  local[x] \cup leaving[x] \subseteq local'[x] \cup leaving'[x]
    BY <1>1 DEF RoutesTyped
  <1>3. RoutesTyped' /\ SentInv'
    BY <1>1 DEF RoutesTyped, SentInv
  <1>4. AdvertisedInv'
    BY <1>1, <1>2 DEF AdvertisedInv
  <1>5. RoutesLeadToTheTarget'
    <2>1. \A a \in Registry, s \in Target :
            forwarding[a][s] # NoRoute => forwarding[a][s][1] \in Registry
      BY <1>1, NestingFacts, EntryFacts
    <2> QED
      BY <1>1, <1>2, <2>1 DEF RoutesLeadToTheTarget, Linked
  <1> QED
    BY <1>3, <1>4, <1>5 DEF RoutesInv

(* An entry that a step which only drops entries leaves.                       *)
LEMMA LeftBehind ==
  ASSUME RoutesInv, NEW T, NEW at, forwarding' = Forgotten(T, at)
  PROVE  /\ \A a \in Registry, t \in Target :
              forwarding'[a][t] = IF t \in T /\ a \in at[t] THEN NoRoute ELSE forwarding[a][t]
         /\ \A a \in Registry, t \in Target : forwarding'[a][t] # NoRoute =>
              /\ forwarding'[a][t] = forwarding[a][t] /\ ~ (t \in T /\ a \in at[t])
              /\ \E x \in Nested :
                   /\ Entry(a, x, t) /\ t \in propagated[x]
                   /\ t \in local[x] \cup leaving[x] \/ forwarding[x][t] # NoRoute
  <1>1. \A a \in Registry, t \in Target :
          forwarding'[a][t] = IF t \in T /\ a \in at[t] THEN NoRoute ELSE forwarding[a][t]
    BY DEF Forgotten
  <1> QED
    BY <1>1, NestingFacts

LEMMA RetractRoutes ==
  ASSUME RoutesInv, NEW r \in Registry, NEW t \in Target, Retract(r, t)  PROVE RoutesInv'
  <1>0. PICK at, sent : at = [s \in Target |-> Dropping(r, s)] /\ sent = {t} \cap propagated[r]
    OBVIOUS
  <1>1. /\ leaving' = [leaving EXCEPT ![r] = @ \ {t}]
        /\ propagated' = [propagated EXCEPT ![r] = @ \ {t}]
        /\ advertisable' = [advertisable EXCEPT ![r] = @ \ {t}]
        /\ forwarding' = Forgotten(sent, at)
        /\ minted' = minted /\ bridge' = bridge /\ local' = local /\ link' = link
    BY <1>0 DEF Retract, mounts
  <1>2. RoutesTyped /\ AdvertisedInv
    BY DEF RoutesInv
  <1>3. RoutesTyped'
    BY <1>1, <1>2, ForgottenTyped DEF RoutesTyped
  <1>4. AdvertisedInv'
    BY <1>1, <1>2 DEF AdvertisedInv, RoutesTyped
  <1>5. ASSUME NEW a \in Registry, NEW s \in Target, forwarding'[a][s] # NoRoute
        PROVE  \E x \in Nested : EntryAfter(a, x, s)
    <2>1. forwarding'[a][s] = forwarding[a][s] /\ ~ (s \in sent /\ a \in at[s])
      BY <1>1, <1>5, LeftBehind
    <2>2. PICK x \in Nested : /\ Entry(a, x, s) /\ s \in propagated[x]
                              /\ s \in local[x] \cup leaving[x] \/ forwarding[x][s] # NoRoute
      BY <1>1, <1>5, LeftBehind
    <2>3. s = t /\ s \in propagated[r] => a \notin Dropping(r, s)
      BY <1>0, <2>1
    <2>4. ~ (x = r /\ s = t)
      BY <2>2, <2>3, DroppedBelow
    <2>5. s \in propagated'[x]
      BY <1>1, <1>2, <2>2, <2>4 DEF RoutesTyped, Nested
    <2>6. s \in local'[x] \cup leaving'[x] \/ forwarding'[x][s] # NoRoute
      <3>1. CASE s \in local[x] \cup leaving[x]
        BY <1>1, <1>2, <2>2, <2>4, <3>1 DEF RoutesTyped, Nested
      <3>2. CASE forwarding[x][s] # NoRoute
        <4>1. ~ (s \in sent /\ x \in at[s])
          BY <1>0, <2>2, <2>3, DroppedBelow
        <4>2. forwarding'[x][s] = forwarding[x][s]
          BY <1>1, <2>2, <4>1, LeftBehind DEF Nested
        <4> QED
          BY <3>2, <4>2
      <3> QED
        BY <2>2, <3>1, <3>2
    <2>7. /\ link'[x] = bridge'[x] /\ bridge'[x] # 0 /\ Parent[x] = a
          /\ forwarding'[a][s] = <<x, bridge'[x]>>
      BY <1>1, <2>1, <2>2, EntryFacts DEF Entry
    <2> QED
      BY <2>2, <2>5, <2>6, <2>7 DEF EntryAfter
  <1> QED
    BY <1>3, <1>4, <1>5, EntriesAfter

LEMMA HostUnregisteredRoutes ==
  ASSUME RoutesInv, NEW r \in Nested, HostUnregistered(r)  PROVE RoutesInv'
  <1> DEFINE p == Parent[r]
  <1>0. PICK at, through : /\ at = [t \in Target |-> {p} \cup Dropping(p, t)]
                           /\ through = {t \in Target :
                                /\ bridge[r] # 0 /\ forwarding[p][t] = <<r, bridge[r]>>}
    OBVIOUS
  <1>1. /\ bridge' = [bridge EXCEPT ![r] = 0] /\ link' = [link EXCEPT ![r] = 0]
        /\ propagated' = [propagated EXCEPT ![r] = {}] /\ forwarding' = Forgotten(through, at)
        /\ UNCHANGED <<minted, local, leaving, advertisable>>
    BY <1>0 DEF HostUnregistered, own
  <1>2. RoutesTyped /\ AdvertisedInv /\ r \in Registry /\ p \in Registry
    BY NestingFacts DEF RoutesInv
  <1>3. RoutesTyped'
    BY <1>1, <1>2, ForgottenTyped DEF RoutesTyped
  <1>4. AdvertisedInv'
    BY <1>1, <1>2 DEF AdvertisedInv
  <1>5. ASSUME NEW a \in Registry, NEW s \in Target, forwarding'[a][s] # NoRoute
        PROVE  \E x \in Nested : EntryAfter(a, x, s)
    <2>1. forwarding'[a][s] = forwarding[a][s] /\ ~ (s \in through /\ a \in at[s])
      BY <1>1, <1>5, LeftBehind
    <2>2. PICK x \in Nested : /\ Entry(a, x, s) /\ s \in propagated[x]
                              /\ s \in local[x] \cup leaving[x] \/ forwarding[x][s] # NoRoute
      BY <1>1, <1>5, LeftBehind
    <2>3. x # r
      <3>1. SUFFICES ASSUME x = r  PROVE FALSE
        OBVIOUS
      <3>2. a = p /\ bridge[r] # 0 /\ forwarding[p][s] = <<r, bridge[r]>>
        BY <2>2, <3>1, EntryFacts DEF Entry
      <3> QED
        BY <1>0, <2>1, <3>2
    <2>4. s \in propagated'[x] /\ link'[x] = link[x] /\ bridge'[x] = bridge[x]
      BY <1>1, <1>2, <2>2, <2>3 DEF RoutesTyped, Nested
    <2>5. s \in local'[x] \cup leaving'[x] \/ forwarding'[x][s] # NoRoute
      <3>1. CASE s \in local[x] \cup leaving[x]
        BY <1>1, <3>1
      <3>2. CASE forwarding[x][s] # NoRoute
        <4>1. ~ (s \in through /\ x \in at[s])
          <5>1. SUFFICES ASSUME s \in through, x = p \/ x \in Dropping(p, s)  PROVE FALSE
            BY <1>0
          <5>2. a \in Dropping(p, s)
            BY <1>2, <2>2, <5>1, DroppedBelow
          <5> QED
            BY <1>0, <2>1, <5>1, <5>2
        <4>2. forwarding'[x][s] = forwarding[x][s]
          BY <1>1, <2>2, <4>1, LeftBehind DEF Nested
        <4> QED
          BY <3>2, <4>2
      <3> QED
        BY <2>2, <3>1, <3>2
    <2>6. /\ link'[x] = bridge'[x] /\ bridge'[x] # 0 /\ Parent[x] = a
          /\ forwarding'[a][s] = <<x, bridge'[x]>>
      BY <2>1, <2>2, <2>4, EntryFacts DEF Entry
    <2> QED
      BY <2>2, <2>4, <2>5, <2>6 DEF EntryAfter
  <1> QED
    BY <1>3, <1>4, <1>5, EntriesAfter

LEMMA DisposeEndsRoutes ==
  ASSUME RoutesInv, NEW r \in Registry, DisposeEnds(r)  PROVE RoutesInv'
  <1>0. PICK at : at = [t \in Target |->
                          {r} \cup IF t \in propagated[r] THEN Dropping(r, t) ELSE {}]
    OBVIOUS
  <1>1. /\ forwarding' = Forgotten(Target, at) /\ leaving' = leaving /\ minted' = minted
        /\ advertisable' = [advertisable EXCEPT ![r] = {}] /\ local' = [local EXCEPT ![r] = {}]
        /\ bridge' = [x \in Nested |-> IF x \in Children(r) THEN 0 ELSE bridge[x]]
        /\ link' = [x \in Registry |-> IF x \in {r} \cup Children(r) THEN 0 ELSE link[x]]
        /\ propagated' = [x \in Registry |->
                            IF x \in {r} \cup Children(r) THEN {} ELSE propagated[x]]
    BY <1>0 DEF DisposeEnds
  <1>2. RoutesTyped /\ AdvertisedInv
    BY DEF RoutesInv
  <1>3. RoutesTyped'
    <2>1. bridge' \in [Nested -> Nat] /\ link' \in [Registry -> Nat]
      BY <1>1, <1>2 DEF RoutesTyped
    <2>2. propagated' \in [Registry -> SUBSET Target]
      BY <1>1, <1>2 DEF RoutesTyped
    <2>3. forwarding' \in [Registry -> [Target -> {NoRoute} \cup (Nested \X Nat)]]
      BY <1>1, <1>2, ForgottenTyped
    <2> QED
      BY <1>1, <1>2, <2>1, <2>2, <2>3 DEF RoutesTyped
  <1>4. AdvertisedInv'
    BY <1>1, <1>2 DEF AdvertisedInv, RoutesTyped
  <1>5. ASSUME NEW a \in Registry, NEW s \in Target, forwarding'[a][s] # NoRoute
        PROVE  \E x \in Nested : EntryAfter(a, x, s)
    <2>1. forwarding'[a][s] = forwarding[a][s] /\ a \notin at[s]
      BY <1>1, <1>5, LeftBehind
    <2>2. PICK x \in Nested : /\ Entry(a, x, s) /\ s \in propagated[x]
                              /\ s \in local[x] \cup leaving[x] \/ forwarding[x][s] # NoRoute
      BY <1>1, <1>5, LeftBehind
    <2>3. a # r /\ (s \in propagated[r] => a \notin Dropping(r, s))
      BY <1>0, <2>1
    <2>4. x # r /\ x \in Registry
      BY <2>2, <2>3, DroppedBelow DEF Nested
    <2>5. x \notin Children(r)
      BY <2>2, <2>3, EntryFacts DEF Children
    <2>6. /\ s \in propagated'[x] /\ link'[x] = link[x] /\ bridge'[x] = bridge[x]
          /\ local'[x] = local[x] /\ leaving'[x] = leaving[x]
      BY <1>1, <1>2, <2>2, <2>4, <2>5 DEF RoutesTyped
    <2>7. s \in local'[x] \cup leaving'[x] \/ forwarding'[x][s] # NoRoute
      <3>1. CASE s \in local[x] \cup leaving[x]
        BY <2>6, <3>1
      <3>2. CASE forwarding[x][s] # NoRoute
        <4>1. x \notin at[s]
          BY <1>0, <2>2, <2>3, <2>4, DroppedBelow
        <4>2. forwarding'[x][s] = forwarding[x][s]
          BY <1>1, <2>4, <4>1, LeftBehind
        <4> QED
          BY <3>2, <4>2
      <3> QED
        BY <2>2, <3>1, <3>2
    <2>8. /\ link'[x] = bridge'[x] /\ bridge'[x] # 0 /\ Parent[x] = a
          /\ forwarding'[a][s] = <<x, bridge'[x]>>
      BY <2>1, <2>2, <2>6, EntryFacts DEF Entry
    <2> QED
      BY <2>2, <2>6, <2>7, <2>8 DEF EntryAfter
  <1> QED
    BY <1>3, <1>4, <1>5, EntriesAfter

-----------------------------------------------------------------------------
(* A first mount of the host of r: the parent records what r holds, and the    *)
(* registries above it what the parent advertises on.                          *)
RelinkedAt(r, t) ==
  IF t \in local[Parent[r]] \/ forwarding[Parent[r]][t] # NoRoute THEN {}
  ELSE {Parent[r]} \cup Recording(Parent[r], t, propagated)

LEMMA RelinkedOver ==
  ASSUME RoutesInv, NEW r \in Nested, bridge[r] = 0, NEW t, NEW a \in RelinkedAt(r, t)
  PROVE  \E x \in Nested :
           /\ x = CHOOSE y \in PathTo(r, a) : Parent[y] = a
           /\ x \in Registry /\ Parent[x] = a /\ a \in Registry /\ forwarding[a][t] = NoRoute
           /\ a = Parent[r] => x = r
           /\ a # Parent[r] => /\ x # r /\ x \in RelinkedAt(r, t) /\ IsRecorded(x, t, propagated)
                               /\ link[x] = bridge[x] /\ bridge[x] # 0 /\ bridge[x] \in Nat
  <1> DEFINE p == Parent[r]
  <1>1. PICK x : x = CHOOSE y \in PathTo(r, a) : Parent[y] = a
    OBVIOUS
  <1>2. /\ r \in Registry /\ p \in Registry /\ Up[r] = {p} \cup Up[p] /\ p \notin Up[p]
        /\ RelinkedAt(r, t) = {p} \cup Recording(p, t, propagated) /\ forwarding[p][t] = NoRoute
    BY UpFacts, UpIrreflexive DEF RelinkedAt
  <1>3. CASE a = p
    <2>1. PathTo(r, a) = {r}
      BY <1>3, PathToParent
    <2>2. x = r
      BY <1>1, <1>3, <2>1
    <2> QED
      BY <1>1, <1>2, <1>3, <2>2
  <1>4. CASE a # p
    <2>1. a \in Recording(p, t, propagated) /\ a \in Up[p]
      BY <1>2, <1>4 DEF Recording
    <2>2. x \in PathTo(r, a) /\ Parent[x] = a
      BY <1>1, <1>2, <2>1, PathFacts
    <2>3. x # r
      BY <1>4, <2>2
    <2>4. x \in PathTo(p, a)
      BY <1>2, <2>2, <2>3 DEF PathTo
    <2>5. /\ a \in Registry /\ x \in Nested /\ IsRecorded(x, t, propagated)
          /\ x = p \/ x \in Recording(p, t, propagated)
      BY <1>2, <2>1, <2>2, <2>4, RecordedOver
    <2>6. /\ x \in Registry /\ link[x] = bridge[x] /\ bridge[x] # 0 /\ bridge[x] \in Nat
          /\ forwarding[a][t] = NoRoute
      BY <2>2, <2>5, NestingFacts DEF IsRecorded, Linked
    <2> QED
      BY <1>1, <1>2, <1>4, <2>2, <2>3, <2>5, <2>6
  <1> QED
    BY <1>3, <1>4

LEMMA RelinksFacts ==
  ASSUME RoutesInv, NEW r \in Nested, Relinks(r)
  PROVE  /\ \A a \in Registry, t \in Target :
              /\ ~ (t \in Held(r) /\ a \in RelinkedAt(r, t)) => forwarding'[a][t] = forwarding[a][t]
              /\ t \in Held(r) /\ a \in RelinkedAt(r, t) =>
                   \A x : x = (CHOOSE y \in PathTo(r, a) : Parent[y] = a) =>
                     /\ a = Parent[r] => forwarding'[a][t] = <<x, minted'[r]>>
                     /\ a # Parent[r] => forwarding'[a][t] = <<x, link[x]>>
         /\ forwarding' = [a \in Registry |-> [t \in Target |-> forwarding'[a][t]]]
         /\ propagated' \in [Registry -> SUBSET Target]
         /\ \A x \in Registry \ {r} : propagated[x] \subseteq propagated'[x]
         /\ \A x \in Registry \ {r}, t \in Held(r) :
              x \in RelinkedAt(r, t) /\ IsRecorded(x, t, propagated) => t \in propagated'[x]
         /\ \A t \in Held(r) : Parent[r] \in RelinkedAt(r, t) => t \in propagated'[r]
  <1>1. r \in Registry /\ RoutesTyped /\ Held(r) \subseteq Target
    BY NestingFacts DEF RoutesInv, RoutesTyped, Held
  <1>2. /\ forwarding' = [a \in Registry |-> [t \in Target |->
             IF t \in Held(r) /\ a \in RelinkedAt(r, t)
               THEN LET x == CHOOSE y \in PathTo(r, a) : Parent[y] = a
                    IN <<x, IF a = Parent[r] THEN minted'[r] ELSE link[x]>>
               ELSE forwarding[a][t]]]
        /\ propagated' = [x \in Registry |->
             IF x = r THEN {t \in Held(r) : Parent[r] \in RelinkedAt(r, t)}
             ELSE propagated[x] \cup
                  {t \in Held(r) : /\ x \in RelinkedAt(r, t)
                                   /\ \/ IsRecorded(x, t, propagated)
                                      \/ IsRepeated(x, t, propagated)}]
    BY DEF Relinks, RelinkedAt
  <1>3. propagated' \in [Registry -> SUBSET Target]
    BY <1>1, <1>2 DEF RoutesTyped
  <1>4. forwarding' = [a \in Registry |-> [t \in Target |-> forwarding'[a][t]]]
    BY <1>2
  <1>5. /\ \A x \in Registry \ {r} : propagated[x] \subseteq propagated'[x]
        /\ \A x \in Registry \ {r}, t \in Held(r) :
             x \in RelinkedAt(r, t) /\ IsRecorded(x, t, propagated) => t \in propagated'[x]
        /\ \A t \in Held(r) : Parent[r] \in RelinkedAt(r, t) => t \in propagated'[r]
    BY <1>1, <1>2
  <1>6. \A a \in Registry, t \in Target :
          forwarding'[a][t] =
            IF t \in Held(r) /\ a \in RelinkedAt(r, t)
              THEN LET x == CHOOSE y \in PathTo(r, a) : Parent[y] = a
                   IN <<x, IF a = Parent[r] THEN minted'[r] ELSE link[x]>>
              ELSE forwarding[a][t]
    BY <1>2
  <1> QED
    BY <1>3, <1>4, <1>5, <1>6

LEMMA FirstMountRoutes ==
  ASSUME RoutesInv, NEW r \in Nested, FirstMount(r), Relinks(r), UNCHANGED <<own, advertisable>>
  PROVE  RoutesInv'
  <1> DEFINE p == Parent[r]
             new(a, t) == t \in Held(r) /\ a \in RelinkedAt(r, t)
  <1>1. /\ bridge[r] = 0 /\ minted' = [minted EXCEPT ![r] = @ + 1]
        /\ bridge' = [bridge EXCEPT ![r] = minted'[r]] /\ link' = [link EXCEPT ![r] = minted'[r]]
        /\ local' = local /\ leaving' = leaving /\ advertisable' = advertisable
    BY DEF FirstMount, own
  <1>2. RoutesTyped /\ AdvertisedInv /\ r \in Registry /\ p \in Registry /\ r # Shell
    BY NestingFacts DEF RoutesInv
  <1>3. /\ minted'[r] \in Nat /\ minted'[r] # 0 /\ bridge'[r] = minted'[r] /\ link'[r] = minted'[r]
        /\ \A x \in Nested \ {r} : bridge'[x] = bridge[x] /\ link'[x] = link[x]
    BY <1>1, <1>2 DEF RoutesTyped, Nested
  <1>4. ASSUME NEW a \in Registry, NEW t \in Target, ~ new(a, t)
        PROVE  forwarding'[a][t] = forwarding[a][t]
    BY <1>4, RelinksFacts
  <1>5. ASSUME NEW a \in Registry, NEW t \in Target, new(a, t)
        PROVE  \E x \in Nested :
                 /\ Parent[x] = a /\ link'[x] = bridge'[x] /\ bridge'[x] # 0 /\ bridge'[x] \in Nat
                 /\ forwarding'[a][t] = <<x, bridge'[x]>> /\ forwarding[a][t] = NoRoute
                 /\ t \in propagated'[x] /\ (x = r \/ x \in RelinkedAt(r, t))
    <2>1. PICK x \in Nested :
           /\ x = CHOOSE y \in PathTo(r, a) : Parent[y] = a
           /\ x \in Registry /\ Parent[x] = a /\ a \in Registry /\ forwarding[a][t] = NoRoute
           /\ a = Parent[r] => x = r
           /\ a # Parent[r] => /\ x # r /\ x \in RelinkedAt(r, t) /\ IsRecorded(x, t, propagated)
                               /\ link[x] = bridge[x] /\ bridge[x] # 0 /\ bridge[x] \in Nat
      BY <1>1, <1>5, RelinkedOver
    <2>2. /\ a = p => forwarding'[a][t] = <<x, minted'[r]>>
          /\ a # p => forwarding'[a][t] = <<x, link[x]>>
      BY <1>5, <2>1, RelinksFacts
    <2>3. CASE a = p
      <3>1. x = r /\ t \in propagated'[r]
        BY <1>5, <2>1, <2>3, RelinksFacts
      <3>2. forwarding'[a][t] = <<x, bridge'[x]>>
        BY <1>3, <2>2, <2>3, <3>1
      <3> QED
        BY <1>3, <2>1, <3>1, <3>2
    <2>4. CASE a # p
      <3>1. t \in propagated'[x]
        BY <1>5, <2>1, <2>4, RelinksFacts
      <3>2. forwarding'[a][t] = <<x, bridge'[x]>>
        BY <1>3, <2>1, <2>2, <2>4
      <3> QED
        BY <1>3, <2>1, <2>4, <3>1, <3>2
    <2> QED
      BY <2>3, <2>4
  <1>6. ASSUME NEW a \in Registry, NEW t \in Target, forwarding[a][t] # NoRoute \/ new(a, t)
        PROVE  forwarding'[a][t] # NoRoute
    <2>1. CASE new(a, t)
      <3>1. PICK x \in Nested : /\ bridge'[x] # 0 /\ bridge'[x] \in Nat
                                /\ forwarding'[a][t] = <<x, bridge'[x]>>
        BY <1>5, <2>1
      <3>2. <<x, bridge'[x]>> # NoRoute
        BY <3>1 DEF NoRoute
      <3> QED
        BY <3>1, <3>2
    <2>2. CASE ~ new(a, t)
      BY <1>4, <1>6, <2>2
    <2> QED
      BY <2>1, <2>2
  <1>7. RoutesTyped'
    <2>1. ASSUME NEW a \in Registry, NEW t \in Target
          PROVE  forwarding'[a][t] \in {NoRoute} \cup (Nested \X Nat)
      <3>1. CASE new(a, t)
        <4>1. PICK x \in Nested : bridge'[x] \in Nat /\ forwarding'[a][t] = <<x, bridge'[x]>>
          BY <1>5, <3>1
        <4> QED
          BY <4>1
      <3>2. CASE ~ new(a, t)
        BY <1>2, <1>4, <3>2 DEF RoutesTyped
      <3> QED
        BY <3>1, <3>2
    <2>2. PICK f : f = [a \in Registry |-> [t \in Target |-> forwarding'[a][t]]]
      OBVIOUS
    <2>3. f \in [Registry -> [Target -> {NoRoute} \cup (Nested \X Nat)]]
      BY <2>1, <2>2
    <2>4. forwarding' \in [Registry -> [Target -> {NoRoute} \cup (Nested \X Nat)]]
      BY <2>2, <2>3, RelinksFacts
    <2>5. propagated' \in [Registry -> SUBSET Target]
      BY RelinksFacts
    <2> QED
      BY <1>1, <1>2, <1>3, <2>4, <2>5 DEF RoutesTyped
  <1>8. AdvertisedInv'
    BY <1>1, <1>2 DEF AdvertisedInv
  <1>9. ASSUME NEW a \in Registry, NEW t \in Target, forwarding'[a][t] # NoRoute
        PROVE  \E x \in Nested : EntryAfter(a, x, t)
    <2>1. CASE new(a, t)
      <3>1. PICK x \in Nested :
              /\ Parent[x] = a /\ link'[x] = bridge'[x] /\ bridge'[x] # 0
              /\ forwarding'[a][t] = <<x, bridge'[x]>>
              /\ t \in propagated'[x] /\ (x = r \/ x \in RelinkedAt(r, t))
        BY <1>5, <2>1
      <3>2. t \in local'[x] \cup leaving'[x] \/ forwarding'[x][t] # NoRoute
        <4>1. CASE x = r
          <5>1. t \in advertisable[r] \/ forwarding[r][t] # NoRoute
            BY <2>1 DEF Held
          <5> QED
            BY <1>1, <1>2, <1>6, <4>1, <5>1 DEF AdvertisedInv
        <4>2. CASE x \in RelinkedAt(r, t)
          BY <1>6, <2>1, <3>1, <4>2 DEF Nested
        <4> QED
          BY <3>1, <4>1, <4>2
      <3> QED
        BY <3>1, <3>2 DEF EntryAfter
    <2>2. CASE ~ new(a, t)
      <3>1. forwarding'[a][t] = forwarding[a][t] /\ forwarding[a][t] # NoRoute
        BY <1>4, <1>9, <2>2
      <3>2. PICK x \in Nested : /\ Entry(a, x, t) /\ t \in propagated[x]
                                /\ t \in local[x] \cup leaving[x] \/ forwarding[x][t] # NoRoute
        BY <3>1, NestingFacts
      <3>3. /\ x \in Registry /\ Parent[x] = a /\ link[x] = bridge[x] /\ bridge[x] # 0
            /\ forwarding[a][t] = <<x, bridge[x]>>
        BY <3>2, EntryFacts DEF Entry
      <3>4. x # r
        BY <1>1, <3>3
      <3>5. t \in propagated'[x]
        BY <3>2, <3>3, <3>4, RelinksFacts
      <3>6. t \in local'[x] \cup leaving'[x] \/ forwarding'[x][t] # NoRoute
        BY <1>1, <1>6, <3>2, <3>3
      <3>7. link'[x] = bridge'[x] /\ bridge'[x] # 0 /\ forwarding'[a][t] = <<x, bridge'[x]>>
        BY <1>3, <3>1, <3>3, <3>4
      <3> QED
        BY <3>3, <3>5, <3>6, <3>7 DEF EntryAfter
    <2> QED
      BY <2>1, <2>2
  <1> QED
    BY <1>7, <1>8, <1>9, EntriesAfter

LEMMA HostMountsRoutes ==
  ASSUME RoutesInv, NEW r \in Nested, HostMounts(r)  PROVE RoutesInv'
  <1>1. CASE FirstMount(r) /\ Relinks(r)
    BY <1>1, FirstMountRoutes DEF HostMounts
  <1>2. CASE UNCHANGED <<built, minted, bridge, link, forwarding, propagated>>
    BY <1>2, RoutesKept DEF HostMounts, own
  <1> QED
    BY <1>1, <1>2 DEF HostMounts

LEMMA RoutesOfStep == ASSUME RoutesInv, [NestingStep]_nesting PROVE RoutesInv'
  <1>1. ASSUME NEW r \in Nested, HostRegistered(r) \/ HostUnmounts(r)  PROVE RoutesInv'
    BY <1>1, RoutesKept DEF HostRegistered, HostUnmounts, own, routes
  <1>2. ASSUME NEW r \in Registry, DisposeBegins(r)  PROVE RoutesInv'
    BY <1>2, RoutesKept DEF DisposeBegins, mounts, own, routes
  <1>3. CASE UNCHANGED nesting
    BY <1>3, RoutesKept DEF nesting, mounts, own, routes
  <1> QED
    BY <1>1, <1>2, <1>3, HostMountsRoutes, HostUnregisteredRoutes, DisposeEndsRoutes, AdmitRoutes,
       WithdrawRoutes, RetractRoutes DEF NestingStep

LEMMA NoRoutesAtFirst == Init => RoutesInv
  <1> SUFFICES ASSUME Init PROVE RoutesInv
    OBVIOUS
  <1>1. RoutesTyped
    BY BoundsAssumption DEF Init, RoutesTyped
  <1>2. AdvertisedInv /\ SentInv /\ RoutesLeadToTheTarget
    BY UpFacts DEF Init, AdvertisedInv, SentInv, RoutesLeadToTheTarget
  <1> QED
    BY <1>1, <1>2 DEF RoutesInv

(* However hosts come and go, bridges are replaced, domains are withdrawn and  *)
(* registries disposed of, in any forest of registries: the entries, the links *)
(* and what each registry remembers to have sent agree.                        *)
THEOREM RoutesInvariance == Spec => []RoutesInv
  <1>1. RoutesInv /\ [Next]_vars => RoutesInv'
    <2>1. ASSUME [Next]_vars  PROVE [NestingStep]_nesting
      BY <2>1 DEF Next, vars, Dispatches, Executes, Answers, TimesOut, Continues
    <2> QED
      BY <2>1, RoutesOfStep
  <1> QED
    BY <1>1, NoRoutesAtFirst, PTL DEF Spec, ChainsInit

(* A forwarding entry leads, over the bridge its child registry holds a live   *)
(* link to, to the target or to a further entry (admitAdvertisement,           *)
(* retractForwardingEntry, relinkInboundBridge).                               *)
THEOREM RoutesReachTheirTarget == Spec => []RoutesLeadToTheTarget
  <1>1. RoutesInv => RoutesLeadToTheTarget
    BY DEF RoutesInv
  <1> QED
    BY <1>1, RoutesInvariance, PTL

-----------------------------------------------------------------------------
(* Registrations, unregistrations and disposal. *)
HIDE ChainAssumption
USE CallBoundsAssumption, IdsAssumption

Id == Domain \cup Extension

-----------------------------------------------------------------------------
(* Places in the queues. *)
LEMMA PlaceFacts ==
  ASSUME CallsInv, NEW id \in Id
  PROVE  /\ queue[id] \in Seq(1 .. Len(calls)) /\ Len(queue[id]) \in Nat
         /\ DOMAIN queue[id] = 1 .. Len(queue[id])
         /\ \A p \in DOMAIN queue[id] : queue[id][p] \in 1 .. Len(calls)
         /\ DOMAIN calls = 1 .. Len(calls) /\ DOMAIN pc = 1 .. Len(calls) /\ Len(calls) \in Nat
  BY DEF CallsInv, Id

LEMMA HeadFacts ==
  ASSUME CallsInv, NEW id \in Id, NEW c, Executing(c, id)
  PROVE  /\ 1 \in DOMAIN queue[id] /\ queue[id][1] = c /\ c \in 1 .. Len(calls)
         /\ Len(queue[id]) # 0
  <1>1. queue[id] # <<>> /\ c = Head(queue[id])
    BY DEF Executing
  <1>2. Len(queue[id]) # 0
    BY <1>1, PlaceFacts
  <1>3. 1 \in DOMAIN queue[id] /\ queue[id][1] = c
    BY <1>1, <1>2, PlaceFacts
  <1> QED
    BY <1>2, <1>3, PlaceFacts

(* Being admitted, said of the places. *)
AdmittedFirst(x) == 1 \in DOMAIN queue[x] /\ pc[queue[x][1]] = "admitted"
AdmittingIsFirst == \A x \in Extension : Admitting(x) <=> AdmittedFirst(x)

LEMMA AdmittingFacts == CallsInv => AdmittingIsFirst
  <1> SUFFICES ASSUME CallsInv, NEW x \in Extension  PROVE Admitting(x) <=> AdmittedFirst(x)
    BY DEF AdmittingIsFirst
  <1>1. queue[x] \in Seq(1 .. Len(calls)) /\ Len(queue[x]) \in Nat
        /\ DOMAIN queue[x] = 1 .. Len(queue[x])
    BY PlaceFacts DEF Id
  <1>2. queue[x] # <<>> <=> 1 \in DOMAIN queue[x]
    BY <1>1
  <1>3. queue[x] # <<>> => Head(queue[x]) = queue[x][1]
    BY <1>1
  <1> QED
    BY <1>2, <1>3 DEF Admitting, AdmittedFirst

(* A new call goes to the end of its queue. *)
LEMMA ArrivesKeeps ==
  ASSUME CallsInv, QueuesInv, NEW call \in Asked, NEW id \in Id, Arrives(call, id),
         call.op # "unregisterExtension" => call.domain \in Domain,
         id \in Domain => call.op = "unregisterDomain" /\ call.domain = id
  PROVE  CallsInv' /\ QueuesInv' /\ \A x \in Extension : Admitting(x)' <=> Admitting(x)
  <1> DEFINE n == Len(calls) + 1
  <1>1. /\ Len(calls) < MaxCalls
        /\ calls' = Append(calls, call) /\ pc' = Append(pc, "queued") /\ todo' = Append(todo, {})
        /\ queue' = [queue EXCEPT ![id] = Append(@, n)]
    BY DEF Arrives
  <1>2. /\ calls' \in Seq(Asked) /\ Len(calls') = n /\ calls'[n] = call /\ DOMAIN calls' = 1 .. n
        /\ \A c \in 1 .. Len(calls) : calls'[c] = calls[c]
    BY <1>1 DEF CallsInv
  <1>3. /\ pc' \in Seq(Position) /\ Len(pc') = n /\ pc'[n] = "queued"
        /\ \A c \in 1 .. Len(calls) : pc'[c] = pc[c]
    BY <1>1 DEF CallsInv, Position, Over
  <1>4. todo' \in Seq(SUBSET Extension) /\ Len(todo') = n
    BY <1>1 DEF CallsInv
  <1>5. /\ queue' \in [Id -> Seq(1 .. n)]
        /\ \A i \in Id : i # id => queue'[i] = queue[i]
        /\ DOMAIN queue'[id] = DOMAIN queue[id] \cup {Len(queue[id]) + 1}
        /\ queue'[id][Len(queue[id]) + 1] = n
        /\ \A p \in DOMAIN queue[id] : queue'[id][p] = queue[id][p]
    <2>1. /\ queue \in [Id -> Seq(1 .. Len(calls))] /\ Len(calls) \in Nat
      BY DEF CallsInv, Id
    <2>2. \A s \in Seq(1 .. Len(calls)) : s \in Seq(1 .. n) /\ Append(s, n) \in Seq(1 .. n)
      BY <2>1
    <2>3. queue'[id] = Append(queue[id], n) /\ \A i \in Id : i # id => queue'[i] = queue[i]
      BY <1>1, <2>1
    <2>4. queue' \in [Id -> Seq(1 .. n)]
      BY <1>1, <2>1, <2>2
    <2>5. queue[id] \in Seq(1 .. Len(calls))
      BY <2>1
    <2> QED
      BY <2>3, <2>4, <2>5
  <1>6. CallsInv'
    <2>1. \A c \in 1 .. n : calls'[c].op # "unregisterExtension" => calls'[c].domain \in Domain
      BY <1>2 DEF CallsInv
    <2>2. n <= MaxCalls
      BY <1>1 DEF CallsInv
    <2> QED
      BY <1>2, <1>3, <1>4, <1>5, <2>1, <2>2 DEF CallsInv, Id
  <1>7. ASSUME NEW i \in Id, NEW p \in DOMAIN queue'[i]
        PROVE  \/ p \in DOMAIN queue[i] /\ queue'[i][p] = queue[i][p]
               \/ i = id /\ p = Len(queue[id]) + 1 /\ queue'[i][p] = n
    <2>1. CASE i = id
      BY <1>5, <1>7, <2>1
    <2>2. CASE i # id
      BY <1>5, <1>7, <2>2
    <2> QED
      BY <2>1, <2>2
  <1>8. \A i \in Id : \A p \in DOMAIN queue[i] :
          /\ queue[i][p] # n /\ queue[i][p] \in 1 .. Len(calls)
          /\ calls'[queue[i][p]] = calls[queue[i][p]] /\ pc'[queue[i][p]] = pc[queue[i][p]]
          /\ p \in DOMAIN queue'[i] /\ queue'[i][p] = queue[i][p]
    <2> SUFFICES ASSUME NEW i \in Id, NEW p \in DOMAIN queue[i]
                 PROVE  /\ queue[i][p] # n /\ queue[i][p] \in 1 .. Len(calls)
                        /\ calls'[queue[i][p]] = calls[queue[i][p]]
                        /\ pc'[queue[i][p]] = pc[queue[i][p]]
                        /\ p \in DOMAIN queue'[i] /\ queue'[i][p] = queue[i][p]
      OBVIOUS
    <2>1. queue[i][p] \in 1 .. Len(calls) /\ Len(calls) \in Nat
      BY PlaceFacts
    <2>2. p \in DOMAIN queue'[i] /\ queue'[i][p] = queue[i][p]
      <3>1. CASE i = id
        BY <1>5, <3>1
      <3>2. CASE i # id
        BY <1>5, <3>2
      <3> QED
        BY <3>1, <3>2
    <2> QED
      BY <1>2, <1>3, <2>1, <2>2
  <1>9. QueuesInv'
    <2>1. ASSUME NEW d \in Domain, NEW p \in DOMAIN queue'[d]
          PROVE  calls'[queue'[d][p]].op = "unregisterDomain" /\ calls'[queue'[d][p]].domain = d
      <3>1. d \in Id
        BY DEF Id
      <3>2. CASE p \in DOMAIN queue[d] /\ queue'[d][p] = queue[d][p]
        BY <1>8, <3>1, <3>2 DEF QueuesInv
      <3>3. CASE d = id /\ queue'[d][p] = n
        BY <1>2, <3>3
      <3> QED
        BY <1>7, <2>1, <3>1, <3>2, <3>3
    <2>2. ASSUME NEW x \in Extension, NEW y \in Extension,
                 NEW p \in DOMAIN queue'[x], NEW q \in DOMAIN queue'[y],
                 calls'[queue'[x][p]].op = "registerExtension", queue'[y][q] = queue'[x][p]
          PROVE  x = y /\ p = q
      <3>1. x \in Id /\ y \in Id
        BY DEF Id
      <3>2. \/ p \in DOMAIN queue[x] /\ queue'[x][p] = queue[x][p]
            \/ x = id /\ p = Len(queue[id]) + 1 /\ queue'[x][p] = n
        BY <1>7, <2>2, <3>1
      <3>3. \/ q \in DOMAIN queue[y] /\ queue'[y][q] = queue[y][q]
            \/ y = id /\ q = Len(queue[id]) + 1 /\ queue'[y][q] = n
        BY <1>7, <2>2, <3>1
      <3>4. CASE p \in DOMAIN queue[x] /\ queue'[x][p] = queue[x][p]
        <4>1. q \in DOMAIN queue[y] /\ queue'[y][q] = queue[y][q]
          BY <1>8, <2>2, <3>1, <3>3, <3>4
        <4>2. calls[queue[x][p]].op = "registerExtension" /\ queue[y][q] = queue[x][p]
          BY <1>8, <2>2, <3>1, <3>4, <4>1
        <4> QED
          BY <3>4, <4>1, <4>2 DEF QueuesInv
      <3>5. CASE x = id /\ p = Len(queue[id]) + 1 /\ queue'[x][p] = n
        BY <1>8, <2>2, <3>1, <3>3, <3>5
      <3> QED
        BY <3>2, <3>4, <3>5
    <2>3. \A x \in Extension : \A p \in DOMAIN queue'[x] :
            pc'[queue'[x][p]] = "admitted" => p = 1 /\ calls'[queue'[x][p]].op = "registerExtension"
      BY <1>3, <1>7, <1>8 DEF QueuesInv, Id
    <2> QED
      BY <2>1, <2>2, <2>3 DEF QueuesInv
  <1>10. ASSUME NEW x \in Extension  PROVE Admitting(x)' <=> Admitting(x)
    <2>1. AdmittingIsFirst'
      BY <1>6, AdmittingFacts, PTL
    <2>2. Admitting(x)' <=> AdmittedFirst(x)'
      BY <2>1 DEF AdmittingIsFirst
    <2>3. x \in Id
      BY DEF Id
    <2>4. Admitting(x) <=> AdmittedFirst(x)
      BY AdmittingFacts DEF AdmittingIsFirst
    <2>5. ASSUME 1 \in DOMAIN queue'[x], pc'[queue'[x][1]] = "admitted"
          PROVE  1 \in DOMAIN queue[x] /\ pc[queue[x][1]] = "admitted"
      <3>1. queue'[x][1] # n
        BY <1>3, <2>5
      <3> QED
        BY <1>7, <1>8, <2>3, <2>5, <3>1
    <2>6. ASSUME 1 \in DOMAIN queue[x], pc[queue[x][1]] = "admitted"
          PROVE  1 \in DOMAIN queue'[x] /\ pc'[queue'[x][1]] = "admitted"
      BY <1>8, <2>3, <2>6
    <2> QED
      BY <2>2, <2>4, <2>5, <2>6 DEF AdmittedFirst
  <1> QED
    BY <1>6, <1>9, <1>10

LEMMA TailPlaces ==
  ASSUME NEW S, NEW s \in Seq(S), s # <<>>
  PROVE  /\ Tail(s) \in Seq(S)
         /\ \A p \in DOMAIN Tail(s) :
              p \in Nat \ {0} /\ p + 1 \in DOMAIN s /\ Tail(s)[p] = s[p + 1]
  <1>1. Len(s) \in Nat /\ DOMAIN s = 1 .. Len(s) /\ Len(s) # 0
    OBVIOUS
  <1>2. Tail(s) \in Seq(S) /\ Len(Tail(s)) = Len(s) - 1
    BY <1>1
  <1>3. DOMAIN Tail(s) = 1 .. Len(s) - 1
    BY <1>2
  <1> QED
    BY <1>1, <1>2, <1>3

(* A call leaves its queue: the admission it was recording, if any, is over. *)
LEMMA LeavesKeeps ==
  ASSUME CallsInv, QueuesInv, NEW id \in Id, NEW c, Executing(c, id),
         NEW w \in Position \ {"admitted"}, pc' = [pc EXCEPT ![c] = w],
         queue' = [queue EXCEPT ![id] = Tail(@)], calls' = calls,
         todo' \in Seq(SUBSET Extension), Len(todo') = Len(todo)
  PROVE  CallsInv' /\ QueuesInv' /\ \A x \in Extension : Admitting(x)' <=> Admitting(x) /\ x # id
  <1> DEFINE off(i) == IF i = id THEN 1 ELSE 0
  <1>1. /\ 1 \in DOMAIN queue[id] /\ queue[id][1] = c /\ c \in 1 .. Len(calls)
        /\ queue[id] # <<>>
    BY HeadFacts DEF Executing
  <1>2. /\ pc' \in Seq(Position) /\ Len(pc') = Len(calls) /\ pc'[c] = w /\ w # "admitted"
        /\ \A e \in 1 .. Len(calls) : e # c => pc'[e] = pc[e]
    BY <1>1 DEF CallsInv
  <1>3. /\ queue' \in [Id -> Seq(1 .. Len(calls))]
        /\ queue'[id] = Tail(queue[id]) /\ \A i \in Id : i # id => queue'[i] = queue[i]
    <2>1. queue \in [Id -> Seq(1 .. Len(calls))]
      BY DEF CallsInv, Id
    <2>2. Tail(queue[id]) \in Seq(1 .. Len(calls))
      BY <1>1, <2>1, TailPlaces
    <2> QED
      BY <2>1, <2>2
  <1>4. CallsInv'
    BY <1>2, <1>3 DEF CallsInv, Id
  <1>5. ASSUME NEW i \in Id, NEW p \in DOMAIN queue'[i]
        PROVE  p \in Nat /\ p + off(i) \in DOMAIN queue[i] /\ queue'[i][p] = queue[i][p + off(i)]
    <2>1. queue[i] \in Seq(1 .. Len(calls))
      BY PlaceFacts
    <2>2. CASE i = id
      <3>1. queue'[i] = Tail(queue[i]) /\ queue[i] # <<>>
        BY <1>1, <1>3, <2>2
      <3>2. p \in Nat /\ p + 1 \in DOMAIN queue[i] /\ Tail(queue[i])[p] = queue[i][p + 1]
        BY <1>5, <2>1, <3>1, TailPlaces
      <3> QED
        BY <2>2, <3>1, <3>2
    <2>3. CASE i # id
      <3>1. queue'[i] = queue[i]
        BY <1>3, <2>3
      <3> QED
        BY <1>5, <2>1, <2>3, <3>1
    <2> QED
      BY <2>2, <2>3
  <1>6. ASSUME NEW e, e \in 1 .. Len(calls), pc'[e] = "admitted"
        PROVE  pc[e] = "admitted"
    BY <1>2, <1>6
  <1>7. QueuesInv'
    <2>1. ASSUME NEW d \in Domain, NEW p \in DOMAIN queue'[d]
          PROVE  calls'[queue'[d][p]].op = "unregisterDomain" /\ calls'[queue'[d][p]].domain = d
      <3>1. d \in Id
        BY DEF Id
      <3> QED
        BY <1>5, <3>1 DEF QueuesInv
    <2>2. ASSUME NEW x \in Extension, NEW y \in Extension,
                 NEW p \in DOMAIN queue'[x], NEW q \in DOMAIN queue'[y],
                 calls'[queue'[x][p]].op = "registerExtension", queue'[y][q] = queue'[x][p]
          PROVE  x = y /\ p = q
      <3>1. x \in Id /\ y \in Id
        BY DEF Id
      <3>2. /\ p \in Nat /\ p + off(x) \in DOMAIN queue[x]
            /\ queue'[x][p] = queue[x][p + off(x)]
        BY <1>5, <3>1
      <3>3. /\ q \in Nat /\ q + off(y) \in DOMAIN queue[y]
            /\ queue'[y][q] = queue[y][q + off(y)]
        BY <1>5, <3>1
      <3>4. x = y /\ p + off(x) = q + off(y)
        BY SMTT(30), <2>2, <3>2, <3>3 DEF QueuesInv
      <3> QED
        BY <3>2, <3>3, <3>4
    <2>3. ASSUME NEW x \in Extension, NEW p \in DOMAIN queue'[x], pc'[queue'[x][p]] = "admitted"
          PROVE  p = 1 /\ calls'[queue'[x][p]].op = "registerExtension"
      <3>1. x \in Id
        BY DEF Id
      <3>2. p + off(x) \in DOMAIN queue[x] /\ queue'[x][p] = queue[x][p + off(x)] /\ p \in Nat
        BY <1>5, <3>1
      <3>3. pc[queue[x][p + off(x)]] = "admitted"
        BY <1>6, <2>3, <3>1, <3>2, PlaceFacts
      <3>4. p + off(x) = 1 /\ calls[queue[x][p + off(x)]].op = "registerExtension"
        BY <3>2, <3>3 DEF QueuesInv
      <3>5. p # 0
        BY <1>3, <3>1, <2>3
      <3> QED
        BY <3>2, <3>4, <3>5
    <2> QED
      BY <2>1, <2>2, <2>3 DEF QueuesInv
  <1>8. ASSUME NEW x \in Extension  PROVE AdmittedFirst(x)' <=> AdmittedFirst(x) /\ x # id
    <2>0. x \in Id
      BY DEF Id
    <2>1. CASE x = id
      <3>1. ASSUME AdmittedFirst(x)'  PROVE FALSE
        <4>1. /\ 1 \in DOMAIN queue'[x] /\ pc'[queue'[x][1]] = "admitted"
              /\ 2 \in DOMAIN queue[x] /\ queue'[x][1] = queue[x][2]
          BY <1>5, <2>0, <2>1, <3>1 DEF AdmittedFirst
        <4>2. pc[queue[x][2]] = "admitted"
          BY <1>6, <2>0, <4>1, PlaceFacts
        <4> QED
          BY <4>1, <4>2 DEF QueuesInv
      <3> QED
        BY <2>1, <3>1
    <2>2. CASE x # id
      <3>1. queue'[x] = queue[x]
        BY <1>3, <2>0, <2>2
      <3>2. ASSUME AdmittedFirst(x)  PROVE queue[x][1] # c
        <4>1. /\ 1 \in DOMAIN queue[x] /\ pc[queue[x][1]] = "admitted"
              /\ calls[queue[x][1]].op = "registerExtension"
          BY <3>2 DEF AdmittedFirst, QueuesInv
        <4>2. CASE id \in Domain
          BY <1>1, <4>1, <4>2 DEF QueuesInv
        <4>3. CASE id \in Extension
          BY <1>1, <2>2, <4>1, <4>3 DEF QueuesInv
        <4> QED
          BY <4>2, <4>3 DEF Id
      <3>3. 1 \in DOMAIN queue[x] => queue[x][1] \in 1 .. Len(calls)
        BY <2>0, PlaceFacts
      <3> QED
        BY <1>2, <1>6, <2>2, <3>1, <3>2, <3>3 DEF AdmittedFirst
    <2> QED
      BY <2>1, <2>2
  <1>9. AdmittingIsFirst /\ AdmittingIsFirst'
    BY <1>4, AdmittingFacts, PTL
  <1> QED
    BY <1>4, <1>7, <1>8, <1>9 DEF AdmittingIsFirst

(* A call goes on without changing its place, or is admitted at its turn. *)
LEMMA RegistryStaysKeeps ==
  ASSUME CallsInv, QueuesInv, NEW c \in 1 .. Len(calls), NEW x, NEW w \in Position,
         pc[c] # "admitted", pc' = [pc EXCEPT ![c] = w], calls' = calls, queue' = queue,
         todo' \in Seq(SUBSET Extension), Len(todo') = Len(todo),
         w = "admitted" => x \in Extension /\ Executing(c, x) /\ calls[c].op = "registerExtension"
  PROVE  /\ CallsInv' /\ QueuesInv'
         /\ \A y \in Extension : Admitting(y)' <=> Admitting(y) \/ (w = "admitted" /\ y = x)
  <1>1. /\ pc' \in Seq(Position) /\ Len(pc') = Len(calls) /\ pc'[c] = w
        /\ \A e \in 1 .. Len(calls) : e # c => pc'[e] = pc[e]
    BY DEF CallsInv
  <1>2. CallsInv'
    BY <1>1 DEF CallsInv
  <1>3. ASSUME w = "admitted", NEW y \in Extension, NEW p \in DOMAIN queue[y], queue[y][p] = c
        PROVE  y = x /\ p = 1
    <2>1. x \in Id
      BY <1>3 DEF Id
    <2>2. 1 \in DOMAIN queue[x] /\ queue[x][1] = c
      BY <1>3, <2>1, HeadFacts
    <2> QED
      BY <1>3, <2>2 DEF QueuesInv
  <1>4. QueuesInv'
    <2>1. ASSUME NEW y \in Extension, NEW p \in DOMAIN queue[y], pc'[queue[y][p]] = "admitted"
          PROVE  p = 1 /\ calls[queue[y][p]].op = "registerExtension"
      <3>1. queue[y][p] \in 1 .. Len(calls)
        BY PlaceFacts DEF Id
      <3>2. CASE queue[y][p] = c
        BY <1>1, <1>3, <2>1, <3>2
      <3>3. CASE queue[y][p] # c
        BY <1>1, <2>1, <3>1, <3>3 DEF QueuesInv
      <3> QED
        BY <3>2, <3>3
    <2> QED
      BY <2>1 DEF QueuesInv
  <1>5. ASSUME NEW y \in Extension
        PROVE  AdmittedFirst(y)' <=> AdmittedFirst(y) \/ (w = "admitted" /\ y = x)
    <2>1. 1 \in DOMAIN queue[y] => queue[y][1] \in 1 .. Len(calls)
      BY PlaceFacts DEF Id
    <2>2. ASSUME w = "admitted", y = x  PROVE AdmittedFirst(y)'
      <3>1. 1 \in DOMAIN queue[y] /\ queue[y][1] = c
        BY <2>2, HeadFacts DEF Id
      <3> QED
        BY <1>1, <2>2, <3>1 DEF AdmittedFirst
    <2>3. ASSUME AdmittedFirst(y)  PROVE AdmittedFirst(y)'
      BY <1>1, <2>1, <2>3 DEF AdmittedFirst
    <2>4. ASSUME AdmittedFirst(y)', ~AdmittedFirst(y)  PROVE w = "admitted" /\ y = x
      <3>1. 1 \in DOMAIN queue[y] /\ queue[y][1] = c /\ pc'[c] = "admitted"
        BY <1>1, <2>1, <2>4 DEF AdmittedFirst
      <3> QED
        BY <1>1, <1>3, <3>1
    <2> QED
      BY <2>2, <2>3, <2>4
  <1>6. AdmittingIsFirst /\ AdmittingIsFirst'
    BY <1>2, AdmittingFacts, PTL
  <1> QED
    BY <1>2, <1>4, <1>5, <1>6 DEF AdmittingIsFirst

(* A drain joins the queue of the extension it is to unregister. *)
LEMMA JoinsKeeps ==
  ASSUME CallsInv, QueuesInv, NEW c \in 1 .. Len(calls), NEW x \in Extension,
         calls[c].op = "unregisterDomain", pc[c] # "admitted",
         pc' = [pc EXCEPT ![c] = "draining"], queue' = [queue EXCEPT ![x] = Append(@, c)],
         calls' = calls, todo' \in Seq(SUBSET Extension), Len(todo') = Len(todo)
  PROVE  CallsInv' /\ QueuesInv' /\ \A y \in Extension : Admitting(y)' <=> Admitting(y)
  <1>1. /\ pc' \in Seq(Position) /\ Len(pc') = Len(calls) /\ pc'[c] = "draining"
        /\ \A e \in 1 .. Len(calls) : e # c => pc'[e] = pc[e]
    BY DEF CallsInv, Position
  <1>2. x \in Id /\ queue \in [Id -> Seq(1 .. Len(calls))]
    BY DEF Id, CallsInv
  <1>3. /\ queue' \in [Id -> Seq(1 .. Len(calls))]
        /\ \A i \in Id : i # x => queue'[i] = queue[i]
        /\ DOMAIN queue'[x] = DOMAIN queue[x] \cup {Len(queue[x]) + 1}
        /\ queue'[x][Len(queue[x]) + 1] = c
        /\ \A p \in DOMAIN queue[x] : queue'[x][p] = queue[x][p]
    <2>1. queue[x] \in Seq(1 .. Len(calls)) /\ Append(queue[x], c) \in Seq(1 .. Len(calls))
      BY <1>2
    <2>2. queue'[x] = Append(queue[x], c) /\ \A i \in Id : i # x => queue'[i] = queue[i]
      BY <1>2
    <2>3. queue' \in [Id -> Seq(1 .. Len(calls))]
      BY <1>2, <2>1
    <2> QED
      BY <2>1, <2>2, <2>3
  <1>4. CallsInv'
    BY <1>1, <1>3 DEF CallsInv, Id
  <1>5. ASSUME NEW i \in Id, NEW p \in DOMAIN queue'[i]
        PROVE  \/ p \in DOMAIN queue[i] /\ queue'[i][p] = queue[i][p]
               \/ i = x /\ queue'[i][p] = c
    <2>1. CASE i = x
      BY <1>3, <1>5, <2>1
    <2>2. CASE i # x
      BY <1>3, <1>5, <2>2
    <2> QED
      BY <2>1, <2>2
  <1>6. ASSUME NEW i \in Id, NEW p \in DOMAIN queue'[i], queue'[i][p] # c
        PROVE  /\ p \in DOMAIN queue[i] /\ queue'[i][p] = queue[i][p]
               /\ pc'[queue'[i][p]] = pc[queue[i][p]]
    BY <1>1, <1>5, <1>6, PlaceFacts
  <1>7. QueuesInv'
    <2>1. ASSUME NEW d \in Domain, NEW p \in DOMAIN queue'[d]
          PROVE  calls'[queue'[d][p]].op = "unregisterDomain" /\ calls'[queue'[d][p]].domain = d
      <3>1. d \in Id /\ d # x
        BY DEF Id
      <3>2. queue'[d] = queue[d]
        BY <1>3, <3>1
      <3> QED
        BY <2>1, <3>2 DEF QueuesInv
    <2>2. ASSUME NEW y \in Extension, NEW z \in Extension,
                 NEW p \in DOMAIN queue'[y], NEW q \in DOMAIN queue'[z],
                 calls'[queue'[y][p]].op = "registerExtension", queue'[z][q] = queue'[y][p]
          PROVE  y = z /\ p = q
      <3>1. y \in Id /\ z \in Id /\ queue'[y][p] # c /\ queue'[z][q] # c
        BY <2>2 DEF Id
      <3>2. p \in DOMAIN queue[y] /\ queue'[y][p] = queue[y][p]
        BY <1>6, <3>1
      <3>3. q \in DOMAIN queue[z] /\ queue'[z][q] = queue[z][q]
        BY <1>6, <3>1
      <3> QED
        BY <2>2, <3>2, <3>3 DEF QueuesInv
    <2>3. ASSUME NEW y \in Extension, NEW p \in DOMAIN queue'[y], pc'[queue'[y][p]] = "admitted"
          PROVE  p = 1 /\ calls'[queue'[y][p]].op = "registerExtension"
      <3>1. y \in Id /\ queue'[y][p] # c
        BY <1>1, <2>3 DEF Id
      <3>2. /\ p \in DOMAIN queue[y] /\ queue'[y][p] = queue[y][p]
            /\ pc'[queue'[y][p]] = pc[queue[y][p]]
        BY <1>6, <3>1
      <3> QED
        BY <2>3, <3>2 DEF QueuesInv
    <2> QED
      BY SMTT(30), <2>1, <2>2, <2>3 DEF QueuesInv
  <1>8. ASSUME NEW y \in Extension  PROVE AdmittedFirst(y)' <=> AdmittedFirst(y)
    <2>0. y \in Id
      BY DEF Id
    <2>1. ASSUME AdmittedFirst(y)'  PROVE AdmittedFirst(y)
      <3>1. 1 \in DOMAIN queue'[y] /\ queue'[y][1] # c /\ pc'[queue'[y][1]] = "admitted"
        BY <1>1, <2>1 DEF AdmittedFirst
      <3> QED
        BY <1>6, <2>0, <3>1 DEF AdmittedFirst
    <2>2. ASSUME AdmittedFirst(y)  PROVE AdmittedFirst(y)'
      <3>1. /\ 1 \in DOMAIN queue[y] /\ pc[queue[y][1]] = "admitted"
            /\ queue[y][1] \in 1 .. Len(calls) /\ queue[y][1] # c
        BY <2>0, <2>2, PlaceFacts DEF AdmittedFirst
      <3>2. 1 \in DOMAIN queue'[y] /\ queue'[y][1] = queue[y][1]
        BY <1>3, <2>0, <3>1
      <3> QED
        BY <1>1, <3>1, <3>2 DEF AdmittedFirst
    <2> QED
      BY <2>1, <2>2
  <1>9. AdmittingIsFirst /\ AdmittingIsFirst'
    BY <1>4, AdmittingFacts, PTL
  <1> QED
    BY <1>4, <1>7, <1>8, <1>9 DEF AdmittingIsFirst

-----------------------------------------------------------------------------
(* What the registry itself holds; the rest of RegistryTypeOK is said by CallsInv. *)
RegistryTyped ==
  /\ registrations \in 0 .. MaxRegistrations
  /\ domains \in [Domain -> 0 .. registrations] /\ served \in [Domain -> 0 .. registrations]
  /\ open \in [Domain -> BOOLEAN] /\ unregistering \in SUBSET Domain
  /\ home \in [Extension -> Domain \cup {None}]
  /\ \A x \in Extension : home[x] # None => domains[home[x]] # 0
  /\ inRouter \in SUBSET Extension /\ tracked \in SUBSET inRouter
  /\ unmounting \in SUBSET Extension
  /\ disposing \in {"no", "waiting", "done"}

AdmissionsHeld == RegistryTyped /\ AdmissionInv

LEMMA TypeParts == CallsInv => (RegistryTypeOK <=> RegistryTyped)
  <1> SUFFICES ASSUME CallsInv  PROVE RegistryTypeOK <=> RegistryTyped
    OBVIOUS
  <1>1. /\ Len(calls) <= MaxCalls /\ Len(pc) = Len(calls) /\ Len(todo) = Len(calls)
        /\ \A c \in DOMAIN pc : pc[c] \in Over \cup {"queued", "admitted", "waiting", "drainNext",
                                            "draining", "drainFailed", "removed"}
        /\ \A id \in DOMAIN queue : queue[id] \in Seq(1 .. Len(calls))
    BY DEF CallsInv, Position
  <1> QED
    BY <1>1 DEF RegistryTypeOK, RegistryTyped

LEMMA IInvParts == RegistryIInv <=> CallsInv /\ QueuesInv /\ AdmissionsHeld
  BY TypeParts DEF RegistryIInv, AdmissionsHeld

(* A call that has its turn on an extension. *)
LEMMA AtItsTurn ==
  ASSUME CallsInv, QueuesInv, NEW x \in Extension, NEW c, Executing(c, x)
  PROVE  /\ c \in 1 .. Len(calls) /\ (Admitting(x) <=> pc[c] = "admitted")
         /\ pc[c] = "admitted" => calls[c].op = "registerExtension"
         /\ calls[c] \in Asked /\ pc[c] \in Position /\ todo[c] \in SUBSET Extension
  <1>1. c \in 1 .. Len(calls) /\ 1 \in DOMAIN queue[x] /\ queue[x][1] = c
    BY HeadFacts DEF Id
  <1>2. Admitting(x) <=> pc[c] = "admitted"
    BY DEF Admitting, Executing
  <1>3. calls[c] \in Asked /\ pc[c] \in Position /\ todo[c] \in SUBSET Extension
    BY <1>1 DEF CallsInv
  <1> QED
    BY <1>1, <1>2, <1>3 DEF QueuesInv

(* A call that has its turn on a domain is an unregistration of it. *)
LEMMA AtItsDomain ==
  ASSUME CallsInv, QueuesInv, NEW d \in Domain, NEW c, Executing(c, d)
  PROVE  /\ c \in 1 .. Len(calls) /\ DOMAIN calls = 1 .. Len(calls)
         /\ calls[c].op = "unregisterDomain" /\ calls[c].domain = d
         /\ todo[c] \in SUBSET Extension
  <1>1. c \in 1 .. Len(calls) /\ 1 \in DOMAIN queue[d] /\ queue[d][1] = c
    BY HeadFacts DEF Id
  <1>2. todo[c] \in SUBSET Extension /\ DOMAIN calls = 1 .. Len(calls)
    BY <1>1 DEF CallsInv
  <1> QED
    BY <1>1, <1>2 DEF QueuesInv

(* What the call of an operation is made with. *)
LEMMA AskedFacts ==
  ASSUME RegistryTyped, NEW x \in Extension, NEW d \in Domain
  PROVE  /\ [op |-> "registerExtension", domain |-> d, target |-> 0] \in Asked
         /\ [op |-> "unregisterExtension", domain |-> None, target |-> 0] \in Asked
  BY DEF Asked

LEMMA AskedDomain ==
  ASSUME RegistryTyped, NEW d \in Domain
  PROVE  [op |-> "unregisterDomain", domain |-> d, target |-> domains[d]] \in Asked
  <1>1. domains[d] \in Nat
    BY DEF RegistryTyped
  <1> QED
    BY <1>1 DEF Asked

-----------------------------------------------------------------------------
(* The calls arrive. *)
LEMMA ExtensionCallsKeep ==
  ASSUME RegistryIInv, NEW x \in Extension,
         (\E d \in Domain : CallsRegisterExtension(x, d)) \/ CallsUnregisterExtension(x)
  PROVE  RegistryIInv'
  <1>1. CallsInv /\ QueuesInv /\ AdmissionsHeld
    BY IInvParts
  <1>2. /\ CallsInv' /\ QueuesInv' /\ \A z \in Extension : Admitting(z)' <=> Admitting(z)
        /\ UNCHANGED <<registry, members, disposing, unmounting>>
    <2>1. CASE \E d \in Domain : CallsRegisterExtension(x, d)
      <3>1. PICK d \in Domain : CallsRegisterExtension(x, d)
        BY <2>1
      <3>2. [op |-> "registerExtension", domain |-> d, target |-> 0] \in Asked
        BY <1>1, AskedFacts DEF AdmissionsHeld
      <3> QED
        BY <1>1, <3>1, <3>2, ArrivesKeeps DEF CallsRegisterExtension, Id
    <2>2. CASE CallsUnregisterExtension(x)
      <3>1. [op |-> "unregisterExtension", domain |-> None, target |-> 0] \in Asked
        BY DEF Asked
      <3> QED
        BY <1>1, <2>2, <3>1, ArrivesKeeps DEF CallsUnregisterExtension, Id
    <2> QED
      BY <2>1, <2>2
  <1>3. AdmissionsHeld'
    BY <1>1, <1>2 DEF AdmissionsHeld, RegistryTyped, AdmissionInv, registry, members
  <1> QED
    BY <1>2, <1>3, IInvParts, PTL

LEMMA DomainCallKeeps ==
  ASSUME RegistryIInv, NEW d \in Domain, CallsUnregisterDomain(d)
  PROVE  RegistryIInv'
  <1>1. CallsInv /\ QueuesInv /\ AdmissionsHeld
    BY IInvParts
  <1>2. CallsInv' /\ QueuesInv' /\ \A z \in Extension : Admitting(z)' <=> Admitting(z)
    <2>1. [op |-> "unregisterDomain", domain |-> d, target |-> domains[d]] \in Asked
      BY <1>1, AskedDomain DEF AdmissionsHeld
    <2> QED
      BY <1>1, <2>1, ArrivesKeeps DEF CallsUnregisterDomain, Id
  <1>3. AdmissionsHeld'
    <2>1. open' = [open EXCEPT ![d] = FALSE]
          /\ UNCHANGED <<registrations, domains, served, unregistering, members, disposing,
                         unmounting>>
      BY DEF CallsUnregisterDomain
    <2>2. RegistryTyped'
      BY <1>1, <2>1 DEF AdmissionsHeld, RegistryTyped, members
    <2>3. AdmissionInv'
      BY <1>1, <1>2, <2>1 DEF AdmissionsHeld, AdmissionInv, members
    <2> QED
      BY <2>2, <2>3 DEF AdmissionsHeld
  <1> QED
    BY <1>2, <1>3, IInvParts, PTL

(* registerDomain. *)
LEMMA RegisterDomainKeeps ==
  ASSUME RegistryIInv, NEW d \in Domain, RegisterDomain(d)
  PROVE  RegistryIInv'
  <1>1. CallsInv /\ QueuesInv /\ AdmissionsHeld
    BY IInvParts
  <1>2. /\ registrations < MaxRegistrations /\ disposing = "no"
        /\ registrations' = registrations + 1
        /\ domains' = [domains EXCEPT ![d] = registrations + 1]
        /\ served' = [served EXCEPT ![d] = registrations + 1]
        /\ open' = [open EXCEPT ![d] = TRUE]
        /\ UNCHANGED <<unregistering, members, disposing, calls, pc, todo, queue, unmounting>>
    BY DEF RegisterDomain
  <1>3. CallsInv' /\ QueuesInv'
    BY <1>1, <1>2 DEF CallsInv, QueuesInv
  <1>4. RegistryTyped'
    <2>1. /\ registrations \in Nat /\ registrations' \in 0 .. MaxRegistrations
          /\ 0 .. registrations \subseteq 0 .. registrations' /\ registrations' # 0
      BY <1>1, <1>2 DEF AdmissionsHeld, RegistryTyped
    <2>2. /\ domains' \in [Domain -> 0 .. registrations']
          /\ served' \in [Domain -> 0 .. registrations']
          /\ \A e \in Domain : domains[e] # 0 => domains'[e] # 0
      BY <1>1, <1>2, <2>1 DEF AdmissionsHeld, RegistryTyped
    <2>3. open' \in [Domain -> BOOLEAN]
      BY <1>1, <1>2 DEF AdmissionsHeld, RegistryTyped
    <2>4. \A x \in Extension : home'[x] # None => domains'[home'[x]] # 0
      BY <1>1, <1>2, <2>2 DEF AdmissionsHeld, RegistryTyped, members
    <2> QED
      BY <1>1, <1>2, <2>1, <2>2, <2>3, <2>4 DEF AdmissionsHeld, RegistryTyped, members
  <1>5. AdmissionInv'
    BY <1>1, <1>2 DEF AdmissionsHeld, AdmissionInv, Admitting, members
  <1> QED
    BY <1>3, <1>4, <1>5, IInvParts, PTL DEF AdmissionsHeld

-----------------------------------------------------------------------------
(* registerExtension. *)
LEMMA RejectedKeeps ==
  ASSUME RegistryIInv, NEW x \in Extension, NEW c, Executing(c, x), pc[c] = "queued",
         ExtensionRejected(c, x)
  PROVE  RegistryIInv'
  <1>1. CallsInv /\ QueuesInv /\ AdmissionsHeld
    BY IInvParts
  <1>2. UNCHANGED <<registry, members, disposing, unmounting>>
    BY DEF ExtensionRejected
  <1>3. /\ CallsInv' /\ QueuesInv'
        /\ \A z \in Extension : Admitting(z)' <=> Admitting(z) /\ z # x
    <2>1. "failed" \in Position \ {"admitted"} /\ x \in Id /\ todo \in Seq(SUBSET Extension)
      BY <1>1 DEF Position, Over, Id, CallsInv
    <2> QED
      BY <1>1, <2>1, LeavesKeeps DEF ExtensionRejected, Returns
  <1>4. ~Admitting(x)
    BY <1>1, AtItsTurn
  <1>5. AdmissionsHeld'
    BY <1>1, <1>2, <1>3, <1>4 DEF AdmissionsHeld, RegistryTyped, AdmissionInv, registry, members
  <1> QED
    BY <1>3, <1>5, IInvParts, PTL

LEMMA AdmittedKeeps ==
  ASSUME RegistryIInv, NEW x \in Extension, NEW c, Executing(c, x), pc[c] = "queued",
         calls[c].op = "registerExtension", ExtensionAdmitted(c, x)
  PROVE  RegistryIInv'
  <1>1. CallsInv /\ QueuesInv /\ AdmissionsHeld
    BY IInvParts
  <1> DEFINE d == calls[c].domain
  <1>2. /\ home[x] = None /\ domains[d] # 0
        /\ home' = [home EXCEPT ![x] = d] /\ inRouter' = inRouter \cup {x}
        /\ pc' = [pc EXCEPT ![c] = "admitted"]
        /\ UNCHANGED <<registry, tracked, disposing, calls, todo, queue, unmounting>>
    BY DEF ExtensionAdmitted, Admits
  <1>3. c \in 1 .. Len(calls) /\ d \in Domain
    <2>1. c \in 1 .. Len(calls) /\ c \in DOMAIN calls
      BY <1>1, AtItsTurn, PlaceFacts DEF Id
    <2>2. calls[c].op # "unregisterExtension" => calls[c].domain \in Domain
      BY <1>1, <2>1 DEF CallsInv
    <2> QED
      BY <2>1, <2>2
  <1>4. /\ CallsInv' /\ QueuesInv'
        /\ \A z \in Extension : Admitting(z)' <=> Admitting(z) \/ ("admitted" = "admitted" /\ z = x)
    <2>1. "admitted" \in Position /\ todo' \in Seq(SUBSET Extension) /\ Len(todo') = Len(todo)
      BY <1>1, <1>2 DEF Position, CallsInv
    <2> QED
      BY <1>1, <1>2, <1>3, <2>1, RegistryStaysKeeps
  <1>5. RegistryTyped'
    BY <1>1, <1>2, <1>3 DEF AdmissionsHeld, RegistryTyped, registry
  <1>6. disposing # "done" /\ x \notin inRouter /\ x \notin tracked
    BY <1>1, <1>2, <1>3 DEF AdmissionsHeld, AdmissionInv
  <1>7. /\ \A z \in Extension : home'[z] = IF z = x THEN d ELSE home[z]
        /\ d # None
    BY <1>1, <1>2, <1>3 DEF AdmissionsHeld, RegistryTyped
  <1>8. AdmissionInv'
    BY <1>1, <1>2, <1>4, <1>6, <1>7 DEF AdmissionsHeld, AdmissionInv
  <1> QED
    BY <1>4, <1>5, <1>8, IInvParts, PTL DEF AdmissionsHeld

LEMMA TrackedKeeps ==
  ASSUME RegistryIInv, NEW x \in Extension, NEW c, Executing(c, x), pc[c] = "admitted",
         ExtensionTracked(c, x)
  PROVE  RegistryIInv'
  <1>1. CallsInv /\ QueuesInv /\ AdmissionsHeld
    BY IInvParts
  <1>2. tracked' = tracked \cup {x} /\ UNCHANGED <<registry, home, inRouter, disposing, unmounting>>
    BY DEF ExtensionTracked
  <1>3. /\ CallsInv' /\ QueuesInv'
        /\ \A z \in Extension : Admitting(z)' <=> Admitting(z) /\ z # x
    <2>1. "returned" \in Position \ {"admitted"} /\ x \in Id /\ todo \in Seq(SUBSET Extension)
      BY <1>1 DEF Position, Over, Id, CallsInv
    <2> QED
      BY <1>1, <2>1, LeavesKeeps DEF ExtensionTracked, Returns
  <1>4. x \in inRouter
    BY <1>1, AtItsTurn DEF AdmissionsHeld, AdmissionInv
  <1>5. AdmissionsHeld'
    BY <1>1, <1>2, <1>3, <1>4 DEF AdmissionsHeld, RegistryTyped, AdmissionInv, registry
  <1> QED
    BY <1>3, <1>5, IInvParts, PTL

LEMMA RegisterExtensionKeeps ==
  ASSUME RegistryIInv, NEW x \in Extension, NEW c, RegisterExtension(c, x)
  PROVE  RegistryIInv'
  BY RejectedKeeps, AdmittedKeeps, TrackedKeeps DEF RegisterExtension

-----------------------------------------------------------------------------
(* unregisterExtension, called or drained. *)
LEMMA UnregisteredKeeps ==
  ASSUME CallsInv, QueuesInv, NEW x \in Extension, NEW c, Executing(c, x), Unregisters(c),
         NEW outcome \in {"returned", "failed"}, Unregistered(c, x, outcome)
  PROVE  /\ CallsInv' /\ QueuesInv' /\ ~Admitting(x)
         /\ \A z \in Extension : Admitting(z)' <=> Admitting(z) /\ z # x
  <1>1. /\ c \in 1 .. Len(calls) /\ todo[c] \in SUBSET Extension
        /\ todo \in Seq(SUBSET Extension) /\ x \in Id
    BY AtItsTurn DEF CallsInv, Id
  <1>2. ~Admitting(x)
    BY AtItsTurn DEF Unregisters
  <1>3. CASE calls[c].op = "unregisterExtension"
    <2>1. outcome \in Position \ {"admitted"}
      BY DEF Position, Over
    <2> QED
      BY <1>1, <1>2, <1>3, <2>1, LeavesKeeps DEF Unregistered, Returns
  <1>4. CASE calls[c].op # "unregisterExtension"
    <2> DEFINE w == IF outcome = "failed" THEN "drainFailed" ELSE "drainNext"
    <2>1. /\ todo' = [todo EXCEPT ![c] = @ \ {x}] /\ pc' = [pc EXCEPT ![c] = w]
          /\ queue' = [queue EXCEPT ![x] = Tail(@)] /\ calls' = calls
      BY <1>4 DEF Unregistered
    <2>2. w \in Position \ {"admitted"}
      BY DEF Position, Over
    <2>3. todo' \in Seq(SUBSET Extension) /\ Len(todo') = Len(todo)
      BY <1>1, <2>1 DEF CallsInv
    <2> HIDE DEF w
    <2> QED
      BY <1>1, <1>2, <2>1, <2>2, <2>3, LeavesKeeps
  <1> QED
    BY <1>3, <1>4

LEMMA UnregisterExtensionKeeps ==
  ASSUME RegistryIInv, NEW x \in Extension, NEW c, UnregisterExtension(c, x)
  PROVE  RegistryIInv'
  <1>1. CallsInv /\ QueuesInv /\ AdmissionsHeld
    BY IInvParts
  <1>2. Executing(c, x) /\ Unregisters(c) /\ UNCHANGED <<registry, disposing>>
    BY DEF UnregisterExtension
  <1>3. CASE unmounting' = unmounting \cup {x} /\ UNCHANGED <<members, calls, pc, todo, queue>>
    <2>1. CallsInv' /\ QueuesInv'
      BY <1>1, <1>3 DEF CallsInv, QueuesInv
    <2>2. AdmissionsHeld'
      BY <1>1, <1>2, <1>3
         DEF AdmissionsHeld, RegistryTyped, AdmissionInv, Admitting, registry, members
    <2> QED
      BY <2>1, <2>2, IInvParts, PTL
  <1>4. CASE unmounting' = unmounting \ {x} /\ Removes(x) /\ Unregistered(c, x, "returned")
    <2>1. /\ CallsInv' /\ QueuesInv' /\ ~Admitting(x)
          /\ \A z \in Extension : Admitting(z)' <=> Admitting(z) /\ z # x
      BY <1>1, <1>2, <1>4, UnregisteredKeeps
    <2>2. /\ home' = [home EXCEPT ![x] = None] /\ tracked' = tracked \ {x}
          /\ inRouter' = IF x \in tracked THEN inRouter \ {x} ELSE inRouter
      BY <1>4 DEF Removes
    <2>3. RegistryTyped'
      BY <1>1, <1>2, <1>4, <2>2 DEF AdmissionsHeld, RegistryTyped, registry
    <2>4. \A z \in Extension : home'[z] = IF z = x THEN None ELSE home[z]
      BY <1>1, <2>2 DEF AdmissionsHeld, RegistryTyped
    <2>5. AdmissionInv'
      BY <1>1, <1>2, <2>1, <2>2, <2>4 DEF AdmissionsHeld, AdmissionInv, registry
    <2> QED
      BY <2>1, <2>3, <2>5, IInvParts, PTL DEF AdmissionsHeld
  <1>5. CASE unmounting' = unmounting \ {x} /\ Unregistered(c, x, "failed") /\ UNCHANGED members
    <2>1. /\ CallsInv' /\ QueuesInv' /\ ~Admitting(x)
          /\ \A z \in Extension : Admitting(z)' <=> Admitting(z) /\ z # x
      BY <1>1, <1>2, <1>5, UnregisteredKeeps
    <2>2. AdmissionsHeld'
      BY <1>1, <1>2, <1>5, <2>1 DEF AdmissionsHeld, RegistryTyped, AdmissionInv, registry, members
    <2> QED
      BY <2>1, <2>2, IInvParts, PTL
  <1> QED
    BY <1>3, <1>4, <1>5 DEF UnregisterExtension

-----------------------------------------------------------------------------
(* unregisterDomain. *)
LEMMA FinishesKeeps ==
  ASSUME RegistryIInv, NEW d \in Domain, NEW c, Executing(c, d),
         NEW result \in {"returned", "failed"},
         Finishes(c, d, result),
         served' \in [Domain -> 0 .. registrations], unregistering' \in SUBSET Domain,
         UNCHANGED <<registrations, domains, members, disposing, unmounting>>
  PROVE  RegistryIInv'
  <1>1. CallsInv /\ QueuesInv /\ AdmissionsHeld
    BY IInvParts
  <1>2. open' = (IF Reopens(c, d) THEN [open EXCEPT ![d] = TRUE] ELSE open) /\ Returns(c, d, result)
    BY DEF Finishes
  <1>3. /\ CallsInv' /\ QueuesInv'
        /\ \A z \in Extension : Admitting(z)' <=> Admitting(z) /\ z # d
    <2>1. result \in Position \ {"admitted"} /\ d \in Id /\ todo \in Seq(SUBSET Extension)
      BY <1>1 DEF Position, Over, Id, CallsInv
    <2> QED
      BY <1>1, <1>2, <2>1, LeavesKeeps DEF Returns
  <1>4. \A z \in Extension : z # d
    OBVIOUS
  <1>5. open' \in [Domain -> BOOLEAN]
    BY <1>1, <1>2 DEF AdmissionsHeld, RegistryTyped
  <1>6. AdmissionsHeld'
    BY <1>1, <1>3, <1>4, <1>5 DEF AdmissionsHeld, RegistryTyped, AdmissionInv, members
  <1> QED
    BY <1>3, <1>6, IInvParts, PTL

LEMMA BeginsKeeps ==
  ASSUME RegistryIInv, NEW d \in Domain, NEW c, Executing(c, d), UnregistrationBegins(c, d)
  PROVE  RegistryIInv'
  <1>1. CallsInv /\ QueuesInv /\ AdmissionsHeld
    BY IInvParts
  <1>2. /\ pc[c] = "queued" /\ open' = [open EXCEPT ![d] = FALSE]
        /\ unregistering' = unregistering \cup {d} /\ pc' = [pc EXCEPT ![c] = "waiting"]
        /\ UNCHANGED <<registrations, domains, served, members, disposing, calls, todo, queue,
                       unmounting>>
    BY DEF UnregistrationBegins
  <1>3. /\ CallsInv' /\ QueuesInv'
        /\ \A z \in Extension : Admitting(z)' <=> Admitting(z) \/ ("waiting" = "admitted" /\ z = d)
    <2>1. "waiting" \in Position /\ todo' \in Seq(SUBSET Extension) /\ Len(todo') = Len(todo)
      BY <1>1, <1>2 DEF Position, CallsInv
    <2>2. c \in 1 .. Len(calls)
      BY <1>1, AtItsDomain
    <2> QED
      BY <1>1, <1>2, <2>1, <2>2, RegistryStaysKeeps
  <1>4. AdmissionsHeld'
    BY <1>1, <1>2, <1>3 DEF AdmissionsHeld, RegistryTyped, AdmissionInv, members
  <1> QED
    BY <1>3, <1>4, IInvParts, PTL

(* What a drain asks for is a member or was one. *)
LEMMA PassFacts ==
  ASSUME CallsInv, QueuesInv, NEW d \in Domain, NEW c, Executing(c, d)
  PROVE  Pass(c, d) \in SUBSET Extension /\ (Pass(c, d) = {} => Members(d) = {})
  BY AtItsDomain DEF Pass, Members

LEMMA DrainsKeep ==
  ASSUME RegistryIInv, NEW d \in Domain, NEW c, Executing(c, d), DrainsNext(c, d)
  PROVE  RegistryIInv'
  <1>1. CallsInv /\ QueuesInv /\ AdmissionsHeld
    BY IInvParts
  <1>2. PICK x \in Pass(c, d) : queue' = [queue EXCEPT ![x] = Append(@, c)]
    BY DEF DrainsNext
  <1>3. /\ pc[c] # "admitted" /\ todo' = [todo EXCEPT ![c] = Pass(c, d)]
        /\ pc' = [pc EXCEPT ![c] = "draining"]
        /\ UNCHANGED <<registry, members, disposing, calls, unmounting>>
    BY DEF DrainsNext, Drains
  <1>4. Pass(c, d) \in SUBSET Extension /\ x \in Extension
    BY <1>1, <1>2, PassFacts
  <1>5. c \in 1 .. Len(calls) /\ calls[c].op = "unregisterDomain"
    BY <1>1, AtItsDomain
  <1>6. todo' \in Seq(SUBSET Extension) /\ Len(todo') = Len(todo)
    <2>1. todo \in Seq(SUBSET Extension)
      BY <1>1 DEF CallsInv
    <2>2. PICK n \in Nat : n = Len(todo) /\ todo \in [1 .. n -> SUBSET Extension]
      BY <2>1
    <2>3. todo' \in [1 .. n -> SUBSET Extension]
      BY <1>3, <1>4, <2>2
    <2> QED
      BY <2>2, <2>3
  <1>7. CallsInv' /\ QueuesInv' /\ \A z \in Extension : Admitting(z)' <=> Admitting(z)
    BY <1>1, <1>2, <1>3, <1>4, <1>5, <1>6, JoinsKeeps
  <1>8. AdmissionsHeld'
    BY <1>1, <1>3, <1>7 DEF AdmissionsHeld, RegistryTyped, AdmissionInv, registry, members
  <1> QED
    BY <1>7, <1>8, IInvParts, PTL

LEMMA RemovedKeeps ==
  ASSUME RegistryIInv, NEW d \in Domain, NEW c, Executing(c, d), DomainRemoved(c, d)
  PROVE  RegistryIInv'
  <1>1. CallsInv /\ QueuesInv /\ AdmissionsHeld
    BY IInvParts
  <1>2. /\ pc[c] # "admitted" /\ Pass(c, d) = {}
        /\ domains' = [domains EXCEPT ![d] = 0] /\ pc' = [pc EXCEPT ![c] = "removed"]
        /\ UNCHANGED <<registrations, served, open, unregistering, members, disposing, calls, todo,
                       queue, unmounting>>
    BY DEF DomainRemoved, Drains
  <1>3. /\ CallsInv' /\ QueuesInv'
        /\ \A z \in Extension : Admitting(z)' <=> Admitting(z) \/ ("removed" = "admitted" /\ z = d)
    <2>1. "removed" \in Position /\ todo' \in Seq(SUBSET Extension) /\ Len(todo') = Len(todo)
      BY <1>1, <1>2 DEF Position, CallsInv
    <2>2. c \in 1 .. Len(calls)
      BY <1>1, AtItsDomain
    <2> QED
      BY <1>1, <1>2, <2>1, <2>2, RegistryStaysKeeps
  <1>4. \A x \in Extension : home[x] # d
    BY <1>1, <1>2, PassFacts DEF Members
  <1>5. /\ domains' \in [Domain -> 0 .. registrations]
        /\ \A e \in Domain : domains'[e] = IF e = d THEN 0 ELSE domains[e]
    <2>1. domains \in [Domain -> 0 .. registrations] /\ 0 \in 0 .. registrations
      BY <1>1 DEF AdmissionsHeld, RegistryTyped
    <2> QED
      BY <1>2, <2>1
  <1>6. RegistryTyped'
    BY <1>1, <1>2, <1>4, <1>5 DEF AdmissionsHeld, RegistryTyped, members
  <1>7. AdmissionInv'
    BY <1>1, <1>2, <1>3, <1>5 DEF AdmissionsHeld, AdmissionInv, members
  <1> QED
    BY <1>3, <1>6, <1>7, IInvParts, PTL DEF AdmissionsHeld

LEMMA UnregisterDomainKeeps ==
  ASSUME RegistryIInv, NEW d \in Domain, NEW c, UnregisterDomain(c, d)
  PROVE  RegistryIInv'
  <1>1. Executing(c, d) /\ served \in [Domain -> 0 .. registrations]
        /\ unregistering \in SUBSET Domain /\ 0 \in 0 .. registrations
    BY IInvParts DEF UnregisterDomain, AdmissionsHeld, RegistryTyped
  <1>2. CASE NothingToUnregister(c, d)
    BY <1>1, <1>2, FinishesKeeps DEF NothingToUnregister
  <1>3. CASE DomainReleased(c, d)
    <2>1. served' \in [Domain -> 0 .. registrations] /\ unregistering' \in SUBSET Domain
      BY <1>1, <1>3 DEF DomainReleased
    <2> QED
      BY <1>1, <1>3, <2>1, FinishesKeeps DEF DomainReleased
  <1>4. CASE UnregistrationFails(c, d)
    <2>1. served' \in [Domain -> 0 .. registrations] /\ unregistering' \in SUBSET Domain
      BY <1>1, <1>4 DEF UnregistrationFails
    <2> QED
      BY <1>1, <1>4, <2>1, FinishesKeeps DEF UnregistrationFails
  <1> QED
    BY <1>1, <1>2, <1>3, <1>4, BeginsKeeps, DrainsKeep, RemovedKeeps DEF UnregisterDomain

-----------------------------------------------------------------------------
(* dispose. *)
LEMMA DisposeKeeps ==
  ASSUME RegistryIInv, DisposeWaits \/ DisposeTearsDown
  PROVE  RegistryIInv'
  <1>1. CallsInv /\ QueuesInv /\ AdmissionsHeld
    BY IInvParts
  <1>2. UNCHANGED <<calls, pc, todo, queue>>
    BY DEF DisposeWaits, DisposeTearsDown
  <1>3. CallsInv' /\ QueuesInv' /\ \A x \in Extension : Admitting(x)' <=> Admitting(x)
    BY <1>1, <1>2 DEF CallsInv, QueuesInv, Admitting
  <1>4. CASE DisposeWaits
    <2>1. RegistryTyped'
      BY <1>1, <1>4 DEF AdmissionsHeld, RegistryTyped, DisposeWaits, members
    <2>2. AdmissionInv'
      BY <1>1, <1>3, <1>4 DEF AdmissionsHeld, AdmissionInv, DisposeWaits, members
    <2> QED
      BY <1>3, <2>1, <2>2, IInvParts, PTL DEF AdmissionsHeld
  <1>5. CASE DisposeTearsDown
    <2>1. RegistryTyped'
      BY <1>1, <1>5 DEF AdmissionsHeld, RegistryTyped, DisposeTearsDown
    <2>2. AdmissionInv'
      BY <1>1, <1>3, <1>5 DEF AdmissionsHeld, AdmissionInv, DisposeTearsDown
    <2> QED
      BY <1>3, <2>1, <2>2, IInvParts, PTL DEF AdmissionsHeld
  <1> QED
    BY <1>4, <1>5

LEMMA RegistryNextKeeps == ASSUME RegistryIInv, [RegistryNext]_rvars PROVE RegistryIInv'
  <1>1. CASE RegistryNext
    BY <1>1, ExtensionCallsKeep, DomainCallKeeps, RegisterDomainKeeps, RegisterExtensionKeeps,
       UnregisterExtensionKeeps, UnregisterDomainKeeps, DisposeKeeps DEF RegistryNext, Step
  <1>2. CASE UNCHANGED rvars
    BY <1>2 DEF rvars, registry, members, RegistryIInv, RegistryTypeOK, CallsInv, QueuesInv,
               AdmissionInv, Admitting
  <1> QED
    BY <1>1, <1>2

LEMMA RegistryInitKeeps == RegistryInit => RegistryIInv
  <1> SUFFICES ASSUME RegistryInit  PROVE CallsInv /\ QueuesInv /\ AdmissionsHeld
    BY IInvParts
  <1>1. /\ calls = <<>> /\ pc = <<>> /\ todo = <<>>
        /\ queue = [id \in Domain \cup Extension |-> <<>>]
    BY DEF RegistryInit
  <1>2. CallsInv /\ QueuesInv /\ \A x \in Extension : ~Admitting(x)
    BY <1>1 DEF CallsInv, QueuesInv, Admitting
  <1> QED
    BY <1>2 DEF RegistryInit, AdmissionsHeld, RegistryTyped, AdmissionInv

-----------------------------------------------------------------------------
(* The invariant holds, for every set of domains and extensions and every      *)
(* number of calls: an extension's place in the queues, what the registry      *)
(* holds of it and what the router was told agree at every step.               *)
THEOREM RegistryInvariance == RegistrySpec => []RegistryIInv
  BY RegistryInitKeeps, RegistryNextKeeps, PTL DEF RegistrySpec

(* Every variable holds values of its type, and no extension outlives its      *)
(* domain: a domain is deleted only once no extension is left in it            *)
(* (drainAndUnregisterDomain).                                                 *)
THEOREM RegistryTypeCorrect == RegistrySpec => []RegistryTypeOK
  <1>1. RegistryIInv => RegistryTypeOK
    BY DEF RegistryIInv
  <1> QED
    BY <1>1, RegistryInvariance, PTL

(* With no operation on an extension in flight, the router holds it exactly if *)
(* the registry does: no failure path of registering or unregistering leaks an *)
(* admission or releases one too many.                                         *)
THEOREM RouterHoldsTheRegistered == RegistrySpec => []RouterAgrees
  <1>1. RegistryIInv => RouterAgrees
    BY DEF RegistryIInv, AdmissionInv, Admitting, RouterAgrees
  <1> QED
    BY <1>1, RegistryInvariance, PTL

(* A domain that stays registered keeps its handlers, its queue and its router *)
(* admission, whatever unregistrations of it fail: only a call that has        *)
(* removed an earlier domain of the id may still take them.                    *)
THEOREM HandlersAreKept == RegistrySpec => HandlersStayWithTheDomain
  <1>1. ASSUME RegistryIInv, [RegistryNext]_rvars, NEW d \in Domain,
               domains[d] # 0, domains'[d] = domains[d], served[d] # 0, served'[d] = 0
        PROVE  \E c \in Pending(d) : pc[c] = "removed"
    <2>1. CallsInv /\ QueuesInv /\ AdmissionsHeld
      BY <1>1, IInvParts
    <2>2. ASSUME NEW c, NEW e \in Domain, UnregisterDomain(c, e)
          PROVE  c \in Pending(d) /\ pc[c] = "removed"
      <3>1. Executing(c, e) /\ DomainReleased(c, e) /\ e = d
        BY <1>1, <2>1, <2>2
           DEF UnregisterDomain, NothingToUnregister, UnregistrationBegins, DrainsNext,
               DomainRemoved, DomainReleased, UnregistrationFails, registry, AdmissionsHeld,
               RegistryTyped
      <3>2. /\ c \in DOMAIN calls /\ calls[c].op = "unregisterDomain" /\ calls[c].domain = d
        BY <2>1, <3>1, AtItsDomain
      <3> QED
        BY <3>1, <3>2 DEF DomainReleased, Pending, Over
    <2>3. CASE \E e \in Domain : RegisterDomain(e)
      BY <1>1, <2>1, <2>3 DEF RegisterDomain, AdmissionsHeld, RegistryTyped
    <2>4. CASE DisposeTearsDown
      BY <1>1, <2>4 DEF DisposeTearsDown
    <2>5. CASE UNCHANGED served
      BY <1>1, <2>5
    <2>6. \/ \E c \in DOMAIN calls : \E e \in Domain : UnregisterDomain(c, e)
          \/ \E e \in Domain : RegisterDomain(e)
          \/ DisposeTearsDown
          \/ UNCHANGED served
      BY <1>1
         DEF RegistryNext, Step, CallsRegisterExtension, CallsUnregisterExtension,
             CallsUnregisterDomain,
             RegisterExtension, ExtensionRejected, ExtensionAdmitted, ExtensionTracked,
             UnregisterExtension, DisposeWaits, registry, rvars
    <2> QED
      BY <2>2, <2>3, <2>4, <2>5, <2>6
  <1>2. ASSUME RegistryIInv, [RegistryNext]_rvars
        PROVE  [\A d \in Domain :
                  domains[d] # 0 /\ domains'[d] = domains[d] /\ served[d] # 0 /\ served'[d] = 0 =>
                    \E c \in Pending(d) : pc[c] = "removed"]_rvars
    BY <1>1, <1>2
  <1> QED
    BY <1>2, RegistryInvariance, PTL DEF RegistrySpec, HandlersStayWithTheDomain
===============================================================================
