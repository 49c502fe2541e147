------------------------- MODULE OccupancyQueueProofs -------------------------
(***************************************************************************)
(* Theorems about the occupancy queue, for every set of extensions and any *)
(* number of callers.                                                      *)
(***************************************************************************)
EXTENDS OccupancyQueue, TLAPS

USE MaxCallersAssumption

(* The slots, the entries and the callers agree in an empty queue. *)
LEMMA InitIInv == Init => IInv
  <1> SUFFICES ASSUME Init PROVE IInv
    OBVIOUS
  <1>1. TypeOK
    BY DEF Init, TypeOK, Caller, NoEntry
  <1>2. SlotsInv
    BY DEF Init, SlotsInv, IsClosed, Caller, NoEntry
  <1>3. MembersInv /\ WaitingInv
    BY DEF Init, MembersInv, WaitingInv, Caller, NoEntry, Waiting
  <1> QED
    BY <1>1, <1>2, <1>3 DEF IInv

Settlement == {"idle", "waiting", "succeeded", "failed"}

(* The settlements st differ from the present ones in that the waiting     *)
(* callers in S have settled with outcome; c itself is left open.          *)
Settles(st, S, outcome, c) ==
  /\ st \in [Caller -> Settlement]
  /\ \A d \in Caller : d # c =>
       st[d] = IF d \in S /\ status[d] = "waiting" THEN outcome ELSE status[d]

(* OccupancyEntry.settleAll settles the waiting callers of S and no one else. *)
LEMMA SettleAllFacts ==
  ASSUME TypeOK, NEW S, NEW outcome \in {"succeeded", "failed"}
  PROVE  Settles(SettleAll(S, outcome), S, outcome, NoEntry)
  BY DEF TypeOK, SettleAll, Settles, Settlement, NoEntry

(* What a call of submit records. *)
Called(n, r) ==
  /\ submitted' = n /\ n \in Caller
  /\ request' \in [Caller -> Request \cup {NoRequest}]
  /\ request'[n] = r
  /\ \A d \in Caller : d # n => request'[d] = request[d]
  /\ admission' = admission

(* Every branch of submit records the request under the next number. *)
LEMMA CallFacts ==
  ASSUME TypeOK, NEW r \in Request, NEW n, Call(n, r)
  PROVE  Called(n, r)
  BY DEF TypeOK, Call, Caller, Called

(* What admitting the caller c into entry e changes, those in S failing. *)
Admitted(e, c, S) ==
  /\ members' \in [Caller -> SUBSET Caller]
  /\ members'[e] = members[e] \cup {c}
  /\ \A d \in Caller : d # e => members'[d] = members[d]
  /\ entryOf' \in [Caller -> 0 .. MaxCallers]
  /\ entryOf'[c] = e
  /\ \A d \in Caller : d # c => entryOf'[d] = entryOf[d]
  /\ Settles(status', S, "failed", c)
  /\ status'[c] = "waiting"
  /\ timer' \in SUBSET Caller
  /\ \A d \in Caller : d \in timer' <=> (d \in timer \/ d = c) /\ status'[d] = "waiting"

(* admit adds its caller to the entry, arms its timer, and fails those replaced. *)
LEMMA AdmitFacts ==
  ASSUME TypeOK, NEW e \in Caller, NEW c \in Caller, NEW S, Admit(e, c, S)
  PROVE  Admitted(e, c, S)
  <1>1. Settles(SettleAll(S, "failed"), S, "failed", NoEntry)
    BY SettleAllFacts
  <1>2. /\ members' \in [Caller -> SUBSET Caller]
        /\ members'[e] = members[e] \cup {c}
        /\ \A d \in Caller : d # e => members'[d] = members[d]
        /\ entryOf' \in [Caller -> 0 .. MaxCallers]
        /\ entryOf'[c] = e
        /\ \A d \in Caller : d # c => entryOf'[d] = entryOf[d]
    BY DEF TypeOK, Admit, Caller
  <1>3. Settles(status', S, "failed", c) /\ status'[c] = "waiting"
    BY <1>1 DEF Admit, Settles, Settlement, Caller, NoEntry
  <1>4. /\ timer' \in SUBSET Caller
        /\ \A d \in Caller : d \in timer' <=>
              (d \in timer \/ d = c) /\ status'[d] = "waiting"
    BY DEF TypeOK, Admit, ClearSettledTimers
  <1> QED
    BY <1>2, <1>3, <1>4 DEF Admitted

(* What the settlement of every caller in S leaves of statuses and timers. *)
LEMMA SettleFacts ==
  ASSUME TypeOK, NEW S, NEW outcome \in {"succeeded", "failed"},
         status' = SettleAll(S, outcome), ClearSettledTimers(timer)
  PROVE  /\ Settles(status', S, outcome, NoEntry)
         /\ timer' \in SUBSET Caller
         /\ \A d \in Caller : d \in timer' <=> d \in timer /\ status'[d] = "waiting"
  <1>1. Settles(status', S, outcome, NoEntry)
    BY SettleAllFacts
  <1>2. /\ timer' \in SUBSET Caller
        /\ \A d \in Caller : d \in timer' <=> d \in timer /\ status'[d] = "waiting"
    BY DEF TypeOK, ClearSettledTimers
  <1> QED
    BY <1>1, <1>2

(* A submit leaves the callers numbered in the order of their calls. *)
LEMMA NumberingKept ==
  ASSUME TypeOK, NEW r, NEW n, n = submitted + 1, Called(n, r),
         NEW e, NEW S, Admitted(e, n, S)
  PROVE  \A d \in Caller : status'[d] = "idle" <=> d > submitted'
  <1> TAKE d \in Caller
  <1>1. CASE d = n
    BY <1>1 DEF TypeOK, Called, Admitted, Caller
  <1>2. CASE d # n
    <2>1. status'[d] = "idle" <=> status[d] = "idle"
      BY <1>2 DEF Admitted, Settles
    <2>2. status[d] = "idle" <=> d > submitted
      BY DEF TypeOK
    <2>3. d > submitted <=> d > n
      BY <1>2 DEF TypeOK, Caller
    <2> QED
      BY <2>1, <2>2, <2>3 DEF Called
  <1> QED
    BY <1>1, <1>2

(* Admitting a caller into an entry keeps the types of what admit changes. *)
LEMMA AdmitKeepsTypes ==
  ASSUME TypeOK, NEW r, NEW n, n = submitted + 1, Called(n, r),
         NEW e, NEW S, Admitted(e, n, S),
         running' \in 0 .. MaxCallers, pending' \in 0 .. MaxCallers,
         started' \in SUBSET Caller, task' \in [Caller -> 0 .. MaxCallers]
  PROVE  TypeOK'
  <1>1. \A d \in Caller : status'[d] = "idle" <=> d > submitted'
    BY NumberingKept
  <1>2. submitted' \in 0 .. MaxCallers /\ admission' \in {"open", "closed"}
    BY DEF TypeOK, Called, Caller
  <1> QED
    BY <1>1, <1>2 DEF TypeOK, Called, Admitted, Settles, Settlement

(* Admitting n into e, which is new or asks for what n asks for, while S holds *)
(* nobody of an entry that stays in a slot.                                    *)
LEMMA AdmitKeepsMembers ==
  ASSUME TypeOK, MembersInv, NEW r, NEW n, n = submitted + 1, Called(n, r),
         NEW e \in Caller, NEW S, Admitted(e, n, S),
         e = n \/ (e <= submitted /\ request[e] = r),
         \A d \in Caller : d \in {running', pending'} /\ d # n =>
            d \in {running, pending} /\ \A c \in members[d] : c \notin S
  PROVE  MembersInv'
  <1> SUFFICES ASSUME NEW d \in Caller, NEW c \in members'[d]  PROVE Belongs(c, d)'
    BY DEF MembersInv
  <1>0. n \in Caller /\ submitted' = n /\ submitted \in Nat
    BY DEF Called, TypeOK
  <1>1. CASE c = n
    <2>1. d = e
      <3> SUFFICES ASSUME d # e PROVE FALSE
        OBVIOUS
      <3>1. c \in members[d]
        BY DEF Admitted
      <3>2. c <= submitted
        BY <3>1 DEF MembersInv, Belongs
      <3> QED
        BY <1>0, <1>1, <3>2
    <2>2. request'[c] = request'[d]
      BY <1>0, <1>1, <2>1 DEF Called
    <2>3. entryOf'[c] = d /\ status'[c] = "waiting"
      BY <1>1, <2>1 DEF Admitted
    <2>4. c <= submitted' /\ d <= submitted'
      BY <1>0, <1>1, <2>1
    <2> QED
      BY <2>2, <2>3, <2>4 DEF Belongs
  <1>2. CASE c # n
    <2>1. c \in members[d]
      BY <1>2 DEF Admitted
    <2>2. Belongs(c, d) /\ c \in Caller
      BY <2>1 DEF MembersInv, TypeOK
    <2>3. d # n /\ c <= submitted' /\ d <= submitted'
      BY <1>0, <2>2 DEF Belongs, Caller
    <2>4. entryOf'[c] = d /\ request'[c] = request'[d]
      BY <1>2, <2>2, <2>3 DEF Belongs, Called, Admitted
    <2>5. d \in {running', pending'} => status'[c] = "waiting"
      BY <1>2, <2>1, <2>2, <2>3 DEF Belongs, Admitted, Settles
    <2> QED
      BY <2>3, <2>4, <2>5 DEF Belongs
  <1> QED
    BY <1>1, <1>2

(* Admitting n into an entry in a slot, while the entry of everyone outside S *)
(* stays in a slot.                                                          *)
LEMMA AdmitKeepsWaiting ==
  ASSUME TypeOK, WaitingInv, NEW n \in Caller,
         NEW e \in Caller, NEW S, Admitted(e, n, S),
         e \in {running', pending'},
         \A c \in Caller : c # n /\ status[c] = "waiting" /\ c \notin S =>
            entryOf[c] \in {running', pending'},
         pending' = pending \/ pending' = NoEntry \/ (pending' = n /\ n \notin {running, pending})
  PROVE  WaitingInv'
  <1> SUFFICES ASSUME NEW c \in Caller, status'[c] = "waiting"  PROVE Placed(c)'
    BY DEF WaitingInv
  <1>1. CASE c = n
    <2>1. entryOf'[c] = e /\ c \in members'[e] /\ c \in timer'
      BY <1>1 DEF Admitted
    <2> QED
      BY <2>1 DEF Placed, Caller, NoEntry
  <1>2. CASE c # n
    <2>1. status[c] = "waiting" /\ c \notin S
      BY <1>2 DEF Admitted, Settles
    <2>2. /\ entryOf[c] \in {running, pending} \ {NoEntry}
          /\ c \in members[entryOf[c]]
          /\ entryOf[c] = pending => c \in timer
      BY <2>1 DEF WaitingInv, Placed
    <2>3. entryOf[c] \in Caller /\ entryOf'[c] = entryOf[c]
      BY <1>2, <2>2 DEF TypeOK, Admitted, Caller, NoEntry
    <2>4. c \in members'[entryOf[c]] /\ (c \in timer => c \in timer')
      BY <2>2, <2>3 DEF Admitted
    <2>5. entryOf[c] \in {running', pending'} \ {NoEntry}
      BY <1>2, <2>1, <2>2
    <2>6. entryOf[c] = pending' => c \in timer
      BY <2>2, <2>3 DEF Caller, NoEntry
    <2> QED
      BY <2>3, <2>4, <2>5, <2>6 DEF Placed
  <1> QED
    BY <1>1, <1>2

-----------------------------------------------------------------------------
(* Every branch of submit preserves the invariant. *)

(* A request that is answered without a place in either slot. *)
LEMMA AnsweredIInv ==
  ASSUME IInv, NEW r \in Request, NEW n, n = submitted + 1, Call(n, r),
         NEW outcome \in {"succeeded", "failed"}, status' = [status EXCEPT ![n] = outcome],
         UNCHANGED <<running, pending, members, started, task, entryOf, timer>>
  PROVE  IInv'
  <1>0. TypeOK /\ SlotsInv /\ MembersInv /\ WaitingInv
    BY DEF IInv
  <1>1. Called(n, r)
    BY <1>0, CallFacts
  <1>2. /\ status' = [status EXCEPT ![n] = outcome]
        /\ UNCHANGED <<running, pending, members, started, task, entryOf, timer>>
    OBVIOUS
  <1>3. TypeOK'
    BY <1>0, <1>1, <1>2 DEF TypeOK, Caller, Called
  <1>4. SlotsInv'
    BY <1>0, <1>1, <1>2 DEF TypeOK, SlotsInv, MembersInv, Belongs, Caller, Called, IsClosed, NoEntry
  <1>5. MembersInv'
    BY <1>0, <1>1, <1>2 DEF TypeOK, SlotsInv, MembersInv, Belongs, Caller, Called, NoEntry
  <1>6. WaitingInv'
    BY <1>0, <1>1, <1>2 DEF TypeOK, WaitingInv, Placed, Caller, Called
  <1> QED
    BY <1>3, <1>4, <1>5, <1>6 DEF IInv

(* submit to a closed queue. *)
LEMMA RefusedIInv ==
  ASSUME IInv, NEW r \in Request, NEW n, n = submitted + 1, SubmitRefused(n, r)
  PROVE  IInv'
  BY AnsweredIInv DEF SubmitRefused

(* submit to an empty queue, whose request starts at once. *)
LEMMA ToEmptyIInv ==
  ASSUME IInv, NEW r \in Request, NEW n, n = submitted + 1, SubmitToEmpty(n, r)
  PROVE  IInv'
  <1>0. TypeOK /\ SlotsInv /\ MembersInv /\ WaitingInv
    BY DEF IInv
  <1>1. Called(n, r)
    BY <1>0, CallFacts DEF SubmitToEmpty
  <1>2. n \in Caller /\ n \notin started
    BY <1>0, <1>1 DEF Called, SlotsInv, TypeOK, Caller
  <1>3. Admitted(n, n, {})
    BY <1>0, <1>2, AdmitFacts DEF SubmitToEmpty
  <1>4. /\ ~IsClosed /\ running = NoEntry /\ pending = NoEntry
        /\ running' = n /\ pending' = NoEntry /\ started' = started \cup {n}
        /\ \E c \in Caller : task' = [task EXCEPT ![n] = c]
    BY <1>0 DEF SubmitToEmpty, StartRunning, SlotsInv
  <1>5. TypeOK'
    <2>1. running' \in 0 .. MaxCallers /\ pending' \in 0 .. MaxCallers
      BY <1>2, <1>4 DEF Caller, NoEntry
    <2>2. started' \in SUBSET Caller /\ task' \in [Caller -> 0 .. MaxCallers]
      BY <1>0, <1>2, <1>4 DEF TypeOK, Caller
    <2> QED
      BY <1>0, <1>1, <1>3, <2>1, <2>2, AdmitKeepsTypes
  <1>6. SlotsInv'
    <2>1. \A e \in Caller : task'[e] # NoEntry <=> e = running'
      BY <1>0, <1>2, <1>4 DEF TypeOK, SlotsInv, Caller, NoEntry
    <2>2. \A e \in started' : e <= submitted'
      BY <1>0, <1>1, <1>4 DEF TypeOK, SlotsInv, Called, Caller
    <2> QED
      BY <1>1, <1>2, <1>3, <1>4, <2>1, <2>2 DEF SlotsInv, Called, Admitted, IsClosed, NoEntry, Caller
  <1>7. MembersInv'
    BY <1>0, <1>1, <1>2, <1>3, <1>4, AdmitKeepsMembers DEF NoEntry, Caller
  <1>8. WaitingInv'
    <2>1. \A c \in Caller : status[c] # "waiting"
      BY <1>0, <1>4 DEF WaitingInv, Placed
    <2> QED
      BY <1>0, <1>2, <1>3, <1>4, <2>1, AdmitKeepsWaiting
  <1> QED
    BY <1>5, <1>6, <1>7, <1>8 DEF IInv

(* submit of the request that is pending. *)
LEMMA JoinsPendingIInv ==
  ASSUME IInv, NEW r \in Request, NEW n, n = submitted + 1, SubmitJoinsPending(n, r)
  PROVE  IInv'
  <1>0. TypeOK /\ SlotsInv /\ MembersInv /\ WaitingInv
    BY DEF IInv
  <1>1. Called(n, r)
    BY <1>0, CallFacts DEF SubmitJoinsPending
  <1>2. /\ n \in Caller /\ pending \in Caller
        /\ ~IsClosed /\ running # NoEntry /\ pending # NoEntry /\ request[pending] = r
        /\ UNCHANGED <<running, pending, started, task>>
    BY <1>0, <1>1 DEF Called, SubmitJoinsPending, Matches, TypeOK, Caller, NoEntry
  <1>3. Admitted(pending, n, {})
    BY <1>0, <1>2, AdmitFacts DEF SubmitJoinsPending
  <1>4. pending <= submitted
    BY <1>0 DEF SlotsInv
  <1>5. TypeOK'
    <2>1. /\ running' \in 0 .. MaxCallers /\ pending' \in 0 .. MaxCallers
          /\ started' \in SUBSET Caller /\ task' \in [Caller -> 0 .. MaxCallers]
      BY <1>0, <1>2 DEF TypeOK
    <2> QED
      BY <1>0, <1>1, <1>3, <2>1, AdmitKeepsTypes
  <1>6. SlotsInv'
    <2>1. running \in Caller /\ running # n /\ pending # n /\ running # pending
      BY <1>0, <1>2, <1>4 DEF TypeOK, SlotsInv, Caller, NoEntry
    <2>2. members'[running] # {} /\ members'[pending] # {}
      BY <1>0, <1>2, <1>3, <2>1 DEF SlotsInv, Admitted
    <2>3. request'[running] = request[running] /\ request'[pending] = request[pending]
      BY <1>1, <1>2, <2>1 DEF Called
    <2>4. \A e \in started : e <= submitted'
      BY <1>0, <1>1 DEF SlotsInv, TypeOK, Called, Caller
    <2> QED
      BY <1>0, <1>1, <1>2, <1>4, <2>2, <2>3, <2>4 DEF TypeOK, SlotsInv, Called, IsClosed, Caller
  <1>7. MembersInv'
    BY <1>0, <1>1, <1>2, <1>3, <1>4, AdmitKeepsMembers
  <1>8. WaitingInv'
    BY <1>0, <1>2, <1>3, AdmitKeepsWaiting DEF WaitingInv, Placed
  <1> QED
    BY <1>5, <1>6, <1>7, <1>8 DEF IInv

(* submit of the request that is running, which drops the pending entry. *)
LEMMA JoinsRunningIInv ==
  ASSUME IInv, NEW r \in Request, NEW n, n = submitted + 1, SubmitJoinsRunning(n, r)
  PROVE  IInv'
  <1>0. TypeOK /\ SlotsInv /\ MembersInv /\ WaitingInv
    BY DEF IInv
  <1>1. Called(n, r)
    BY <1>0, CallFacts DEF SubmitJoinsRunning
  <1>2. /\ n \in Caller /\ running \in Caller
        /\ running # NoEntry /\ request[running] = r
        /\ running' = running /\ pending' = NoEntry
        /\ UNCHANGED <<started, task>>
    BY <1>0, <1>1 DEF Called, SubmitJoinsRunning, Matches, TypeOK, Caller, NoEntry
  <1>3. Admitted(running, n, MembersOf(pending))
    BY <1>0, <1>2, AdmitFacts DEF SubmitJoinsRunning
  <1>4. running <= submitted /\ running # pending
    BY <1>0, <1>2 DEF SlotsInv
  <1>5. TypeOK'
    <2>1. /\ running' \in 0 .. MaxCallers /\ pending' \in 0 .. MaxCallers
          /\ started' \in SUBSET Caller /\ task' \in [Caller -> 0 .. MaxCallers]
      BY <1>0, <1>2 DEF TypeOK, NoEntry
    <2> QED
      BY <1>0, <1>1, <1>3, <2>1, AdmitKeepsTypes
  <1>6. SlotsInv'
    <2>1. members'[running] # {}
      BY <1>3 DEF Admitted
    <2>2. \A e \in started : e <= submitted'
      BY <1>0, <1>1 DEF SlotsInv, TypeOK, Called, Caller
    <2> QED
      BY <1>0, <1>1, <1>2, <2>1, <2>2 DEF TypeOK, SlotsInv, Called, IsClosed, NoEntry, Caller
  <1>7. MembersInv'
    <2>1. \A c \in members[running] : c \notin MembersOf(pending)
      BY <1>0, <1>2, <1>4 DEF MembersInv, Belongs, MembersOf, TypeOK, Caller, NoEntry
    <2>2. \A d \in Caller : d \in {running', pending'} => d = running
      BY <1>2 DEF Caller, NoEntry
    <2> QED
      BY <1>0, <1>1, <1>2, <1>3, <1>4, <2>1, <2>2, AdmitKeepsMembers
  <1>8. WaitingInv'
    <2>1. \A c \in Caller : status[c] = "waiting" /\ c \notin MembersOf(pending) =>
            entryOf[c] \in {running', pending'}
      BY <1>0, <1>2 DEF WaitingInv, Placed, MembersOf
    <2> QED
      BY <1>0, <1>2, <1>3, <2>1, AdmitKeepsWaiting
  <1> QED
    BY <1>5, <1>6, <1>7, <1>8 DEF IInv

(* submit of another request, which replaces the pending entry. *)
LEMMA TakesPendingIInv ==
  ASSUME IInv, NEW r \in Request, NEW n, n = submitted + 1, SubmitTakesPending(n, r)
  PROVE  IInv'
  <1>0. TypeOK /\ SlotsInv /\ MembersInv /\ WaitingInv
    BY DEF IInv
  <1>1. Called(n, r)
    BY <1>0, CallFacts DEF SubmitTakesPending
  <1>2. /\ n \in Caller /\ n # pending /\ n # running /\ n \notin started
    BY <1>0, <1>1 DEF Called, SlotsInv, TypeOK, Caller, NoEntry
  <1>3. Admitted(n, n, MembersOf(pending))
    BY <1>0, <1>2, AdmitFacts DEF SubmitTakesPending
  <1>4. /\ ~IsClosed /\ running # NoEntry /\ request[running] # r
        /\ pending' = n /\ UNCHANGED <<running, started, task>>
    BY DEF SubmitTakesPending, Matches
  <1>5. TypeOK'
    <2>1. /\ running' \in 0 .. MaxCallers /\ pending' \in 0 .. MaxCallers
          /\ started' \in SUBSET Caller /\ task' \in [Caller -> 0 .. MaxCallers]
      BY <1>0, <1>2, <1>4 DEF TypeOK, Caller
    <2> QED
      BY <1>0, <1>1, <1>3, <2>1, AdmitKeepsTypes
  <1>6. SlotsInv'
    <2>1. running \in Caller /\ members'[running] # {} /\ members'[n] # {}
      BY <1>0, <1>2, <1>3, <1>4 DEF SlotsInv, TypeOK, Admitted, Caller, NoEntry
    <2>2. request'[running] = request[running] /\ request'[n] = r
      BY <1>1, <1>2, <2>1 DEF Called
    <2>3. \A e \in started : e <= submitted'
      BY <1>0, <1>1 DEF SlotsInv, TypeOK, Called, Caller
    <2> QED
      BY <1>0, <1>1, <1>2, <1>4, <2>1, <2>2, <2>3 DEF TypeOK, SlotsInv, Called, IsClosed, Caller
  <1>7. MembersInv'
    <2>1. running \in Caller /\ \A c \in members[running] : c \notin MembersOf(pending)
      BY <1>0, <1>4 DEF SlotsInv, MembersInv, Belongs, MembersOf, TypeOK, Caller, NoEntry
    <2> QED
      BY <1>0, <1>1, <1>2, <1>3, <1>4, <2>1, AdmitKeepsMembers
  <1>8. WaitingInv'
    <2>1. \A c \in Caller : status[c] = "waiting" =>
            /\ entryOf[c] \in {running, pending}
            /\ c \notin MembersOf(pending) => entryOf[c] = running
      BY <1>0 DEF WaitingInv, Placed, MembersOf
    <2> QED
      BY <1>0, <1>2, <1>3, <1>4, <2>1, AdmitKeepsWaiting
  <1> QED
    BY <1>5, <1>6, <1>7, <1>8 DEF IInv

-----------------------------------------------------------------------------
(* The entry that finishes is the running one; the pending entry, whose       *)
(* callers are all waiting, takes its place.                                  *)
LEMMA FinishIInv ==
  ASSUME IInv, NEW e \in Caller, NEW outcome \in {"succeeded", "failed"},
         FinishRunning(e, outcome)
  PROVE  IInv'
  <1>0. TypeOK /\ SlotsInv /\ MembersInv /\ WaitingInv
    BY DEF IInv
  <1>1. e = running /\ running # NoEntry
    BY <1>0 DEF FinishRunning, SlotsInv, Caller, NoEntry
  <1>2. /\ Settles(status', members[running], outcome, NoEntry)
        /\ timer' \in SUBSET Caller
        /\ \A d \in Caller : d \in timer' <=> d \in timer /\ status'[d] = "waiting"
    BY <1>0, <1>1, SettleFacts DEF FinishRunning
  <1>3. UNCHANGED <<submitted, admission, request, members, entryOf>>
    BY DEF FinishRunning
  <1>4. /\ pending' = NoEntry /\ running' = pending
        /\ started' = IF pending = NoEntry THEN started ELSE started \cup {pending}
    BY <1>1 DEF FinishRunning, StartRunning
  <1>5. /\ task' \in [Caller -> 0 .. MaxCallers]
        /\ \A d \in Caller : task'[d] # NoEntry <=> d = running'
    <2>1. DEFINE idle == [task EXCEPT ![running] = NoEntry]
    <2>2. idle \in [Caller -> 0 .. MaxCallers] /\ \A d \in Caller : idle[d] = NoEntry
      BY <1>0, <1>1 DEF TypeOK, SlotsInv, Caller, NoEntry
    <2>3. CASE pending = NoEntry
      <3>1. task' = idle
        BY <1>1, <2>3 DEF FinishRunning
      <3> QED
        BY <1>4, <2>2, <2>3, <3>1 DEF Caller, NoEntry
    <2>4. CASE pending # NoEntry
      <3>1. PICK c \in Caller : task' = [idle EXCEPT ![pending] = c]
        BY <1>1, <2>4 DEF FinishRunning, StartRunning
      <3>2. pending \in Caller
        BY <1>0, <2>4 DEF TypeOK, Caller, NoEntry
      <3> HIDE DEF idle
      <3> QED
        BY <1>4, <2>2, <3>1, <3>2 DEF Caller, NoEntry
    <2> QED
      BY <2>3, <2>4
  <1>6. TypeOK'
    <2>1. \A c \in Caller : status'[c] = "idle" <=> c > submitted
      BY <1>0, <1>2 DEF TypeOK, Settles, Caller, NoEntry
    <2>2. started' \in SUBSET Caller /\ running' \in 0 .. MaxCallers /\ pending' \in 0 .. MaxCallers
      BY <1>0, <1>4 DEF TypeOK, Caller, NoEntry
    <2> QED
      BY <1>0, <1>2, <1>3, <1>5, <2>1, <2>2 DEF TypeOK, Settles, Settlement
  <1>7. SlotsInv'
    BY <1>0, <1>3, <1>4, <1>5 DEF SlotsInv, TypeOK, IsClosed, NoEntry
  <1>8. MembersInv'
    <2> SUFFICES ASSUME NEW d \in Caller, NEW c \in members[d]  PROVE Belongs(c, d)'
      BY <1>3 DEF MembersInv
    <2>1. Belongs(c, d) /\ c \in Caller
      BY <1>0 DEF MembersInv, TypeOK
    <2>2. d \in {running', pending'} => status'[c] = "waiting"
      <3>1. c \in members[running] => d = running
        BY <1>0, <1>1, <2>1 DEF MembersInv, Belongs
      <3>2. d \in {running', pending'} => d = pending /\ d # running
        BY <1>0, <1>4 DEF SlotsInv, Caller, NoEntry
      <3> QED
        BY <1>2, <2>1, <3>1, <3>2 DEF Belongs, Settles, NoEntry, Caller
    <2> QED
      BY <1>3, <2>1, <2>2 DEF Belongs
  <1>9. WaitingInv'
    <2> SUFFICES ASSUME NEW c \in Caller, status'[c] = "waiting"  PROVE Placed(c)'
      BY DEF WaitingInv
    <2>1. status[c] = "waiting" /\ c \notin members[running]
      BY <1>2 DEF Settles, NoEntry, Caller
    <2>2. Placed(c) /\ entryOf[c] = pending
      BY <1>0, <2>1 DEF WaitingInv, Placed
    <2> QED
      BY <1>3, <1>4, <2>2 DEF Placed, NoEntry
  <1> QED
    BY <1>6, <1>7, <1>8, <1>9 DEF IInv

(* A timer fires: the pending entry loses a caller, or goes with its last one. *)
LEMMA TimerIInv ==
  ASSUME IInv, NEW c \in Caller, TimerFires(c)
  PROVE  IInv'
  <1> USE DEF IInv, TimerFires
  <1>1. CASE status[c] # "waiting" \/ ~QueuedStill(c)
    <2>1. timer' = timer \ {c} /\ UNCHANGED <<pending, members, status>>
      BY <1>1
    <2>2. TypeOK' /\ SlotsInv' /\ MembersInv'
      BY <2>1 DEF TypeOK, SlotsInv, MembersInv, Belongs, IsClosed
    <2>3. WaitingInv'
      BY <1>1, <2>1 DEF TypeOK, WaitingInv, Placed, QueuedStill, SlotsInv
    <2> QED
      BY <2>2, <2>3
  <1>2. CASE status[c] = "waiting" /\ QueuedStill(c)
    <2>1. /\ entryOf[c] = pending /\ pending # NoEntry /\ pending \in Caller
          /\ c \in members[pending]
      BY <1>2 DEF WaitingInv, Placed, QueuedStill, SlotsInv, TypeOK, Caller, NoEntry
    <2>2. /\ members' = [members EXCEPT ![pending] = @ \ {c}]
          /\ status' = [status EXCEPT ![c] = "failed"]
          /\ pending' = IF members'[pending] = {} THEN NoEntry ELSE pending
          /\ timer' \in SUBSET Caller
          /\ \A d \in Caller : d # c => (d \in timer' <=> d \in timer /\ status'[d] = "waiting")
      BY <1>2, <2>1 DEF LastCallerLeft, ClearSettledTimers, TypeOK
    <2>3. TypeOK'
      <3>1. ASSUME NEW d \in Caller  PROVE status'[d] = "idle" <=> d > submitted'
        BY <1>2, <2>2 DEF TypeOK
      <3>2. /\ members' \in [Caller -> SUBSET Caller] /\ pending' \in 0 .. MaxCallers
            /\ status' \in [Caller -> Settlement]
        BY SMTT(30), <2>1, <2>2 DEF TypeOK, Settlement, NoEntry, Caller
      <3> QED
        BY <2>2, <3>1, <3>2 DEF TypeOK, Settlement
    <2>4. SlotsInv'
      BY <2>1, <2>2 DEF SlotsInv, TypeOK, IsClosed, NoEntry
    <2>5. MembersInv'
      <3> SUFFICES ASSUME NEW e \in Caller, NEW d \in members'[e]  PROVE Belongs(d, e)'
        BY DEF MembersInv
      <3>1. d \in members[e] /\ Belongs(d, e) /\ d \in Caller
        BY <2>1, <2>2 DEF MembersInv, TypeOK
      <3>2. d # c
        BY <2>1, <2>2, <3>1 DEF Belongs, TypeOK
      <3> QED
        BY <2>2, <3>1, <3>2 DEF Belongs, TypeOK, Caller, NoEntry
    <2>6. WaitingInv'
      <3> SUFFICES ASSUME NEW d \in Caller, status'[d] = "waiting"  PROVE Placed(d)'
        BY DEF WaitingInv
      <3>1. d # c /\ status[d] = "waiting" /\ Placed(d)
        BY <2>2 DEF TypeOK, WaitingInv
      <3>2. entryOf[d] \in Caller /\ d \in members'[entryOf[d]]
        BY <2>1, <2>2, <3>1 DEF Placed, TypeOK, Caller, NoEntry
      <3>3. entryOf[d] \in {running', pending'} \ {NoEntry}
        BY <2>2, <3>1, <3>2 DEF Placed
      <3> QED
        BY <2>1, <2>2, <3>1, <3>2, <3>3 DEF Placed, TypeOK
    <2> QED
      BY <2>3, <2>4, <2>5, <2>6
  <1> QED
    BY <1>1, <1>2

(* Closing fails whoever is pending, and nobody else. *)
LEMMA CloseIInv ==
  ASSUME IInv, Close  PROVE IInv'
  <1> USE DEF IInv, Close
  <1>1. /\ Settles(status', MembersOf(pending), "failed", NoEntry)
        /\ timer' \in SUBSET Caller
        /\ \A d \in Caller : d \in timer' <=> d \in timer /\ status'[d] = "waiting"
    BY SettleFacts
  <1>2. TypeOK'
    BY <1>1 DEF TypeOK, Settles, Settlement, Caller, NoEntry
  <1>3. SlotsInv'
    BY DEF SlotsInv, TypeOK, IsClosed, NoEntry
  <1>4. MembersInv'
    <2> SUFFICES ASSUME NEW e \in Caller, NEW c \in members[e]  PROVE Belongs(c, e)'
      BY DEF MembersInv
    <2>1. Belongs(c, e) /\ c \in Caller
      BY DEF MembersInv, TypeOK
    <2>2. e = running => c \notin MembersOf(pending)
      BY <2>1 DEF MembersInv, Belongs, MembersOf, SlotsInv, TypeOK, Caller, NoEntry
    <2> QED
      BY <1>1, <2>1, <2>2 DEF Belongs, Settles, Caller, NoEntry
  <1>5. WaitingInv'
    <2> SUFFICES ASSUME NEW c \in Caller, status'[c] = "waiting"  PROVE Placed(c)'
      BY DEF WaitingInv
    <2>1. status[c] = "waiting" /\ c \notin MembersOf(pending) /\ Placed(c)
      BY <1>1 DEF Settles, WaitingInv, Caller, NoEntry
    <2> QED
      BY <2>1 DEF Placed, MembersOf, SlotsInv, NoEntry
  <1> QED
    BY <1>2, <1>3, <1>4, <1>5

(* Reopening admits requests again and changes nothing else. *)
LEMMA ReopenIInv ==
  ASSUME IInv, Reopen  PROVE IInv'
  BY DEF IInv, Reopen, TypeOK, SlotsInv, MembersInv, Belongs, WaitingInv, Placed, IsClosed

-----------------------------------------------------------------------------
(* Every step of the queue preserves the invariant. *)
LEMMA NextIInv == IInv /\ [Next]_vars => IInv'
  <1> SUFFICES ASSUME IInv, [Next]_vars  PROVE IInv'
    OBVIOUS
  <1>1. CASE \E r \in Request : Submit(submitted + 1, r)
    <2>1. PICK r \in Request, n \in {submitted + 1} : Submit(n, r)
      BY <1>1
    <2> QED
      BY <2>1, RefusedIInv, ToEmptyIInv, JoinsPendingIInv, JoinsRunningIInv, TakesPendingIInv
         DEF Submit
  <1>2. CASE \E e \in Caller, outcome \in {"succeeded", "failed"} : FinishRunning(e, outcome)
    BY <1>2, FinishIInv
  <1>3. CASE \E c \in Caller : TimerFires(c)
    BY <1>3, TimerIInv
  <1>4. CASE Close
    BY <1>4, CloseIInv
  <1>5. CASE Reopen
    BY <1>5, ReopenIInv
  <1>6. CASE UNCHANGED vars
    BY <1>6 DEF vars, IInv, TypeOK, SlotsInv, MembersInv, Belongs, WaitingInv, Placed, IsClosed
  <1> QED
    BY <1>1, <1>2, <1>3, <1>4, <1>5, <1>6 DEF Next

(* The slots, the entries and the callers always agree. *)
THEOREM Invariance == Spec => []IInv
  BY InitIInv, NextIInv, PTL DEF Spec

(* Every variable keeps its type. *)
THEOREM TypeCorrect == Spec => []TypeOK
  <1>1. IInv => TypeOK
    BY DEF IInv
  <1> QED
    BY <1>1, Invariance, PTL

(* At most one mutation of the domain executes at a time, and it is the        *)
(* running entry's.                                                            *)
THEOREM MutualExclusion == Spec => []OneTaskAtATime
  <1>1. IInv => OneTaskAtATime
    BY DEF IInv, SlotsInv, OneTaskAtATime
  <1> QED
    BY <1>1, Invariance, PTL

(* OccupancyEntry.run may dereference firstLiveCaller without a check.         *)
THEOREM LiveCallerExists == Spec => []PendingHasLiveCallers
  <1>1. IInv => PendingHasLiveCallers
    BY DEF IInv, TypeOK, SlotsInv, MembersInv, Belongs, PendingHasLiveCallers, Waiting, Caller,
           NoEntry
  <1> QED
    BY <1>1, Invariance, PTL

(* No caller is lost: one that has not settled is in a slot.                   *)
THEOREM NoCallerLost == Spec => []NobodyStranded
  <1>1. IInv => NobodyStranded
    BY DEF IInv, WaitingInv, Placed, NobodyStranded, Waiting, MembersOf
  <1> QED
    BY <1>1, Invariance, PTL

(* Requests are merged only with requests for the same operation and subject.  *)
THEOREM SharedOnlyWhenSame == Spec => []JoinersAskedForTheSame
  <1>1. IInv => JoinersAskedForTheSame
    BY DEF IInv, MembersInv, Belongs, JoinersAskedForTheSame
  <1> QED
    BY <1>1, Invariance, PTL

(* A closed queue promotes nothing. *)
THEOREM ClosedIsFinal == Spec => []ClosedQueueHoldsNoPending
  <1>1. IInv => ClosedQueueHoldsNoPending
    BY DEF IInv, SlotsInv, ClosedQueueHoldsNoPending
  <1> QED
    BY <1>1, Invariance, PTL

-----------------------------------------------------------------------------
(* readEntriesAfterPlacing predicts every placement.                           *)
LEMMA PlacementStep ==
  ASSUME IInv, NEW r \in Request, NEW n, n = submitted + 1, Submit(n, r)
  PROVE  ReadEntries' = ReadEntriesAfterPlacing(r)
  <1>0. TypeOK /\ SlotsInv
    BY DEF IInv
  <1>1. /\ Called(n, r) /\ n # running /\ n # pending
        /\ running # NoEntry => request'[running] = request[running]
        /\ pending # NoEntry => request'[pending] = request[pending]
    <2>1. Called(n, r)
      BY <1>0, CallFacts DEF Submit, SubmitRefused, SubmitToEmpty, SubmitJoinsPending,
                             SubmitJoinsRunning, SubmitTakesPending
    <2> QED
      BY <1>0, <2>1 DEF Called, SlotsInv, TypeOK, Caller, NoEntry
  <1> USE DEF ReadEntries, ReadEntriesAfterPlacing, RequestOf, Matches
  <1>2. CASE SubmitRefused(n, r)
    BY <1>1, <1>2 DEF SubmitRefused
  <1>3. CASE SubmitToEmpty(n, r)
    BY <1>0, <1>1, <1>3 DEF SubmitToEmpty, StartRunning, SlotsInv, Called, Caller, NoEntry
  <1>4. CASE SubmitJoinsPending(n, r)
    BY <1>1, <1>4 DEF SubmitJoinsPending
  <1>5. CASE SubmitJoinsRunning(n, r)
    BY <1>1, <1>5 DEF SubmitJoinsRunning
  <1>6. CASE SubmitTakesPending(n, r)
    BY <1>1, <1>6 DEF SubmitTakesPending, Called, Caller, NoEntry
  <1> QED
    BY <1>2, <1>3, <1>4, <1>5, <1>6 DEF Submit

(* readEntriesAfterPlacing, which a URL command is computed from, reads what   *)
(* submit then leaves in the slots, whatever the queue holds.                  *)
THEOREM PlacementAlwaysPredicted == Spec => PlacementPredicted
  <1>1. IInv /\ [Next]_vars =>
          [\A r \in Request : Submit(submitted + 1, r) =>
             ReadEntries' = ReadEntriesAfterPlacing(r)]_vars
    <2> SUFFICES ASSUME IInv, NEW r \in Request, NEW n \in {submitted + 1}, Submit(n, r)
                 PROVE  ReadEntries' = ReadEntriesAfterPlacing(r)
      OBVIOUS
    <2> QED
      BY PlacementStep
  <1> QED
    BY <1>1, Invariance, PTL DEF Spec, PlacementPredicted

-----------------------------------------------------------------------------
(* What is pending asks for something else than what is running.               *)
THEOREM NoRepetitionPending == Spec => []PendingDiffersFromRunning
  <1>1. IInv => PendingDiffersFromRunning
    BY DEF IInv, SlotsInv, PendingDiffersFromRunning
  <1> QED
    BY <1>1, Invariance, PTL

(* Where a caller that settles in this step settles from. *)
OwnTask(c) ==
  IF entryOf[c] \in started
    THEN /\ task[entryOf[c]] # NoEntry /\ task'[entryOf[c]] = NoEntry
         /\ \A d \in members[entryOf[c]] : status'[d] = status'[c]
    ELSE status'[c] = "failed"

(* submit settles only callers of the entry it replaces, which never started. *)
LEMMA SubmitSettles ==
  ASSUME IInv, NEW r \in Request, NEW n, n = submitted + 1, Submit(n, r),
         NEW c \in Caller, status[c] = "waiting", status'[c] # "waiting"
  PROVE  OwnTask(c)
  <1>0. TypeOK /\ SlotsInv /\ MembersInv
    BY DEF IInv
  <1>1. n \in Caller /\ c # n
    BY <1>0 DEF TypeOK, Caller, Submit, SubmitRefused, SubmitToEmpty, SubmitJoinsPending,
                SubmitJoinsRunning, SubmitTakesPending, Call
  <1>2. pending \in 0 .. MaxCallers /\ running \in 0 .. MaxCallers
    BY <1>0 DEF TypeOK
  <1>3. ASSUME NEW e \in Caller, Admit(e, n, MembersOf(pending))  PROVE OwnTask(c)
    <2>1. c \in MembersOf(pending) /\ status'[c] = "failed"
      BY <1>0, <1>1, <1>3, AdmitFacts DEF Admitted, Settles
    <2>2. entryOf[c] = pending /\ pending \notin started
      BY <1>0, <1>2, <2>1 DEF MembersOf, MembersInv, Belongs, SlotsInv, Caller, NoEntry
    <2> QED
      BY <2>1, <2>2 DEF OwnTask
  <1>4. ASSUME NEW e \in Caller, Admit(e, n, {})  PROVE OwnTask(c)
    BY <1>0, <1>1, <1>4, AdmitFacts DEF Admitted, Settles
  <1>5. CASE SubmitRefused(n, r)
    BY <1>0, <1>1, <1>5 DEF SubmitRefused, TypeOK
  <1>6. CASE SubmitToEmpty(n, r)
    BY <1>1, <1>4, <1>6 DEF SubmitToEmpty
  <1>7. CASE SubmitJoinsPending(n, r)
    <2>1. pending \in Caller
      BY <1>2, <1>7 DEF SubmitJoinsPending, Matches, Caller, NoEntry
    <2> QED
      BY <1>4, <1>7, <2>1 DEF SubmitJoinsPending
  <1>8. CASE SubmitJoinsRunning(n, r)
    <2>1. running \in Caller
      BY <1>2, <1>8 DEF SubmitJoinsRunning, Caller, NoEntry
    <2> QED
      BY <1>3, <1>8, <2>1 DEF SubmitJoinsRunning
  <1>9. CASE SubmitTakesPending(n, r)
    BY <1>1, <1>3, <1>9 DEF SubmitTakesPending
  <1> QED
    BY <1>5, <1>6, <1>7, <1>8, <1>9 DEF Submit

(* The task that ends settles the callers of the running entry, all alike. *)
LEMMA FinishSettles ==
  ASSUME IInv, NEW e \in Caller, NEW outcome \in {"succeeded", "failed"},
         FinishRunning(e, outcome),
         NEW c \in Caller, status[c] = "waiting", status'[c] # "waiting"
  PROVE  OwnTask(c)
  <1>0. TypeOK /\ SlotsInv /\ MembersInv
    BY DEF IInv
  <1>1. e = running /\ running # NoEntry /\ running \in started
    BY <1>0 DEF FinishRunning, SlotsInv, Caller, NoEntry
  <1>2. Settles(status', members[running], outcome, NoEntry)
    BY <1>0, <1>1, SettleFacts DEF FinishRunning
  <1>3. c \in members[running] /\ entryOf[c] = running
    BY <1>0, <1>1, <1>2 DEF Settles, MembersInv, Belongs, Caller, NoEntry
  <1>4. \A d \in members[running] : status'[d] = outcome
    <2> TAKE d \in members[running]
    <2>1. d \in Caller /\ status[d] = "waiting"
      BY <1>0, <1>1 DEF TypeOK, MembersInv, Belongs
    <2> QED
      BY <1>2, <2>1 DEF Settles, Caller, NoEntry
  <1>5. task[running] # NoEntry /\ task'[running] = NoEntry
    <2>1. task[running] # NoEntry /\ pending # running
      BY <1>0, <1>1 DEF FinishRunning, SlotsInv
    <2>2. task' = [task EXCEPT ![running] = NoEntry]
            \/ \E d \in Caller : task' = [[task EXCEPT ![running] = NoEntry] EXCEPT ![pending] = d]
      BY <1>1 DEF FinishRunning, StartRunning
    <2> QED
      BY <1>0, <1>1, <2>1, <2>2 DEF TypeOK
  <1> QED
    BY <1>1, <1>3, <1>4, <1>5 DEF OwnTask

(* A timer settles only its own caller, and only while it is queued. *)
LEMMA TimerSettles ==
  ASSUME IInv, NEW n \in Caller, TimerFires(n),
         NEW c \in Caller, status[c] = "waiting", status'[c] # "waiting"
  PROVE  OwnTask(c)
  <1>1. TypeOK
    BY DEF IInv
  <1>2. entryOf[n] \notin started /\ status' = [status EXCEPT ![n] = "failed"]
    BY DEF TimerFires, QueuedStill
  <1> QED
    BY <1>1, <1>2 DEF TypeOK, OwnTask

(* Closing settles only the callers of the pending entry. *)
LEMMA CloseSettles ==
  ASSUME IInv, Close, NEW c \in Caller, status[c] = "waiting", status'[c] # "waiting"
  PROVE  OwnTask(c)
  <1>0. TypeOK /\ SlotsInv /\ MembersInv
    BY DEF IInv
  <1>1. c \in MembersOf(pending) /\ status'[c] = "failed"
    BY <1>0, SettleFacts DEF Close, Settles, Caller, NoEntry
  <1>2. entryOf[c] = pending /\ pending \notin started
    BY <1>0, <1>1 DEF TypeOK, MembersOf, MembersInv, Belongs, SlotsInv, Caller, NoEntry
  <1> QED
    BY <1>1, <1>2 DEF OwnTask

(* A caller of a started entry gets the outcome of that entry's task, together *)
(* with everyone else in it; a caller of an entry that never started can only  *)
(* fail.                                                                       *)
THEOREM OutcomeIsTheTasks == Spec => SettledByOwnTask
  <1>1. IInv /\ [Next]_vars =>
          [\A c \in Waiting : status'[c] # "waiting" =>
             IF entryOf[c] \in started
               THEN /\ task[entryOf[c]] # NoEntry /\ task'[entryOf[c]] = NoEntry
                    /\ \A d \in members[entryOf[c]] : status'[d] = status'[c]
               ELSE status'[c] = "failed"]_vars
    <2> SUFFICES ASSUME IInv, Next, NEW c \in Caller, status[c] = "waiting",
                        status'[c] # "waiting"
                 PROVE  OwnTask(c)
      BY DEF Waiting, OwnTask
    <2>1. CASE \E r \in Request : Submit(submitted + 1, r)
      <3>1. PICK r \in Request, n \in {submitted + 1} : Submit(n, r)
        BY <2>1
      <3> QED
        BY <3>1, SubmitSettles
    <2>2. CASE \E e \in Caller, outcome \in {"succeeded", "failed"} : FinishRunning(e, outcome)
      BY <2>2, FinishSettles
    <2>3. CASE \E n \in Caller : TimerFires(n)
      BY <2>3, TimerSettles
    <2>4. CASE Close
      BY <2>4, CloseSettles
    <2>5. CASE Reopen
      BY <2>5 DEF Reopen
    <2> QED
      BY <2>1, <2>2, <2>3, <2>4, <2>5 DEF Next
  <1> QED
    BY <1>1, Invariance, PTL DEF Spec, SettledByOwnTask
-----------------------------------------------------------------------------
(* The refinement: in every state the queued callers are those of the pending  *)
(* entry and the active ones those of the running entry, and every step is a   *)
(* step of the promise or leaves all that the promise sees alone.              *)

(* What the promise sees of the two slots. *)
SlotsAsPromised ==
  /\ Promise!Queued = MembersOf(pending)
  /\ Promise!Active = MembersOf(running)
  /\ \A r : Promise!AskedBy(Promise!Queued, r) <=> Matches(pending, r)
  /\ \A r : Promise!AskedBy(Promise!Active, r) <=> Matches(running, r)
  /\ Promise!Active = {} <=> running = NoEntry

(* A caller is queued when the pending entry has it, active when the running   *)
(* one has.                                                                    *)
LEMMA CallersStand ==
  ASSUME IInv, NEW c \in Caller
  PROVE  /\ Phase[c] = "queued" <=> c \in MembersOf(pending)
         /\ Phase[c] = "active" <=> c \in MembersOf(running)
         /\ Phase[c] \notin {"queued", "active"} <=> status[c] # "waiting"
         /\ status[c] # "waiting" => Phase[c] = status[c]
  <1>0. TypeOK /\ SlotsInv /\ MembersInv /\ WaitingInv
    BY DEF IInv
  <1>1. /\ c \in MembersOf(pending) =>
             status[c] = "waiting" /\ entryOf[c] = pending /\ pending \notin started
        /\ c \in MembersOf(running) =>
             status[c] = "waiting" /\ entryOf[c] = running /\ running \in started
    BY <1>0 DEF MembersOf, MembersInv, Belongs, SlotsInv, TypeOK, Caller, NoEntry
  <1>2. status[c] = "waiting" =>
          /\ entryOf[c] \in started => c \in MembersOf(running)
          /\ entryOf[c] \notin started => c \in MembersOf(pending)
    BY <1>0 DEF WaitingInv, Placed, MembersOf, SlotsInv
  <1>3. status[c] \in Settlement
    BY <1>0 DEF TypeOK, Settlement
  <1> QED
    BY <1>1, <1>2, <1>3 DEF Phase, Settlement

(* The slots, as the promise sees them. *)
LEMMA SlotsStand == ASSUME IInv PROVE SlotsAsPromised
  <1>0. TypeOK /\ SlotsInv /\ MembersInv
    BY DEF IInv
  <1>1. MembersOf(pending) \subseteq Caller /\ MembersOf(running) \subseteq Caller
    BY <1>0 DEF TypeOK, MembersOf, Caller, NoEntry
  <1>2. Promise!Queued = MembersOf(pending) /\ Promise!Active = MembersOf(running)
    BY <1>1, CallersStand DEF Promise!Queued, Promise!Active, Promise!Caller, Caller
  <1>3. ASSUME NEW e \in {running, pending}
        PROVE  /\ e # NoEntry => MembersOf(e) # {} /\ \A c \in MembersOf(e) : request[c] = request[e]
               /\ e = NoEntry => MembersOf(e) = {}
    BY <1>0 DEF TypeOK, SlotsInv, MembersInv, Belongs, MembersOf, Caller, NoEntry
  <1>4. \A r : \A e \in {running, pending} : Promise!AskedBy(MembersOf(e), r) <=> Matches(e, r)
    BY <1>3 DEF Promise!AskedBy, Matches
  <1> QED
    BY <1>2, <1>3, <1>4 DEF SlotsAsPromised

(* The promise begins where the queue does. *)
LEMMA InitPromised == Init => Promise!Init
  BY DEF Init, Promise!Init, Phase, Caller, Promise!Caller, NoRequest, Promise!NoRequest

(* What every branch of submit shows the promise: the request of an idle caller. *)
LEMMA CallPromised ==
  ASSUME TypeOK, NEW r \in Request, NEW n, n = submitted + 1, Call(n, r)
  PROVE  /\ n \in Caller /\ n \in Promise!Caller /\ r \in Promise!Request
         /\ Phase[n] = "idle" /\ status[n] = "idle"
         /\ request' = [request EXCEPT ![n] = r] /\ UNCHANGED admission
  <1>1. n \in Caller /\ status[n] = "idle"
    BY DEF TypeOK, Call
  <1> QED
    BY <1>1 DEF Call, Phase, Promise!Caller, Promise!Request, Caller, Request, Operation

(* After admit the admitted caller stands with the entry it joined; those      *)
(* replaced have failed and everyone else stands as before.                    *)
LEMMA AdmitPromised ==
  ASSUME IInv, NEW n \in Caller, status[n] = "idle", NEW e \in Caller,
         NEW to \in {"queued", "active"}, (to = "active") <=> e \in started',
         NEW S, S \subseteq MembersOf(pending), Admitted(e, n, S),
         \A c \in Caller : status[c] = "waiting" =>
           (entryOf[c] \in started <=> entryOf[c] \in started')
  PROVE  Phase' = [Promise!Move(S, "failed") EXCEPT ![n] = to]
  <1>0. TypeOK
    BY DEF IInv
  <1>1. ASSUME NEW c \in Caller
        PROVE  Phase'[c] = IF c = n THEN to ELSE IF c \in S THEN "failed" ELSE Phase[c]
    <2>1. CASE c = n
      BY <2>1 DEF Admitted, Phase
    <2>2. CASE c # n /\ c \in S
      <3>1. status[c] = "waiting"
        BY <2>2, CallersStand
      <3>2. status'[c] = "failed"
        BY <2>2, <3>1 DEF Admitted, Settles
      <3> QED
        BY <2>2, <3>2 DEF Phase
    <2>3. CASE c # n /\ c \notin S
      <3>1. status'[c] = status[c] /\ entryOf'[c] = entryOf[c]
        BY <2>3 DEF Admitted, Settles
      <3> QED
        BY <2>3, <3>1 DEF Phase
    <2> QED
      BY <2>1, <2>2, <2>3
  <1>2. Phase' = [c \in Caller |-> Phase'[c]]
    BY DEF Phase
  <1> QED
    BY <1>1, <1>2 DEF Promise!Move, Promise!Caller, Caller

(* Every branch of submit is one of the ways the promise answers a request.    *)
LEMMA SubmitPromised ==
  ASSUME IInv, NEW r \in Request, NEW n, n = submitted + 1, Submit(n, r)
  PROVE  Promise!Ask(n, r) /\ n \in Promise!Caller /\ r \in Promise!Request
  <1>0. TypeOK /\ SlotsInv /\ MembersInv /\ WaitingInv
    BY DEF IInv
  <1>1. Call(n, r)
    BY DEF Submit, SubmitRefused, SubmitToEmpty, SubmitJoinsPending, SubmitJoinsRunning,
           SubmitTakesPending
  <1>2. /\ n \in Caller /\ n \in Promise!Caller /\ r \in Promise!Request
        /\ Phase[n] = "idle" /\ status[n] = "idle"
        /\ request' = [request EXCEPT ![n] = r] /\ UNCHANGED admission
    BY <1>0, <1>1, CallPromised
  <1>3. SlotsAsPromised
    BY SlotsStand
  <1>4. n \notin started /\ pending \notin started
    BY <1>0, <1>1 DEF Call, TypeOK, SlotsInv, Caller, NoEntry
  <1>5. SUFFICES \/ Promise!Refused(n) \/ Promise!Shares(n, r)
                 \/ Promise!Runs(n, r) \/ Promise!Displaces(n, r)
    BY <1>2 DEF Promise!Ask
  <1>6. CASE SubmitRefused(n, r)
    <2>1. Phase' = [Phase EXCEPT ![n] = "failed"]
      BY <1>0, <1>2, <1>6 DEF SubmitRefused, Phase, TypeOK
    <2> QED
      BY <1>6, <2>1 DEF SubmitRefused, Promise!Refused, Promise!Open, IsClosed
  <1>7. CASE SubmitToEmpty(n, r)
    <2>1. Admitted(n, n, {})
      BY <1>0, <1>2, <1>7, AdmitFacts DEF SubmitToEmpty
    <2>2. running = NoEntry /\ pending = NoEntry /\ started' = started \cup {n} /\ ~IsClosed
      BY <1>0, <1>7 DEF SubmitToEmpty, StartRunning, SlotsInv
    <2>3. \A c \in Caller : status[c] # "waiting"
      BY <1>0, <2>2 DEF WaitingInv, Placed
    <2>4. Phase' = [Promise!Move({}, "failed") EXCEPT ![n] = "active"]
      BY <1>2, <2>1, <2>2, <2>3, AdmitPromised
    <2>5. MembersOf(pending) = {} /\ ~Matches(pending, r)
      BY <2>2 DEF MembersOf, Matches
    <2> QED
      BY <1>0, <1>3, <2>2, <2>4, <2>5
         DEF SlotsAsPromised, Promise!Runs, Promise!Open, IsClosed, TypeOK
  <1>8. CASE SubmitJoinsPending(n, r)
    <2>1. pending \in Caller /\ started' = started /\ ~IsClosed /\ Matches(pending, r)
      BY <1>0, <1>8 DEF SubmitJoinsPending, Matches, TypeOK, Caller, NoEntry
    <2>2. Admitted(pending, n, {})
      BY <1>0, <1>2, <1>8, <2>1, AdmitFacts DEF SubmitJoinsPending
    <2>3. Phase' = [Promise!Move({}, "failed") EXCEPT ![n] = "queued"]
      BY <1>2, <1>4, <2>1, <2>2, AdmitPromised
    <2>4. Promise!Move({}, "failed") = Phase
      BY DEF Promise!Move, Promise!Caller, Phase, Caller
    <2> QED
      BY <1>0, <1>3, <2>1, <2>3, <2>4
         DEF SlotsAsPromised, Promise!Shares, Promise!Open, IsClosed, TypeOK
  <1>9. CASE SubmitJoinsRunning(n, r)
    <2>1. /\ running \in Caller /\ running \in started /\ started' = started /\ ~IsClosed
          /\ Matches(running, r) /\ ~Matches(pending, r)
      BY <1>0, <1>9 DEF SubmitJoinsRunning, SlotsInv, TypeOK, Caller, NoEntry
    <2>2. Admitted(running, n, MembersOf(pending))
      BY <1>0, <1>2, <1>9, <2>1, AdmitFacts DEF SubmitJoinsRunning
    <2>3. Phase' = [Promise!Move(MembersOf(pending), "failed") EXCEPT ![n] = "active"]
      BY <1>2, <2>1, <2>2, AdmitPromised
    <2> QED
      BY <1>0, <1>3, <2>1, <2>3
         DEF SlotsAsPromised, Promise!Runs, Promise!Open, IsClosed, TypeOK
  <1>10. CASE SubmitTakesPending(n, r)
    <2>1. /\ started' = started /\ ~IsClosed /\ running # NoEntry
          /\ ~Matches(running, r) /\ ~Matches(pending, r)
      BY <1>10 DEF SubmitTakesPending
    <2>2. Admitted(n, n, MembersOf(pending))
      BY <1>0, <1>2, <1>10, AdmitFacts DEF SubmitTakesPending
    <2>3. Phase' = [Promise!Move(MembersOf(pending), "failed") EXCEPT ![n] = "queued"]
      BY <1>2, <1>4, <2>1, <2>2, AdmitPromised
    <2> QED
      BY <1>0, <1>3, <2>1, <2>3
         DEF SlotsAsPromised, Promise!Displaces, Promise!Open, IsClosed, TypeOK
  <1> QED
    BY <1>6, <1>7, <1>8, <1>9, <1>10 DEF Submit

(* The end of a task completes what is active and starts what is queued.       *)
LEMMA FinishPromised ==
  ASSUME IInv, NEW e \in Caller, NEW outcome \in {"succeeded", "failed"},
         FinishRunning(e, outcome)
  PROVE  Promise!Complete(outcome)
  <1>0. TypeOK /\ SlotsInv /\ MembersInv /\ WaitingInv
    BY DEF IInv
  <1>1. e = running /\ running # NoEntry
    BY <1>0 DEF FinishRunning, SlotsInv, Caller, NoEntry
  <1>2. /\ Settles(status', members[running], outcome, NoEntry)
        /\ UNCHANGED <<admission, request, entryOf>>
    BY <1>0, <1>1, SettleFacts DEF FinishRunning
  <1>3. started' = IF pending = NoEntry THEN started ELSE started \cup {pending}
    BY <1>1 DEF FinishRunning, StartRunning
  <1>4. ASSUME NEW c \in Caller
        PROVE  Phase'[c] = CASE c \in MembersOf(running) -> outcome
                             [] c \in MembersOf(pending) -> "active"
                             [] OTHER -> Phase[c]
    <2>1. status'[c] = IF c \in MembersOf(running) /\ status[c] = "waiting"
                         THEN outcome ELSE status[c]
      BY <1>1, <1>2 DEF Settles, MembersOf, Caller, NoEntry
    <2>2. CASE c \in MembersOf(running)
      BY <2>1, <2>2, CallersStand DEF Phase
    <2>3. CASE c \notin MembersOf(running) /\ c \in MembersOf(pending)
      <3>1. pending # NoEntry /\ entryOf[c] = pending /\ status'[c] = "waiting"
        BY <1>0, <2>1, <2>3, CallersStand DEF MembersOf, MembersInv, Belongs, TypeOK, Caller, NoEntry
      <3> QED
        BY <1>2, <1>3, <2>3, <3>1 DEF Phase
    <2>4. CASE c \notin MembersOf(running) /\ c \notin MembersOf(pending)
      <3>1. status[c] # "waiting" /\ status'[c] = status[c]
        BY <2>1, <2>4, CallersStand
      <3> QED
        BY <2>4, <3>1 DEF Phase
    <2> QED
      BY <2>2, <2>3, <2>4
  <1>5. Phase' = [c \in Caller |-> Phase'[c]]
    BY DEF Phase
  <1> QED
    BY <1>1, <1>2, <1>4, <1>5, SlotsStand
       DEF SlotsAsPromised, Promise!Complete, Promise!Caller, Caller

(* A timer that counts lets its queued caller give up; one that comes too late *)
(* shows the promise nothing.                                                  *)
LEMMA TimerPromised ==
  ASSUME IInv, NEW c \in Caller, TimerFires(c)
  PROVE  Promise!GiveUp(c) \/ UNCHANGED <<Phase, request, admission>>
  <1>0. TypeOK
    BY DEF IInv
  <1>1. CASE status[c] # "waiting" \/ ~QueuedStill(c)
    BY <1>1 DEF TimerFires, Phase
  <1>2. CASE status[c] = "waiting" /\ QueuedStill(c)
    <2>1. Phase[c] = "queued"
      BY <1>2 DEF Phase, QueuedStill
    <2>2. Phase' = [Phase EXCEPT ![c] = "failed"] /\ UNCHANGED <<request, admission>>
      BY <1>0, <1>2 DEF TimerFires, Phase, TypeOK
    <2> QED
      BY <2>1, <2>2 DEF Promise!GiveUp, Promise!Queued, Promise!Caller, Caller
  <1> QED
    BY <1>1, <1>2

(* Closing fails what is queued. *)
LEMMA ClosePromised ==
  ASSUME IInv, Close  PROVE Promise!Close
  <1>0. TypeOK
    BY DEF IInv
  <1>1. Settles(status', MembersOf(pending), "failed", NoEntry)
    BY <1>0, SettleFacts DEF Close
  <1>2. ASSUME NEW c \in Caller
        PROVE  Phase'[c] = IF c \in MembersOf(pending) THEN "failed" ELSE Phase[c]
    BY <1>1, CallersStand DEF Settles, Phase, Close, Caller, NoEntry
  <1>3. Phase' = [c \in Caller |-> Phase'[c]]
    BY DEF Phase
  <1> QED
    BY <1>2, <1>3, SlotsStand
       DEF SlotsAsPromised, Close, Promise!Close, Promise!Move, Promise!Caller, Caller

(* The queue implements its promise, whatever the callers ask for and however  *)
(* tasks, timers, closing and reopening interleave.                            *)
THEOREM QueueImplementsPromise == Spec => ImplementsPromise
  <1>1. IInv /\ [Next]_vars => [Promise!Next]_<<Phase, request, admission>>
    <2> SUFFICES ASSUME IInv, [Next]_vars
                 PROVE  Promise!Next \/ UNCHANGED <<Phase, request, admission>>
      OBVIOUS
    <2>1. CASE \E r \in Request : Submit(submitted + 1, r)
      <3>1. PICK r \in Request, n \in {submitted + 1} : Submit(n, r)
        BY <2>1
      <3> QED
        BY <3>1, SubmitPromised DEF Promise!Next
    <2>2. CASE \E e \in Caller, outcome \in {"succeeded", "failed"} : FinishRunning(e, outcome)
      BY <2>2, FinishPromised DEF Promise!Next
    <2>3. CASE \E c \in Caller : TimerFires(c)
      BY <2>3, TimerPromised DEF Promise!Next, Promise!Caller, Caller
    <2>4. CASE Close
      BY <2>4, ClosePromised DEF Promise!Next
    <2>5. CASE Reopen
      BY <2>5 DEF Reopen, Promise!Next, Promise!Reopen, Phase
    <2>6. CASE UNCHANGED vars
      BY <2>6 DEF vars, Phase
    <2> QED
      BY <2>1, <2>2, <2>3, <2>4, <2>5, <2>6 DEF Next
  <1> QED
    BY <1>1, InitPromised, Invariance, PTL DEF Spec, ImplementsPromise, Promise!Spec, Promise!avars
=============================================================================
