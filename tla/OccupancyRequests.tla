--------------------------- MODULE OccupancyRequests ---------------------------
(***************************************************************************)
(* What the occupancy queue promises its callers, without entries, slots,  *)
(* flags or timers: one request runs at a time, at most one other kind of  *)
(* request waits behind it, the newest request wins the waiting place, and *)
(* identical requests share one execution and its outcome.                 *)
(***************************************************************************)
EXTENDS Naturals

CONSTANTS Subject, MaxCallers

Request   == [op : {"mount", "unmount"}, subject : Subject]
Caller    == 1 .. MaxCallers
NoRequest == [op |-> "none", subject |-> "none"]

VARIABLES phase,     \* phase[c]: idle, queued, active, succeeded or failed
          asked,     \* asked[c]: the request c made
          admission  \* whether the domain is open to requests

avars == <<phase, asked, admission>>

Open == admission = "open"

Active == {c \in Caller : phase[c] = "active"}
Queued == {c \in Caller : phase[c] = "queued"}

AskedBy(S, r) == \E c \in S : asked[c] = r

Move(S, to) == [c \in Caller |-> IF c \in S THEN to ELSE phase[c]]

-----------------------------------------------------------------------------
Init == /\ phase = [c \in Caller |-> "idle"]
        /\ asked = [c \in Caller |-> NoRequest]
        /\ admission = "open"

Refused(c) == ~Open /\ phase' = [phase EXCEPT ![c] = "failed"]

Shares(c, r) ==      \* join the callers that already wait for r
  Open /\ AskedBy(Queued, r) /\ phase' = [phase EXCEPT ![c] = "queued"]

Runs(c, r) ==        \* r runs already, or nothing does; nothing waits any more
  /\ Open /\ ~AskedBy(Queued, r)
  /\ Active = {} \/ AskedBy(Active, r)
  /\ phase' = [Move(Queued, "failed") EXCEPT ![c] = "active"]

Displaces(c, r) ==   \* r waits, and what waited before it fails
  /\ Open /\ ~AskedBy(Queued, r) /\ ~AskedBy(Active, r) /\ Active # {}
  /\ phase' = [Move(Queued, "failed") EXCEPT ![c] = "queued"]

Ask(c, r) ==
  /\ phase[c] = "idle"
  /\ asked' = [asked EXCEPT ![c] = r]
  /\ Refused(c) \/ Shares(c, r) \/ Runs(c, r) \/ Displaces(c, r)
  /\ UNCHANGED admission

Complete(outcome) == \* the execution ends; what waited runs next
  /\ Active # {}
  /\ phase' = [c \in Caller |-> CASE c \in Active -> outcome
                                  [] c \in Queued -> "active"
                                  [] OTHER -> phase[c]]
  /\ UNCHANGED <<asked, admission>>

GiveUp(c) ==         \* a waiting caller times out alone
  /\ c \in Queued
  /\ phase' = [phase EXCEPT ![c] = "failed"]
  /\ UNCHANGED <<asked, admission>>

Close ==
  /\ admission' = "closed"
  /\ phase' = Move(Queued, "failed")
  /\ UNCHANGED asked

Reopen == admission' = "open" /\ UNCHANGED <<phase, asked>>

Next ==
  \/ \E c \in Caller, r \in Request : Ask(c, r)
  \/ \E outcome \in {"succeeded", "failed"} : Complete(outcome)
  \/ \E c \in Caller : GiveUp(c)
  \/ Close
  \/ Reopen

Spec == Init /\ [][Next]_avars
=============================================================================
