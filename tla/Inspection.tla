---------------------------- MODULE Inspection ----------------------------
(***************************************************************************)
(* What one call of Inspector.Inspect promises to the scan that makes it:  *)
(* either it fails before the first tick, or it sends exactly NumQueries   *)
(* ticks to the progress bar and returns only after the last one.  The     *)
(* progress bar stops by itself after the total the scan announced, so a   *)
(* missing tick would leave the bar waiting and an extra one would leave a *)
(* worker blocked for ever.                                                *)
(***************************************************************************)
EXTENDS Naturals

CONSTANT NumQueries

VARIABLES
  ticks,    \* ticks sent on currentQuery so far
  state     \* "running", "returned", "failed" or "crashed"

vars == <<ticks, state>>

Init == ticks = 0 /\ state = "running"

SendTick ==
  /\ state = "running"
  /\ ticks < NumQueries
  /\ ticks' = ticks + 1
  /\ UNCHANGED state

ReturnResults ==
  /\ state = "running"
  /\ ticks = NumQueries
  /\ state' = "returned"
  /\ UNCHANGED ticks

ReturnError ==
  /\ state = "running"
  /\ ticks = 0
  /\ state' = "failed"
  /\ UNCHANGED ticks

(* the Go runtime stops the process *)
Crash ==
  /\ state = "running"
  /\ state' = "crashed"
  /\ UNCHANGED ticks

Next == SendTick \/ ReturnResults \/ ReturnError \/ Crash

Spec == Init /\ [][Next]_vars

FairSpec == Spec /\ WF_vars(Next)
============================================================================
