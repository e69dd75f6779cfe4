---------------------------- MODULE ScanResult ----------------------------
(***************************************************************************)
(* What a scan promises to its caller (PrepareAndScan, pkg/scanner): no    *)
(* service is scanned before every service has read its sources, success   *)
(* is reported only when every service has been scanned, and nothing       *)
(* happens after a success.  After an error services may still be at work, *)
(* and the process may still be stopped by them.                           *)
(***************************************************************************)
CONSTANT Services

VARIABLES
  prepared,   \* services whose sources have been read
  scanned,    \* services whose vulnerabilities are stored
  result      \* "running", "ok", "error" or "crashed"

vars == <<prepared, scanned, result>>

Init == prepared = {} /\ scanned = {} /\ result = "running"

PrepareService(s) ==
  /\ result # "ok"
  /\ s \notin prepared
  /\ prepared' = prepared \union {s}
  /\ UNCHANGED <<scanned, result>>

ScanService(s) ==
  /\ result # "ok"
  /\ prepared = Services
  /\ s \notin scanned
  /\ scanned' = scanned \union {s}
  /\ UNCHANGED <<prepared, result>>

Succeed ==
  /\ result = "running"
  /\ scanned = Services
  /\ result' = "ok"
  /\ UNCHANGED <<prepared, scanned>>

Fail ==
  /\ result = "running"
  /\ result' = "error"
  /\ UNCHANGED <<prepared, scanned>>

Crash ==
  /\ result \in {"running", "error"}
  /\ result' = "crashed"
  /\ UNCHANGED <<prepared, scanned>>

Next ==
  \/ \E s \in Services : PrepareService(s) \/ ScanService(s)
  \/ Succeed \/ Fail \/ Crash

Spec == Init /\ [][Next]_vars

(* The caller of a scan gets an answer. *)
Answered == <>(result # "running")

FairSpec == Spec /\ Answered
============================================================================
