--------------------------- MODULE ScanPipeline ---------------------------
(***************************************************************************)
(* PrepareAndScan and StartScan (pkg/scanner/scanner.go) with the service  *)
(* goroutines they start (pkg/kics/service.go) and the counter progress    *)
(* bar (pkg/progress/counter).                                             *)
(*                                                                         *)
(* Both phases have the shape: one goroutine per service, an unbuffered    *)
(* error channel, a closer that waits for the services and then closes     *)
(* wgDone, and a main goroutine that selects between wgDone and the first  *)
(* error.  On an error the main goroutine closes the error channel while   *)
(* the other services are still running.                                   *)
(*                                                                         *)
(* What a service does inside Inspector.Inspect is abstracted to its       *)
(* contract, module Inspection: it fails before its first tick, or sends   *)
(* one tick per query and returns.  SaveVulnerabilities is that of         *)
(* MemoryStorage, which never returns an error.                            *)
(* The counters the services add up in the shared tracker are in module    *)
(* Accounting.                                                             *)
(***************************************************************************)
EXTENDS Naturals, FiniteSets

CONSTANTS
  Services,           \* one per parser
  Queries,            \* the queries of the assets
  QueryPlatform,      \* the platform of each query
  ServicePlatforms    \* the platforms of each service's parser

ASSUME ServicesFinite == IsFiniteSet(Services) /\ Services # {}
ASSUME QueriesFinite == IsFiniteSet(Queries)

VARIABLES
  queries,       \* the queries the inspector loaded, c.QueryLoader.QueriesMetadata
  main,          \* where the main goroutine is
  prep,          \* where each PrepareSources goroutine is
  unread,        \* services whose GetSources failed (history)
  prepErrClosed, \* close(errCh) in PrepareAndScan done
  prepDone,      \* close(wgDone) in PrepareAndScan done
  scan,          \* where each Service.StartScan goroutine is
  ticked,        \* service and query of each tick sent on currentQuery
  failed,        \* services whose Inspect failed (history)
  saved,         \* services whose vulnerabilities are in the storage
  scanErrClosed, \* close(errCh) in StartScan done
  scanDone,      \* close(currentQuery) and close(wgDone) in StartScan done
  tickBuf,       \* the buffer slot of currentQuery is full
  bar,           \* the progress bar: "off", "recv" or "done"
  progress,      \* currentProgress of the bar
  total,         \* the Total given to the bar
  crashed        \* a goroutine panicked: send on a closed channel

prepVars == <<prep, unread, prepErrClosed, prepDone>>
scanVars == <<scan, ticked, failed, saved, scanErrClosed, scanDone>>
barVars  == <<tickBuf, bar, progress, total>>
vars == <<queries, main, prepVars, scanVars, barVars, crashed>>
----------------------------------------------------------------------------
(* contains: "common" queries run on every service, k8s is an alias *)
Contains(platforms, p) ==
  p = "common" \/ (IF p = "k8s" THEN "kubernetes" ELSE p) \in platforms

(* the jobs Inspect creates for a service: getQueriesByPlat *)
GetQueriesByPlat(s) == {q \in queries : Contains(ServicePlatforms[s], QueryPlatform[q])}

(* Faulty: the common queries are not counted. *)
LenQueriesByPlatUncommon(s) == {s} \X {q \in queries : QueryPlatform[q] \in ServicePlatforms[s]}

(* what LenQueriesByPlat counts for a service *)
LenQueriesByPlat(s) == {s} \X {q \in queries : Contains(ServicePlatforms[s], QueryPlatform[q])}

(* the sum of LenQueriesByPlat over the services *)
GetQueriesLength == Cardinality(UNION {LenQueriesByPlat(s) : s \in Services})

Init ==
  /\ queries \in SUBSET Queries
  /\ main = "prepare"
  /\ prep = [s \in Services |-> "read"] /\ unread = {}
  /\ prepErrClosed = FALSE /\ prepDone = FALSE
  /\ scan = [s \in Services |-> "idle"]
  /\ ticked = {}
  /\ failed = {} /\ saved = {}
  /\ scanErrClosed = FALSE /\ scanDone = FALSE
  /\ tickBuf = FALSE /\ bar = "off" /\ progress = 0 /\ total = 0
  /\ crashed = FALSE
----------------------------------------------------------------------------
(* Service.PrepareSources: GetSources reads, parses and saves the files; an *)
(* error is sent before the deferred wg.Done.                               *)
ReadSources(s) ==
  /\ prep[s] = "read"
  /\ prep' = [prep EXCEPT ![s] = "done"]
  /\ UNCHANGED <<queries, main, unread, prepErrClosed, prepDone, scanVars, barVars, crashed>>

ReadSourcesFails(s) ==
  /\ prep[s] = "read"
  /\ prep' = [prep EXCEPT ![s] = "send"]
  /\ unread' = unread \union {s}
  /\ UNCHANGED <<queries, main, prepErrClosed, prepDone, scanVars, barVars, crashed>>

(* Faulty: the service sends its error a second time. *)
SendPrepErrorTwice(s) ==
  /\ prep[s] = "send"
  /\ main = "prepare"
  /\ main' = "prepError"
  /\ UNCHANGED <<queries, prepVars, scanVars, barVars, crashed>>

(* errCh is unbuffered: the send meets the select of the main goroutine *)
SendPrepError(s) ==
  /\ prep[s] = "send"
  /\ main = "prepare"
  /\ prep' = [prep EXCEPT ![s] = "done"]
  /\ main' = "prepError"
  /\ UNCHANGED <<queries, unread, prepErrClosed, prepDone, scanVars, barVars, crashed>>

(* a send on the closed errCh, or one that waited when it was closed *)
PanicPrepError(s) ==
  /\ prep[s] = "send"
  /\ prepErrClosed
  /\ crashed' = TRUE
  /\ UNCHANGED <<queries, main, prepVars, scanVars, barVars>>

(* case err := <-errCh: close(errCh); return err *)
ClosePrepErr ==
  /\ main = "prepError"
  /\ prepErrClosed' = TRUE
  /\ main' = "error"
  /\ UNCHANGED <<queries, prep, unread, prepDone, scanVars, barVars, crashed>>

(* the closer: wg.Wait(); close(wgDone) *)
ClosePrep ==
  /\ ~prepDone
  /\ \A s \in Services : prep[s] = "done"
  /\ prepDone' = TRUE
  /\ UNCHANGED <<queries, main, prep, unread, prepErrClosed, scanVars, barVars, crashed>>

(* Faulty: the scan starts without waiting for wgDone. *)
BeginScanEarly ==
  /\ main = "prepare"
  /\ main' = "scan"
  /\ total' = GetQueriesLength
  /\ bar' = IF total' # 0 THEN "recv" ELSE "off"
  /\ scan' = [s \in Services |-> "inspect"]
  /\ UNCHANGED <<queries, prepVars, ticked, failed, saved, scanErrClosed, scanDone,
                 tickBuf, progress, crashed>>

(* case <-wgDone: StartScan counts the queries, starts the bar if there is  *)
(* any, and starts one goroutine per service.                               *)
BeginScan ==
  /\ main = "prepare"
  /\ prepDone
  /\ main' = "scan"
  /\ total' = GetQueriesLength
  /\ bar' = IF total' # 0 THEN "recv" ELSE "off"
  /\ scan' = [s \in Services |-> "inspect"]
  /\ UNCHANGED <<queries, prepVars, ticked, failed, saved, scanErrClosed, scanDone,
                 tickBuf, progress, crashed>>
----------------------------------------------------------------------------
(* Service.StartScan: a worker of Inspect sends the tick of a query *)
SendTick(s) ==
  /\ scan[s] = "inspect"
  /\ ~tickBuf
  /\ tickBuf' = TRUE
  /\ \E q \in GetQueriesByPlat(s) :
       /\ <<s, q>> \notin ticked
       /\ ticked' = ticked \union {<<s, q>>}
  /\ UNCHANGED <<queries, main, prepVars, scan, failed, saved, scanErrClosed, scanDone,
                 bar, progress, total, crashed>>

AllTicked(s) == \A q \in GetQueriesByPlat(s) : <<s, q>> \in ticked

(* Inspect returns the vulnerabilities *)
InspectReturns(s) ==
  /\ scan[s] = "inspect"
  /\ AllTicked(s)
  /\ scan' = [scan EXCEPT ![s] = "save"]
  /\ UNCHANGED <<queries, main, prepVars, ticked, failed, saved, scanErrClosed, scanDone,
                 barVars, crashed>>

(* Inspect cannot build its payload *)
InspectFails(s) ==
  /\ scan[s] = "inspect"
  /\ \A q \in queries : <<s, q>> \notin ticked
  /\ scan' = [scan EXCEPT ![s] = "send"]
  /\ failed' = failed \union {s}
  /\ UNCHANGED <<queries, main, prepVars, ticked, saved, scanErrClosed, scanDone, barVars, crashed>>

(* Faulty: the error is received and dropped. *)
SendScanErrorDropped(s) ==
  /\ scan[s] = "send"
  /\ main = "scan"
  /\ scan' = [scan EXCEPT ![s] = "save"]
  /\ UNCHANGED <<queries, main, prepVars, ticked, failed, saved, scanErrClosed, scanDone, barVars, crashed>>

(* the main goroutine receives the error; the service goes on to save what  *)
(* Inspect returned with it                                                 *)
SendScanError(s) ==
  /\ scan[s] = "send"
  /\ main = "scan"
  /\ scan' = [scan EXCEPT ![s] = "save"]
  /\ main' = "scanError"
  /\ UNCHANGED <<queries, prepVars, ticked, failed, saved, scanErrClosed, scanDone, barVars, crashed>>

PanicScanError(s) ==
  /\ scan[s] = "send"
  /\ scanErrClosed
  /\ crashed' = TRUE
  /\ UNCHANGED <<queries, main, prepVars, scanVars, barVars>>

CloseScanErr ==
  /\ main = "scanError"
  /\ scanErrClosed' = TRUE
  /\ main' = "error"
  /\ UNCHANGED <<queries, prepVars, scan, ticked, failed, saved, scanDone, barVars, crashed>>

(* Storage.SaveVulnerabilities, then the deferred wg.Done *)
SaveVulnerabilities(s) ==
  /\ scan[s] = "save"
  /\ saved' = saved \union {s}
  /\ scan' = [scan EXCEPT ![s] = "done"]
  /\ UNCHANGED <<queries, main, prepVars, ticked, failed, scanErrClosed, scanDone, barVars, crashed>>

(* ProgressBar.Start: stops at the total or when currentQuery is closed *)
BarReceive ==
  /\ bar = "recv"
  /\ tickBuf \/ scanDone
  /\ progress' = IF tickBuf THEN progress + 1 ELSE progress
  /\ tickBuf' = FALSE
  /\ bar' = IF ~tickBuf \/ progress' >= total THEN "done" ELSE "recv"
  /\ UNCHANGED <<queries, main, prepVars, scanVars, total, crashed>>

(* Faulty: the closer does not wait for the bar. *)
CloseScanEarly ==
  /\ ~scanDone
  /\ \A s \in Services : scan[s] = "done"
  /\ scanDone' = TRUE
  /\ UNCHANGED <<queries, main, prepVars, scan, ticked, failed, saved, scanErrClosed, barVars, crashed>>

(* the closer: wg.Wait(); wgProg.Wait(); close(currentQuery); close(wgDone) *)
CloseScan ==
  /\ ~scanDone
  /\ \A s \in Services : scan[s] = "done"
  /\ bar # "recv"
  /\ scanDone' = TRUE
  /\ UNCHANGED <<queries, main, prepVars, scan, ticked, failed, saved, scanErrClosed, barVars, crashed>>

(* case <-wgDone: return nil *)
EndScan ==
  /\ main = "scan"
  /\ scanDone
  /\ main' = "ok"
  /\ UNCHANGED <<queries, prepVars, scanVars, barVars, crashed>>
----------------------------------------------------------------------------
PrepareStep(s) ==
  ReadSources(s) \/ ReadSourcesFails(s) \/ SendPrepError(s) \/ PanicPrepError(s)

ScanStep(s) ==
  \/ SendTick(s) \/ InspectReturns(s) \/ InspectFails(s)
  \/ SendScanError(s) \/ PanicScanError(s) \/ SaveVulnerabilities(s)

MainStep == ClosePrepErr \/ BeginScan \/ CloseScanErr \/ EndScan

Step ==
  \/ \E s \in Services : PrepareStep(s) \/ ScanStep(s)
  \/ MainStep \/ ClosePrep \/ CloseScan \/ BarReceive

(* PrepareAndScan returned, or the process is gone *)
Terminated == (crashed \/ main \in {"ok", "error"}) /\ UNCHANGED vars

Next == (~crashed /\ Step) \/ Terminated

Spec == Init /\ [][Next]_vars

(* Goroutines are scheduled; the goroutines waiting to send on a channel    *)
(* queue up, so none of them is overtaken for ever.                         *)
Fairness ==
  /\ WF_vars(~crashed /\ MainStep)
  /\ WF_vars(~crashed /\ ClosePrep)
  /\ WF_vars(~crashed /\ CloseScan)
  /\ WF_vars(~crashed /\ BarReceive)
  /\ \A s \in Services :
       /\ WF_vars(~crashed /\ PrepareStep(s))
       /\ WF_vars(~crashed /\ ScanStep(s))
       /\ SF_vars(~crashed /\ SendTick(s))

FairSpec == Spec /\ Fairness
----------------------------------------------------------------------------
(* Type invariant. *)
TypeOK ==
  /\ queries \subseteq Queries
  /\ main \in {"prepare", "prepError", "scan", "scanError", "ok", "error"}
  /\ prep \in [Services -> {"read", "send", "done"}]
  /\ scan \in [Services -> {"idle", "inspect", "send", "save", "done"}]
  /\ unread \subseteq Services /\ failed \subseteq Services /\ saved \subseteq Services
  /\ ticked \subseteq Services \X Queries
  /\ progress \in Nat /\ total \in Nat
  /\ bar \in {"off", "recv", "done"}
  /\ {prepErrClosed, prepDone, scanErrClosed, scanDone, tickBuf, crashed} \subseteq BOOLEAN

(* The bar and the workers agree on the number of ticks: the bar stops only *)
(* when no worker has a tick left to send (a worker would block for ever),  *)
(* and without a bar there is no tick to send.                              *)
BarOutlivesWorkers ==
  main \notin {"prepare", "prepError"} /\ bar # "recv" =>
    \A s \in Services :
      scan[s] = "inspect" => AllTicked(s)

(* currentQuery is closed after the last tick was sent and received.        *)
ClosedAfterLastTick ==
  scanDone =>
    /\ ~tickBuf
    /\ progress = total
    /\ \A s \in Services : scan[s] = "done"

(* Success leaves nothing behind: every goroutine of both phases has ended  *)
(* and no service reported an error.                                        *)
SuccessIsQuiet ==
  main = "ok" =>
    /\ \A s \in Services : prep[s] = "done" /\ scan[s] = "done"
    /\ bar # "recv" /\ ~tickBuf
    /\ unread = {} /\ failed = {}

(* The error channel is closed under the senders' feet only when a second   *)
(* service of the same phase fails: one failing service never stops the     *)
(* process.                                                                 *)
PanicNeedsTwoFailures ==
  crashed => Cardinality(unread) >= 2 \/ Cardinality(failed) >= 2

Prepared == {s \in Services \ unread : prep[s] = "done"}

Result ==
  IF crashed THEN "crashed"
  ELSE IF main \in {"ok", "error"} THEN main
  ELSE "running"

Abstract == INSTANCE ScanResult WITH
  prepared <- Prepared, scanned <- saved \ failed, result <- Result

(* PrepareAndScan keeps what ScanResult promises, and answers.              *)
ImplementsScanResult == Abstract!FairSpec
============================================================================
