------------------------ MODULE ScanPipelineProofs ------------------------
(***************************************************************************)
(* Proofs about a scan, for any finite number of services and queries.     *)
(*                                                                         *)
(* The inductive invariant follows the main goroutine: what it has seen    *)
(* of the two phases determines which services may still be at work, and   *)
(* the ticks received and buffered are always those sent.                  *)
(***************************************************************************)
EXTENDS ScanPipeline, FiniteSetTheorems, TLAPS

(* StartScan has been entered. *)
Begun == main \in {"scan", "scanError", "ok"} \/ scanErrClosed

(* The first phase: only a service that cannot read its sources waits to    *)
(* send, and the main goroutine leaves the phase after one error or none.   *)
Preparing ==
  /\ \A s \in Services :
       /\ prep[s] = "read" => s \notin unread
       /\ prep[s] = "send" => s \in unread
  /\ prepDone => \A s \in Services : prep[s] = "done"
  /\ main = "prepare" => \A s \in unread : prep[s] = "send"
  /\ main = "prepError" => \E s \in unread : prep[s] = "done"
  /\ prepErrClosed => main = "error" /\ \E s \in unread : prep[s] = "done"

(* The second phase has not begun, or the first one ended without an error. *)
Phases ==
  /\ main = "error" <=> prepErrClosed \/ scanErrClosed
  /\ ~Begun =>
       /\ \A s \in Services : scan[s] = "idle"
       /\ ticked = {} /\ failed = {} /\ saved = {}
       /\ ~scanDone /\ ~tickBuf /\ bar = "off" /\ progress = 0 /\ total = 0
  /\ Begun =>
       /\ prepDone /\ unread = {} /\ ~prepErrClosed
       /\ \A s \in Services : scan[s] # "idle"

Scanning ==
  /\ \A s \in Services :
       /\ scan[s] = "send" => s \in failed
       /\ s \in failed => scan[s] \in {"send", "save", "done"}
       /\ s \in saved <=> scan[s] = "done"
  /\ main \in {"scan", "ok"} => \A s \in failed : scan[s] = "send"
  /\ main = "scanError" \/ scanErrClosed => \E s \in failed : scan[s] # "send"
  /\ scanDone => bar # "recv" /\ \A s \in Services : scan[s] = "done"
  /\ main = "ok" => scanDone

(* The queries counted by GetQueriesLength, one for each service it runs on. *)
Jobs == UNION {LenQueriesByPlat(s) : s \in Services}

(* A tick is received, or in the buffer, and the bar counts to the total. *)
Counting ==
  /\ ticked \subseteq Jobs
  /\ Cardinality(ticked) = progress + (IF tickBuf THEN 1 ELSE 0)
  /\ Begun => total = Cardinality(Jobs)
  /\ Begun /\ bar = "off" => total = 0
  /\ bar = "recv" => progress < total
  /\ bar = "done" => progress = total

Panics == crashed => Cardinality(unread) >= 2 \/ Cardinality(failed) >= 2

IInv == TypeOK /\ Preparing /\ Phases /\ Scanning /\ Counting /\ Panics
----------------------------------------------------------------------------
(* There are finitely many jobs, and ticks, in every scan. *)
LEMMA JobsFinite ==
  ASSUME queries \subseteq Queries
  PROVE  IsFiniteSet(Jobs) /\ Cardinality(Jobs) \in Nat
<1>1. IsFiniteSet(queries)
  BY QueriesFinite, FS_Subset
<1>2. IsFiniteSet(Services \X queries)
  BY <1>1, ServicesFinite, FS_Product
<1>3. Jobs \subseteq Services \X queries
  BY DEF Jobs, LenQueriesByPlat
<1>4. IsFiniteSet(Jobs)
  BY <1>2, <1>3, FS_Subset
<1>5. QED
  BY <1>4, FS_CardinalityType

(* Two members make a cardinality of two. *)
LEMMA TwoMembers ==
  ASSUME NEW S \in SUBSET Services, NEW s \in S, NEW t \in S, s # t
  PROVE  Cardinality(S) >= 2
<1>1. IsFiniteSet({s, t}) /\ Cardinality({s, t}) = 2
  <2>1. IsFiniteSet({}) /\ Cardinality({}) = 0
    BY FS_EmptySet
  <2>2. IsFiniteSet({} \union {s}) /\ Cardinality({} \union {s}) = 1
    BY <2>1, FS_AddElement
  <2>0. t \notin {} \union {s}
    OBVIOUS
  <2>3. IsFiniteSet(({} \union {s}) \union {t}) /\ Cardinality(({} \union {s}) \union {t}) = 2
    BY <2>2, <2>0, FS_AddElement
  <2>4. ({} \union {s}) \union {t} = {s, t}
    OBVIOUS
  <2>5. QED
    BY <2>3, <2>4
<1>2. IsFiniteSet(S) /\ Cardinality(S) \in Nat
  BY ServicesFinite, FS_Subset, FS_CardinalityType
<1>3. Cardinality({s, t}) <= Cardinality(S)
  BY <1>2, FS_Subset
<1>4. QED
  BY <1>1, <1>2, <1>3

(* The invariant holds when the scan is prepared. *)
LEMMA InitIInv == Init => IInv
<1> SUFFICES ASSUME Init PROVE IInv
  OBVIOUS
<1>1. Cardinality({}) = 0
  BY FS_EmptySet
<1>2. TypeOK
  BY DEF Init, TypeOK
<1>3. Preparing /\ Phases /\ Scanning /\ Panics
  BY DEF Init, Preparing, Phases, Scanning, Panics, Begun
<1>4. Counting
  BY <1>1 DEF Init, Counting, Begun
<1>5. QED
  BY <1>2, <1>3, <1>4 DEF IInv

(* The bar has stopped only when every tick has been sent and received. *)
LEMMA BarDone ==
  ASSUME IInv, Begun, bar # "recv"
  PROVE  ~tickBuf /\ ticked = Jobs /\ progress = total
<1>1. IsFiniteSet(Jobs) /\ Cardinality(Jobs) \in Nat
  BY JobsFinite DEF IInv, TypeOK
<1>2. ticked \subseteq Jobs
  BY DEF IInv, Counting
<1>3. Cardinality(ticked) <= Cardinality(Jobs) /\ (Cardinality(Jobs) = Cardinality(ticked) => Jobs = ticked)
  BY <1>1, <1>2, FS_Subset
<1>4. /\ progress \in Nat /\ total = Cardinality(Jobs) /\ tickBuf \in BOOLEAN
      /\ Cardinality(ticked) = progress + (IF tickBuf THEN 1 ELSE 0)
      /\ bar = "off" => total = 0
      /\ bar = "done" => progress = total
      /\ bar \in {"off", "done"}
  BY DEF IInv, TypeOK, Counting
<1>5. progress >= total
  BY <1>1, <1>4
<1>6. Cardinality(ticked) = total /\ ~tickBuf /\ progress = total
  BY <1>1, <1>3, <1>4, <1>5
<1>7. QED
  BY <1>3, <1>4, <1>6

(* No goroutine of the scan breaks it. *)
LEMMA StepIInv == IInv /\ [Next]_vars => IInv'
<1> SUFFICES ASSUME IInv, [Next]_vars PROVE IInv'
  OBVIOUS
<1> USE DEF IInv, TypeOK, Preparing, Phases, Scanning, Counting, Panics, Begun,
            prepVars, scanVars, barVars
<1>0. ASSUME UNCHANGED queries PROVE Jobs' = Jobs
  BY <1>0 DEF Jobs, LenQueriesByPlat
<1>1. ASSUME NEW s \in Services, ~crashed, ReadSources(s) PROVE IInv'
  BY <1>0, <1>1 DEF ReadSources
<1>2. ASSUME NEW s \in Services, ~crashed, ReadSourcesFails(s) PROVE IInv'
  <2>1. TypeOK'
    BY <1>0, <1>2 DEF ReadSourcesFails
  <2>2. Preparing'
    BY <1>0, <1>2 DEF ReadSourcesFails
  <2>3. Phases'
    BY <1>0, <1>2 DEF ReadSourcesFails
  <2>4. Scanning'
    BY <1>0, <1>2 DEF ReadSourcesFails
  <2>5. Counting'
    BY <1>0, <1>2 DEF ReadSourcesFails
  <2>6. Panics'
    BY <1>0, <1>2 DEF ReadSourcesFails
  <2>7. QED
    BY <2>1, <2>2, <2>3, <2>4, <2>5, <2>6
<1>3. ASSUME NEW s \in Services, ~crashed, SendPrepError(s) PROVE IInv'
  BY <1>0, <1>3 DEF SendPrepError
<1>4. ASSUME NEW s \in Services, ~crashed, PanicPrepError(s) PROVE IInv'
  <2>1. TypeOK'
    BY <1>0, <1>4 DEF PanicPrepError
  <2>2. Preparing'
    BY <1>0, <1>4 DEF PanicPrepError
  <2>3. Phases'
    BY <1>0, <1>4 DEF PanicPrepError
  <2>4. Scanning'
    BY <1>0, <1>4 DEF PanicPrepError
  <2>5. Counting'
    BY <1>0, <1>4 DEF PanicPrepError
  <2>6. Panics'
    <3>1. s \in unread /\ \E t \in unread : t # s
      BY <1>4 DEF PanicPrepError
    <3>2. Cardinality(unread) >= 2
      BY <3>1, TwoMembers
    <3>3. QED
      BY <1>4, <3>2 DEF PanicPrepError
  <2>7. QED
    BY <2>1, <2>2, <2>3, <2>4, <2>5, <2>6
<1>5. CASE ~crashed /\ ClosePrepErr
  BY <1>0, <1>5 DEF ClosePrepErr
<1>6. CASE ~crashed /\ ClosePrep
  BY <1>0, <1>6 DEF ClosePrep
<1>7. CASE ~crashed /\ BeginScan
  <2>0. total' = Cardinality(Jobs) /\ total' \in Nat
    BY <1>7, JobsFinite DEF BeginScan, GetQueriesLength, Jobs
  <2>1. TypeOK'
    BY <1>7, <2>0 DEF BeginScan
  <2>2. Preparing'
    BY <1>0, <1>7 DEF BeginScan
  <2>3. Phases'
    BY <1>0, <1>7 DEF BeginScan
  <2>4. Scanning'
    BY <1>0, <1>7 DEF BeginScan
  <2>5. Counting'
    <3>1. ticked' = {} /\ progress' = 0 /\ ~tickBuf' /\ UNCHANGED queries
      BY <1>7 DEF BeginScan
    <3>2. Cardinality(ticked') = 0
      BY <3>1, FS_EmptySet
    <3>3. bar' = IF total' # 0 THEN "recv" ELSE "off"
      BY <1>7 DEF BeginScan
    <3>4. QED
      BY <1>0, <2>0, <3>1, <3>2, <3>3
  <2>6. Panics'
    BY <1>0, <1>7 DEF BeginScan
  <2>7. QED
    BY <2>1, <2>2, <2>3, <2>4, <2>5, <2>6
<1>8. ASSUME NEW s \in Services, ~crashed, SendTick(s) PROVE IInv'
  <2>1. TypeOK'
    BY <1>8 DEF SendTick, GetQueriesByPlat
  <2>2. Preparing'
    BY <1>0, <1>8 DEF SendTick
  <2>3. Phases'
    <3>1. Begun
      BY <1>8 DEF SendTick
    <3>2. QED
      BY <1>8, <3>1 DEF SendTick
  <2>4. Scanning'
    BY <1>0, <1>8 DEF SendTick
  <2>5. Counting'
    <3>1. PICK q \in GetQueriesByPlat(s) : <<s, q>> \notin ticked /\ ticked' = ticked \union {<<s, q>>}
      BY <1>8 DEF SendTick
    <3>2. <<s, q>> \in Jobs
      BY DEF GetQueriesByPlat, Jobs, LenQueriesByPlat
    <3>3. IsFiniteSet(ticked) /\ Cardinality(ticked) \in Nat
      BY JobsFinite, FS_Subset, FS_CardinalityType
    <3>4. Cardinality(ticked') = Cardinality(ticked) + 1
      BY <3>1, <3>3, FS_AddElement
    <3>5. ~tickBuf /\ tickBuf' /\ UNCHANGED <<queries, main, scanErrClosed, progress, bar, total>>
      BY <1>8 DEF SendTick
    <3>6. Cardinality(ticked') = progress' + (IF tickBuf' THEN 1 ELSE 0)
      BY <3>4, <3>5
    <3>7. ticked' \subseteq Jobs'
      BY <1>0, <3>1, <3>2, <3>5
    <3>8. QED
      BY <1>0, <3>5, <3>6, <3>7
  <2>6. Panics'
    BY <1>0, <1>8 DEF SendTick
  <2>7. QED
    BY <2>1, <2>2, <2>3, <2>4, <2>5, <2>6
<1>9. ASSUME NEW s \in Services, ~crashed, InspectReturns(s) PROVE IInv'
  BY <1>0, <1>9 DEF InspectReturns
<1>10. ASSUME NEW s \in Services, ~crashed, InspectFails(s) PROVE IInv'
  <2>1. TypeOK'
    BY <1>0, <1>10 DEF InspectFails
  <2>2. Preparing'
    BY <1>0, <1>10 DEF InspectFails
  <2>3. Phases'
    BY <1>0, <1>10 DEF InspectFails
  <2>4. Scanning'
    BY <1>0, <1>10 DEF InspectFails
  <2>5. Counting'
    BY <1>0, <1>10 DEF InspectFails
  <2>6. Panics'
    BY <1>0, <1>10 DEF InspectFails
  <2>7. QED
    BY <2>1, <2>2, <2>3, <2>4, <2>5, <2>6
<1>11. ASSUME NEW s \in Services, ~crashed, SendScanError(s) PROVE IInv'
  BY <1>0, <1>11 DEF SendScanError
<1>12. ASSUME NEW s \in Services, ~crashed, PanicScanError(s) PROVE IInv'
  <2>1. TypeOK'
    BY <1>0, <1>12 DEF PanicScanError
  <2>2. Preparing'
    BY <1>0, <1>12 DEF PanicScanError
  <2>3. Phases'
    BY <1>0, <1>12 DEF PanicScanError
  <2>4. Scanning'
    BY <1>0, <1>12 DEF PanicScanError
  <2>5. Counting'
    BY <1>0, <1>12 DEF PanicScanError
  <2>6. Panics'
    <3>1. s \in failed /\ \E t \in failed : t # s
      BY <1>12 DEF PanicScanError
    <3>2. Cardinality(failed) >= 2
      BY <3>1, TwoMembers
    <3>3. QED
      BY <1>12, <3>2 DEF PanicScanError
  <2>7. QED
    BY <2>1, <2>2, <2>3, <2>4, <2>5, <2>6
<1>13. CASE ~crashed /\ CloseScanErr
  BY <1>0, <1>13 DEF CloseScanErr
<1>14. ASSUME NEW s \in Services, ~crashed, SaveVulnerabilities(s) PROVE IInv'
  BY <1>0, <1>14 DEF SaveVulnerabilities
<1>15. CASE ~crashed /\ BarReceive
  <2>0. tickBuf /\ progress' = progress + 1 /\ Begun
    BY <1>15 DEF BarReceive
  <2>1. TypeOK'
    <3>1. /\ progress' \in Nat /\ bar' \in {"off", "recv", "done"} /\ tickBuf' = FALSE
          /\ UNCHANGED <<queries, main, prepVars, scanVars, total, crashed>>
      BY <1>15, <2>0 DEF BarReceive
    <3>2. QED
      BY <3>1
  <2>2. Preparing'
    BY <1>0, <1>15, <2>0 DEF BarReceive
  <2>3. Phases'
    BY <1>0, <1>15, <2>0 DEF BarReceive
  <2>4. Scanning'
    BY <1>0, <1>15, <2>0 DEF BarReceive
  <2>5. Counting'
    <3>1. /\ ~tickBuf' /\ bar = "recv" /\ UNCHANGED <<queries, main, scanErrClosed, ticked, total>>
          /\ bar' = IF progress' >= total THEN "done" ELSE "recv"
      BY <1>15, <2>0 DEF BarReceive
    <3>2. total = Cardinality(Jobs) /\ total \in Nat /\ progress \in Nat
      BY <2>0
    <3>3. Cardinality(ticked) = progress'
      BY <2>0, <3>2
    <3>4. Cardinality(ticked) <= total
      BY <3>2, JobsFinite, FS_Subset
    <3>5. QED
      BY <1>0, <2>0, <3>1, <3>2, <3>3, <3>4
  <2>6. Panics'
    BY <1>0, <1>15, <2>0 DEF BarReceive
  <2>7. QED
    BY <2>1, <2>2, <2>3, <2>4, <2>5, <2>6
<1>16. CASE ~crashed /\ CloseScan
  <2>0. Begun
    BY <1>16, ServicesFinite DEF CloseScan
  <2>1. TypeOK'
    BY <1>0, <1>16, <2>0 DEF CloseScan
  <2>2. Preparing'
    BY <1>0, <1>16, <2>0 DEF CloseScan
  <2>3. Phases'
    BY <1>0, <1>16, <2>0 DEF CloseScan
  <2>4. Scanning'
    BY <1>0, <1>16, <2>0 DEF CloseScan
  <2>5. Counting'
    BY <1>0, <1>16, <2>0 DEF CloseScan
  <2>6. Panics'
    BY <1>0, <1>16, <2>0 DEF CloseScan
  <2>7. QED
    BY <2>1, <2>2, <2>3, <2>4, <2>5, <2>6
<1>17. CASE ~crashed /\ EndScan
  BY <1>0, <1>17 DEF EndScan
<1>18. CASE UNCHANGED vars
  BY <1>0, <1>18 DEF vars
<1>19. QED
  BY <1>1, <1>2, <1>3, <1>4, <1>5, <1>6, <1>7, <1>8, <1>9, <1>10, <1>11, <1>12, <1>13,
     <1>14, <1>15, <1>16, <1>17, <1>18
  DEF Next, Step, PrepareStep, ScanStep, MainStep, Terminated

(* The invariant holds throughout a scan. *)
THEOREM ScanInvariant == Spec => []IInv
<1>1. QED
  BY InitIInv, StepIInv, PTL DEF Spec

(* The variables of a scan keep their types. *)
THEOREM TypeCorrect == Spec => []TypeOK
<1>1. IInv => TypeOK
  BY DEF IInv
<1>2. QED
  BY ScanInvariant, <1>1, PTL

(* The bar stops only when no worker has a tick left to send. *)
THEOREM BarStaysForWorkers == Spec => []BarOutlivesWorkers
<1>1. ASSUME IInv, main \notin {"prepare", "prepError"}, bar # "recv",
             NEW s \in Services, scan[s] = "inspect"
      PROVE  AllTicked(s)
  <2>1. Begun
    BY <1>1 DEF IInv, Phases
  <2>2. ticked = Jobs
    BY <1>1, <2>1, BarDone
  <2>3. QED
    BY <2>2 DEF AllTicked, Jobs, LenQueriesByPlat, GetQueriesByPlat
<1>2. IInv => BarOutlivesWorkers
  BY <1>1 DEF BarOutlivesWorkers
<1>3. QED
  BY ScanInvariant, <1>2, PTL

(* currentQuery is closed after the last tick was sent and received. *)
THEOREM NoTickAfterClose == Spec => []ClosedAfterLastTick
<1>1. ASSUME IInv, scanDone
      PROVE  ~tickBuf /\ progress = total /\ \A s \in Services : scan[s] = "done"
  <2>1. Begun /\ bar # "recv"
    BY <1>1 DEF IInv, Phases, Scanning
  <2>2. QED
    BY <1>1, <2>1, BarDone DEF IInv, Scanning
<1>2. IInv => ClosedAfterLastTick
  BY <1>1 DEF ClosedAfterLastTick
<1>3. QED
  BY ScanInvariant, <1>2, PTL

(* A successful scan leaves no goroutine, tick or error behind. *)
THEOREM SuccessLeavesNothing == Spec => []SuccessIsQuiet
<1>1. ASSUME IInv, main = "ok"
      PROVE  /\ \A s \in Services : prep[s] = "done" /\ scan[s] = "done"
             /\ bar # "recv" /\ ~tickBuf
             /\ unread = {} /\ failed = {}
  <2>1. Begun /\ scanDone /\ bar # "recv" /\ \A s \in Services : scan[s] = "done"
    BY <1>1 DEF IInv, Scanning, Begun
  <2>2. prepDone /\ unread = {} /\ \A s \in Services : prep[s] = "done"
    BY <1>1, <2>1 DEF IInv, Phases, Preparing
  <2>3. failed = {}
    BY <1>1, <2>1 DEF IInv, Scanning, TypeOK
  <2>4. ~tickBuf
    BY <1>1, <2>1, BarDone
  <2>5. QED
    BY <2>1, <2>2, <2>3, <2>4
<1>2. IInv => SuccessIsQuiet
  BY <1>1 DEF SuccessIsQuiet
<1>3. QED
  BY ScanInvariant, <1>2, PTL

(* One failing service never stops the process. *)
THEOREM OneFailureNeverPanics == Spec => []PanicNeedsTwoFailures
<1>1. IInv => PanicNeedsTwoFailures
  BY DEF IInv, Panics, PanicNeedsTwoFailures
<1>2. QED
  BY ScanInvariant, <1>1, PTL
----------------------------------------------------------------------------
(* PrepareAndScan keeps the safety part of ScanResult for any services: no  *)
(* service is scanned before all are prepared, success means all scanned,   *)
(* and nothing happens after it (that an answer comes is model-checked).    *)
THEOREM ScanKeepsContract == Spec => Abstract!Spec
<1> USE DEF Prepared, Result
<1>1. Init => Abstract!Init
  BY DEF Init, Abstract!Init
<1>2. ASSUME IInv, [Next]_vars PROVE [Abstract!Next]_(Abstract!vars)
  <2> USE <1>2 DEF prepVars, scanVars, barVars, Abstract!vars
  <2>1. main = "ok" => \A s \in Services : prep[s] = "done" /\ scan[s] = "done"
    BY DEF IInv, Scanning, Phases, Preparing, Begun
  <2>2. ASSUME NEW s \in Services, ~crashed, ReadSources(s) PROVE Abstract!PrepareService(s)
    <3>1. main # "ok" /\ s \notin unread
      BY <2>1, <2>2 DEF ReadSources, IInv, Preparing
    <3>2. QED
      BY <2>2, <3>1 DEF ReadSources, Abstract!PrepareService, IInv, TypeOK
  <2>3. ASSUME NEW s \in Services, ~crashed, ReadSourcesFails(s) \/ SendPrepError(s)
        PROVE  UNCHANGED Abstract!vars
    BY <2>3 DEF ReadSourcesFails, SendPrepError, IInv, TypeOK, Preparing
  <2>4. ASSUME NEW s \in Services, ~crashed, PanicPrepError(s) \/ PanicScanError(s)
        PROVE  Abstract!Crash
    BY <2>1, <2>4 DEF PanicPrepError, PanicScanError, Abstract!Crash
  <2>5. CASE ~crashed /\ (ClosePrepErr \/ CloseScanErr)
    BY <2>5 DEF ClosePrepErr, CloseScanErr, Abstract!Fail, Abstract!Next
  <2>6. CASE ~crashed /\ (ClosePrep \/ BeginScan \/ CloseScan \/ BarReceive)
    BY <2>6 DEF ClosePrep, BeginScan, CloseScan, BarReceive
  <2>7. ASSUME NEW s \in Services, ~crashed,
               SendTick(s) \/ InspectReturns(s) \/ SendScanError(s)
        PROVE  UNCHANGED Abstract!vars
    BY <2>7 DEF SendTick, InspectReturns, SendScanError
  <2>8. ASSUME NEW s \in Services, ~crashed, InspectFails(s) PROVE UNCHANGED Abstract!vars
    <3>1. s \notin saved
      BY <2>8 DEF InspectFails, IInv, Scanning
    <3>2. QED
      BY <2>8, <3>1 DEF InspectFails
  <2>9. ASSUME NEW s \in Services, ~crashed, SaveVulnerabilities(s)
        PROVE  Abstract!ScanService(s) \/ UNCHANGED Abstract!vars
    <3>1. s \notin saved /\ main # "ok" /\ Begun
      BY <2>1, <2>9 DEF SaveVulnerabilities, IInv, Scanning, Phases
    <3>2. Prepared = Services
      BY <3>1 DEF IInv, Phases, Preparing
    <3>3. CASE s \in failed
      BY <2>9, <3>3 DEF SaveVulnerabilities
    <3>4. CASE s \notin failed
      BY <2>9, <3>1, <3>2, <3>4 DEF SaveVulnerabilities, Abstract!ScanService, IInv, TypeOK
    <3>5. QED
      BY <3>3, <3>4
  <2>10. CASE ~crashed /\ EndScan
    <3>1. \A s \in Services : s \in saved /\ s \notin failed
      BY <2>10 DEF EndScan, IInv, Scanning
    <3>2. saved \ failed = Services
      BY <3>1 DEF IInv, TypeOK
    <3>3. QED
      BY <2>10, <3>2 DEF EndScan, Abstract!Succeed, Abstract!Next
  <2>11. CASE UNCHANGED vars
    BY <2>11 DEF vars
  <2>12. QED
    BY <2>2, <2>3, <2>4, <2>5, <2>6, <2>7, <2>8, <2>9, <2>10, <2>11
    DEF Next, Step, PrepareStep, ScanStep, MainStep, Terminated, Abstract!Next
<1>3. QED
  BY <1>1, <1>2, ScanInvariant, PTL DEF Spec, Abstract!Spec
============================================================================
