--------------------------- MODULE InspectProofs ---------------------------
(***************************************************************************)
(* Proofs about one call of Inspector.Inspect, for any number of queries   *)
(* and any finite pool of workers.                                         *)
(*                                                                         *)
(* The inductive invariant says where every query is: jobs below jobsTaken *)
(* are held by one worker, dropped, buffered as a result or collected.     *)
(***************************************************************************)
EXTENDS Inspect, FiniteSetTheorems, TLAPS

USE NumQueriesNat DEF Query, NoJob

(* What has been taken from the jobs channel, and who holds it. *)
Holding ==
  /\ jobsTaken <= jobsSent
  /\ jobsClosed => jobsSent = NumQueries
  /\ ~Started => jobsSent = 0 /\ ~jobsClosed
  /\ \A w \in Workers :
       /\ job[w] # NoJob => job[w] < jobsTaken
       /\ job[w] = NoJob <=> pc[w] \in {"recv", "done"}
       /\ pc[w] = "done" => jobsClosed /\ jobsTaken = NumQueries
  /\ \A v, w \in Workers : job[v] # NoJob /\ job[v] = job[w] => v = w

(* What the verdict of a held query is at each point of the worker's loop. *)
Verdicts ==
  /\ \A w \in Workers : job[w] # NoJob =>
       /\ job[w] \notin results \union loadFailed \union reported \union {collecting}
       /\ pc[w] = "send" <=> job[w] \in erred \union executed
       /\ pc[w] = "write" => job[w] \in rejected
  /\ erred \intersect executed = {}
  /\ loadFailed \intersect (erred \union executed) = {}
  /\ results \subseteq erred \union executed
  /\ results \intersect (reported \union {collecting}) = {}
  /\ reported \subseteq executed
  /\ \A q \in loadFailed \union erred \union executed : q < jobsTaken
  /\ collecting # NoJob <=> collector = "write"
  /\ collecting # NoJob => collecting \in erred

(* No taken query is lost. *)
Kept ==
  /\ \A q \in Query : q < jobsTaken =>
       q \in loadFailed \union erred \union executed \/ \E w \in Workers : job[w] = q
  /\ \A q \in executed : q \in results \union reported \/ \E w \in Workers : job[w] = q

(* The ticks sent so far. *)
Ticks ==
  /\ \A q \in ticked : q < jobsTaken
  /\ \A w \in Workers : pc[w] = "tick" => job[w] \notin ticked
  /\ \A q \in Query : q < jobsTaken =>
       q \in ticked \/ \E w \in Workers : job[w] = q /\ pc[w] = "tick"

Closing ==
  /\ resultsClosed => \A w \in Workers : pc[w] = "done"
  /\ collector = "done" => resultsClosed /\ results = {}

(* The entries of failedQueries that are missing are still to be written. *)
FailedMap ==
  ~raced =>
    /\ \A n \in failedQueries : \E q \in erred \union rejected : n = QueryName[q]
    /\ \A q \in erred :
         \/ QueryName[q] \in failedQueries
         \/ q \in results \/ q = collecting
         \/ \E w \in Workers : job[w] = q
    /\ \A q \in rejected :
         \/ QueryName[q] \in failedQueries
         \/ \E w \in Workers : job[w] = q /\ pc[w] = "write"

IInv == TypeOK /\ Holding /\ Verdicts /\ Kept /\ Ticks /\ Closing /\ FailedMap
----------------------------------------------------------------------------
(* The invariant holds when Inspect is called. *)
LEMMA InitIInv == Init => IInv
<1> SUFFICES ASSUME Init PROVE IInv
  OBVIOUS
<1>1. TypeOK
  <2>1. jobsSent \in 0 .. NumQueries /\ jobsTaken \in 0 .. NumQueries
    BY DEF Init
  <2> HIDE DEF Query, NoJob
  <2>2. pc \in [Workers -> {"recv", "tick", "load", "run", "write", "send", "done"}]
    BY DEF Init
  <2>3. job \in [Workers -> Query \union {NoJob}]
    BY DEF Init
  <2>4. QED
    BY <2>1, <2>2, <2>3 DEF Init, TypeOK
<1>2. Holding
  BY DEF Init, Holding, Started, Names
<1>3. Verdicts
  BY DEF Init, Verdicts, Started, Names
<1>4. Kept
  BY DEF Init, Kept, Started, Names
<1>5. Ticks
  BY DEF Init, Ticks, Started, Names
<1>6. Closing
  BY DEF Init, Closing, Started, Names
<1>7. FailedMap
  BY DEF Init, FailedMap, Started, Names
<1>8. QED
  BY <1>1, <1>2, <1>3, <1>4, <1>5, <1>6, <1>7 DEF IInv

(* No goroutine of the call breaks it. *)
LEMMA StepIInv == IInv /\ [Next]_vars => IInv'
<1> SUFFICES ASSUME IInv, [Next]_vars PROVE IInv'
  OBVIOUS
<1> USE DEF IInv, TypeOK, Holding, Verdicts, Kept, Ticks, Closing, FailedMap, Started, Names,
            jobVars, runVars, resVars, colVars, mapVars, tickVars
<1>1. CASE SendJob
  BY <1>1 DEF SendJob
<1>2. CASE CloseJobs
  BY <1>2 DEF CloseJobs
<1>3. ASSUME NEW w \in Workers, TakeJob(w) PROVE IInv'
  BY <1>3 DEF TakeJob
<1>4. ASSUME NEW w \in Workers, EndWorker(w) PROVE IInv'
  BY <1>4 DEF EndWorker
<1>5. ASSUME NEW w \in Workers, Tick(w) PROVE IInv'
  <2>1. TypeOK'
    <3>1. job[w] \in Query
      BY <1>5 DEF Tick
    <3> HIDE DEF Query, NoJob, Holding, Verdicts, Kept, Ticks, Closing, FailedMap, Names
    <3>2. QED
      BY <1>5, <3>1 DEF Tick
  <2>2. Holding'
    BY <1>5 DEF Tick
  <2>3. Verdicts'
    BY <1>5 DEF Tick
  <2>4. Kept'
    BY <1>5 DEF Tick
  <2>5. Ticks'
    BY <1>5 DEF Tick
  <2>6. Closing'
    BY <1>5 DEF Tick
  <2>7. FailedMap'
    BY <1>5 DEF Tick
  <2>8. QED
    BY <2>1, <2>2, <2>3, <2>4, <2>5, <2>6, <2>7
<1>6. ASSUME NEW w \in Workers, Load(w) PROVE IInv'
  BY <1>6 DEF Load
<1>7. ASSUME NEW w \in Workers, LoadFails(w) PROVE IInv'
  <2>1. TypeOK'
    <3>1. job[w] \in Query
      BY <1>7 DEF LoadFails
    <3> HIDE DEF Query, NoJob, Holding, Verdicts, Kept, Ticks, Closing, FailedMap, Names
    <3>2. QED
      BY <1>7, <3>1 DEF LoadFails
  <2>2. Holding'
    BY <1>7 DEF LoadFails
  <2>3. Verdicts'
    <3>1. job[w] \in Query /\ job[w] # NoJob /\ job[w] < jobsTaken
      BY <1>7 DEF LoadFails
    <3>2. job[w] \notin erred \union executed
      BY <1>7, <3>1 DEF LoadFails
    <3>3. \A v \in Workers : v # w /\ job[v] # NoJob => job[v] # job[w]
      BY <3>1
    <3> HIDE DEF Query, Holding, Kept, Ticks, Closing, FailedMap, Names
    <3>4. QED
      BY <1>7, <3>1, <3>2, <3>3, SMTT(30) DEF LoadFails
  <2>4. Kept'
    BY <1>7 DEF LoadFails
  <2>5. Ticks'
    BY <1>7 DEF LoadFails
  <2>6. Closing'
    BY <1>7 DEF LoadFails
  <2>7. FailedMap'
    BY <1>7 DEF LoadFails
  <2>8. QED
    BY <2>1, <2>2, <2>3, <2>4, <2>5, <2>6, <2>7
<1>8. ASSUME NEW w \in Workers, RunFails(w) PROVE IInv'
  <2>1. TypeOK'
    <3>1. job[w] \in Query
      BY <1>8 DEF RunFails
    <3> HIDE DEF Query, NoJob, Holding, Verdicts, Kept, Ticks, Closing, FailedMap, Names
    <3>2. QED
      BY <1>8, <3>1 DEF RunFails
  <2>2. Holding'
    BY <1>8 DEF RunFails
  <2>3. Verdicts'
    <3>1. job[w] \in Query /\ job[w] # NoJob /\ job[w] < jobsTaken
      BY <1>8 DEF RunFails
    <3>2. job[w] \notin erred \union executed
      BY <1>8, <3>1 DEF RunFails
    <3>3. \A v \in Workers : v # w /\ job[v] # NoJob => job[v] # job[w]
      BY <3>1
    <3> HIDE DEF Query, Holding, Kept, Ticks, Closing, FailedMap, Names
    <3>4. QED
      BY <1>8, <3>1, <3>2, <3>3, SMTT(30) DEF RunFails
  <2>4. Kept'
    BY <1>8 DEF RunFails
  <2>5. Ticks'
    BY <1>8 DEF RunFails
  <2>6. Closing'
    BY <1>8 DEF RunFails
  <2>7. FailedMap'
    BY <1>8 DEF RunFails
  <2>8. QED
    BY <2>1, <2>2, <2>3, <2>4, <2>5, <2>6, <2>7
<1>9. ASSUME NEW w \in Workers, RejectResult(w) PROVE IInv'
  <2>1. TypeOK'
    <3>1. job[w] \in Query
      BY <1>9 DEF RejectResult
    <3> HIDE DEF Query, NoJob, Holding, Verdicts, Kept, Ticks, Closing, FailedMap, Names
    <3>2. QED
      BY <1>9, <3>1 DEF RejectResult, AccessMap, MapWritten
  <2>2. Holding'
    BY <1>9 DEF RejectResult, AccessMap
  <2>3. Verdicts'
    BY <1>9 DEF RejectResult, AccessMap
  <2>4. Kept'
    BY <1>9 DEF RejectResult, AccessMap
  <2>5. Ticks'
    BY <1>9 DEF RejectResult, AccessMap
  <2>6. Closing'
    BY <1>9 DEF RejectResult, AccessMap
  <2>7. FailedMap'
    BY <1>9 DEF RejectResult, AccessMap
  <2>8. QED
    BY <2>1, <2>2, <2>3, <2>4, <2>5, <2>6, <2>7
<1>10. ASSUME NEW w \in Workers, StoreRejected(w) PROVE IInv'
  <2>1. TypeOK'
    BY <1>10 DEF StoreRejected, StoreFailed
  <2>2. Holding'
    BY <1>10 DEF StoreRejected, StoreFailed
  <2>3. Verdicts'
    BY <1>10 DEF StoreRejected, StoreFailed
  <2>4. Kept'
    BY <1>10 DEF StoreRejected, StoreFailed
  <2>5. Ticks'
    BY <1>10 DEF StoreRejected, StoreFailed
  <2>6. Closing'
    BY <1>10 DEF StoreRejected, StoreFailed
  <2>7. FailedMap'
    <3>1. \A v \in Workers : v # w /\ job[v] # NoJob => job[v] # job[w]
      BY <1>10 DEF StoreRejected
    <3>2. SUFFICES ASSUME ~raced PROVE FailedMap'
      BY <1>10 DEF StoreRejected, StoreFailed
    <3>3. failedQueries' = failedQueries \union {QueryName[job[w]]}
      BY <1>10, <3>2 DEF StoreRejected, StoreFailed
    <3> HIDE DEF Query, Holding, Kept, Ticks, Closing, Names
    <3>4. \A n \in failedQueries' : \E q \in erred' \union rejected' : n = QueryName[q]
      <4>1. job[w] \in rejected
        BY <1>10 DEF StoreRejected, Holding
      <4>2. QED
        BY <1>10, <4>1, <3>2, <3>3 DEF StoreRejected
    <3>5. ASSUME NEW q \in rejected'
          PROVE  \/ QueryName[q] \in failedQueries'
                 \/ \E v \in Workers : job'[v] = q /\ pc'[v] = "write"
      BY <1>10, <3>2, <3>3, <3>5 DEF StoreRejected
    <3>6. QED
      BY <1>10, <3>2, <3>3, <3>4, <3>5 DEF StoreRejected
  <2>8. QED
    BY <2>1, <2>2, <2>3, <2>4, <2>5, <2>6, <2>7
<1>11. ASSUME NEW w \in Workers, RunSucceeds(w) PROVE IInv'
  <2>1. TypeOK'
    <3>1. job[w] \in Query
      BY <1>11 DEF RunSucceeds
    <3> HIDE DEF Query, NoJob, Holding, Verdicts, Kept, Ticks, Closing, FailedMap, Names
    <3>2. QED
      BY <1>11, <3>1 DEF RunSucceeds
  <2>2. Holding'
    BY <1>11 DEF RunSucceeds
  <2>3. Verdicts'
    <3>1. job[w] \in Query /\ job[w] # NoJob /\ job[w] < jobsTaken
      BY <1>11 DEF RunSucceeds
    <3>2. job[w] \notin erred \union executed
      BY <1>11, <3>1 DEF RunSucceeds
    <3>3. \A v \in Workers : v # w /\ job[v] # NoJob => job[v] # job[w]
      BY <3>1
    <3> HIDE DEF Query, Holding, Kept, Ticks, Closing, FailedMap, Names
    <3>4. QED
      BY <1>11, <3>1, <3>2, <3>3, SMTT(30) DEF RunSucceeds
  <2>4. Kept'
    BY <1>11 DEF RunSucceeds
  <2>5. Ticks'
    BY <1>11 DEF RunSucceeds
  <2>6. Closing'
    BY <1>11 DEF RunSucceeds
  <2>7. FailedMap'
    BY <1>11 DEF RunSucceeds
  <2>8. QED
    BY <2>1, <2>2, <2>3, <2>4, <2>5, <2>6, <2>7
<1>12. ASSUME NEW w \in Workers, SendResult(w) PROVE IInv'
  <2>1. TypeOK'
    <3>1. job[w] \in Query
      BY <1>12 DEF SendResult
    <3> HIDE DEF Query, NoJob, Holding, Verdicts, Kept, Ticks, Closing, FailedMap, Names
    <3>2. QED
      BY <1>12, <3>1 DEF SendResult
  <2>2. Holding'
    BY <1>12 DEF SendResult
  <2>3. Verdicts'
    <3>1. job[w] \in Query /\ job[w] # NoJob /\ job[w] < jobsTaken
      BY <1>12 DEF SendResult
    <3>2. job[w] \in erred \union executed
      BY <1>12, <3>1 DEF SendResult
    <3>3. \A v \in Workers : v # w /\ job[v] # NoJob => job[v] # job[w]
      BY <3>1
    <3> HIDE DEF Query, Holding, Kept, Ticks, Closing, FailedMap, Names
    <3>4. QED
      BY <1>12, <3>1, <3>2, <3>3, SMTT(30) DEF SendResult
  <2>4. Kept'
    BY <1>12 DEF SendResult
  <2>5. Ticks'
    BY <1>12 DEF SendResult
  <2>6. Closing'
    BY <1>12 DEF SendResult
  <2>7. FailedMap'
    BY <1>12 DEF SendResult
  <2>8. QED
    BY <2>1, <2>2, <2>3, <2>4, <2>5, <2>6, <2>7
<1>13. CASE CloseResults
  BY <1>13 DEF CloseResults
<1>14. ASSUME NEW q \in Query, Collect(q) PROVE IInv'
  BY <1>14 DEF Collect
<1>15. ASSUME NEW q \in Query, CollectError(q) PROVE IInv'
  <2>1. TypeOK'
    <3> HIDE DEF Query, NoJob, Holding, Verdicts, Kept, Ticks, Closing, FailedMap, Names
    <3>1. QED
      BY <1>15 DEF CollectError, AccessMap, MapWritten
  <2>2. Holding'
    BY <1>15 DEF CollectError, AccessMap
  <2>3. Verdicts'
    BY <1>15 DEF CollectError, AccessMap
  <2>4. Kept'
    <3>1. q \notin executed /\ results' = results \ {q}
      BY <1>15 DEF CollectError
    <3>2. UNCHANGED <<jobsTaken, job, loadFailed, erred, executed, reported>>
      BY <1>15 DEF CollectError
    <3> HIDE DEF Query, NoJob, Holding, Verdicts, Ticks, Closing, FailedMap
    <3>3. QED
      BY <3>1, <3>2
  <2>5. Ticks'
    BY <1>15 DEF CollectError, AccessMap
  <2>6. Closing'
    BY <1>15 DEF CollectError, AccessMap
  <2>7. FailedMap'
    BY <1>15 DEF CollectError, AccessMap
  <2>8. QED
    BY <2>1, <2>2, <2>3, <2>4, <2>5, <2>6, <2>7
<1>16. CASE StoreError
  <2>1. TypeOK'
    BY <1>16 DEF StoreError, StoreFailed
  <2>2. Holding'
    BY <1>16 DEF StoreError, StoreFailed
  <2>3. Verdicts'
    BY <1>16 DEF StoreError, StoreFailed
  <2>4. Kept'
    BY <1>16 DEF StoreError, StoreFailed
  <2>5. Ticks'
    BY <1>16 DEF StoreError, StoreFailed
  <2>6. Closing'
    BY <1>16 DEF StoreError, StoreFailed
  <2>7. FailedMap'
    BY <1>16 DEF StoreError, StoreFailed
  <2>8. QED
    BY <2>1, <2>2, <2>3, <2>4, <2>5, <2>6, <2>7
<1>17. CASE Return
  BY <1>17 DEF Return
<1>18. CASE BarReceive
  <2>1. TypeOK'
    BY <1>18 DEF BarReceive
  <2>2. Holding'
    BY <1>18 DEF BarReceive
  <2>3. Verdicts'
    BY <1>18 DEF BarReceive
  <2>4. Kept'
    BY <1>18 DEF BarReceive
  <2>5. Ticks'
    BY <1>18 DEF BarReceive
  <2>6. Closing'
    BY <1>18 DEF BarReceive
  <2>7. FailedMap'
    BY <1>18 DEF BarReceive
  <2>8. QED
    BY <2>1, <2>2, <2>3, <2>4, <2>5, <2>6, <2>7
<1>19. CASE BuildPayload
  BY <1>19 DEF BuildPayload
<1>20. CASE UNCHANGED vars
  BY <1>20 DEF vars
<1>21. QED
  BY <1>1, <1>2, <1>3, <1>4, <1>5, <1>6, <1>7, <1>8, <1>9, <1>10, <1>11, <1>12, <1>13,
     <1>14, <1>15, <1>16, <1>17, <1>18, <1>19, <1>20
  DEF Next, Step, Worker, Collector, Terminated
----------------------------------------------------------------------------
(* The invariant holds throughout every call. *)
THEOREM InspectInvariant == Spec => []IInv
<1>1. IInv /\ [Next]_vars => IInv'
  BY StepIInv
<1>2. QED
  BY InitIInv, <1>1, PTL DEF Spec

(* Every variable keeps its type: no worker or channel reaches a state the  *)
(* model does not name (Inspect, performInspection).                        *)
THEOREM TypeCorrect == Spec => []TypeOK
<1>1. IInv => TypeOK
  BY DEF IInv
<1>2. QED
  BY InspectInvariant, <1>1, PTL

(* A query is in the hands of one goroutine at a time, for any pool of      *)
(* workers: no query is evaluated or collected twice (performInspection).   *)
THEOREM QueriesHandledOnce == Spec => []HandledOnce
<1>1. ASSUME IInv PROVE HandledOnce
  <2> USE <1>1 DEF IInv, TypeOK
  <2>1. \A v, w \in Workers : job[v] # NoJob /\ job[v] = job[w] => v = w
    BY DEF Holding
  <2>2. \A w \in Workers :
          job[w] # NoJob => job[w] \notin results \union loadFailed \union reported \union {collecting}
    BY DEF Verdicts
  <2>3. Held \intersect (results \union loadFailed \union reported \union {collecting}) = {}
    BY <2>2 DEF Held
  <2>4. results \intersect (loadFailed \union reported \union {collecting}) = {}
    BY DEF Verdicts
  <2>5. loadFailed \intersect (reported \union executed \union erred) = {}
    BY DEF Verdicts
  <2>6. QED
    BY <2>1, <2>3, <2>4, <2>5 DEF HandledOnce
<1>2. QED
  BY InspectInvariant, <1>1, PTL

(* The queries are finitely many. *)
LEMMA QueryFinite == IsFiniteSet(Query) /\ Cardinality(Query) = NumQueries
BY FS_Interval

(* make(chan QueryResult, len(queries)) is large enough: a worker that has  *)
(* a result to send never waits for the collector.                          *)
THEOREM WorkersNeverBlock == Spec => []ResultsNeverBlock
<1>1. ASSUME IInv, NEW w \in Workers, pc[w] = "send"
      PROVE  Cardinality(results) < ResultsCap
  <2>1. IsFiniteSet(Query) /\ Cardinality(Query) = NumQueries
    BY QueryFinite
  <2>2. job[w] \in Query /\ results \subseteq Query \ {job[w]}
    BY <1>1 DEF IInv, TypeOK, Holding, Verdicts
  <2>3. IsFiniteSet(Query \ {job[w]}) /\ Cardinality(Query \ {job[w]}) = NumQueries - 1
    BY <2>1, <2>2, FS_RemoveElement
  <2>4. IsFiniteSet(results) /\ Cardinality(results) <= Cardinality(Query \ {job[w]})
    <3>1. results \subseteq Query \ {job[w]}
      BY <2>2
    <3>2. IsFiniteSet(Query \ {job[w]})
      BY <2>3
    <3>3. QED
      BY <3>1, <3>2, FS_Subset
  <2>5. Cardinality(results) \in Nat
    BY <2>4, FS_CardinalityType
  <2>6. QED
    BY <2>3, <2>4, <2>5 DEF ResultsCap
<1>2. IInv => ResultsNeverBlock
  BY <1>1 DEF ResultsNeverBlock
<1>3. QED
  BY InspectInvariant, <1>2, PTL

(* close(results) comes after the last send: no worker panics on a closed   *)
(* channel (the closer goroutine of Inspect).                               *)
THEOREM ClosedAfterLastSend == Spec => []SendsBeforeClose
<1>1. IInv => SendsBeforeClose
  BY DEF IInv, TypeOK, Holding, Closing, SendsBeforeClose
<1>2. QED
  BY InspectInvariant, <1>1, PTL

(* When Inspect returns, a query was counted as executed and its            *)
(* vulnerabilities were appended exactly when LoadQuery and doRun succeeded. *)
THEOREM EveryQueryAccounted == Spec => []AllAccounted
<1>1. ASSUME IInv, collector = "done" PROVE AllAccounted
  <2>1. \A w \in Workers : job[w] = NoJob /\ pc[w] = "done"
    BY <1>1 DEF IInv, TypeOK, Holding, Closing
  <2>2. jobsTaken = NumQueries /\ results = {}
    BY <1>1, <2>1, WorkersNonempty DEF IInv, Holding, Closing
  <2>3. Query \subseteq loadFailed \union erred \union executed
    BY <1>1, <2>1, <2>2 DEF IInv, Kept
  <2>4. executed \subseteq reported
    BY <1>1, <2>1, <2>2 DEF IInv, Kept, TypeOK
  <2>5. QED
    BY <1>1, <2>2, <2>3, <2>4 DEF IInv, TypeOK, Verdicts, AllAccounted
<1>2. IInv => AllAccounted
  BY <1>1 DEF AllAccounted
<1>3. QED
  BY InspectInvariant, <1>2, PTL

(* Unless two accesses of the unlocked map collided, failedQueries names    *)
(* exactly the queries that failed to run or had a result rejected.         *)
THEOREM FailuresAreRecorded == Spec => []FailuresRecorded
<1>1. ASSUME IInv, collector = "done", ~raced
      PROVE  failedQueries = {QueryName[q] : q \in erred \union rejected}
  <2>1. \A w \in Workers : job[w] = NoJob /\ pc[w] = "done"
    BY <1>1 DEF IInv, TypeOK, Holding, Closing
  <2>2. results = {} /\ collecting = NoJob
    BY <1>1 DEF IInv, Closing, Verdicts
  <2>3. \A q \in erred \union rejected : QueryName[q] \in failedQueries
    BY <1>1, <2>1, <2>2 DEF IInv, FailedMap, TypeOK
  <2>4. QED
    BY <1>1, <2>3 DEF IInv, FailedMap
<1>2. IInv => FailuresRecorded
  BY <1>1 DEF FailuresRecorded
<1>3. QED
  BY InspectInvariant, <1>2, PTL
----------------------------------------------------------------------------
(* There is at most one tick per query. *)
LEMMA TickCount == IInv => IsFiniteSet(ticked) /\ Cardinality(ticked) \in 0 .. NumQueries
<1> SUFFICES ASSUME IInv PROVE IsFiniteSet(ticked) /\ Cardinality(ticked) \in 0 .. NumQueries
  OBVIOUS
<1>1. ticked \subseteq Query
  BY DEF IInv, TypeOK
<1> HIDE DEF Query
<1>2. IsFiniteSet(ticked) /\ Cardinality(ticked) <= NumQueries
  BY <1>1, QueryFinite, FS_Subset
<1>3. Cardinality(ticked) \in Nat
  BY <1>2, FS_CardinalityType
<1>4. QED
  BY <1>2, <1>3

(* Inspect keeps its contract with the scan for any pool of workers: it     *)
(* fails before the first tick, or sends one tick for each query and        *)
(* returns only after the last one (the liveness part is model-checked).    *)
THEOREM InspectKeepsContract == Spec => Contract!Spec
<1> USE DEF CallState
<1>1. Init => Contract!Init
  BY FS_EmptySet DEF Init, Contract!Init
<1>2. ASSUME IInv, [Next]_vars PROVE [Contract!Next]_(Contract!vars)
  <2> USE <1>2
  <2>1. ASSUME NEW w \in Workers, ~crashed, Tick(w) PROVE Contract!SendTick
    <3>1. job[w] \in Query /\ job[w] \notin ticked /\ collector # "done" /\ collector # "failed"
      BY <2>1 DEF IInv, TypeOK, Holding, Ticks, Closing, Tick, Started
    <3>2. ticked' = ticked \union {job[w]} /\ UNCHANGED <<collector, crashed>>
      BY <2>1 DEF Tick, colVars, mapVars
    <3>3. Cardinality(ticked') = Cardinality(ticked) + 1
      BY <3>1, <3>2, TickCount, FS_AddElement
    <3>4. Cardinality(ticked) < NumQueries
      <4>1. ticked \subseteq Query /\ ticked # Query
        BY <3>1 DEF IInv, TypeOK
      <4> HIDE DEF Query
      <4>2. Cardinality(ticked) <= NumQueries /\ Cardinality(ticked) # NumQueries
        BY <4>1, QueryFinite, FS_Subset
      <4>3. QED
        BY <4>2, TickCount
    <3>5. QED
      BY <2>1, <3>1, <3>2, <3>3, <3>4 DEF Contract!SendTick
  <2>2. ASSUME ~crashed, Return PROVE Contract!ReturnResults
    <3>1. \A w \in Workers : pc[w] = "done" /\ job[w] = NoJob
      BY <2>2 DEF Return, IInv, Closing, Holding
    <3>2. jobsTaken = NumQueries
      BY <3>1, WorkersNonempty DEF IInv, Holding
    <3>3. \A q \in Query : q \in ticked
      BY <3>1, <3>2 DEF IInv, Ticks
    <3>4. Cardinality(ticked) = NumQueries
      BY <3>3, QueryFinite DEF IInv, TypeOK
    <3>5. QED
      BY <2>2, <3>4 DEF Return, Contract!ReturnResults, mapVars, tickVars
  <2>3. ASSUME ~crashed, BuildPayload PROVE Contract!ReturnError \/ UNCHANGED Contract!vars
    <3>1. ticked = {}
      BY <2>3 DEF BuildPayload, IInv, TypeOK, Holding, Ticks, Started
    <3>2. Cardinality(ticked) = 0
      BY <3>1, FS_EmptySet
    <3>3. QED
      BY <2>3, <3>2 DEF BuildPayload, Contract!ReturnError, Contract!vars, mapVars, tickVars
  <2>4. ASSUME ~crashed, UNCHANGED ticked,
               \/ UNCHANGED collector
               \/ collector \in {"recv", "write"} /\ collector' \in {"recv", "write"},
               collector \in {"recv", "write"} \/ UNCHANGED crashed,
               crashed' \in BOOLEAN
        PROVE  Contract!Crash \/ UNCHANGED Contract!vars
    BY <2>4 DEF Contract!Crash, Contract!vars
  <2>5. CASE ~crashed /\ (SendJob \/ CloseJobs \/ CloseResults \/ BarReceive)
    BY <2>4, <2>5 DEF SendJob, CloseJobs, CloseResults, BarReceive, IInv, TypeOK,
                      tickVars, colVars, mapVars, Contract!Next
  <2>6. ASSUME NEW w \in Workers, ~crashed, Worker(w), ~Tick(w)
        PROVE  Contract!Crash \/ UNCHANGED Contract!vars
    <3>1. UNCHANGED <<ticked, collector>>
      BY <2>6 DEF Worker, TakeJob, EndWorker, Load, LoadFails, RunFails, RejectResult,
                  StoreRejected, RunSucceeds, SendResult, tickVars, colVars
    <3>2. crashed' \in BOOLEAN
      BY <2>6 DEF Worker, TakeJob, EndWorker, Load, LoadFails, RunFails, RejectResult,
                  StoreRejected, RunSucceeds, SendResult, AccessMap, MapWritten, StoreFailed,
                  mapVars, IInv, TypeOK
    <3>3. collector \in {"recv", "write"} \/ UNCHANGED crashed
      <4>1. CASE RejectResult(w)
        BY <4>1 DEF RejectResult, IInv, TypeOK, Holding, Closing, Started
      <4>2. CASE ~RejectResult(w)
        BY <2>6, <4>2 DEF Worker, TakeJob, EndWorker, Load, LoadFails, RunFails,
                  StoreRejected, RunSucceeds, SendResult, StoreFailed, mapVars
      <4>3. QED
        BY <4>1, <4>2
    <3>4. QED
      BY <2>4, <2>6, <3>1, <3>2, <3>3
  <2>7. ASSUME ~crashed, StoreError \/ \E q \in Query : Collect(q) \/ CollectError(q)
        PROVE  Contract!Crash \/ UNCHANGED Contract!vars
    <3>1. UNCHANGED ticked /\ collector \in {"recv", "write"} /\ collector' \in {"recv", "write"}
      BY <2>7 DEF StoreError, Collect, CollectError, tickVars
    <3>2. crashed' \in BOOLEAN
      BY <2>7 DEF StoreError, Collect, CollectError, AccessMap, MapWritten, StoreFailed,
                  mapVars, IInv, TypeOK
    <3>3. QED
      BY <2>4, <2>7, <3>1, <3>2
  <2>8. CASE UNCHANGED vars
    BY <2>8 DEF vars, tickVars, colVars, mapVars, Contract!vars
  <2>9. QED
    BY <2>1, <2>2, <2>3, <2>5, <2>6, <2>7, <2>8
    DEF Next, Step, Worker, Collector, Terminated, Contract!Next
<1>3. QED
  BY <1>1, <1>2, InspectInvariant, PTL DEF Spec, Contract!Spec
============================================================================
