------------------------------ MODULE Inspect ------------------------------
(***************************************************************************)
(* One call of Inspector.Inspect (pkg/engine/inspector.go): a producer     *)
(* fills the jobs channel, a pool of workers takes jobs from it, sends a   *)
(* tick to the progress bar, loads and evaluates the query and sends a     *)
(* QueryResult; a closer closes the results channel when every worker has  *)
(* ended; the caller collects the results until the channel is closed.     *)
(*                                                                         *)
(* Channels.  jobs is FIFO and is filled in index order, so its content is *)
(* jobsTaken .. jobsSent-1.  results carries one QueryResult per query:    *)
(* its content is a set of query indexes, the err field of a result being  *)
(* membership of its index in erred.  The order of the results only orders *)
(* the vulnerabilities, which nothing here depends on.  currentQuery       *)
(* belongs to the caller of Inspect: its single buffer slot is tickBuf,    *)
(* and BarReceive is the progress bar that empties it.                     *)
(*                                                                         *)
(* failedQueries is a Go map without a lock, written by workers (a result  *)
(* the vulnerability builder rejects) and by the collector (a query that   *)
(* failed).  A map access that overlaps a write is undefined: the runtime  *)
(* may stop the process (crashed), or carry on and lose an entry (raced).  *)
(*                                                                         *)
(* The counters of the tracker that the services share                     *)
(* (TrackQueryExecution, FailedDetectLine) are in module Accounting.       *)
(***************************************************************************)
EXTENDS Naturals, FiniteSets

CONSTANTS NumQueries,   \* len(queries), the queries of the service's platforms
          Workers,      \* the goroutines of the pool, c.numWorkers of them
          QueryName     \* queries[i].Query: the key used in failedQueries

Query == 0 .. NumQueries - 1

ASSUME NumQueriesNat == NumQueries \in Nat
ASSUME WorkersNonempty == Workers # {} /\ IsFiniteSet(Workers)
ASSUME QueryNameFunction == DOMAIN QueryName = Query

NoJob == NumQueries     \* not a query index

VARIABLES
  jobsSent,       \* how many jobs the producer has sent
  jobsTaken,      \* how many jobs the workers have received
  jobsClosed,     \* close(jobs) done
  pc,             \* where each worker is in performInspection
  job,            \* the query index each worker holds
  tickBuf,        \* the buffer slot of currentQuery is full
  ticked,         \* queries whose tick was sent
  loadFailed,     \* queries dropped because LoadQuery failed (history)
  erred,          \* queries whose doRun returned an error (QueryResult.err)
  rejected,       \* queries one of whose results the builder rejected (history)
  executed,       \* queries counted by TrackQueryExecution
  results,        \* content of the results channel
  resultsClosed,  \* close(results) done
  collector,      \* where the collecting loop of Inspect is
  collecting,     \* the result the collector is handling
  reported,       \* queries whose vulnerabilities were appended
  failedQueries,  \* the keys of c.failedQueries
  raced,          \* an access of failedQueries overlapped a write (history)
  crashed         \* the runtime threw "concurrent map writes"

jobVars  == <<jobsSent, jobsTaken, jobsClosed>>
runVars  == <<loadFailed, erred, rejected, executed>>
resVars  == <<results, resultsClosed>>
colVars  == <<collector, collecting, reported>>
mapVars  == <<failedQueries, raced, crashed>>
tickVars == <<tickBuf, ticked>>
vars == <<jobVars, pc, job, tickVars, runVars, resVars, colVars, mapVars>>

Names == {QueryName[q] : q \in Query}

Init ==
  /\ jobsSent = 0 /\ jobsTaken = 0 /\ jobsClosed = FALSE
  /\ pc = [w \in Workers |-> "recv"]
  /\ job = [w \in Workers |-> NoJob]
  /\ tickBuf = FALSE /\ ticked = {}
  /\ loadFailed = {} /\ erred = {} /\ rejected = {} /\ executed = {}
  /\ results = {} /\ resultsClosed = FALSE
  /\ collector = "payload" /\ collecting = NoJob /\ reported = {}
  /\ failedQueries = {} /\ raced = FALSE /\ crashed = FALSE
----------------------------------------------------------------------------
(* Faulty: one slot too few. *)
ResultsCapShort == NumQueries - 1

(* The capacity given to make(chan QueryResult, _). *)
ResultsCap == NumQueries

(* The goroutines inside an assignment to c.failedQueries. *)
MapWritten == collector = "write" \/ \E w \in Workers : pc[w] = "write"

(* An access of the map: undefined when a write is under way. *)
AccessMap ==
  /\ raced' = (raced \/ MapWritten)
  /\ crashed' \in {FALSE, MapWritten}

(* The end of an assignment: a race may have lost the entry. *)
StoreFailed(q) ==
  /\ \/ failedQueries' = failedQueries \union {QueryName[q]}
     \/ raced /\ UNCHANGED failedQueries
  /\ UNCHANGED <<raced, crashed>>
----------------------------------------------------------------------------
(* The files are combined, marshalled and turned into the Rego input; a     *)
(* failure returns an error before any goroutine is started.                *)
BuildPayload ==
  /\ collector = "payload"
  /\ collector' \in {"recv", "failed"}
  /\ UNCHANGED <<jobVars, pc, job, tickVars, runVars, resVars, collecting, reported, mapVars>>

(* The goroutines of this call exist. *)
Started == collector \notin {"payload", "failed"}

(* createInspectionJobs: the buffer of jobs holds every query, a send never *)
(* waits.                                                                   *)
SendJob ==
  /\ Started
  /\ jobsSent < NumQueries
  /\ jobsSent' = jobsSent + 1
  /\ UNCHANGED <<jobsTaken, jobsClosed, pc, job, tickVars, runVars, resVars, colVars, mapVars>>

CloseJobs ==
  /\ Started
  /\ jobsSent = NumQueries
  /\ ~jobsClosed
  /\ jobsClosed' = TRUE
  /\ UNCHANGED <<jobsSent, jobsTaken, pc, job, tickVars, runVars, resVars, colVars, mapVars>>

(* Faulty: every worker is given the whole list of jobs. *)
TakeJobAgain(w) ==
  /\ pc[w] = "recv"
  /\ jobsTaken < jobsSent
  /\ job' = [job EXCEPT ![w] = jobsTaken]
  /\ pc' = [pc EXCEPT ![w] = "tick"]
  /\ UNCHANGED <<jobVars, tickVars, runVars, resVars, colVars, mapVars>>

(* Faulty: no tick for the job. *)
TakeJobUnticked(w) ==
  /\ pc[w] = "recv"
  /\ jobsTaken < jobsSent
  /\ job' = [job EXCEPT ![w] = jobsTaken]
  /\ jobsTaken' = jobsTaken + 1
  /\ pc' = [pc EXCEPT ![w] = "load"]
  /\ UNCHANGED <<jobsSent, jobsClosed, tickVars, runVars, resVars, colVars, mapVars>>

(* for job := range jobs *)
TakeJob(w) ==
  /\ pc[w] = "recv"
  /\ jobsTaken < jobsSent
  /\ job' = [job EXCEPT ![w] = jobsTaken]
  /\ jobsTaken' = jobsTaken + 1
  /\ pc' = [pc EXCEPT ![w] = "tick"]
  /\ UNCHANGED <<jobsSent, jobsClosed, tickVars, runVars, resVars, colVars, mapVars>>

EndWorker(w) ==
  /\ pc[w] = "recv"
  /\ jobsTaken = jobsSent /\ jobsClosed
  /\ pc' = [pc EXCEPT ![w] = "done"]
  /\ UNCHANGED <<jobVars, job, tickVars, runVars, resVars, colVars, mapVars>>

(* currentQuery <- 1, before the query is loaded *)
Tick(w) ==
  /\ pc[w] = "tick"
  /\ ~tickBuf
  /\ tickBuf' = TRUE
  /\ ticked' = ticked \union {job[w]}
  /\ pc' = [pc EXCEPT ![w] = "load"]
  /\ UNCHANGED <<jobVars, job, runVars, resVars, colVars, mapVars>>

(* LoadQuery succeeds *)
Load(w) ==
  /\ pc[w] = "load"
  /\ pc' = [pc EXCEPT ![w] = "run"]
  /\ UNCHANGED <<jobVars, job, tickVars, runVars, resVars, colVars, mapVars>>

(* LoadQuery fails: no library for the platform, the context cancelled, or  *)
(* the Rego code does not compile.  The loop continues without a result.    *)
LoadFails(w) ==
  /\ pc[w] = "load"
  /\ loadFailed' = loadFailed \union {job[w]}
  /\ pc' = [pc EXCEPT ![w] = "recv"]
  /\ job' = [job EXCEPT ![w] = NoJob]
  /\ UNCHANGED <<jobVars, tickVars, erred, rejected, executed, resVars, colVars, mapVars>>

(* Faulty: TrackQueryExecution whatever doRun returned. *)
RunFailsCounted(w) ==
  /\ pc[w] = "run"
  /\ erred' = erred \union {job[w]}
  /\ executed' = executed \union {job[w]}
  /\ pc' = [pc EXCEPT ![w] = "send"]
  /\ UNCHANGED <<jobVars, job, tickVars, loadFailed, rejected, resVars, colVars, mapVars>>

(* doRun fails: timeout, evaluation error, recovered panic or a result set  *)
(* DecodeQueryResults refuses.                                              *)
RunFails(w) ==
  /\ pc[w] = "run"
  /\ erred' = erred \union {job[w]}
  /\ pc' = [pc EXCEPT ![w] = "send"]
  /\ UNCHANGED <<jobVars, job, tickVars, loadFailed, rejected, executed, resVars, colVars, mapVars>>

(* DecodeQueryResults: the builder returns an error for one result; the key *)
(* is looked up, and written when it is absent.                             *)
RejectResult(w) ==
  /\ pc[w] = "run"
  /\ rejected' = rejected \union {job[w]}
  /\ AccessMap
  /\ pc' = [pc EXCEPT ![w] = IF QueryName[job[w]] \in failedQueries THEN "run" ELSE "write"]
  /\ UNCHANGED <<jobVars, job, tickVars, loadFailed, erred, executed, resVars, colVars, failedQueries>>

StoreRejected(w) ==
  /\ pc[w] = "write"
  /\ StoreFailed(job[w])
  /\ pc' = [pc EXCEPT ![w] = "run"]
  /\ UNCHANGED <<jobVars, job, tickVars, runVars, resVars, colVars>>

(* doRun succeeds: the query is counted as executed. *)
RunSucceeds(w) ==
  /\ pc[w] = "run"
  /\ executed' = executed \union {job[w]}
  /\ pc' = [pc EXCEPT ![w] = "send"]
  /\ UNCHANGED <<jobVars, job, tickVars, loadFailed, erred, rejected, resVars, colVars, mapVars>>

(* results <- QueryResult{...}; a send on a closed channel would panic,     *)
(* which SendsBeforeClose excludes.                                         *)
SendResult(w) ==
  /\ pc[w] = "send"
  /\ Cardinality(results) < ResultsCap
  /\ results' = results \union {job[w]}
  /\ pc' = [pc EXCEPT ![w] = "recv"]
  /\ job' = [job EXCEPT ![w] = NoJob]
  /\ UNCHANGED <<jobVars, tickVars, runVars, resultsClosed, colVars, mapVars>>

(* Faulty: the first worker to end closes the channel. *)
CloseResultsEarly ==
  /\ ~resultsClosed
  /\ \E w \in Workers : pc[w] = "done"
  /\ resultsClosed' = TRUE
  /\ UNCHANGED <<jobVars, pc, job, tickVars, runVars, results, colVars, mapVars>>

(* wg.Wait(); close(results) *)
CloseResults ==
  /\ ~resultsClosed
  /\ \A w \in Workers : pc[w] = "done"
  /\ resultsClosed' = TRUE
  /\ UNCHANGED <<jobVars, pc, job, tickVars, runVars, results, colVars, mapVars>>

(* for result := range results: append the vulnerabilities *)
Collect(q) ==
  /\ collector = "recv"
  /\ q \in results \ erred
  /\ results' = results \ {q}
  /\ reported' = reported \union {q}
  /\ UNCHANGED <<jobVars, pc, job, tickVars, runVars, resultsClosed, collector, collecting, mapVars>>

(* Faulty: continue before the error is recorded. *)
CollectErrorUnrecorded(q) ==
  /\ collector = "recv"
  /\ q \in results \intersect erred
  /\ results' = results \ {q}
  /\ UNCHANGED <<jobVars, pc, job, tickVars, runVars, resultsClosed, colVars, mapVars>>

(* a result with an error: c.failedQueries[...] = result.err *)
CollectError(q) ==
  /\ collector = "recv"
  /\ q \in results \intersect erred
  /\ results' = results \ {q}
  /\ collecting' = q
  /\ collector' = "write"
  /\ AccessMap
  /\ UNCHANGED <<jobVars, pc, job, tickVars, runVars, resultsClosed, reported, failedQueries>>

StoreError ==
  /\ collector = "write"
  /\ StoreFailed(collecting)
  /\ collecting' = NoJob
  /\ collector' = "recv"
  /\ UNCHANGED <<jobVars, pc, job, tickVars, runVars, resVars, reported>>

(* the results channel is closed and drained: Inspect returns *)
Return ==
  /\ collector = "recv"
  /\ results = {} /\ resultsClosed
  /\ collector' = "done"
  /\ UNCHANGED <<jobVars, pc, job, tickVars, runVars, resVars, collecting, reported, mapVars>>

(* the progress bar takes a tick out of currentQuery *)
BarReceive ==
  /\ tickBuf
  /\ tickBuf' = FALSE
  /\ UNCHANGED <<jobVars, pc, job, ticked, runVars, resVars, colVars, mapVars>>
----------------------------------------------------------------------------
Worker(w) ==
  \/ TakeJob(w) \/ EndWorker(w) \/ Tick(w)
  \/ Load(w) \/ LoadFails(w)
  \/ RunFails(w) \/ RejectResult(w) \/ StoreRejected(w) \/ RunSucceeds(w)
  \/ SendResult(w)

Collector ==
  \/ BuildPayload
  \/ \E q \in Query : Collect(q) \/ CollectError(q)
  \/ StoreError
  \/ Return

Finished == collector \in {"done", "failed"} /\ ~tickBuf

Terminated == (crashed \/ Finished) /\ UNCHANGED vars

Step ==
  \/ SendJob \/ CloseJobs
  \/ \E w \in Workers : Worker(w)
  \/ CloseResults
  \/ Collector
  \/ BarReceive

Next == (~crashed /\ Step) \/ Terminated

Spec == Init /\ [][Next]_vars

(* Every goroutine that can move eventually does; evaluation ends by itself *)
(* or by its deadline, so a worker does not reject results for ever.        *)
Fairness ==
  /\ WF_vars(~crashed /\ (SendJob \/ CloseJobs))
  /\ WF_vars(~crashed /\ CloseResults)
  /\ WF_vars(~crashed /\ Collector)
  /\ WF_vars(~crashed /\ BarReceive)
  /\ \A w \in Workers :
       /\ WF_vars(~crashed /\ Worker(w))
       /\ SF_vars(~crashed /\ Tick(w))
       /\ SF_vars(~crashed /\ (RunFails(w) \/ RunSucceeds(w)))

FairSpec == Spec /\ Fairness
----------------------------------------------------------------------------
(* Type invariant. *)
TypeOK ==
  /\ jobsSent \in 0 .. NumQueries /\ jobsTaken \in 0 .. NumQueries
  /\ jobsClosed \in BOOLEAN
  /\ pc \in [Workers -> {"recv", "tick", "load", "run", "write", "send", "done"}]
  /\ job \in [Workers -> Query \union {NoJob}]
  /\ tickBuf \in BOOLEAN /\ ticked \subseteq Query
  /\ loadFailed \subseteq Query /\ erred \subseteq Query
  /\ rejected \subseteq Query /\ executed \subseteq Query
  /\ results \subseteq Query /\ resultsClosed \in BOOLEAN
  /\ collector \in {"payload", "failed", "recv", "write", "done"}
  /\ collecting \in Query \union {NoJob} /\ reported \subseteq Query
  /\ failedQueries \subseteq Names
  /\ raced \in BOOLEAN /\ crashed \in BOOLEAN

Held == {job[w] : w \in {v \in Workers : job[v] # NoJob}}

(* A query is in the hands of one goroutine at a time and never comes back: *)
(* no two workers hold the same job, a held query has no result yet, and a  *)
(* query whose result was collected is not evaluated or collected again     *)
(* (performInspection, Inspect).                                            *)
HandledOnce ==
  /\ \A v, w \in Workers : job[v] # NoJob /\ job[v] = job[w] => v = w
  /\ Held \intersect (results \union loadFailed \union reported \union {collecting}) = {}
  /\ results \intersect (loadFailed \union reported \union {collecting}) = {}
  /\ loadFailed \intersect (reported \union executed \union erred) = {}

(* The results channel is sized len(queries) so that no worker waits for    *)
(* the collector: a worker about to send always finds room.                 *)
ResultsNeverBlock ==
  \A w \in Workers : pc[w] = "send" => Cardinality(results) < ResultsCap

(* close(results) happens after the last send: no goroutine can panic on a  *)
(* closed channel, and what the collector has not seen is still buffered.   *)
SendsBeforeClose ==
  resultsClosed => \A w \in Workers : pc[w] = "done" /\ job[w] = NoJob

(* When Inspect returns, every query has one verdict: its vulnerabilities   *)
(* were appended, and it was counted as executed, exactly when neither      *)
(* LoadQuery nor doRun failed.  FailedToExecuteQueries in the summary is    *)
(* the difference of these counts.                                          *)
AllAccounted ==
  collector = "done" =>
    /\ reported = executed
    /\ executed = Query \ (loadFailed \union erred)
    /\ results = {}

(* Unless two accesses of the unlocked map collided, failedQueries holds    *)
(* exactly the queries that failed to run or had a result rejected.         *)
FailuresRecorded ==
  collector = "done" /\ ~raced =>
    failedQueries = {QueryName[q] : q \in erred \union rejected}

(* How the caller of Inspect sees this call. *)
CallState ==
  IF crashed THEN "crashed"
  ELSE IF collector = "done" THEN "returned"
  ELSE IF collector = "failed" THEN "failed"
  ELSE "running"

(* The contract Inspect keeps towards the scan that called it.              *)
Contract == INSTANCE Inspection WITH ticks <- Cardinality(ticked), state <- CallState

(* Inspect fails before the first tick or sends one tick per query and then *)
(* returns, and, its goroutines being scheduled, it does return: the jobs   *)
(* and results channels are closed and no send or receive waits for ever.   *)
KeepsContract == Contract!FairSpec
============================================================================
