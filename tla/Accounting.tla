---------------------------- MODULE Accounting ----------------------------
(***************************************************************************)
(* What the goroutines of a scan add to the state they share: the tracker  *)
(* (internal/tracker/ci.go) and the storage (internal/storage/memory.go).  *)
(* While the sources are read the goroutines are the services, each of     *)
(* which runs sink (pkg/kics/sink.go) on its files one after another;      *)
(* during the scan they are the workers of Inspect, each of which runs     *)
(* doRun (pkg/engine/inspector.go) on its queries.                         *)
(*                                                                         *)
(* A piece of work is the sequence of calls it makes.  Some of them take a *)
(* lock; the others are plain += and append on shared memory: a goroutine  *)
(* reads, then writes what it read plus its own share, and whatever was    *)
(* written in between is gone.  A slice header is read and written as one  *)
(* value here.  Parsers and evaluation are constants of files and queries. *)
(***************************************************************************)
EXTENDS Integers, Sequences, FiniteSets, SequencesExt, Functions

CONSTANTS
  Goroutines,
  Scenarios,     \* what each goroutine works on: functions to sequences of work
  File,          \* what sink finds in each file
  Query,         \* the aggregation of each query and how its evaluation ends
  Unmarshalled   \* the documents json.Marshal refuses

Files == DOMAIN File
Queries == DOMAIN Query
Works == Files \union Queries
Documents == UNION {ToSet(File[f].docs) : f \in Files}

(* The counters that are added to. *)
Counter ==
  {"FoundCountLines", "ParsedCountLines", "IgnoreCountLines", "FoundResources", "ExecutedQueries"}

Nobody == "nobody"

ASSUME GoroutinesNamed == IsFiniteSet(Goroutines) /\ Nobody \notin Goroutines
ASSUME WorkDisjoint == Files \intersect Queries = {}
ASSUME ScenariosTyped == Scenarios \subseteq [Goroutines -> Seq(Works)]
ASSUME FilesTyped ==
  \A f \in Files :
    /\ File[f].lines \in Nat /\ File[f].resources \in Nat /\ File[f].resolved \in Nat
    /\ File[f].total \in Nat /\ File[f].ignored \in Nat
    /\ File[f].docs \in Seq(Documents)
    /\ File[f].readable \in BOOLEAN /\ File[f].parses \in BOOLEAN
ASSUME QueriesTyped ==
  \A q \in Queries :
    Query[q].aggregation \in Nat /\ Query[q].outcome \in {"ok", "failed", "undetected"}

VARIABLES
  scenario,   \* the scenario of this run
  left,       \* the work each goroutine has not begun
  calls,      \* the calls left of the work each goroutine is doing
  seen,       \* the goroutines between the read and the write of their first call
  value,      \* the counter or the length each of them has read
  header,     \* the storage's slice each of them has read
  mutex,      \* who holds trackerMu
  count,      \* the counters
  foundBag,   \* BagOfFilesFound
  parsedBag,  \* BagOfFilesParse
  FoundFiles, ParsedFiles,
  allFiles,   \* the documents in the storage
  files,      \* s.files of each service, what Inspect will be given
  raced       \* counters and "allFiles" on which two calls overlapped (history)

bagVars == <<foundBag, parsedBag, FoundFiles, ParsedFiles>>
vars == <<scenario, left, calls, seen, value, header, mutex, count, bagVars, allFiles, files, raced>>
----------------------------------------------------------------------------
Found(f)      == [op |-> "found", of |-> f, by |-> 1]
Parsed(f)     == [op |-> "parsed", of |-> f, by |-> 1]
Save(d)       == [op |-> "save", of |-> d, by |-> 1]
Add(c, n)     == [op |-> "add", of |-> c, by |-> n]
LockAdd(c, n) == [op |-> "lockAdd", of |-> c, by |-> n]

Marshals(d) == d \notin Unmarshalled

Parses(f) == File[f].readable /\ File[f].parses

(* Faulty: a document that cannot be marshalled ends the loop. *)
SavedUntilFailure(f) ==
  LET docs == File[f].docs
      Good(i) == \A j \in 1 .. i : Marshals(docs[j])
  IN  SubSeq(docs, 1, Cardinality({i \in DOMAIN docs : Good(i)}))

(* those of some documents that can be marshalled, in their order *)
Marshallable(docs) ==
  FlattenSeq([i \in DOMAIN docs |-> IF Marshals(docs[i]) THEN <<docs[i]>> ELSE <<>>])

(* the documents of a file that sink saves: one that cannot be marshalled   *)
(* is passed over                                                           *)
Saved(f) == Marshallable(File[f].docs)

(* the second half of sink, which a file that cannot be read or parsed does *)
(* not reach                                                                *)
ParsedCalls(f) ==
  IF ~Parses(f) THEN <<>>
  ELSE <<Add("FoundCountLines", File[f].resolved)>> \o [i \in DOMAIN Saved(f) |-> Save(Saved(f)[i])] \o
       <<Parsed(f), Add("ParsedCountLines", File[f].total - File[f].ignored),
         Add("IgnoreCountLines", File[f].ignored)>>

(* sink: a file that cannot be read, or is larger than the limit, is found  *)
(* with no lines and no resources                                           *)
SinkCalls(f) ==
  <<Found(f),
    Add("FoundCountLines", IF File[f].readable THEN File[f].lines ELSE 0),
    Add("FoundResources", IF File[f].readable THEN File[f].resources ELSE 0)>> \o ParsedCalls(f)

(* Faulty: a query is counted as executed whatever doRun returned. *)
RunCallsAlways(q) ==
  IF Query[q].outcome = "undetected"
  THEN <<Add("ExecutedQueries", -1), LockAdd("ExecutedQueries", Query[q].aggregation)>>
  ELSE <<LockAdd("ExecutedQueries", Query[q].aggregation)>>

(* performInspection: a query that ran is counted, after FailedDetectLine   *)
(* has taken one off when a line of its results was not found.              *)
RunCalls(q) ==
  CASE Query[q].outcome = "failed" -> <<>>
    [] Query[q].outcome = "undetected" ->
         <<Add("ExecutedQueries", -1), LockAdd("ExecutedQueries", Query[q].aggregation)>>
    [] Query[q].outcome = "ok" -> <<LockAdd("ExecutedQueries", Query[q].aggregation)>>

WorkCalls(w) == IF w \in Files THEN SinkCalls(w) ELSE RunCalls(w)

Init ==
  /\ scenario \in Scenarios
  /\ left = scenario
  /\ calls = [g \in Goroutines |-> <<>>]
  /\ seen = {} /\ value = [g \in Goroutines |-> 0] /\ header = [g \in Goroutines |-> {}]
  /\ mutex = Nobody
  /\ count = [c \in Counter |-> 0]
  /\ foundBag = [f \in Files |-> 0] /\ parsedBag = [f \in Files |-> 0]
  /\ FoundFiles = 0 /\ ParsedFiles = 0
  /\ allFiles = {} /\ files = [g \in Goroutines |-> <<>>]
  /\ raced = {}
----------------------------------------------------------------------------
(* the next call of a goroutine *)
Call(g) == Head(calls[g])
Calling(g, op) == calls[g] # <<>> /\ Call(g).op = op

Over(g) == calls' = [calls EXCEPT ![g] = Tail(@)]

(* the walk hands the service its next file, the jobs channel the worker    *)
(* its next query                                                           *)
Begin(g) ==
  /\ calls[g] = <<>> /\ left[g] # <<>>
  /\ left' = [left EXCEPT ![g] = Tail(@)]
  /\ calls' = [calls EXCEPT ![g] = WorkCalls(Head(left[g]))]
  /\ UNCHANGED <<scenario, seen, value, header, mutex, count, bagVars, allFiles, files, raced>>

(* TrackFileFound, under syncFileMutex: a path counts once *)
TrackFileFound(g) ==
  /\ Calling(g, "found")
  /\ foundBag' = [foundBag EXCEPT ![Call(g).of] = @ + 1]
  /\ FoundFiles' = IF foundBag[Call(g).of] = 0 THEN FoundFiles + 1 ELSE FoundFiles
  /\ Over(g)
  /\ UNCHANGED <<scenario, left, seen, value, header, mutex, count, parsedBag, ParsedFiles,
                 allFiles, files, raced>>

TrackFileParse(g) ==
  /\ Calling(g, "parsed")
  /\ parsedBag' = [parsedBag EXCEPT ![Call(g).of] = @ + 1]
  /\ ParsedFiles' = IF parsedBag[Call(g).of] = 0 THEN ParsedFiles + 1 ELSE ParsedFiles
  /\ Over(g)
  /\ UNCHANGED <<scenario, left, seen, value, header, mutex, count, foundBag, FoundFiles,
                 allFiles, files, raced>>
----------------------------------------------------------------------------
(* the memory the next call of a goroutine reads and writes *)
Target(g) == IF Call(g).op = "save" THEN "allFiles" ELSE Call(g).of

(* the call begins while another goroutine is in the middle of its own *)
Racing(g) == IF \E h \in seen \ {g} : Target(h) = Target(g) THEN {Target(g)} ELSE {}

(* Faulty: TrackQueryExecution does not wait for the lock. *)
ReadCounterUnlocked(g) ==
  /\ Calling(g, "add") \/ Calling(g, "lockAdd")
  /\ g \notin seen
  /\ seen' = seen \union {g}
  /\ value' = [value EXCEPT ![g] = count[Call(g).of]]
  /\ raced' = raced \union Racing(g)
  /\ UNCHANGED <<scenario, left, calls, header, mutex, count, bagVars, allFiles, files>>

(* TrackFileFoundCountLines and the like: the counter is read; only         *)
(* TrackQueryExecution takes trackerMu for it                               *)
ReadCounter(g) ==
  /\ Calling(g, "add") \/ Calling(g, "lockAdd")
  /\ g \notin seen
  /\ Call(g).op = "lockAdd" => mutex = Nobody
  /\ mutex' = IF Call(g).op = "lockAdd" THEN g ELSE mutex
  /\ seen' = seen \union {g}
  /\ value' = [value EXCEPT ![g] = count[Call(g).of]]
  /\ raced' = raced \union Racing(g)
  /\ UNCHANGED <<scenario, left, calls, header, count, bagVars, allFiles, files>>

(* and written *)
WriteCounter(g) ==
  /\ Calling(g, "add") \/ Calling(g, "lockAdd")
  /\ g \in seen
  /\ count' = [count EXCEPT ![Call(g).of] = value[g] + Call(g).by]
  /\ mutex' = IF Call(g).op = "lockAdd" THEN Nobody ELSE mutex
  /\ seen' = seen \ {g} /\ value' = [value EXCEPT ![g] = 0]
  /\ Over(g)
  /\ UNCHANGED <<scenario, left, header, bagVars, allFiles, files, raced>>

(* SaveFile: append to allFiles, and then to the service's own files *)
ReadFiles(g) ==
  /\ Calling(g, "save")
  /\ g \notin seen
  /\ seen' = seen \union {g}
  /\ header' = [header EXCEPT ![g] = allFiles]
  /\ raced' = raced \union Racing(g)
  /\ UNCHANGED <<scenario, left, calls, value, mutex, count, bagVars, allFiles, files>>

SaveFile(g) ==
  /\ Calling(g, "save")
  /\ g \in seen
  /\ allFiles' = header[g] \union {Call(g).of}
  /\ files' = [files EXCEPT ![g] = Append(@, Call(g).of)]
  /\ seen' = seen \ {g} /\ header' = [header EXCEPT ![g] = {}]
  /\ Over(g)
  /\ UNCHANGED <<scenario, left, value, mutex, count, bagVars, raced>>
----------------------------------------------------------------------------
Step(g) ==
  \/ Begin(g) \/ TrackFileFound(g) \/ TrackFileParse(g)
  \/ ReadCounter(g) \/ WriteCounter(g) \/ ReadFiles(g) \/ SaveFile(g)

(* every service has read its sources, or every worker its queries *)
Finished == \A g \in Goroutines : left[g] = <<>> /\ calls[g] = <<>>

Terminated == Finished /\ UNCHANGED vars

Next == (\E g \in Goroutines : Step(g)) \/ Terminated

Spec == Init /\ [][Next]_vars
----------------------------------------------------------------------------
(* what a service should be given of a piece of work *)
Own(w) == IF w \in Files /\ Parses(w) THEN Marshallable(File[w].docs) ELSE <<>>

(* What a service gives to Inspect is its own: the documents that could be  *)
(* marshalled of the files that parsed, in the order of its walk, whatever  *)
(* the other services do to the storage they share (sink, saveToFile).      *)
InspectsOwnFiles ==
  Finished => \A g \in Goroutines :
    files[g] = FlattenSeq([i \in DOMAIN scenario[g] |-> Own(scenario[g][i])])

(* What the summary should say of a piece of work. *)
Share(w, c) ==
  IF w \in Queries
  THEN IF c = "ExecutedQueries" /\ Query[w].outcome # "failed" THEN Query[w].aggregation ELSE 0
  ELSE CASE c = "FoundCountLines" -> (IF File[w].readable THEN File[w].lines ELSE 0) +
                                     (IF Parses(w) THEN File[w].resolved ELSE 0)
         [] c = "FoundResources"   -> IF File[w].readable THEN File[w].resources ELSE 0
         [] c = "ParsedCountLines" -> IF Parses(w) THEN File[w].total - File[w].ignored ELSE 0
         [] c = "IgnoreCountLines" -> IF Parses(w) THEN File[w].ignored ELSE 0
         [] OTHER -> 0

Total(share) ==
  SumFunctionOnSet(
    [g \in Goroutines |-> SumFunction([i \in DOMAIN scenario[g] |-> share[scenario[g][i]]])],
    Goroutines)

Unfound(w) == IF w \in Queries /\ Query[w].outcome = "undetected" THEN 1 ELSE 0

Full(c) == Total([w \in Works |-> Share(w, c)])
Undetected == Total([w \in Works |-> Unfound(w)])

(* what a piece of work adds at most: total - ignored may be below zero *)
Most(w, c) == IF Share(w, c) < 0 THEN 0 ELSE Share(w, c)

(* Lost updates only lose: no counter of the summary ever says more than    *)
(* there is to add.  A query that failed is never taken for an executed one. *)
NeverOvercounted == \A c \in Counter : count[c] <= Total([w \in Works |-> Most(w, c)])

(* Where no two updates overlapped the summary is exact: each counter is    *)
(* the sum over the files or queries, a query with an undetected line       *)
(* counts one less, and the storage has the files of every service.  Two    *)
(* TrackQueryExecution never overlap: the count of executed queries is at   *)
(* risk only where FailedDetectLine is called.                              *)
ExactWithoutRaces ==
  /\ "ExecutedQueries" \in raced => Undetected > 0
  /\ Finished =>
       /\ \A c \in Counter \ raced :
            count[c] = Full(c) - (IF c = "ExecutedQueries" THEN Undetected ELSE 0)
       /\ "allFiles" \notin raced => allFiles = UNION {ToSet(files[g]) : g \in Goroutines}

(* service.go:47 "TrackFileFoundCountResources should increment the number  *)
(* of resources to be scanned": no file's resources are missing.            *)
ResourcesCounted == Finished => count["FoundResources"] = Full("FoundResources")
============================================================================
