------------------------------ MODULE Summary ------------------------------
(***************************************************************************)
(* From the vulnerabilities that were saved to the summary of the scan and *)
(* its exit code (internal/storage/memory.go, pkg/model/summary.go,        *)
(* pkg/scan/post_scan.go, internal/console/helpers/exit_handler.go).       *)
(*                                                                         *)
(* A vulnerability is [query, name, severity, provider, file, line,        *)
(* similarity, key, actual, resource]; files are paths, as in Paths, and   *)
(* resource is the block that a Terraform finding is in.                   *)
(***************************************************************************)
EXTENDS Integers, Sequences, FiniteSets, TLC, SequencesExt

CONSTANT Alphabet   \* the names of the queries in their order

Path == INSTANCE Paths

Severities == <<"CRITICAL", "HIGH", "MEDIUM", "LOW", "INFO", "TRACE">>
Position(seq, x) == CHOOSE i \in DOMAIN seq : seq[i] = x

(* getUniqueVulnerabilities: of those with one key the last. *)
DedupKey(v) == <<v.query, v.file, v.line, v.similarity, v.key, v.actual>>
(* Faulty: only neighbours are compared. *)
UniqueNeighbours(vulns) ==
  {vulns[i] : i \in {k \in DOMAIN vulns : k = Len(vulns) \/ DedupKey(vulns[k]) # DedupKey(vulns[k + 1])}}
Unique(vulns) ==
  LET Later(i) == {j \in DOMAIN vulns : j > i /\ DedupKey(vulns[j]) = DedupKey(vulns[i])}
  IN  {vulns[i] : i \in {k \in DOMAIN vulns : Later(k) = {}}}

(* replaceIfTemporaryPath: extraction maps temporary folders to [local, path]; the *)
(* map is ranged over in any order, and a folder that is not the file's undoes    *)
(* the replacement that one before it made.                                       *)
Renamed(file, folder, from) ==
  (IF from.local THEN <<Last(from.path)>> ELSE from.path) \o SubSeq(file, Len(folder) + 1, Len(file))
ReplaceIfTemporaryPath(file, extraction, order) ==
  LET Replaced(r, key) ==
        IF r.returned THEN r
        ELSE IF ~IsPrefix(key, file) THEN [path |-> file, returned |-> FALSE]
        ELSE [path |-> Renamed(file, key, extraction[key]), returned |-> ~extraction[key].local]
      at[i \in 0 .. Len(order)] == IF i = 0 THEN [path |-> file, returned |-> FALSE] ELSE Replaced(at[i - 1], order[i])
  IN  at[Len(order)].path

(* resolvePath, getRelativePath *)
ResolvePretty(pretty, downloadDir) ==
  LET relative == Path!Relative(downloadDir, pretty) IN IF relative = <<>> THEN pretty ELSE relative
ResolvePath(file, extraction, order, downloadDir) ==
  ResolvePretty(ReplaceIfTemporaryPath(file, extraction, order), downloadDir)

(* The order of the queries; a severity that is none of the known ones comes first. *)
SeverityRank(s) == IF s \in ToSet(Severities) THEN Position(Severities, s) ELSE 1
ComesBefore(p, q) ==
  \/ SeverityRank(p.severity) < SeverityRank(q.severity)
  \/ SeverityRank(p.severity) = SeverityRank(q.severity) /\ Position(Alphabet, p.name) < Position(Alphabet, q.name)

(* The queries of the vulnerabilities: each as its first vulnerability has it, and *)
(* all of its vulnerabilities as its files.                                        *)
QueryOf(id, vulns, paths) ==
  LET shown == [i \in DOMAIN vulns |-> [vulns[i] EXCEPT !.file = paths[i]]]
      own == FlattenSeq([i \in DOMAIN shown |-> IF shown[i].query = id THEN <<shown[i]>> ELSE <<>>])
  IN  [id |-> id, name |-> own[1].name, severity |-> own[1].severity, provider |-> own[1].provider, files |-> own]

(* sort.Slice: queries that compare equal come in any order, as the map gives them. *)
Sorted(queries) == \A i, j \in DOMAIN queries : i < j => ~ComesBefore(queries[j], queries[i])
Sortings(queries) == {s \in SetToSeqs(queries) : Sorted(s)}

(* CreateSummary: the summaries that there may be. *)
Count(queries) == SumFunction([q \in queries |-> Len(q.files)])
SummaryOf(queries, reported, sorted, filePaths) ==
  [queries |-> sorted,
   materials |-> queries \ reported,
   counters |-> [s \in ToSet(Severities) \union {q.severity : q \in queries} |->
                   Count({q \in queries : q.severity = s})],
   total |-> Count(reported), resources |-> Count(queries \ reported),
   filePaths |-> filePaths]
FilePaths(vulns, paths) ==
  [path \in ToSet(paths) |-> vulns[Max({i \in DOMAIN vulns : paths[i] = path})].file]
Summarize(vulns, paths) ==
  LET queries == {QueryOf(id, vulns, paths) : id \in {v.query : v \in ToSet(vulns)}}
      reported == {q \in queries : q.severity # "TRACE"}
  IN  {SummaryOf(queries, reported, sorted, FilePaths(vulns, paths)) : sorted \in Sortings(reported)}
CreateSummary(vulns, extraction, order, downloadDir) ==
  Summarize(vulns, [i \in DOMAIN vulns |-> ResolvePath(vulns[i].file, extraction, order, downloadDir)])

(* ResultsExitCode, ShowError.  shouldFail and shouldIgnore are the two arguments. *)
ResultsExitCode(counters, shouldFail) ==
  LET codes == <<60, 50, 40, 30, 20, 0>>
      failing == {i \in DOMAIN Severities : Severities[i] \in shouldFail /\ counters[Severities[i]] > 0}
  IN  IF failing = {} THEN 0 ELSE codes[Min(failing)]
ShowError(kind, shouldIgnore) == shouldIgnore \notin {"all", kind}

(* generateStats: the violations and the queries that found them, by severity. *)
GenerateStats(vulns) ==
  LET With(s) == SelectSeq(vulns, LAMBDA v : v.severity = s)
  IN  [violations |-> Len(vulns),
       breakdowns |-> [s \in {t \in ToSet(Severities) : With(t) # <<>>} |->
                         [i \in DOMAIN With(s) |-> With(s)[i].query]]]
=============================================================================
