------------------------------ MODULE Results ------------------------------
(***************************************************************************)
(* What becomes of the results of a scan: they are made into a summary,    *)
(* the summary into reports and an exit code (Summary, Reports), and a     *)
(* finding in a Terraform file into a fix (SarifFix).  Each behaviour is   *)
(* one call.                                                               *)
(***************************************************************************)
EXTENDS Call

CONSTANTS Alphabet, Vanished, OutputPath,   \* as in Summary and Reports
          Scans,   \* set of [vulns, extraction, formats, name, fail, ignore]
          Fixes    \* set of [key, file, remediation]

(* The fields of a vulnerability that the summary reads (model.Vulnerability). *)
Fields == {"query", "name", "severity", "provider", "file", "line", "similarity", "key", "actual"}
(* The names of the formats (reportGenerators); html and pdf are left out. *)
Supported == {"json", "sarif", "glsast", "sonarqube", "cyclonedx", "junit", "asff", "csv", "codeclimate"}
ASSUME ScansTyped ==
  \A scan \in Scans :
    /\ scan.vulns \in Seq(ToSet(scan.vulns))
    /\ \A v \in ToSet(scan.vulns) : Fields \subseteq DOMAIN v /\ v = [f \in DOMAIN v |-> v[f]]
    /\ scan.formats \in Seq(Supported) /\ scan.name \in Seq(STRING) \ {<<>>}
    /\ IsFiniteSet(DOMAIN scan.extraction)

Model == INSTANCE Summary

(* A finding is in a file, and a file has no folder below it, neither the one that *)
(* the reports go to nor one that something was extracted to, whatever it is named. *)
ASSUME FilesAreNoFolders ==
  /\ OutputPath \in Seq(STRING)
  /\ \A scan \in Scans : \A v \in ToSet(scan.vulns) :
       /\ v.file \in Seq(STRING) \ {<<>>} /\ ~IsPrefix(v.file, OutputPath)
       /\ \A folder \in DOMAIN scan.extraction :
            /\ folder \in Seq(STRING) /\ scan.extraction[folder].path \in Seq(STRING) \ {<<>>}
            /\ ~IsPrefix(v.file, folder)
            /\ IsPrefix(folder, v.file) => ~IsPrefix(Model!Renamed(v.file, folder, scan.extraction[folder]), OutputPath)
Report == INSTANCE Reports
Sarif == INSTANCE SarifFix

ResultsInit == Called("report", Scans) \/ Called("fix", Fixes)

(* postScan.  The unique vulnerabilities, the extracted folders and the queries come *)
(* out of maps, in any order.                                                        *)
Reports(summary, vulns) ==
  [summary |-> summary, files |-> Report!GenerateReport(input.formats, input.name, summary),
   stats |-> Model!GenerateStats(vulns),
   exit |-> IF Model!ShowError("results", input.ignore) THEN Model!ResultsExitCode(summary.counters, input.fail) ELSE 0]
PostScan ==
  /\ call = "report"
  /\ \E vulns \in SetToSeqs(Model!Unique(input.vulns)), order \in SetToSeqs(DOMAIN input.extraction) :
       \E summary \in Model!CreateSummary(vulns, input.extraction, order, OutputPath) :
         Return(Reports(summary, vulns))

OfferFix ==
  /\ call = "fix"
  /\ Return(Sarif!BuildSarifIssue(Sarif!Locate(input.key, input.file.lines, 3, input.file.blocks),
                                  input.remediation, input.file.lines))

ResultsNext == PostScan \/ OfferFix

ResultsSpec == ResultsInit /\ [][ResultsNext]_vars

Reported == returned /\ call = "report"
FixOffered == returned /\ call = "fix"

-----------------------------------------------------------------------------
(* Reports.                                                                  *)

(* Of the entries of a report: the query, the last segment of the path, the line. *)
Places(entries) == [i \in DOMAIN entries |-> <<entries[i].query, Last(entries[i].file), entries[i].line>>]
SonarPlaces(issue) ==
  LET At(location) == <<issue.query, Last(location.file), location.line>>
  IN  <<At(issue.primary)>> \o [i \in DOMAIN issue.secondary |-> At(issue.secondary[i])]
PlacesIn(format, report) ==
  CASE format = "sonarqube" -> FlattenSeq([i \in DOMAIN report |-> SonarPlaces(report[i])])
    [] format = "junit" -> Places(FlattenSeq(report.suites))
    [] format = "cyclonedx" -> Places(FlattenSeq([i \in DOMAIN report |-> report[i].vulnerabilities]))
    [] OTHER -> Places(report)

(* The findings of a scan: results that differ in what a reader can see of them. *)
Distinct(vulns) ==
  {<<v.query, v.provider, v.file, v.line, v.similarity, v.key, v.actual>> : v \in {x \in ToSet(vulns) : x.severity # "TRACE"}}
Takes(format, finding) ==
  CASE format = "asff" -> finding[2] = "AWS"
    [] format = "cyclonedx" -> finding[3] \notin Vanished
    [] OTHER -> TRUE

(* What the vulnerabilities of a query share, unless an override of one result changes it. *)
SameMetadata(vulns) ==
  \A v, w \in ToSet(vulns) : v.query = w.query => v.severity = w.severity /\ v.provider = w.provider
(* No two files are shown under one name, as the files of two archives may be. *)
ShownApart ==
  Cardinality(DOMAIN output.summary.filePaths) = Cardinality({v.file : v \in ToSet(input.vulns)})

(* What the names of some reports begin with. *)
NamePrefixes == {"gl-sast-", "sonarqube-", "cyclonedx-", "junit-", "asff-", "codeclimate"}

(* Every finding is in every report that takes it, as often as there are findings  *)
(* at its place, whatever the order of the vulnerabilities, the folders and the     *)
(* formats; and no report overwrites another one unless the name that was asked for *)
(* has a "." or begins as a format's own name does (CreateSummary, the builders of  *)
(* pkg/report/model, ExportJSONReport).                                             *)
FindingsReported ==
  Reported /\ SameMetadata(input.vulns) /\ "." \notin ToSet(input.name) /\ Head(input.name) \notin NamePrefixes =>
    \A format \in {f \in ToSet(input.formats) : f # "sarif" /\ (f = "cyclonedx" => ShownApart)} :
      LET listed == PlacesIn(format, output.files[Report!ReportIn(format, input.name, output.summary).file])
          taken == {f \in Distinct(input.vulns) : Takes(format, f)}
          At(place) == {f \in taken : <<f[1], Last(f[3]), f[4]>> = place}
      IN  /\ \A i \in DOMAIN listed : At(listed[i]) # {}
          /\ \A f \in taken : LET place == <<f[1], Last(f[3]), f[4]>>
                              IN  Cardinality({i \in DOMAIN listed : listed[i] = place}) = Cardinality(At(place))

-----------------------------------------------------------------------------
(* Counts and the exit code.                                                 *)

Keys(vulns) == {Model!DedupKey(v) : v \in ToSet(vulns)}
(* An override of one result may give a query a second severity. *)
OneSeverity(vulns) ==
  \A v, w \in ToSet(vulns) : v.query = w.query => v.severity = w.severity

(* The summary counts every different vulnerability once, among the results or among *)
(* the materials, and so do the statistics, however often it was saved, under however *)
(* many queries they fall and in whatever order the maps give them; where a query has *)
(* one severity, the counter of each severity is the number of its vulnerabilities    *)
(* (getUniqueVulnerabilities, CreateSummary, generateStats).                          *)
CountedOnce ==
  Reported =>
    /\ output.summary.total + output.summary.resources = Cardinality(Keys(input.vulns))
    /\ output.stats.violations = Cardinality(Keys(input.vulns))
    /\ OneSeverity(input.vulns) =>
         \A s \in ToSet(Model!Severities) :
           output.summary.counters[s] =
             Cardinality({Model!DedupKey(v) : v \in {x \in ToSet(input.vulns) : x.severity = s}})

(* The severities to fail on that a vulnerability has. *)
Failing(scan) ==
  {i \in DOMAIN Model!Severities :
     /\ Model!Severities[i] \in scan.fail
     /\ \E v \in ToSet(scan.vulns) : v.severity = Model!Severities[i]}

(* The exit code is that of the most severe of the severities to fail on that was     *)
(* saved, and 0 when there is none, although it is read off the counters of a summary *)
(* of queries (ResultsExitCode, postScan).                                            *)
ExitCodeRight ==
  Reported /\ OneSeverity(input.vulns) /\ input.ignore \notin {"all", "results"} =>
    /\ Failing(input) = {} => output.exit = 0
    /\ \A i \in Failing(input) :
         (\A j \in Failing(input) : i <= j) => output.exit = <<60, 50, 40, 30, 20, 0>>[i]

(* What a scan ends with is what was saved: both of the above. *)
OutcomeRight == CountedOnce /\ ExitCodeRight

-----------------------------------------------------------------------------
(* Fixes.                                                                    *)

(* The lines of a file after a fix. *)
Applied(lines, fix) ==
  LET from == fix.from[1]
      head == SubSeq(lines[from], 1, fix.from[2] - 1)
      rest == SubSeq(lines[fix.to[1]], fix.to[2], Len(lines[fix.to[1]]))
      n == Len(fix.lines)
      middle == IF n = 0 THEN <<head \o rest>>
                ELSE [i \in 1 .. n |-> (IF i = 1 THEN head ELSE <<>>) \o fix.lines[i]
                                       \o (IF i = n THEN rest ELSE <<>>)]
  IN  SubSeq(lines, 1, from - 1) \o middle \o SubSeq(lines, fix.to[1] + 1, Len(lines))
SolidLines(lines) ==
  LET trimmed == [i \in DOMAIN lines |-> Sarif!Trim(lines[i])] IN SelectSeq(trimmed, LAMBDA l : l # <<>>)

(* A block of objects and calls only: an addition to it goes above its header. *)
OnlyStructures(block) ==
  \A i \in block.from + 1 .. block.to - 1 : Sarif!ContainingStructure(block, i).attr
(* The line holds a whole block, object or call. *)
OnOneLine(block, line) ==
  LET at == Sarif!ContainingStructure(block, line)
  IN  IF at.named THEN at.from = at.to ELSE block.from = block.to

(* An addition puts its lines between two lines of the finding's block and changes   *)
(* none of them; a replacement changes nothing but the value on the finding's line.  *)
(* The place is calculateInsertionPoint's and the edit TransformToSarifFix's: one    *)
(* counts lines for inserting, the other deletes from there to the finding's line.   *)
(* Lines that hold a whole structure and blocks of structures only are left out: the *)
(* place is wrong there (see the README).                                            *)
FixKeepsRest ==
  FixOffered /\ output.fix # <<>> =>
    LET old == input.file.lines
        new == Applied(old, output.fix[1])
        added == SolidLines(input.remediation.lines)
        there == output.found.line
        block == SelectSeq(input.file.blocks, LAMBDA b : there \in b.from .. b.to)[1]
        Upto(line) == Len(SolidLines(SubSeq(old, 1, line)))
        ends == Sarif!ValueOf(old[there])
    IN  ~OnOneLine(block, there) /\ (there = block.from => ~OnlyStructures(block)) =>
          CASE input.remediation.type = "addition" ->
                 \E k \in Upto(block.from) .. Upto(block.to - 1) :
                   SolidLines(new) = SubSeq(SolidLines(old), 1, k) \o added \o SubSeq(SolidLines(old), k + 1, Len(SolidLines(old)))
            [] input.remediation.type = "replacement" ->
                 /\ Len(new) = Len(old)
                 /\ \A i \in DOMAIN old \ {there} : new[i] = old[i]
                 /\ "=" \notin ToSet(input.remediation.after) =>
                      /\ IsPrefix(SubSeq(old[there], 1, ends[1] - 1), new[there])
                      /\ IsSuffix(SubSeq(old[there], ends[2] + 1, Len(old[there])), new[there])
            [] OTHER -> new = old
=============================================================================
