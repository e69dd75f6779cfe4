------------------------------ MODULE Reports ------------------------------
(***************************************************************************)
(* The reports of a summary and the files they are written to              *)
(* (pkg/report, pkg/report/model, GenerateReport of                        *)
(* internal/console/helpers/helpers.go).  Of an entry what tells findings  *)
(* apart is kept: the query, the file, the line and what else the format   *)
(* has.  File names are sequences of pieces.  html and pdf are left out.   *)
(***************************************************************************)
EXTENDS Integers, Sequences, FiniteSets, TLC, SequencesExt

CONSTANTS Vanished,   \* the files that cannot be read when the reports are made
          OutputPath    \* where they are written

(* The files of a query, and of all queries, in order. *)
EachFile(query, Entry(_, _)) == [j \in DOMAIN query.files |-> Entry(query, query.files[j])]
ForEachFile(queries, Entry(_, _)) == FlattenSeq([i \in DOMAIN queries |-> EachFile(queries[i], Entry)])

Json(queries) ==
  ForEachFile(queries, LAMBDA q, f : [query |-> q.id, severity |-> q.severity, file |-> f.file, line |-> f.line,
                                      similarity |-> f.similarity, key |-> f.key, actual |-> f.actual])
Csv(queries) == Json(queries)

CodeClimateSeverity ==
  "TRACE" :> "info" @@ "INFO" :> "info" @@ "LOW" :> "minor" @@ "MEDIUM" :> "major" @@ "HIGH" :> "critical"
  @@ "CRITICAL" :> "blocker"
LevelIn(levels, severity) == IF severity \in DOMAIN levels THEN levels[severity] ELSE ""
CodeClimate(queries) ==
  ForEachFile(queries, LAMBDA q, f : [query |-> q.id, severity |-> LevelIn(CodeClimateSeverity, q.severity),
                                      file |-> f.file, line |-> f.line, similarity |-> f.similarity])

(* GenerateTestEntry, FinishReport: a suite of tests per query, all of them failed. *)
JUnit(queries) ==
  [suites |-> [i \in DOMAIN queries |-> EachFile(queries[i], LAMBDA q, f :
                 [query |-> q.id, severity |-> q.severity, file |-> f.file, line |-> f.line, actual |-> f.actual])],
   failures |-> FoldLeft(LAMBDA n, q : n + Len(q.files), 0, queries)]

GitlabSAST(queries) ==
  ForEachFile(queries, LAMBDA q, f : [query |-> q.id, severity |-> q.severity, file |-> f.file, line |-> f.line,
                                      similarity |-> f.similarity])

SonarQubeSeverity ==
  "INFO" :> "INFO" @@ "LOW" :> "MINOR" @@ "MEDIUM" :> "MAJOR" @@ "HIGH" :> "CRITICAL" @@ "CRITICAL" :> "BLOCKER"
BuildLocation(index, query) == [file |-> query.files[index].file, line |-> query.files[index].line]
(* Faulty: the index within the tail is taken for the index of the file. *)
TailLocations(query) == [i \in 1 .. Len(query.files) - 1 |-> BuildLocation(i, query)]
SecondaryLocations(query) == [i \in 1 .. Len(query.files) - 1 |-> BuildLocation(i + 1, query)]
SonarQube(queries) ==
  [i \in DOMAIN queries |->
     [query |-> queries[i].id, severity |-> LevelIn(SonarQubeSeverity, queries[i].severity),
      primary |-> BuildLocation(1, queries[i]), secondary |-> SecondaryLocations(queries[i])]]

(* getFindingsPerQuery, BuildASFF: the findings of AWS queries only. *)
FindingsPerQuery(query) ==
  IF query.provider # "AWS" THEN <<>>
  ELSE EachFile(query, LAMBDA q, f :
         [query |-> q.id, severity |-> IF q.severity = "INFO" THEN "INFORMATIONAL" ELSE q.severity,
          file |-> f.file, line |-> f.line, similarity |-> f.similarity, actual |-> f.actual])
ASFF(queries) == FlattenSeq([i \in DOMAIN queries |-> FindingsPerQuery(queries[i])])

(* getAllFiles: the path of the first finding in each file. *)
AllFiles(queries) ==
  LET files == FlattenSeq([i \in DOMAIN queries |-> queries[i].files])
      met[i \in 0 .. Len(files)] ==
        IF i = 0 THEN <<>>
        ELSE IF files[i].file \in ToSet(met[i - 1]) THEN met[i - 1] ELSE Append(met[i - 1], files[i].file)
  IN  met[Len(files)]
(* BuildCycloneDxReport: a component for every file that can be read. *)
Among(s, P) == FlattenSeq([i \in DOMAIN s |-> IF s[i] \in P THEN <<s[i]>> ELSE <<>>])
CycloneDx(queries, filePaths) ==
  LET files == AllFiles(queries)
      readable == Among(files, {path \in ToSet(files) : filePaths[path] \notin Vanished})
      all == ForEachFile(queries, LAMBDA q, f : [query |-> q.id, severity |-> q.severity, file |-> f.file,
                                                 line |-> f.line, actual |-> f.actual])
      Vulnerabilities(path) == Among(all, {e \in ToSet(all) : e.file = path})
  IN  [i \in DOMAIN readable |->
         [name |-> readable[i], content |-> filePaths[readable[i]], vulnerabilities |-> Vulnerabilities(readable[i])]]

SarifLevel ==
  "INFO" :> "none" @@ "LOW" :> "none" @@ "MEDIUM" :> "note" @@ "HIGH" :> "warning" @@ "CRITICAL" :> "error"
(* BuildSarifIssue, buildSarifRule, ResolveFilepaths: a rule per query, under its  *)
(* name, and a result per finding that is in a resource.                           *)
Sarif(queries) ==
  LET Uri(path) ==
        LET named == SelectSeq(path, LAMBDA segment : segment # "..")
        IN  IF IsStrictPrefix(OutputPath, named) THEN SubSeq(named, Len(OutputPath) + 1, Len(named)) ELSE named
      Results(i) ==
        ForEachFile(<<[queries[i] EXCEPT !.files = SelectSeq(@, LAMBDA f : f.resource # <<>>)]>>,
                    LAMBDA q, f : [rule |-> q.name, index |-> i, level |-> LevelIn(SarifLevel, q.severity),
                                   file |-> Uri(f.file), region |-> f.resource, actual |-> f.actual])
  IN  [rules |-> [i \in DOMAIN queries |-> [id |-> queries[i].name, full |-> queries[i].id]],
       results |-> FlattenSeq([i \in DOMAIN queries |-> Results(i)])]

-----------------------------------------------------------------------------
(* Names of files.                                                           *)

HasEnding(name, ext) == IsSuffix(<<".", ext>>, name)
Ending(name, ext) == IF HasEnding(name, ext) THEN name ELSE name \o <<".", ext>>
Prefixed(name, prefix) == IF IsPrefix(<<prefix>>, name) THEN name ELSE <<prefix>> \o name
(* ExportJSONReport: any "." in the name counts as an extension. *)
JsonFile(name) == IF "." \in ToSet(name) THEN name ELSE name \o <<".", "json">>

(* Print*Report: the file and the report of a format. *)
Printed(file, report) == [file |-> file, report |-> report]
PrintJSON(name, summary) == Printed(JsonFile(name), Json(summary.queries))
PrintSarif(name, summary) == Printed(JsonFile(Ending(name, "sarif")), Sarif(summary.queries))
PrintGitlabSAST(name, summary) ==
  LET bare == IF HasEnding(name, "glsast") THEN SubSeq(name, 1, Len(name) - 2) ELSE name
  IN  Printed(JsonFile(Prefixed(Ending(bare, "json"), "gl-sast-")), GitlabSAST(summary.queries))
PrintSonarQube(name, summary) ==
  Printed(JsonFile(Prefixed(Ending(name, "json"), "sonarqube-")), SonarQube(summary.queries))
PrintCycloneDx(name, summary) ==
  Printed(Ending(Prefixed(name, "cyclonedx-"), "xml"), CycloneDx(summary.queries, summary.filePaths))
PrintJUnit(name, summary) == Printed(Ending(Prefixed(name, "junit-"), "xml"), JUnit(summary.queries))
PrintASFF(name, summary) == Printed(JsonFile(Prefixed(name, "asff-")), ASFF(summary.queries))
(* The prefix is looked for without its "-". *)
PrintCodeClimate(name, summary) ==
  LET prefixed == IF IsPrefix(<<"codeclimate">>, name) THEN name ELSE <<"codeclimate", "-">> \o name
  IN  Printed(JsonFile(prefixed), CodeClimate(summary.queries))
PrintCSV(name, summary) == Printed(Ending(name, "csv"), Csv(summary.queries))

ReportIn(format, name, summary) ==
  CASE format = "json" -> PrintJSON(name, summary)
    [] format = "sarif" -> PrintSarif(name, summary)
    [] format = "glsast" -> PrintGitlabSAST(name, summary)
    [] format = "sonarqube" -> PrintSonarQube(name, summary)
    [] format = "cyclonedx" -> PrintCycloneDx(name, summary)
    [] format = "junit" -> PrintJUnit(name, summary)
    [] format = "asff" -> PrintASFF(name, summary)
    [] format = "codeclimate" -> PrintCodeClimate(name, summary)
    [] format = "csv" -> PrintCSV(name, summary)

Overwrite(files, printed) ==
  [file \in DOMAIN files \union {printed.file} |-> IF file = printed.file THEN printed.report ELSE files[file]]
(* printOutput, GenerateReport: the formats in their order, json when there is none; *)
(* each overwrites the file of its name.                                             *)
GenerateReport(formats, name, summary) ==
  LET wanted == IF formats = <<>> THEN <<"json">> ELSE formats
      written[i \in 0 .. Len(wanted)] ==
        IF i = 0 THEN <<>> ELSE Overwrite(written[i - 1], ReportIn(wanted[i], name, summary))
  IN  written[Len(wanted)]
=============================================================================
