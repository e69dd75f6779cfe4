----------------------------- MODULE MCResults -----------------------------
(***************************************************************************)
(* Scans with up to three vulnerabilities of two queries in two files, one *)
(* of them in an archive and one not readable any more; and remediations   *)
(* of attributes, blocks, lists and calls of a Terraform file.             *)
(***************************************************************************)
EXTENDS MCFindings, Results

MCAlphabet == <<"Bucket Public", "Key Open">>
Archived == <<"/", "tmp", "k1", "main.tf">>
Plain == <<"/", "repo", "main.tf">>
Gone == <<"/", "repo", "gone.yaml">>
MCVanished == {Gone}
MCOutputPath == <<"/", "repo">>

Vulnerability(query, file, line, key) ==
  [query |-> query, name |-> IF query = "q1" THEN "Key Open" ELSE "Bucket Public",
   severity |-> IF query = "q3" THEN "TRACE" ELSE IF query = "q1" THEN "HIGH" ELSE "LOW",
   provider |-> IF query = "q1" THEN "AWS" ELSE "GCP", file |-> file, line |-> line, similarity |-> <<query, key>>,
   key |-> key, actual |-> "open", resource |-> IF file = Gone THEN <<>> ELSE <<1, 4>>]
Vulnerabilities ==
  {Vulnerability("q1", Plain, 2, "a"), Vulnerability("q1", Plain, 2, "b"), Vulnerability("q1", Archived, 2, "a"),
   Vulnerability("q2", Gone, 3, "a"), Vulnerability("q2", Plain, 2, "a"), Vulnerability("q3", Plain, 1, "c")}
(* In any order; the last may be reported twice, as by overlapping files. *)
SavedInOrder ==
  {s \in UNION {[1 .. n -> Vulnerabilities] : n \in 0 .. 3} : \A i, j \in DOMAIN s : i < j /\ s[i] = s[j] => j = Len(s)}
Saved == {s \in SavedInOrder : Len(s) < 3 \/ s[1].query = "q1"}
(* One with the same key, but in another block, after another one. *)
SavedAgain == {<<v, w, [v EXCEPT !.resource = <<9, 9>>]>> : v, w \in Vulnerabilities}
(* Two queries of one name and severity, as one rule has on two platforms. *)
Namesakes == {<<v, [v EXCEPT !.query = "q4"], w>> : v \in {x \in Vulnerabilities : x.query = "q2"}, w \in Vulnerabilities}

Extraction == <<"/", "tmp", "k1">> :> [local |-> TRUE, path |-> <<"/", "repo", "src.zip">>]
Formats == <<"json", "glsast", "sonarqube", "cyclonedx", "junit", "asff", "csv", "codeclimate", "sarif">>
ScanOf(vulns, formats, name, fail) ==
  [vulns |-> vulns, extraction |-> Extraction, formats |-> formats, name |-> name, fail |-> fail, ignore |-> "none"]
MCScans ==
  {ScanOf(s, Formats, <<"results">>, {"HIGH", "LOW"}) : s \in Saved \union SavedAgain \union Namesakes}
  \union {[ScanOf(<<v>>, <<>>, <<"results">>, {}) EXCEPT !.extraction = <<>>, !.ignore = "results"] : v \in Vulnerabilities}
  \union {ScanOf(<<v>>, <<"sarif", "json">>, <<"kics-result", ".", "sarif">>, {"HIGH"}) : v \in Vulnerabilities}

-----------------------------------------------------------------------------
FixLines ==
  << Header(X("b")),
       Set(2, X("acl"), X("public")) \o <<" ", "#", " ", "x">>,
       Row(2, <<X("#"), X("zone")>>),
       Row(2, <<X("days"), X("="), X("1")>>),
       Row(2, <<X("versioning"), X("{")>>),
         Set(4, X("enabled"), X("yes")),
         Row(4, <<X("mfa"), X("="), X("true")>>),
       Close(2),
       Row(2, <<X("rules"), X("="), <<"[">> \o Quote(X("p")) \o <<",", " ">> \o Quote(X("q")) \o <<"]">>>>),
       Row(2, <<X("hash"), X("="), <<"md5", "(">> \o Quote(X("p")) \o X(")")>>),
       Row(2, <<X("tags"), X("="), X("{")>>),
         Set(4, X("team"), X("a")),
       Close(2),
     Close(0),
     Row(0, <<>>),
     Header(X("c")),
       Row(2, <<X("tags"), X("="), <<"merge", "(", "local">> \o X(","), X("{")>>),
         Set(4, X("team"), X("z")),
       Row(2, <<<<"}", ")">>>>),
     Close(0),
     Header(X("d")),
       Set(2, X("acl"), X("public")),
     Close(0),
     Header(X("f")),
       Row(2, <<X("policy"), X("="), <<"<<", "EOF">>>>),
         Row(4, <<X("text")>>),
       Row(0, <<X("EOF")>>),
     Close(0) >>
FixBlocks ==
  << Block(1, 14, <<Block(5, 8, <<>>, <<Attr(6, 6, "other"), Attr(7, 7, "other")>>)>>,
           <<Attr(2, 2, "other"), Attr(4, 4, "other"), Attr(9, 9, "other"), Attr(10, 10, "call"), Attr(11, 13, "object")>>),
     Block(16, 20, <<>>, <<Attr(17, 19, "call")>>),
     Block(21, 23, <<>>, <<Attr(22, 22, "other")>>),
     Block(24, 28, <<>>, <<Attr(25, 27, "other")>>) >>
Fixed == [FileOf("fix.tf", "TERRAFORM", FixLines) EXCEPT !.blocks = FixBlocks]
FixKeys ==
  {Labelled(X(l)) : l \in {"b", "c", "d", "f"}}
  \union {Dot(Labelled(X("b")), X(k)) : k \in {"acl", "days", "versioning", "rules", "hash", "tags"}}
  \union {Dot(Labelled(X("b")), Dot(X("versioning"), X("enabled"))), Dot(Labelled(X("b")), Dot(X("versioning"), X("mfa"))),
          Dot(Labelled(X("b")), Dot(X("tags"), X("team"))), Dot(Labelled(X("d")), X("acl")), Dot(Labelled(X("c")), X("tags")),
          Dot(Labelled(X("c")), Dot(X("tags"), X("team"))), Dot(Labelled(X("f")), X("policy")), X("absent")}
Assignment(name, value) == name \o <<" ", "=", " ">> \o value
Replace(before, after) == [type |-> "replacement", before |-> before, after |-> after, lines |-> <<>>]
Addition(lines) == [type |-> "addition", before |-> <<>>, after |-> <<>>, lines |-> lines]
Remediations ==
  {Replace(Assignment(X("acl"), Quote(X("public"))) \o <<" ", "or", " ">> \o Quote(X("open")), X("private")),
   Replace(X("true"), X("false")), Replace(X("1"), Assignment(X("days"), X("30"))), Replace(Quote(X("p")), X("r")),
   Replace(Quote(X("a")), Quote(X("b"))),
   Addition(<<Assignment(X("mfa"), X("true"))>>),
   Addition(<<X("logging") \o <<" ", "{">>, Assignment(X("on"), X("true")), X("}")>>),
   [Addition(<<>>) EXCEPT !.type = "removal"], [Addition(<<>>) EXCEPT !.type = "other"]}
MCFixes == [key : FixKeys, file : {Fixed}, remediation : Remediations]
=============================================================================
