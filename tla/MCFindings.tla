----------------------------- MODULE MCFindings -----------------------------
(***************************************************************************)
(* A Terraform file with two blocks of one type, comments, nested blocks,  *)
(* objects, calls and lists; a template of one file with one to four       *)
(* manifests; a JSON file with references; YAML documents with lists in    *)
(* lists.  Every key of every file is searched for.                        *)
(***************************************************************************)
EXTENDS Findings

MCAllSeverities == {"CRITICAL", "HIGH", "MEDIUM", "LOW", "INFO", "TRACE"}
MCToUpper == "high" :> "HIGH" @@ "Low" :> "LOW"
MCDotted == {"app.name"}

(* Texts: words are sequences of pieces. *)
RECURSIVE Spaced(_)
Spaced(words) ==
  IF words = <<>> THEN <<>> ELSE Head(words) \o (IF Tail(words) = <<>> THEN <<>> ELSE <<" ">>) \o Spaced(Tail(words))
Row(indent, words) == [i \in 1 .. indent |-> " "] \o Spaced(words)
X(piece) == <<piece>>
Quote(w) == <<"\"">> \o w \o <<"\"">>
Bucket == <<"aws", "_", "bucket">>
BucketName == <<"bucket", "_", "name">>
Header(label) == Row(0, <<X("resource"), Quote(Bucket), Quote(label), X("{")>>)
Set(indent, name, value) == Row(indent, <<name, X("="), Quote(value)>>)
Close(indent) == Row(indent, <<X("}")>>)
Attr(from, to, kind) == [from |-> from, to |-> to, kind |-> kind]
Block(from, to, blocks, attrs) == [from |-> from, to |-> to, blocks |-> blocks, attrs |-> attrs]
None == [in |-> "nothing"]
FileOf(id, kind, lines) ==
  [id |-> id, path |-> <<"/", "repo", id>>, kind |-> kind, lines |-> lines, blocks |-> <<>>, doc |-> [is |-> "nil"],
   resolved |-> FALSE, minified |-> FALSE, helm |-> "", own |-> {}]

TerraformLines ==
  << Header(X("b")),
       Set(2, BucketName, X("x")),
       Row(2, <<X("#"), X("name"), X("="), Quote(X("old"))>>),
       Set(2, X("name"), X("x")),
       Row(2, <<X("versioning"), X("{")>>),
         Set(4, X("enabled"), X("yes")),
       Close(2),
       Row(2, <<X("tags"), X("="), X("{")>>),
         Set(4, X("team"), X("a")),
         Set(4, X("cost"), X("b")),
       Close(2),
     Close(0),
     Header(<<"b", "2">>),
       Set(2, X("name"), X("y")),
       Row(2, <<X("items"), X("="), <<"[">> \o Quote(X("p")) \o <<",", " ">> \o Quote(X("q")) \o <<"]">>>>),
       Row(2, <<X("zones"), X("="), X("[")>>),
         Row(4, <<Quote(X("r"))>>),
       Row(2, <<X("]")>>),
     Close(0),
     Header(X("c")),
       Row(2, <<X("tags"), X("="), <<"merge", "(", "local">> \o X(","), X("{")>>),
         Set(4, X("team"), X("z")),
       Row(2, <<<<"}", ")">>>>),
     Close(0),
     Header(X("d")),
       Set(2, X("name"), X("w")),
       Row(2, <<X("logging"), X("{")>>),
         Row(4, <<X("target"), X("{")>>),
           Set(6, X("name"), X("v")),
           Set(6, X("prefix"), X("u")),
         Close(4),
       Close(2),
     Close(0),
     Header(X("e")) \o X("}"),
     Header(X("f")),
       Row(2, <<X("policy"), X("="), <<"<<", "EOF">>>>),
         Row(4, <<X("text")>>),
       Row(0, <<X("EOF")>>),
       Set(2, X("name"), X("t")),
       Row(2, <<X("tags"), X("="), X("{")>>),
         Set(4, X("team"), X("y")),
       Close(2),
     Close(0) >>
TerraformBlocks ==
  << Block(1, 12, <<Block(5, 7, <<>>, <<Attr(6, 6, "other")>>)>>,
           <<Attr(2, 2, "other"), Attr(4, 4, "other"), Attr(8, 11, "object")>>),
     Block(13, 19, <<>>, <<Attr(14, 14, "other"), Attr(15, 15, "other"), Attr(16, 18, "other")>>),
     Block(20, 24, <<>>, <<Attr(21, 23, "call")>>),
     Block(25, 33, <<Block(27, 32, <<Block(28, 31, <<>>, <<Attr(29, 29, "other"), Attr(30, 30, "other")>>)>>, <<>>)>>,
           <<Attr(26, 26, "other")>>),
     Block(34, 34, <<>>, <<>>),
     Block(35, 43, <<>>, <<Attr(36, 38, "other"), Attr(39, 39, "other"), Attr(40, 42, "object")>>) >>
Terraform == [FileOf("main.tf", "TERRAFORM", TerraformLines) EXCEPT !.blocks = TerraformBlocks]
(* A file that is one block on its first line. *)
OneLine == [FileOf("one.tf", "TERRAFORM", <<Header(X("e")) \o X("}")>>) EXCEPT !.blocks = <<Block(1, 1, <<>>, <<>>)>>]

Labelled(label) == Bucket \o <<"[">> \o label \o <<"]">>
Dot(a, b) == a \o <<".">> \o b
TerraformKeys ==
  {Labelled(l) : l \in {X("b"), <<"b", "2">>, X("c"), X("d"), X("e"), X("f")}}
  \union {Dot(Labelled(l), k) : l \in {X("b"), <<"b", "2">>, X("d"), X("f")},
                                k \in {X("name"), BucketName, X("tags"), X("versioning"), X("policy")}}
  \union {Dot(Labelled(X("b")), Dot(X("versioning"), X("enabled"))), Dot(Labelled(X("b")), Dot(X("tags"), X("team"))),
          Dot(Labelled(X("b")), Dot(X("tags"), X("cost"))), Dot(Labelled(X("b")), <<"name", "=", "x">>),
          Dot(Labelled(<<"b", "2">>), <<"items", "[", "1", "]">>), Dot(Labelled(<<"b", "2">>), <<"zones", "[", "0", "]">>),
          Dot(Labelled(<<"b", "2">>), <<"name", "=", "y">>),
          Dot(Labelled(X("c")), X("tags")), Dot(Labelled(X("c")), Dot(X("tags"), X("team"))),
          Dot(Labelled(X("d")), Dot(X("logging"), X("target"))),
          Dot(Labelled(X("d")), Dot(Dot(X("logging"), X("target")), X("prefix"))),
          Dot(Labelled(X("f")), Dot(X("tags"), X("team"))),
          Dot(Labelled(X("d")), X("logging")), Dot(Labelled(X("absent")), X("name")), X("absent")}

-----------------------------------------------------------------------------
Key(indent, name, value) == Row(indent, <<Append(name, ":")>> \o value)
CloudFormation ==
  FileOf("stack.yaml", "CLOUDFORMATION",
         << Key(0, X("Resources"), <<>>), Key(2, <<"My", "Bucket">>, <<>>), Key(4, X("Type"), <<Quote(<<"S3", "::", "Bucket">>)>>),
            Key(4, <<"Properties", "For">>, <<>>), Key(4, X("Properties"), <<>>),
            Key(6, <<"Bucket", "Name">>, <<X("x")>>), Key(6, X("Name"), <<<<"My", ".", "bucket">>>>),
            Key(2, X("Other"), <<>>), Key(4, X("Properties"), <<>>), Key(6, X("Name"), <<X("y")>>) >>)
CloudFormationKeys ==
  {Dot(Dot(X("Resources"), <<"My", "Bucket">>), k) :
     k \in {X("Type"), X("Properties"), Dot(X("Properties"), X("Name")), Dot(X("Properties"), <<"Bucket", "Name">>),
            Dot(X("Properties"), <<"Name", "=", "{{", "My", ".", "bucket", "}}">>)}}
  \union {Dot(Dot(X("Resources"), X("Other")), Dot(X("Properties"), X("Name")))}
BicepText ==
  FileOf("main.bicep", "BICEP",
         << Row(0, <<X("param"), X("size"), X("string")>>),
            Row(0, <<X("resource"), X("store"), Quote(X("type")), X("="), X("{")>>), Key(2, X("name"), <<X("size")>>), Close(0) >>)
BicepKeys == {Dot(X("parameters"), X("size")), Dot(X("resources"), X("name"))}

-----------------------------------------------------------------------------
MarkerLine(id) == Row(0, <<X("#"), <<"KICS_HELM_ID_", id, ":">>>>)
Manifest(id, lines) == <<MarkerLine(id)>> \o lines
Pod == <<Key(0, X("kind"), <<X("Pod")>>), Key(0, X("metadata"), <<>>), Key(2, X("name"), <<X("a")>>), Key(0, X("spec"), <<>>),
         Key(2, X("containers"), <<>>), Row(4, <<X("-"), X("name:")>>), Key(6, <<"host", "Network">>, <<X("true")>>), Row(0, <<X("---")>>)>>
Role == <<Key(0, X("kind"), <<X("Role")>>), Key(0, X("rules"), <<>>), Key(2, X("verbs"), <<X("all")>>), Row(0, <<X("---")>>)>>
Twin == <<Key(0, X("kind"), <<X("Role")>>), Key(0, X("rules"), <<>>), Key(2, X("verbs"), <<X("all")>>),
          Key(2, X("verbs"), <<X("get")>>), Key(0, X("tail"), <<>>)>>
ChartOf(lines, id) ==
  LET at == CHOOSE i \in DOMAIN lines : lines[i] = MarkerLine(id)
      next == {i \in DOMAIN lines : i > at /\ Line!IsMarker(lines[i])} \union {Len(lines) + 1}
  IN  [FileOf("templates/pod.yaml", "HELM", lines) EXCEPT
         !.helm = id, !.own = {i \in DOMAIN lines : i > 1 /\ at <= i /\ \A n \in next : i < n}]
Chart(manifests, id) ==
  ChartOf(FlattenSeq([i \in DOMAIN manifests |-> Manifest(<<"0", "1", "2", "3">>[i], manifests[i])]), id)
Charts ==
  {Chart(<<Pod>>, "0"), Chart(<<Pod, Role>>, "0"), Chart(<<Pod, Role>>, "1"), Chart(<<Role, Pod, Twin>>, "1"),
   Chart(<<Role, Twin>>, "1"), Chart(<<Role, Role, Pod, Role>>, "2")}
HelmKeys == {Dot(X("metadata"), X("name")), X("rules"), Dot(X("rules"), X("verbs")), Dot(X("spec"), X("containers")),
             Dot(Dot(X("spec"), X("containers")), <<"host", "Network">>), X("absent"), X("kind"), X("tail")}

Search(keys, files, sizes) == [key : keys, file : files, outputLines : sizes]
MCSearches ==
  Search(TerraformKeys, {Terraform}, {1, 2, 3, 6}) \union Search(TerraformKeys, {OneLine}, {3})
  \union Search(CloudFormationKeys, {CloudFormation}, {3, 20}) \union Search(BicepKeys, {BicepText}, {3})
  \union Search(HelmKeys, Charts, {3})

-----------------------------------------------------------------------------
YNode(kind, text, line, items) ==
  [kind |-> kind, text |-> text, tag |-> "!!str", line |-> line, rows |-> 0, head |-> YamlDoc!NoComment,
   foot |-> YamlDoc!NoComment, items |-> items, anchor |-> <<>>]
YWord(text, line) == YNode("scalar", text, line, <<>>)
Mapping(line, items) == YNode("map", "", line, items)
Listing(line, items) == YNode("seq", "", line, items)
Deep ==
  Mapping(1, <<YWord("a", 1), Mapping(2, <<YWord("b", 2), YWord("v", 2), YWord("app.name", 3), YWord("v", 3)>>),
               YWord("l", 4), Listing(5, <<Mapping(5, <<YWord("x", 5), YWord("v", 5), YWord("y", 6), Mapping(7, <<YWord("z", 7), YWord("v", 7)>>)>>),
                                       Mapping(8, <<YWord("m", 8), Listing(9, <<YWord("p", 9), YWord("q", 10)>>),
                                                    YWord("n", 11), Listing(12, <<Mapping(12, <<YWord("x", 12), YWord("v", 12)>>)>>)>>)>>),
               YWord("s", 13), Listing(14, <<YWord("p", 14), YWord("q", 15)>>)>>)
RECURSIVE PathsOf(_)
PathsOf(node) ==
  LET Under(i) ==
        IF node.kind = "seq" THEN {<<<<"0", "1", "2">>[i]>> \o p : p \in PathsOf(node.items[i])}
        ELSE IF i % 2 = 1 THEN {<<node.items[i].text>> \o p : p \in PathsOf(node.items[i + 1])} ELSE {}
  IN  {<<>>} \union UNION {Under(i) : i \in DOMAIN node.items}
MCPathSearches == [node : {Deep}, path : PathsOf(Deep)]

-----------------------------------------------------------------------------
Text(of) == [is |-> "text", of |-> of]
MapOf(of) == [is |-> "map", of |-> of, lines |-> <<>>]
ListOf(of) == [is |-> "list", of |-> of]
Leaf == <<"leaf", ".", "json">>
Referred(map) == MapOf(map @@ "RefMetadata" :> MapOf("$ref" :> Text(Leaf)))
Api ==
  [FileOf("api.json", "JSON",
          << Row(0, <<X("{")>>),
             Key(2, Quote(X("a")), <<X("{")>>), Key(4, Quote(X("$ref")), <<Quote(Leaf)>>), Close(2),
             Key(2, Quote(X("b")), <<X("{")>>), Key(4, Quote(X("c")), <<X("{")>>), Key(6, Quote(X("$ref")), <<Quote(Leaf)>>), Close(4), Close(2),
             Key(2, Quote(X("l")), <<X("[")>>), Row(4, <<X("{")>>), Key(6, Quote(X("$ref")), <<Quote(Leaf)>>), Close(4), Row(2, <<X("]")>>),
             Close(0) >>)
     EXCEPT !.doc = MapOf("a" :> Referred("z" :> Text(X("v"))) @@ "b" :> MapOf("c" :> Referred("z" :> MapOf("y" :> Text(X("v")))))
                          @@ "l" :> ListOf(<<Referred("z" :> Text(X("v")))>>)),
            !.resolved = TRUE]
Inventory ==
  FileOf("hosts.ini", "INI", << Row(0, <<<<"[", "web", "]">>>>), Row(0, <<X("host1")>>), Row(0, <<X("host2")>>) >>)
Files == {Terraform, Api, Inventory}
InFile(file, key) == "documentId" :> Text(X(file)) @@ "searchKey" :> Text(key)
Metadata ==
  "id" :> Text(X("q1")) @@ "severity" :> Text(X("high")) @@ "oldSeverity" :> Text(X("Low"))
  @@ "override" :> MapOf("v2" :> MapOf("severity" :> Text(X("INFO")) @@ "id" :> Text(X("q2")))
                         @@ "v3" :> MapOf("severity" :> Text(X("none"))) @@ "v4" :> MapOf("severity" :> [is |-> "nil"]))
QueryResults ==
  {InFile("api.json", Dot(X("a"), X("z"))), InFile("api.json", Dot(Dot(X("b"), X("c")), Dot(X("z"), X("y")))),
   InFile("api.json", Dot(Dot(X("b"), X("c")), X("z"))), InFile("api.json", Dot(X("l"), X("z"))),
   InFile("api.json", Dot(X("a"), <<"RefMetadata">>)), InFile("api.json", Dot(X("b"), X("c"))), InFile("api.json", X("a")),
   InFile("hosts.ini", Dot(Dot(X("all"), X("children")), Dot(X("web"), Dot(X("hosts"), X("host1"))))),
   InFile("absent", X("a")), "documentId" :> Text(X("main.tf")), "searchKey" :> Text(X("a")),
   InFile("main.tf", Dot(Labelled(X("b")), X("name"))) @@ "searchLine" :> Text(<<>>) @@ "searchValue" :> Text(X("x"))}
  \union {InFile("main.tf", Labelled(X("b"))) @@ "overrideKey" :> Text(X(k)) : k \in {"v2", "v3", "v4", "v5"}}
Options == [old : BOOLEAN, newID : BOOLEAN, outputLines : {3}, bases : {<<>>, << <<"/", "repo">> >>}]
MCDetections ==
  [result : QueryResults, metadata : {Metadata}, files : {Files}, options : Options]
=============================================================================
