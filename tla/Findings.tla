------------------------------ MODULE Findings ------------------------------
(***************************************************************************)
(* From the result of a query to the place in the file that is shown for   *)
(* it: the line detectors of the kinds of files, the lines that parsers    *)
(* recorded, and the builder of vulnerabilities that uses them.            *)
(***************************************************************************)
EXTENDS Detection

CONSTANTS AllSeverities, ToUpper, Dotted,   \* as in VulnerabilityBuilder
          PathSearches,  \* set of [node, path]: a YAML document and a path in it
          Detections     \* set of [result, metadata, files, options]

Builder == INSTANCE VulnerabilityBuilder
YamlDoc == INSTANCE YamlDocument

FindingsInit ==
  \/ DetectionInit
  \/ Called("searchLine", PathSearches)
  \/ Called("build", Detections)

SearchLine ==
  call = "searchLine" /\
  Return(Builder!GetLineBySearchLine(input.path, YamlDoc!ParseYaml(<<input.node>>).docs[1]))
BuildVulnerability ==
  call = "build" /\ Return(Builder!Build(input.result, input.metadata, input.files, input.options))

FindingsNext == DetectLine \/ SearchLine \/ BuildVulnerability
FindingsSpec == FindingsInit /\ [][FindingsNext]_vars

PathSearched == returned /\ call = "searchLine"
Built == returned /\ call = "build"

-----------------------------------------------------------------------------
(* Where a reader finds a key: every part as a word of its own, from the line  *)
(* of the part before it; 0 when a part is not there.                          *)

Solid(s) == Builder!Trim(s)
WordsOf(line) ==
  LET pieces == Builder!Pieces(Solid(line), [i \in DOMAIN Solid(line) |-> Solid(line)[i] \in {" ", ":", "=", "{", "["}])
  IN  {Builder!Kept(pieces[i], {"\"", ","}) : i \in DOMAIN pieces}
Commented(line) == Solid(line) # <<>> /\ Head(Solid(line)) \in {"#", "//"}
Written(words, line) == ~Commented(line) /\ words \subseteq WordsOf(line)
ReadFrom(at, words, lines) ==
  LET there == {i \in at .. Len(lines) : at # 0 /\ Written(words, lines[i])}
  IN  IF there = {} THEN 0 ELSE CHOOSE i \in there : \A j \in there : i <= j
ReadKey(parts, lines) == FoldLeft(LAMBDA at, words : ReadFrom(at, words, lines), 1, parts)

(* base[label] names a block; a name and a name=value an attribute. *)
WordsOfPart(part) ==
  LET Before(x) == SubSeq(part, 1, (CHOOSE i \in DOMAIN part : part[i] = x /\ \A j \in 1 .. i - 1 : part[j] # x) - 1)
      Inside(x) == SubSeq(part, Len(Before(x)) + 2, Len(part))
  IN  IF "[" \in ToSet(part) THEN {Before("["), Builder!Front(Inside("["))}
      ELSE IF "=" \in ToSet(part) THEN {Before("="), Inside("=")}
      ELSE {part}
PlainKey(key) == \A i \in DOMAIN key : key[i] \notin {"{{", "}}", "/", "$ref"} \union DOMAIN Builder!Numbers
KeyWords(key) ==
  LET parts == Builder!SplitDots(key) IN [i \in DOMAIN parts |-> WordsOfPart(parts[i])]

(* No attribute of that name has a value behind the line: its value would be  *)
(* looked for instead of the block.                                           *)
NotAssignedLater(key, lines) ==
  LET parts == Builder!SplitDots(key)
      at == [k \in DOMAIN parts |-> ReadKey(SubSeq(KeyWords(key), 1, k), lines)]
  IN  \A k \in DOMAIN parts : \A l \in DOMAIN lines :
        ToSet(parts[k]) \intersect {"[", "="} = {} /\ Builder!Assigns(parts[k], lines[l]) /\ l > at[k] =>
          Builder!Assigns(parts[k], lines[at[k]])

(* A finding is reported at the line where the key is written, not at a line with *)
(* a longer name, a comment or the same attribute of an earlier block             *)
(* (DetectCurrentLine and checkLine of pkg/detector/helper.go).                   *)
FoundWhereWritten ==
  LineDetected /\ input.file.kind # "HELM" /\ PlainKey(input.key) =>
    LET lines == input.file.lines
        there == ReadKey(KeyWords(input.key), lines)
    IN  there # 0 /\ NotAssignedLater(input.key, lines) /\ "panic" \notin DOMAIN output => output.line = there

(* docs/creating-queries.md:301: "'{{ }}' -> ignore special chars", and :308, of  *)
(* the field 'Name' set as 'My.bucket': "the searchKey should be set to           *)
(* `resource[positive].tags.Name={{My.bucket}}`".                                 *)
BracedValueFound ==
  LineDetected /\ input.file.kind = "CLOUDFORMATION" /\ "{{" \in ToSet(input.key) =>
    LET bare == SelectSeq(Builder!Parts(input.key), LAMBDA p : TRUE)
        words == [i \in DOMAIN bare |-> WordsOfPart(SelectSeq(bare[i], LAMBDA x : x \notin {"{{", "}}"}))]
        there == ReadKey(words, input.file.lines)
    IN  there # 0 => output.line = there

-----------------------------------------------------------------------------
(* Terraform: where a remediation would be inserted.                          *)

RECURSIVE Structures(_)
Structures(block) ==
  ToSet(block.attrs) \union {[from |-> b.from, to |-> b.to, kind |-> "block"] : b \in ToSet(block.blocks)}
  \union UNION {Structures(b) : b \in ToSet(block.blocks)}

(* A one-line attribute, a comment or an empty line stands before the objects and *)
(* calls that end the block, and no list or text of several lines ends it.        *)
OpenToInsertion(block) ==
  LET closing == {s \in Structures(block) : s.kind \in {"object", "call"}}
      tail == {l \in block.from + 1 .. block.to - 1 :
                 \A k \in l .. block.to - 1 : \E s \in closing : k \in s.from .. s.to}
      last == block.to - 1 - Cardinality(tail)
  IN  last > block.from /\ ~\E s \in Structures(block) : s.kind = "other" /\ s.from < last /\ last <= s.to

(* What is inserted for a finding on a block's header becomes part of that block   *)
(* and of nothing inside it; for a finding inside a nested block or an object of   *)
(* several lines it stays between its braces (calculateInsertionPoint of           *)
(* pkg/detector/terraform/terraform_detect.go).                                    *)
InsertionStaysInside ==
  LineDetected /\ input.file.kind = "TERRAFORM" /\ output.insert # <<>> =>
    LET block == CHOOSE b \in ToSet(input.file.blocks) : output.line \in b.from .. b.to
        at == output.insert[1]
        behind == output.insert[2] = Len(input.file.lines[at]) + 1
        around == {s \in Structures(block) : output.line \in s.from .. s.to /\ s.kind \in {"block", "object"}}
        inner == CHOOSE s \in around : \A t \in around : t.from <= s.from
    IN  IF output.line = block.from
        THEN OpenToInsertion(block) =>
               /\ block.from < at /\ at < block.to
               /\ \A s \in {x \in Structures(block) : x.from < at /\ at <= x.to} : s.kind = "block" /\ at = s.to /\ behind
        ELSE around # {} /\ inner.to - inner.from >= 2 => inner.from < at /\ at <= inner.to

-----------------------------------------------------------------------------
(* Helm.                                                                      *)

(* The lines of a key below the marker of the manifest. *)
HelmKeyed(line, name) ==
  ":" \in ToSet(line) /\ Solid(SubSeq(line, 1, (CHOOSE i \in DOMAIN line : line[i] = ":" /\ \A j \in 1 .. i - 1 : line[j] # ":") - 1)) = name

(* A finding in a template of at most two manifests is reported at the line that   *)
(* its key has in the file without the markers, if no other line of the manifest   *)
(* has the key (DetectLine and removeLines of pkg/detector/helm/helm_detect.go).   *)
HelmLineRight ==
  LineDetected /\ input.file.kind = "HELM" =>
    LET file == input.file
        markers == {i \in DOMAIN file.lines : Builder!IsMarker(file.lines[i])}
        own == CHOOSE i \in markers : file.helm \in ToSet(file.lines[i])
        names == Builder!SplitDots(input.key)
        manifest == own .. Len(file.lines) \ UNION {m .. Len(file.lines) : m \in {x \in markers : x > own}}
        With(k) == {i \in manifest : HelmKeyed(file.lines[i], names[k])}
        at == CHOOSE i \in With(Len(names)) : TRUE
        plain == /\ Cardinality(markers) <= 2
                 /\ \A k \in DOMAIN names : Cardinality(With(k)) = 1
                 /\ \A j, k \in DOMAIN names : j < k => (\A x \in With(j) : \A y \in With(k) : x < y)
    IN  plain => output.line = at - Cardinality({m \in markers : m < at})

-----------------------------------------------------------------------------
(* Paths.                                                                     *)

(* The line of what a path leads to: of its key, or of the element itself. *)
RECURSIVE LineOfPath(_, _)
LineOfPath(node, path) ==
  LET at == IF node.kind = "seq" THEN {i \in DOMAIN node.items : Builder!Indices[Head(path)] = i}
            ELSE {i \in DOMAIN node.items : i % 2 = 1 /\ node.items[i].text = Head(path)}
      i == CHOOSE i \in at : TRUE
      element == node.items[i]
  IN  IF Len(path) > 1 THEN LineOfPath(IF node.kind = "seq" THEN element ELSE node.items[i + 1], Tail(path))
      ELSE IF node.kind = "seq" /\ element.kind = "map" THEN element.items[1].line
      ELSE element.line

RECURSIVE ListsOnPath(_, _), Repeats(_)
ListsOnPath(node, path) ==   \* the keys of the lists the path goes through
  IF path = <<>> THEN {}
  ELSE LET i == IF node.kind = "seq" THEN Builder!Indices[Head(path)]
                ELSE CHOOSE i \in DOMAIN node.items : i % 2 = 1 /\ node.items[i].text = Head(path)
           next == IF node.kind = "seq" THEN node.items[i] ELSE node.items[i + 1]
       IN  (IF node.kind = "map" /\ next.kind = "seq" /\ Len(path) > 1 THEN {Head(path)} ELSE {})
           \union ListsOnPath(next, Tail(path))
Repeats(path) == \E i, j \in DOMAIN path : i # j /\ path[i] = path[j] /\ path[i] \notin DOMAIN Builder!Indices

(* The line looked up for a path is the line at which the file has what the path  *)
(* names, through maps and at most one list: the lines that getLines of           *)
(* pkg/model/model_yaml.go recorded, as GetLineBySearchLine reads them.           *)
SearchLineFindsKey ==
  PathSearched /\ Len(input.path) > 1 /\ ToSet(input.path) \intersect Dotted = {} /\ ~Repeats(input.path)
  /\ Cardinality(ListsOnPath(input.node, input.path)) <= 1 =>
    output = LineOfPath(input.node, input.path)

-----------------------------------------------------------------------------
(* References.                                                                *)

(* How many keys lead to what a reference of the document was replaced by. *)
RECURSIVE KeysToReference(_, _)
KeysToReference(doc, parts) ==
  IF parts = <<>> \/ doc.is # "map" THEN <<>>
  ELSE IF Builder!Name(Head(parts)) \notin DOMAIN doc.of THEN <<>>
  ELSE IF "RefMetadata" \in DOMAIN doc.of THEN <<0>>
  ELSE LET below == KeysToReference(doc.of[Builder!Name(Head(parts))], Tail(parts))
       IN  IF below = <<>> THEN <<>> ELSE <<below[1] + 1>>

(* A finding in what was read from another file is reported at the reference to   *)
(* that file, whichever of the file's references it is, unless the reference is   *)
(* an element of a list (modifyVulSearchKeyReference with the default detector).  *)
ReferenceLineFound ==
  Built /\ "rejected" \notin DOMAIN output /\ "searchKey" \in DOMAIN input.result =>
    LET file == CHOOSE f \in input.files : f.path = output.file
        parts == Builder!SplitDots(input.result["searchKey"].of)
        keys == KeysToReference(file.doc, parts)
        above == SubSeq(parts, 1, keys[1])
        words == [i \in 1 .. keys[1] + 1 |-> IF i <= keys[1] THEN {above[i]} ELSE {<<"$ref">>}]
    IN  keys # <<>> /\ keys[1] > 0 /\ file.kind = "JSON" /\ ReadKey(words, file.lines) # 0 =>
          output.line = ReadKey(words, file.lines)
=============================================================================
