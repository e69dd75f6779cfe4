------------------------ MODULE VulnerabilityBuilder ------------------------
(***************************************************************************)
(* What becomes of one result of a query                                   *)
(* (pkg/engine/vulnerability_builder.go, vulnerability_utils.go,           *)
(* similarity/similarity_id.go).                                           *)
(*                                                                         *)
(* A result is a function from field names to values [is, of]: "text" (a   *)
(* sequence of pieces), "nil", "map", or "list".  A file is [id, path,     *)
(* kind, lines, blocks, doc, resolved, minified, helm, own], with the      *)
(* values of its document as in YamlDocument.                              *)
(***************************************************************************)
EXTENDS Detectors, TLC

CONSTANTS AllSeverities,   \* model.AllSeverities
          ToUpper,         \* strings.ToUpper, for the severities that occur
          Dotted           \* the keys with a "." in them

Path == INSTANCE Paths

Name(text) == FoldLeft(LAMBDA a, b : a \o b, "", text)
JoinDots(parts) ==
  IF parts = <<>> THEN <<>> ELSE FoldLeft(LAMBDA a, b : a \o <<".">> \o b, Head(parts), Tail(parts))
SplitDots(key) == Pieces(key, [i \in DOMAIN key |-> key[i] = "."])

-----------------------------------------------------------------------------
(* Fields of a result.  A text is returned as <<text>>, none as <<>>.        *)

(* mapKeyToString *)
MapKeyToString(map, key, allowNil) ==
  IF map[key].is = "text" THEN <<map[key].of>>
  ELSE IF allowNil THEN <<>>
  ELSE <<IF map[key].is = "nil" THEN <<"null">> ELSE <<>>>>

(* tryOverride: the query's other value of a field, for the result's overrideKey. *)
TryOverride(overrideKey, field, vObj) ==
  LET IsMapAt(map, key) == key \in DOMAIN map /\ map[key].is = "map"
      overrides == vObj["override"].of
  IN  IF overrideKey # "" /\ IsMapAt(vObj, "override") /\ IsMapAt(overrides, overrideKey)
         /\ field \in DOMAIN overrides[overrideKey].of
      THEN MapKeyToString(overrides[overrideKey].of, field, TRUE)
      ELSE <<>>

(* getStringFromMap *)
GetString(field, default, overrideKey, vObj) ==
  IF field \notin DOMAIN vObj THEN default
  ELSE (TryOverride(overrideKey, field, vObj) \o MapKeyToString(vObj, field, FALSE))[1]

(* getBoolFromMap *)
GetBool(field, default, overrideKey, vObj) ==
  LET text == GetString(field, <<>>, overrideKey, vObj)
  IN  IF text = <<"true">> THEN TRUE ELSE IF text = <<"false">> THEN FALSE ELSE default

(* getSeverity *)
Severity(text) ==
  LET upper == IF Name(text) \in DOMAIN ToUpper THEN ToUpper[Name(text)] ELSE Name(text)
  IN  IF upper \in AllSeverities THEN upper ELSE ""

(* getResolvedSeverity: an override that is no severity is dropped, an old severity *)
(* that is none is not.                                                            *)
ResolvedSeverity(vObj, overrideKey, useOldSeverities) ==
  LET own == Severity(MapKeyToString(vObj, "severity", FALSE)[1])
      override == TryOverride(overrideKey, "severity", vObj)
  IN  IF "severity" \notin DOMAIN vObj \/ own = "" THEN "INFO"
      ELSE IF override # <<>> THEN IF Severity(override[1]) = "" THEN own ELSE Severity(override[1])
      ELSE IF useOldSeverities /\ "oldSeverity" \in DOMAIN vObj
      THEN Severity(MapKeyToString(vObj, "oldSeverity", FALSE)[1])
      ELSE own

-----------------------------------------------------------------------------
(* The search key.                                                           *)

(* Faulty: keys are not changed. *)
KeepReference(doc, parts) == <<>>

(* modifyVulSearchKeyReference: a key that leads through what a reference was     *)
(* replaced by, to that reference; <<>> when there is none.                       *)
RECURSIVE Reference(_, _), FirstReference(_, _), ReferenceBelow(_, _, _)
Reference(doc, parts) == ReferenceBelow(doc, parts, 1)
FirstReference(docs, parts) ==
  IF docs = <<>> THEN <<>>
  ELSE LET r == Reference(Head(docs), parts) IN IF r # <<>> THEN r ELSE FirstReference(Tail(docs), parts)
ReferenceBelow(doc, parts, i) ==
  LET part == parts[i]
      bare == IF part # <<>> /\ part[1] = "{{" /\ Last(part) = "}}" THEN Front(Tail(part)) ELSE part
      key == Name(IF Has(bare, <<"=">>) THEN Before(bare, <<"=">>) ELSE bare)
      above == JoinDots(SubSeq(parts, 1, i - 1))
      inner == FirstReference(doc.of, SubSeq(parts, i, Len(parts)))
  IN  CASE i > Len(parts) -> <<>>
        [] doc.is = "map" /\ key \notin DOMAIN doc.of -> <<>>
        [] doc.is = "map" /\ "RefMetadata" \in DOMAIN doc.of ->
             <<above \o <<".", "$ref", "=">> \o doc.of["RefMetadata"].of["$ref"].of>>
        [] doc.is = "map" -> ReferenceBelow(doc.of[key], parts, i + 1)
        [] doc.is = "list" -> IF inner = <<>> THEN <<>> ELSE <<above \o <<".">> \o inner[1]>>
        [] OTHER -> <<>>

(* sanitizeINIKey: of all.children.<group>.hosts.<host>... the names. *)
SanitizeINIKey(parts) ==
  LET n == Len(parts)
  IN  IF n < 3 THEN parts
      ELSE << <<"[">> \o parts[3] \o <<"]">> >>
           \o (IF n >= 5 THEN <<parts[5]>> ELSE <<>>) \o (IF n >= 7 THEN <<parts[7]>> ELSE <<>>)

-----------------------------------------------------------------------------
(* What is hashed for a result.  A path is a sequence of segments; it is  *)
(* made relative to the first base path that occurs in it.                        *)

ComputeSimilarityID(basePaths, path, queryID, key, value) ==
  LET bases == SelectSeq(basePaths, LAMBDA b : Has(path, b))
  IN  Path!Relative(IF bases = <<>> THEN <<>> ELSE bases[1], path) \o queryID \o key \o value

-----------------------------------------------------------------------------
(* The line of a path in a document, read from the lines that the parser   *)
(* recorded in it (pkg/detector/search_line_detector.go).  A document is   *)
(* what YamlDocument makes of a file; a path is a sequence of keys and of  *)
(* the indices of list elements, both texts.                               *)

Default == "_kics__default"
Indices == "0" :> 1 @@ "1" :> 2 @@ "2" :> 3   \* of the elements, counted from 1

(* gjson: where one step of a path leads from a place.  A place is in the        *)
(* document, in the lines of a map or of an element, or in the lines of a list.  *)
Absent == [in |-> "nothing"]
Doc(value) == [in |-> "doc", of |-> value]
Step(place, step) ==
  LET At(s) == IF step.key \in DOMAIN Indices /\ Indices[step.key] \in DOMAIN s THEN <<s[Indices[step.key]]>> ELSE <<>>
      v == place.of
  IN  CASE place.in = "doc" /\ ~step.lines /\ v.is = "map" ->
             IF step.key \in DOMAIN v.of THEN Doc(v.of[step.key]) ELSE Absent
        [] place.in = "doc" /\ ~step.lines /\ v.is = "list" ->
             IF At(v.of) # <<>> THEN Doc(At(v.of)[1]) ELSE Absent
        [] place.in = "doc" /\ step.lines /\ v.is = "map" ->
             IF step.key \in DOMAIN v.lines THEN [in |-> "arr", of |-> v.lines[step.key].arr] ELSE Absent
        [] place.in = "arr" /\ ~step.lines ->
             IF At(v) # <<>> THEN [in |-> "lines", of |-> At(v)[1]] ELSE Absent
        [] OTHER -> Absent
Walk(place, steps) == FoldLeft(Step, place, steps)

(* The line that the lines at a place have for a key; 0 for none. *)
LineIn(lines, key) == IF key \in DOMAIN lines THEN lines[key].line ELSE 0
MapLine(place, key) == IF place.in = "doc" /\ place.of.is = "map" THEN LineIn(place.of.lines, key) ELSE 0
ElementLine(place, key) == IF place.in = "lines" THEN LineIn(place.of, key) ELSE 0

(* preparePath: the key of the last list on the path. *)
ArrayObject(path) ==
  LET keys == {i \in DOMAIN path : path[i] \notin DOMAIN Indices}
      indexed == {i \in keys : \E j \in DOMAIN path \ keys : j > i}
  IN  IF indexed = {} THEN "" ELSE path[Max(indexed)]

(* Faulty: only the lines beside the values are looked at. *)
ObjectLines(doc, objects, arrays, target) ==
  <<MapLine(Walk(doc, objects), target.key), MapLine(Walk(doc, Append(objects, target)), Default)>>

(* getResult: the four paths in their order. *)
Candidates(doc, objects, arrays, target) ==
  << MapLine(Walk(doc, objects), target.key),
     MapLine(Walk(doc, Append(objects, target)), Default),
     ElementLine(Walk(doc, Append(arrays, target)), Default),
     ElementLine(Walk(doc, arrays), target.key) >>

(* GetLineBySearchLine.  All but the last key are escaped: a last key with a "."   *)
(* is not found.                                                                   *)
FirstLine(lines) ==
  LET found == {i \in DOMAIN lines : lines[i] > 0} IN IF found = {} THEN -1 ELSE lines[Min(found)]
LineOfTarget(above, target, arrayObject, document) ==
  FirstLine(Candidates(Doc(document),
                       [i \in DOMAIN above |-> [key |-> above[i], lines |-> FALSE]],
                       [i \in DOMAIN above |->
                          [key |-> above[i],
                           lines |-> above[i] = arrayObject /\ ~(i = 1 /\ above[i] \in Dotted)]],
                       [key |-> target, lines |-> FALSE]))
GetLineBySearchLine(path, document) ==
  IF path = <<>> THEN 1
  ELSE IF Last(path) \in Dotted THEN -1
  ELSE LineOfTarget(<<Head(path)>> \o (IF Len(path) > 1 THEN SubSeq(path, 2, Len(path) - 1) ELSE <<>>),
                    Last(path), ArrayObject(path), document)

-----------------------------------------------------------------------------
(* The vulnerability.                                                      *)

Rejected(why) == [rejected |-> why]

(* The key that is searched for; sanitizeINIKey and the references of the document. *)
SearchKeyOf(asked, parts, reference, ini) ==
  IF reference # <<>> THEN reference[1] ELSE IF ini THEN JoinDots(parts) ELSE asked
PartsOf(asked, ini) == IF ini THEN SanitizeINIKey(SplitDots(asked)) ELSE SplitDots(asked)

(* The line that the result's own path leads to. *)
SearchLineOf(vObj, file) ==
  IF file.kind = "HELM" \/ file.resolved THEN 0
  ELSE IF "searchLine" \in DOMAIN vObj THEN GetLineBySearchLine(vObj["searchLine"].of, file.doc)
  ELSE -1
FieldOrNone(field, vObj) == IF field \in DOMAIN vObj THEN vObj[field].of ELSE <<>>

(* What the old similarity id is made of: the line, if there is one, or the key. *)
OldInfo(vObj, file, key, searchLine) ==
  IF file.minified THEN key
  ELSE IF file.kind # "HELM" /\ ~file.resolved /\ "searchLine" \in DOMAIN vObj /\ searchLine >= 0
  THEN <<ToString(searchLine)>>
  ELSE FieldOrNone("searchKey", vObj)

Vulnerability(vObj, file, key, line, searchLine, overrideKey, queryID, options) ==
  LET Similarity(info) ==
        ComputeSimilarityID(options.bases, file.path, queryID, info, FieldOrNone("searchValue", vObj))
      old == Similarity(OldInfo(vObj, file, key, searchLine))
  IN  [line |-> IF line = Undetected THEN 1 ELSE line, searchLine |-> searchLine, key |-> key, file |-> file.path,
       severity |-> ResolvedSeverity(vObj, overrideKey, options.old), queryID |-> queryID,
       experimental |-> GetBool("experimental", FALSE, overrideKey, vObj),
       similarity |-> IF options.newID THEN Similarity(FieldOrNone("searchKey", vObj)) ELSE old,
       old |-> IF options.newID THEN old ELSE <<>>]

VulnerabilityAt(vObj, file, key, found, options) ==
  LET overrideKey == Name(FieldOrNone("overrideKey", vObj))
  IN  IF "panic" \in DOMAIN found /\ found.panic THEN Rejected("panic")
      ELSE Vulnerability(vObj, file, key, found.line, SearchLineOf(vObj, file), overrideKey,
                         GetString("id", <<"Undefined">>, overrideKey, vObj), options)
SearchIn(vObj, file, key, options) ==
  VulnerabilityAt(vObj, file, key, Detected(key, file, options.outputLines), options)
BuildKeyed(vObj, file, parts, options) ==
  IF "RefMetadata" \in ToSet(Last(parts)) THEN Rejected("no result")
  ELSE SearchIn(vObj, file, SearchKeyOf(vObj["searchKey"].of, parts, Reference(file.doc, parts), file.kind = "INI"),
                options)
BuildIn(vObj, file, options) ==
  IF "searchKey" \in DOMAIN vObj
  THEN BuildKeyed(vObj, file, PartsOf(vObj["searchKey"].of, file.kind = "INI"), options)
  ELSE VulnerabilityAt(vObj, file, <<>>, [line |-> Undetected], options)
BuildFor(vObj, id, files, options) ==
  IF \A f \in files : f.id # id THEN Rejected("unknown file")
  ELSE BuildIn(vObj, CHOOSE f \in files : f.id = id, options)
Merge(vObj, files, options) ==
  IF "documentId" \notin DOMAIN vObj THEN Rejected("no document")
  ELSE BuildFor(vObj, Name(MapKeyToString(vObj, "documentId", FALSE)[1]), files, options)

(* DefaultVulnerabilityBuilder.  options is [old, newID, outputLines, bases]; the *)
(* fields of the result come before those of the query (mergeWithMetadata).        *)
Build(result, metadata, files, options) == Merge(result @@ metadata, files, options)
=============================================================================
