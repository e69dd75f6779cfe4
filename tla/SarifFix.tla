------------------------------ MODULE SarifFix ------------------------------
(***************************************************************************)
(* The fix that a SARIF report offers for a finding in a Terraform file    *)
(* (pkg/report/remediations, BuildSarifIssue of pkg/report/model/sarif.go). *)
(* Lines are texts, as in LineDetector, with single spaces between words.  *)
(*                                                                         *)
(* A remediation is [type, before, after, lines]; a place is <<line,       *)
(* column>>.  A fix is the region it deletes and what it inserts there:    *)
(* the lines, and how far what follows on the last is indented.            *)
(***************************************************************************)
EXTENDS Detectors

Fix(from, to, lines, post) == [from |-> from, to |-> to, lines |-> lines, post |-> post]
Spaces(n) == [i \in 1 .. n |-> " "]
NoFix == <<>>

(* determineActualBaseIndent: of the nearest line above that says something. *)
BaseIndent(lines, from, blockFrom) ==
  LET Says(i) == Trim(lines[i]) # <<>> /\ Head(Trim(lines[i])) \notin {"#", "//"}
      above == {i \in blockFrom .. from : Says(i)}
  IN  IF above = {} THEN 0 ELSE Indent(lines[Max(above)])

-----------------------------------------------------------------------------
(* Replacements.                                                             *)

Punctuation == {" ", "=", ":", "[", "]", "{", "}", "(", ")", ",", "\"", "#"}
IsWord(piece) == piece \notin Punctuation

(* keyValRegex: the ends of the value that the line gives a key, <<>> when it gives *)
(* none.  A value is a list, a quoted text, or all up to a comment.                 *)
SolidAt(line, from, to) == {j \in from .. to : line[j] # " "}
EndsKey(line, last) ==   \* a word, then perhaps a quote
  last > 0 /\ \/ IsWord(line[last])
              \/ line[last] = "\"" /\ last > 1 /\ IsWord(line[last - 1])
BeginsValue(line, solid) == solid # {} /\ line[Min(solid)] # "#"
Separators(line) ==
  {i \in DOMAIN line : /\ line[i] \in {"=", ":"}
                       /\ EndsKey(line, Max(SolidAt(line, 1, i - 1) \union {0}))
                       /\ BeginsValue(line, SolidAt(line, i + 1, Len(line)))}
ValueFrom(line, from) ==
  LET Later(c) == {j \in from + 1 .. Len(line) : line[j] = c}
  IN  CASE line[from] = "[" /\ Later("]") # {} -> <<from, Min(Later("]"))>>
        [] line[from] = "\"" /\ Later("\"") # {} -> <<from, Min(Later("\""))>>
        [] OTHER -> <<from, Min(Later("#") \union {Len(line) + 1}) - 1>>
ValueOf(line) ==
  LET at == Separators(line)
  IN  IF at = {} THEN <<>> ELSE ValueFrom(line, Min(SolidAt(line, Min(at) + 1, Len(line))))

(* normalize, splitKeyValue and normalizeListItem *)
Unquoted(text) == Kept(Trim(text), {"\""})
Unlisted(value) == IF value # <<>> /\ Head(value) = "[" /\ Last(value) = "]" THEN Front(Tail(value)) ELSE value
ListItemOf(text) == Unquoted(Unlisted(Unquoted(IF Has(text, <<"=">>) THEN After(text, <<"=">>) ELSE text)))
ParseAlternatives(before) ==
  LET parts == Pieces(before, [i \in DOMAIN before |-> before[i] = "or"])
  IN  {ListItemOf(parts[i]) : i \in DOMAIN parts}

(* Faulty: the column after the last one is taken for the last one. *)
EndsOnLast(finding, line) == [from |-> <<finding.insert[1], 1>>, to |-> <<finding.line, Len(line)>>]
(* The region that a replacement deletes: from the place of the remediation through *)
(* the end of the finding's line.                                                    *)
ReplacedRegion(finding, line) == [from |-> <<finding.insert[1], 1>>, to |-> <<finding.line, Len(line) + 1>>]

(* buildReplacementFix.  A value that holds one of the alternatives is replaced   *)
(* as a whole: the search among the items of a list that follows in the code has  *)
(* nothing left to find.                                                          *)
Quoted(text) == text # <<>> /\ Head(text) = "\"" /\ Last(text) = "\""
QuotedAs(raw, given) == IF Quoted(raw) /\ ~Quoted(given) THEN <<"\"">> \o given \o <<"\"">> ELSE given
HoldsOneOf(raw, alternatives) == \E alt \in alternatives : alt = <<>> \/ Has(Unquoted(raw), alt)
NewLine(line, ends, after, indent) ==
  IF Has(after, <<"=">>) THEN Spaces(indent) \o after
  ELSE SubSeq(line, 1, ends[1] - 1) \o after \o SubSeq(line, ends[2] + 1, Len(line))
ReplaceRegion(region, inserted) == <<Fix(region.from, region.to, <<inserted>>, 0)>>
ReplaceValue(finding, remediation, lines, line, ends, raw) ==
  IF ~HoldsOneOf(raw, ParseAlternatives(Trim(remediation.before))) THEN NoFix
  ELSE ReplaceRegion(ReplacedRegion(finding, line),
                     NewLine(line, ends, QuotedAs(raw, Trim(remediation.after)),
                             BaseIndent(lines, finding.insert[1], finding.block[1])))
ReplaceBetween(finding, remediation, lines, line, ends) ==
  IF ends = <<>> THEN NoFix
  ELSE ReplaceValue(finding, remediation, lines, line, ends, Trim(SubSeq(line, ends[1], ends[2])))
BuildReplacementFix(finding, remediation, lines) ==
  ReplaceBetween(finding, remediation, lines, lines[finding.line], ValueOf(lines[finding.line]))

-----------------------------------------------------------------------------
(* Additions.                                                                *)

(* isInsertingInsideNestedBlock *)
InsideNested(lines, from, block) ==
  LET Opens(i) == "{" \in ToSet(lines[i])
      Passed(i) == Trim(lines[i]) \in {<<>>, <<"}">>}
  IN  /\ block[1] < from /\ from < block[2]
      /\ Trim(lines[from]) \notin {<<>>, <<"}">>}
      /\ \E i \in block[1] .. from - 1 : Opens(i) /\ \A j \in i + 1 .. from - 1 : ~Opens(j) /\ Passed(j)

(* buildAdditionFix: the lines of the remediation, indented by their nesting, *)
(* and the indentation of what follows them.                                  *)
BuildAdditionFix(finding, remediation, lines) ==
  LET base == BaseIndent(lines, finding.insert[1], finding.block[1])
      nested == InsideNested(lines, finding.insert[1], finding.block)
      Add(r, line) ==
        LET text == Trim(line)
            closing == text = <<"}">>
        IN  IF text = <<>> THEN r
            ELSE [out |-> Append(r.out, Spaces(base + (IF closing THEN 0 ELSE 2 * r.level)) \o text),
                  post |-> IF closing THEN Max({2 * r.level, base}) ELSE IF nested THEN base ELSE r.post,
                  level |-> IF Last(text) = "{" THEN r.level + 1
                            ELSE IF closing /\ r.level > 0 THEN r.level - 1 ELSE r.level]
      added == FoldLeft(Add, [out |-> <<>>, post |-> base, level |-> 0], remediation.lines)
  IN  <<Fix(finding.insert, finding.insert, <<<<>>>> \o added.out \o <<<<>>>>, added.post)>>

(* TransformToSarifFix *)
TransformToSarifFix(finding, remediation, lines) ==
  CASE remediation.type = "replacement" -> BuildReplacementFix(finding, remediation, lines)
    [] remediation.type = "addition" -> BuildAdditionFix(finding, remediation, lines)
    [] remediation.type = "removal" -> <<Fix(finding.insert, finding.insert, <<>>, 0)>>
    [] OTHER -> NoFix

(* BuildSarifIssue: the fix, and the lines that the result highlights. *)
Region(finding, fix) ==
  IF fix # NoFix \/ finding.insert[1] \in finding.block[1] .. finding.block[2]
  THEN <<finding.insert[1], finding.insert[1]>> ELSE finding.block
IssueWith(finding, fix) == [found |-> finding, fix |-> fix, region |-> Region(finding, fix)]
BuildSarifIssue(finding, remediation, lines) ==
  IF finding.line = Undetected THEN [found |-> finding, fix |-> NoFix, region |-> <<>>]
  ELSE IssueWith(finding, TransformToSarifFix(finding, remediation, lines))
=============================================================================
