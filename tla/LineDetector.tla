---------------------------- MODULE LineDetector ----------------------------
(***************************************************************************)
(* The line of a finding: the search key of the query is split into parts, *)
(* each part is searched for from the line of the part before it, and the  *)
(* line most like the part is taken (pkg/detector/helper.go,               *)
(* default_detect.go).                                                     *)
(*                                                                         *)
(* A text is a sequence of its characters and of pieces of words that are  *)
(* never split, which count as one character; a file is a sequence of      *)
(* lines.  Lines are counted from 1.  Braces in keys are not nested.       *)
(***************************************************************************)
EXTENDS Integers, Sequences, FiniteSets, SequencesExt

Spanned(s, at) == IF at = {} THEN <<>> ELSE SubSeq(s, Min(at), Max(at))
Kept(s, dropped) == Spanned(s, {i \in DOMAIN s : s[i] \notin dropped})   \* strings.Trim
Trim(s) == Kept(s, {" ", "\t"})

Occurrences(s, t) == {i \in 1 .. Len(s) - Len(t) + 1 : SubSeq(s, i, i + Len(t) - 1) = t}
Has(s, t) == Occurrences(s, t) # {}
Index(s, t) == Min(Occurrences(s, t))
After(s, t) == SubSeq(s, Index(s, t) + Len(t), Len(s))
Before(s, t) == SubSeq(s, 1, Index(s, t) - 1)

(* The parts of s between its separators. *)
Nth(at, k) == CHOOSE i \in at : Cardinality({j \in at : j <= i}) = k
Between(s, cut) == [k \in 1 .. Cardinality(cut) - 1 |-> SubSeq(s, Nth(cut, k) + 1, Nth(cut, k + 1) - 1)]
Pieces(s, isSeparator) == Between(s, {0, Len(s) + 1} \union {i \in DOMAIN s : isSeparator[i]})

(* GetBracketValues and the placeholders made of them: where s is between braces. *)
Braced(s) ==
  [i \in DOMAIN s |->
     LET open == {j \in 1 .. i : s[j] = "{{"}
     IN  open # {} /\ \E j \in i .. Len(s) : s[j] = "}}" /\ \A k \in Max(open) .. j - 1 : s[k] # "}}"]

(* levenshtein.ComputeDistance, row by row: a character goes, stays or is replaced, *)
(* and others may come in after it.                                                  *)
NextRow(row, c, t) ==
  LET kept == <<row[1] + 1>> \o [j \in DOMAIN t |-> Min({row[j + 1] + 1, row[j] + (IF c = t[j] THEN 0 ELSE 1)})]
  IN  <<row[1] + 1>> \o [j \in DOMAIN t |-> Min({kept[k] + (j + 1 - k) : k \in 1 .. j + 1})]
Distance(s, t) ==
  LET row[n \in 0 .. Len(s)] ==
        IF n = 0 THEN [j \in 1 .. Len(t) + 1 |-> j - 1] ELSE NextRow(row[n - 1], s[n], t)
  IN  Last(row[Len(s)])

(* removeExtras: the end of a YAML key and the quotes of a word. *)
EndBefore(c, word, end) == IF end > 0 /\ word[end] = c THEN end - 1 ELSE end
RemoveExtras(word) ==
  SubSeq(word, IF word[1] = "\"" THEN 2 ELSE 1, EndBefore("\"", word, EndBefore(":", word, Len(word))))

(* ExtractLineFragment: the word of the line around substr, or all before ":".  *)
WordAround(line, from, to) ==
  LET gaps == {0, Len(line) + 1} \union {i \in DOMAIN line : line[i] = " "}
  IN  SubSeq(line, Max({i \in gaps : i <= from}) + 1, Min({i \in gaps : i >= to}) - 1)
ExtractLineFragment(line, substr, byKey) ==
  IF byKey /\ Has(line, <<":">>) THEN Before(line, <<":">>)
  ELSE RemoveExtras(WordAround(line, Index(line, substr), Index(line, substr) + Len(substr)))

WordDistance(line, str) == Distance(ExtractLineFragment(line, str, FALSE), str)

(* checkLine, of a line without the spaces around it: whether it has the part, *)
(* and how far it is from it.                                                  *)
IsComment(line) == line # <<>> /\ Head(line) \in {"#", "//"}
LooksLike(str1, str2, line) ==
  /\ ~IsComment(line)
  /\ str1 # <<>> /\ Has(line, str1)
  /\ str2 # <<>> => Has(After(line, str1), str2)
LineDistance(str1, str2, line) ==
  WordDistance(line, str1) + (IF str2 = <<>> THEN 0 ELSE WordDistance(After(line, str1), str2))

(* Faulty: the first line, however far it is from the part. *)
SelectFirstLine(distances) == Min(DOMAIN distances)
(* SelectLineWithMinimumDistance: of the nearest lines the first. *)
SelectLineWithMinimumDistance(distances) ==
  LET least == Min({distances[i] : i \in DOMAIN distances})
  IN  Min({i \in DOMAIN distances : distances[i] = least})

Start == [at |-> 1, found |-> FALSE, isBreak |-> FALSE]

Nearest(d, distances) ==
  IF DOMAIN distances = {} THEN [d EXCEPT !.isBreak = TRUE]
  ELSE [at |-> SelectLineWithMinimumDistance(distances), found |-> TRUE, isBreak |-> FALSE]

DetectCurrentLine(d, str1, str2, lines) ==
  Nearest(d, [i \in {j \in d.at .. Len(lines) : LooksLike(str1, str2, Trim(lines[j]))} |->
                LineDistance(str1, str2, Trim(lines[i]))])

Numbers == [digit \in {"0", "1", "2"} |-> CASE digit = "0" -> 0 [] digit = "1" -> 1 [] OTHER -> 2]   \* strconv.Atoi

(* The line gives the attribute a value, and a list on one line. *)
Assigns(name, line) == IsPrefix(name \o <<" ", "=">>, Trim(line))
AssignsList(name, line) == IsPrefix(name \o <<" ", "=", " ", "[">>, Trim(line))

(* resolveListIndex *)
SplitCommas(s) == Pieces(s, [i \in DOMAIN s |-> s[i] = ","])
ItemsOn(line) ==
  LET start == Index(line, <<"[">>)
      end == Index(line, <<"]">>)
  IN  IF Has(line, <<"[">>) /\ Has(line, <<"]">>) /\ end > start
      THEN SplitCommas(SubSeq(line, start + 1, end - 1)) ELSE <<>>
ListItem(index, name, lines) ==
  LET long == {i \in DOMAIN lines : AssignsList(name, lines[i]) /\ index < Len(ItemsOn(lines[i]))}
  IN  IF long = {} THEN <<>> ELSE Kept(Trim(ItemsOn(lines[Min(long)])[index + 1]), {"\""})

(* GenerateSubstrings: what a part says of its line.  base[value] is a block and *)
(* its label, or an item of a list; name=value an attribute, whose value is read *)
(* from the file when the part has none.                                         *)
Unbraced(text) == IF text # <<>> /\ text[1] = "{{" /\ Last(text) = "}}" THEN Front(Tail(text)) ELSE text
LabelOrItem(base, label, lines) ==
  <<base, IF Len(label) = 1 /\ label[1] \in DOMAIN Numbers
          THEN ListItem(Numbers[label[1]], base, lines) ELSE label>>
NameAndValue(name, value, lines) ==
  LET given == {i \in DOMAIN lines : Assigns(name, lines[i])}
  IN  <<name, IF value = <<>> /\ name # <<>> /\ given # {}
              THEN Trim(After(Trim(lines[Min(given)]), <<"=">>)) ELSE value>>
GenerateSubstrings(part, lines, current) ==
  IF part # <<>> /\ part[1] # "[" /\ Has(part, <<"[">>) /\ Last(part) = "]"
  THEN LabelOrItem(Before(part, <<"[">>), Unbraced(Kept(Front(After(part, <<"[">>)), {"\"", "'"})), lines)
  ELSE LET parted == IF Has(part, <<"=">>) THEN <<Before(part, <<"=">>), After(part, <<"=">>)>> ELSE <<part, <<>>>>
       IN  NameAndValue(Trim(parted[1]), Trim(parted[2]), SubSeq(lines, current, Len(lines)))

(* BICEP keys are written for the ARM template of the file. *)
BicepWords == [resources |-> "resource", parameters |-> "param", variables |-> "variable"]
BicepNames(str) == [i \in DOMAIN str |-> IF str[i] \in DOMAIN BicepWords THEN BicepWords[str[i]] ELSE str[i]]

DetectSubstrings(d, str, lines, bicep) ==
  DetectCurrentLine(d, IF bicep THEN BicepNames(str[1]) ELSE str[1], str[2], lines)
DetectPart(d, part, lines, bicep) ==
  IF d.isBreak THEN d ELSE DetectSubstrings(d, GenerateSubstrings(part, lines, d.at), lines, bicep)

DetectParts(parts, lines, bicep) ==
  LET after[n \in 0 .. Len(parts)] ==
        IF n = 0 THEN Start ELSE DetectPart(after[n - 1], parts[n], lines, bicep)
  IN  after[Len(parts)]

(* The parts of a key: "." separates them outside braces; a reference is one part. *)
Joined(parts) == FlattenSeq([i \in DOMAIN parts |-> IF i = 1 THEN parts[i] ELSE <<".">> \o parts[i]])
ReferenceAsOne(parts) ==
  LET refs == {i \in DOMAIN parts : "$ref" \in ToSet(parts[i])}
  IN  IF refs = {} THEN parts
      ELSE SubSeq(parts, 1, Min(refs) - 1) \o <<Joined(SubSeq(parts, Min(refs), Len(parts)))>>
SplitKey(key, braced) == Pieces(key, [i \in DOMAIN key |-> key[i] = "." /\ ~braced[i]])
Parts(key) == ReferenceAsOne(SplitKey(key, Braced(key)))

(* Faulty: the end of the file is not looked at. *)
AdjacentUnbounded(at, adj, n) ==
  LET wanted == Min({adj, n})
  IN  IF at = 1 THEN 1 .. wanted ELSE (at - ((IF adj % 2 = 0 THEN adj - 1 ELSE adj) \div 2)) .. (at + adj \div 2)

(* GetAdjacentVulnLines: the lines shown with line at of n, adj of them at most. *)
AdjacentVulnLines(at, adj, n) ==
  LET wanted == Min({adj, n})
      last == IF adj <= n THEN Min({at + adj \div 2, n}) ELSE n
      first == IF adj <= n THEN Max({at - ((IF adj % 2 = 0 THEN adj - 1 ELSE adj) \div 2), 1}) ELSE 1
  IN  IF at = 1 THEN 1 .. wanted ELSE IF at = n THEN (n - wanted + 1) .. n ELSE first .. last

Undetected == -1

(* defaultDetectLine.DetectLine *)
ShowLine(d, outputLines, n) ==
  IF d.found THEN [line |-> d.at, shown |-> AdjacentVulnLines(d.at, outputLines, n)]
  ELSE [line |-> Undetected, shown |-> {}]
DetectLine(key, lines, outputLines, bicep) ==
  ShowLine(DetectParts(Parts(key), lines, bicep), outputLines, Len(lines))
=============================================================================
