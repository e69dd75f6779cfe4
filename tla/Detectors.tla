----------------------------- MODULE Detectors -----------------------------
(***************************************************************************)
(* The line of a finding by the kind of its file (pkg/detector).           *)
(*                                                                         *)
(* In a Terraform file also the block it is in and the place where a       *)
(* remediation is to be inserted (terraform/terraform_detect.go).  The HCL *)
(* parser's view of a file is a sequence of blocks [from, to, blocks,      *)
(* attrs] with the first and the last line of each, the blocks within, and *)
(* attributes [from, to, kind]: "object", "call" or "other" is the kind of *)
(* expression.                                                             *)
(*                                                                         *)
(* A Helm template has a line "# KICS_HELM_ID_n:" above each of its        *)
(* manifests; the search looks for keys below the manifest's own marker,   *)
(* and the markers are taken out of the file again when the line is        *)
(* reported (helm/helm_detect.go).                                         *)
(***************************************************************************)
EXTENDS LineDetector

-----------------------------------------------------------------------------
(* Terraform.                                                                *)

(* The parts of a key: "." and "/" separate them wherever they stand. *)
KeyParts(key) ==
  LET all == Pieces(key, [i \in DOMAIN key |-> key[i] \in {".", "/"}])
  IN  FlattenSeq([i \in DOMAIN all |-> IF all[i] = <<>> THEN <<>> ELSE <<all[i]>>])

Nowhere == [named |-> FALSE, from |-> 0, to |-> 0, attr |-> FALSE]

(* findContainingStructure: the innermost block, or an object or a call among its *)
(* attributes, that the line is in.  Blocks within one another begin on different *)
(* lines: there are fewer of them than the block has lines.                       *)
Around(structures, line) == SelectSeq(structures, LAMBDA x : line \in x.from .. x.to)
Inward(block, line) ==
  LET nested == Around(block.blocks, line) IN IF nested = <<>> THEN block ELSE nested[1]
Innermost(block, line) ==
  LET within[n \in Nat] == IF n = 0 THEN block ELSE Inward(within[n - 1], line)
  IN  within[block.to - block.from]
Structure(s, attr) == [named |-> TRUE, from |-> s.from, to |-> s.to, attr |-> attr]
ContainingStructure(block, line) ==
  LET inner == Innermost(block, line)
      attrs == SelectSeq(Around(inner.attrs, line), LAMBDA a : a.kind \in {"object", "call"})
  IN  IF attrs # <<>> THEN Structure(attrs[1], TRUE)
      ELSE IF Around(block.blocks, line) # <<>> THEN Structure(inner, FALSE)
      ELSE Nowhere

(* Over the objects and calls at the end of the block, to the line before them. *)
AboveStructure(place, at) ==
  IF place.over \/ ~at.attr \/ at.to < place.line THEN [place EXCEPT !.over = TRUE]
  ELSE [line |-> at.from - 1, over |-> FALSE]
AboveTrailing(block) ==
  LET above[n \in Nat] ==   \* after n lines from the end
        IF n = 0 THEN [line |-> block.to - 1, over |-> FALSE]
        ELSE AboveStructure(above[n - 1], ContainingStructure(block, block.to - n))
  IN  above[block.to - block.from].line

(* Faulty: the line above the end of the block, whatever is there. *)
AboveEnd(block, line, lines) ==
  [line |-> IF line = block.from THEN block.to - 1 ELSE line, case |-> "block-start", from |-> 0, to |-> 0]

(* calculateInsertionPoint: the line, and which case it was. *)
InsertionLine(block, line, lines) ==
  LET at == ContainingStructure(block, line)
      text == ToSet(lines[at.from])
      Place(l, case) == [line |-> l, case |-> case, from |-> at.from, to |-> at.to]
  IN  IF at.named
      THEN IF at.attr /\ {"(", "{"} \subseteq text THEN Place(at.to + 1, "block-body")
           ELSE IF line = at.to THEN Place(at.to - 1, "nested-end")
           ELSE IF line = at.from THEN Place(at.from + 1, "nested-start")
           ELSE Place(line, "nested-body")
      ELSE IF line = block.from THEN Place(AboveTrailing(block), "block-start")
      ELSE Place(line, "block-body")

(* countLeadingSpacesOrTabs, firstNonWhitespaceIndex *)
Indent(line) == Min({i \in DOMAIN line : line[i] \notin {" ", "\t"}} \union {Len(line) + 1}) - 1

(* isHeredocTerminator: the nearest "<<" above that ends its line has this marker. *)
IsHeredocTerminator(trimmed, lines, at) ==
  LET marked == {i \in 1 .. at - 1 : Cardinality({j \in DOMAIN lines[i] : lines[i][j] = "<<"}) = 1}
  IN  marked # {} /\ trimmed = Trim(After(lines[Max(marked)], <<"<<">>))

(* determineInsertionIndent, and the column that calculateInsertionPoint makes of it. *)
InsertionColumn(place, lines) ==
  LET line == lines[place.line]
      trimmed == Trim(line)
      above == {i \in place.from .. place.to - 1 : Trim(lines[i]) # <<>> /\ Head(Trim(lines[i])) # "#"}
      indent ==
        CASE place.case = "nested-end" -> IF above = {} THEN 0 ELSE Indent(lines[Max(above)])
          [] place.case = "nested-start" -> Indent(lines[place.from]) + 2
          [] place.case = "block-start" -> IF trimmed \in {<<>>, <<"}">>} THEN 1 ELSE Indent(line)
          [] OTHER -> Indent(line)
  IN  IF place.case = "block-start" /\ ("}" \in ToSet(trimmed) \/ IsHeredocTerminator(trimmed, lines, place.line))
      THEN Len(line) + 1 ELSE indent + 1

(* locateTerraformBlock, DetectKindLine.DetectLine.  An insertion line outside   *)
(* the file panics, and the query with it.                                       *)
NothingFound == [line |-> Undetected, shown |-> {}, block |-> <<>>, insert |-> <<>>, panic |-> FALSE]
PlaceIn(block, at, place, lines, outputLines) ==
  IF place.line \notin DOMAIN lines THEN [NothingFound EXCEPT !.panic = TRUE]
  ELSE [line |-> at, shown |-> AdjacentVulnLines(at, outputLines, Len(lines)), panic |-> FALSE,
        block |-> <<block.from, block.to>>, insert |-> <<place.line, InsertionColumn(place, lines)>>]
LocateBlock(d, lines, outputLines, blocks) ==
  LET within == SelectSeq(blocks, LAMBDA b : d.at \in b.from .. b.to)
  IN  IF ~d.found \/ within = <<>> THEN NothingFound
      ELSE PlaceIn(within[1], d.at, InsertionLine(within[1], d.at, lines), lines, outputLines)
Locate(key, lines, outputLines, blocks) ==
  LocateBlock(DetectParts(KeyParts(key), lines, FALSE), lines, outputLines, blocks)

-----------------------------------------------------------------------------
(* Helm.                                                                     *)

Marker == "KICS_HELM_ID_"
IsMarker(line) == Has(line, <<"#", " ", Marker>>)

NoLine == [at |-> 1, found |-> FALSE, isBreak |-> FALSE, unique |-> FALSE, lastUnique |-> 1]

(* detectCurrentLine: the line from d on whose key is nearest to the part.  It is  *)
(* unique unless a line of the manifest (own) is as near.                          *)
NearestKey(d, distances, own) ==
  LET at == SelectLineWithMinimumDistance(distances)
      unique == ~\E i \in (DOMAIN distances \intersect own) \ {at} : distances[i] = distances[at]
  IN  IF DOMAIN distances = {} THEN [d EXCEPT !.isBreak = TRUE]
      ELSE [at |-> at, found |-> TRUE, isBreak |-> FALSE, unique |-> unique,
            lastUnique |-> IF unique THEN at ELSE d.lastUnique]
DetectKey(d, key, lines, own) ==
  NearestKey(d, [i \in {j \in d.at .. Len(lines) : Has(lines[j], key)} |->
                   Distance(ExtractLineFragment(Trim(lines[i]), key, TRUE), key)], own)

(* The loop that deletes the markers ranges over the array it deletes from: what  *)
(* is behind the n lines left moves up, and the range goes on to the array's end. *)
DeleteAt(s, i) ==
  IF s.panic \/ ~IsMarker(s.array[i]) THEN s
  ELSE IF i > s.n THEN [s EXCEPT !.panic = TRUE]
  ELSE [array |-> [k \in DOMAIN s.array |-> IF k \in i .. s.n - 1 THEN s.array[k + 1] ELSE s.array[k]],
        n |-> s.n - 1, removed |-> Append(s.removed, i), panic |-> FALSE]
RemoveMarkers(lines) ==
  LET met[i \in 0 .. Len(lines)] ==
        IF i = 0 THEN [array |-> lines, n |-> Len(lines), removed |-> <<>>, panic |-> FALSE]
        ELSE DeleteAt(met[i - 1], i)
  IN  met[Len(lines)]

(* Faulty: the markers are not counted. *)
KeepLine(at, removed) == at
(* removeLines: the markers deleted above the line, by the index each was met at. *)
RemoveLines(at, removed) == at - Cardinality({k \in DOMAIN removed : \A j \in 1 .. k : at > removed[j]})

(* DetectLine: id is the manifest's marker, own the lines of its part of the file. *)
SearchPart(d, part, lines, own) ==
  IF d.isBreak THEN d ELSE DetectKey(d, Append(GenerateSubstrings(part, lines, d.at)[1], ":"), lines, own)
NotFound == [line |-> Undetected, shown |-> {}, panic |-> FALSE]
ShowAt(at, n, outputLines) ==
  IF at \notin 1 .. n THEN [NotFound EXCEPT !.panic = TRUE]
  ELSE [line |-> at, shown |-> AdjacentVulnLines(at, outputLines, n), panic |-> FALSE]
Cleaned(d, cleaned, outputLines) ==
  IF ~d.found THEN NotFound
  ELSE IF cleaned.panic THEN [NotFound EXCEPT !.panic = TRUE]
  ELSE ShowAt(RemoveLines(IF d.unique THEN d.at ELSE d.lastUnique, cleaned.removed), cleaned.n, outputLines)
DetectHelm(key, lines, outputLines, id, own) ==
  Cleaned(FoldLeft(LAMBDA d, part : SearchPart(d, part, lines, own), NoLine, <<<<Marker, id>>>> \o Parts(key)),
          RemoveMarkers(lines), outputLines)

-----------------------------------------------------------------------------
(* DetectLine of pkg/detector/detector.go: by the kind of the file.          *)
Detected(key, file, outputLines) ==
  CASE file.kind = "TERRAFORM" -> Locate(key, file.lines, outputLines, file.blocks)
    [] file.kind = "HELM" -> DetectHelm(key, file.lines, outputLines, file.helm, file.own)
    [] OTHER -> DetectLine(key, file.lines, outputLines, file.kind = "BICEP")
=============================================================================
