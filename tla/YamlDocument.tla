---------------------------- MODULE YamlDocument ----------------------------
(***************************************************************************)
(* What the YAML parser makes of one decoded document: the values, the     *)
(* line of every key (_kics_lines) and the lines that comments exclude     *)
(* (pkg/parser/yaml/parser.go, pkg/model/model_yaml.go, comment_yaml.go).  *)
(*                                                                         *)
(* A node is [kind, text, tag, line, rows, head, foot, items, anchor]: the *)
(* items of a mapping are its keys and values in turn, rows the line       *)
(* breaks inside a scalar, anchor the node an alias stands for.  A comment *)
(* is what its text says: [cmd, n, ends] with the command in it ("" for no *)
(* comment at all), its lines, and whether the command ends it.            *)
(***************************************************************************)
EXTENDS Integers, Sequences, FiniteSets, TLC, SequencesExt

NoComment == [cmd |-> "", n |-> 0, ends |-> FALSE]
Default == "_kics__default"

(* Every operator that collects lines returns a set of lines; Crash in it says   *)
(* that the code indexed an empty slice on the way: nothing recovers that panic. *)
Crash == -1

LineRange(first, last) == {l \in 0 .. last : l >= first}

RECURSIVE LastLine(_)
(* Faulty: only the node's own items are looked at. *)
LastLineShallow(node) ==
  LET lines == {node.line + node.rows} \union {node.items[i].line : i \in DOMAIN node.items}
  IN  CHOOSE l \in lines : \A m \in lines : m <= l

(* getNodeLastLine *)
LastLine(node) ==
  IF node.items = <<>> THEN node.line + node.rows
  ELSE LET lines == {node.line} \union {LastLine(node.items[i]) : i \in DOMAIN node.items}
                    \union {node.items[i].line : i \in DOMAIN node.items}
       IN  CHOOSE l \in lines : \A m \in lines : m <= l

(* processLine: the node below the comment and the line above it. *)
ProcessLine(node, position) ==
  IF node.kind = "scalar" THEN {node.line - 1, node.line}
  ELSE IF node.items = <<>> THEN {Crash}
  ELSE {node.items[position].line - 1, node.items[position].line}

(* processBlock: the items of the node the comment stands over.  Positions are   *)
(* counted from 1.                                                               *)
ProcessBlock(node, position) ==
  LET items == node.items
      ignored == IF node.kind = "seq" THEN items[position].items
                 ELSE IF position = 1 THEN items
                 ELSE items[position + 1].items
  IN  IF \/ items = <<>>
         \/ node.kind # "seq" /\ position > 1 /\ position + 1 > Len(items)
      THEN {Crash}
      ELSE IF ignored = <<>> THEN {Crash}
      ELSE {items[position].line, items[position].line - 1}
           \union LineRange(Head(ignored).line, LastLine(Last(ignored)))

(* getFootComments: back to the node the comment hangs below, then past the last *)
(* item of a sequence that follows it.                                           *)
FootComments(comment, node, position) ==
  LET at == CHOOSE i \in 1 .. position :
              node.items[i].foot = comment /\ \A j \in (i + 1) .. position : node.items[j].foot # comment
      next == node.items[at + 1]
      line == IF next.kind # "seq" THEN node.items[at].line
              ELSE IF next.items = <<>> THEN next.line
              ELSE Last(next.items).line
  IN  LineRange(line + 1, line + comment.n)

(* processRegularLine *)
ProcessRegularLine(comment, node, position, isFooter) ==
  IF node.items = <<>> THEN {}
  ELSE IF isFooter THEN FootComments(comment, node, position)
  ELSE LET line == node.items[position].line
       IN  ((line - comment.n) .. (line - 1)) \union (IF comment.ends THEN {line} ELSE {})

(* processCommentYAML *)
ProcessComment(comment, position, node, isFooter) ==
  CASE comment.cmd = "ignore-line" -> ProcessLine(node, position)
    [] comment.cmd = "ignore-block" -> ProcessBlock(node, position)
    [] OTHER -> ProcessRegularLine(comment, node, position, isFooter)

(* ignoreCommentsYAML: the node's own comment, or else those of its items. *)
IgnoreComments(node) ==
  IF node.head # NoComment THEN ProcessComment(node.head, 1, node, FALSE)
  ELSE UNION {(IF node.items[i].foot # NoComment /\ i + 2 <= Len(node.items)
               THEN ProcessComment(node.items[i].foot, i + 2, node, TRUE) ELSE {})
              \union
              (IF node.items[i].head # NoComment
               THEN ProcessComment(node.items[i].head, i, node, FALSE) ELSE {})
              : i \in DOMAIN node.items}

(* Faulty: an element that is a map has the line of the list's key. *)
ElementLineOfKey(key, e) == IF e.kind = "scalar" THEN e.line ELSE key.line

(* The default line of a list's element: that of its first key, if it is a map. *)
ElementLine(key, e) ==
  IF e.kind = "scalar" THEN e.line
  ELSE IF e.kind = "map" /\ e.items # <<>> THEN Head(e.items).line
  ELSE key.line

(* getLines, getSeqLines: the line of every key, and of the elements of a list. *)
RECURSIVE Lines(_, _)
Lines(node, def) ==
  IF node.kind = "seq"
  THEN Default :> [line |-> def, arr |-> [i \in DOMAIN node.items |-> Lines(node.items[i], node.items[i].line)]]
  ELSE LET keys == {i \in DOMAIN node.items : i % 2 = 1 /\ node.kind = "map"}
           Elements(key, val) ==
             IF val.kind # "seq" THEN <<>>
             ELSE [j \in DOMAIN val.items |-> Lines(val.items[j], ElementLine(key, val.items[j]))]
           LastOf(text) == Max({i \in keys : node.items[i].text = text})
           Info(i) == [line |-> node.items[i].line, arr |-> Elements(node.items[i], node.items[i + 1])]
       IN  [text \in {node.items[i].text : i \in keys} |-> Info(LastOf(text))] @@ (Default :> [line |-> def, arr |-> <<>>])

(* scalarNodeResolver *)
ScalarValue(node) ==
  CASE node.tag = "!!bool" -> [is |-> "bool", of |-> ToString(node.text \in {"true", "True"})]
    [] node.tag = "!!int" -> [is |-> "int", of |-> node.text]
    [] node.tag = "!!null" -> [is |-> "nil", of |-> ""]
    [] OTHER -> [is |-> "text", of |-> node.text]

(* The result of unmarshal: the value and the lines to ignore it has built up.  Of *)
(* an entry of a map, its key, its value and the results of the nodes inside it.    *)
Inside(val) ==
  CASE val.kind = "scalar" -> <<>>
    [] val.kind = "map" -> <<val>>
    [] val.kind = "seq" -> val.items
    [] OTHER -> <<Head(val.anchor)>>
(* An alias: its map is merged into this one, whatever the key. *)
Merged(key, value) ==
  CASE value.is = "map" -> value.of [] value.is = "text" -> key :> value [] OTHER -> <<>>
Values(results) == [is |-> "list", of |-> [i \in DOMAIN results |-> results[i].value]]
Entries(key, val, results) ==
  CASE val.kind = "scalar" -> key.text :> ScalarValue(val)
    [] val.kind = "map" -> key.text :> [results[1].value EXCEPT !.lines = Lines(val, key.line)]
    [] val.kind = "seq" -> key.text :> Values(results)
    [] OTHER -> Merged(key.text, results[1].value)
Ignored(results) == UNION {results[i].ignore : i \in DOMAIN results}
Pair(key, val, results) == [map |-> Entries(key, val, results), ignore |-> Ignored(results)]

MapOf(entries) == [is |-> "map", lines |-> <<>>, of |-> entries]
(* the entries in their order: a later one replaces an earlier one *)
UnmarshalItems(pairs) == FoldLeft(LAMBDA map, pair : pair.map @@ map, <<>>, pairs)

RECURSIVE Unmarshal(_)
Unmarshal(node) ==
  LET All(nodes) == [i \in DOMAIN nodes |-> Unmarshal(nodes[i])]
  IN  CASE node.kind = "scalar" -> [value |-> ScalarValue(node), ignore |-> IgnoreComments(node)]
        [] node.kind = "seq" ->
             LET elements == All(node.items)
             IN  [value |-> MapOf("playbooks" :> Values(elements)), ignore |-> IgnoreComments(node) \union Ignored(elements)]
        [] OTHER ->
             LET pairs == [k \in 1 .. (Len(node.items) \div 2) |->
                             Pair(node.items[2 * k - 1], node.items[2 * k], All(Inside(node.items[2 * k])))]
             IN  [value |-> MapOf(UnmarshalItems(pairs)), ignore |-> IgnoreComments(node) \union Ignored(pairs)]

(* UnmarshalYAML and Parser.Parse: a document that is not a map ends the decoding;     *)
(* documents before it are kept, an empty one is skipped.  NewIgnore is reset for      *)
(* every file, not for every document.                                                 *)
RECURSIVE ParseDocuments(_, _, _), ParseDocument(_, _, _, _)
ParseDocuments(nodes, docs, ignore) ==
  IF nodes = <<>> THEN [docs |-> docs, ignore |-> ignore]
  ELSE IF Head(nodes).tag = "!!null" THEN ParseDocuments(Tail(nodes), docs, ignore)
  ELSE ParseDocument(Unmarshal(Head(nodes)), nodes, docs, ignore)
ParseDocument(d, nodes, docs, ignore) ==
  IF d.value.is # "map" THEN [docs |-> docs, ignore |-> ignore \union d.ignore]
  ELSE ParseDocuments(Tail(nodes), Append(docs, [d.value EXCEPT !.lines = Lines(Head(nodes), 0)]), ignore \union d.ignore)

(* addExtraInfo: the file that a certificate names is read for every module of  *)
(* a list of plays; a certificate that is not a text is a failed assertion.      *)
ExtraInfoPanics(doc) ==
  "playbooks" \in DOMAIN doc.of /\ doc.of["playbooks"].is = "list" /\
  \E play \in ToSet(doc.of["playbooks"].of) :
    play.is = "map" /\ \E m \in DOMAIN play.of :
      /\ play.of[m].is = "map" /\ "certificate" \in DOMAIN play.of[m].of
      /\ play.of[m].of["certificate"].is \notin {"text", "nil"}

(* Parser.Parse: nothing recovers a panic of either kind. *)
Outcome(r) ==
  LET crash == Crash \in r.ignore \/ \E i \in DOMAIN r.docs : ExtraInfoPanics(r.docs[i])
  IN  [docs |-> IF crash THEN <<>> ELSE r.docs, ignore |-> r.ignore, crash |-> crash]
ParseYaml(nodes) == Outcome(ParseDocuments(nodes, <<>>, {}))
=============================================================================
