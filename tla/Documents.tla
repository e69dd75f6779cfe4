----------------------------- MODULE Documents -----------------------------
(***************************************************************************)
(* What becomes of the content of a file on its way to the queries: the    *)
(* references of the file are replaced (FileResolver), and its content is  *)
(* decoded, given the lines of its keys and searched for comments          *)
(* (YamlDocument, JsonDocument, BicepDocument); the patterns of log filters *)
(* in it are read (JsonFilter).  Each behaviour is one call of one of these *)
(* operations; input and output are the call's.                            *)
(***************************************************************************)
EXTENDS Call

CONSTANTS Content, Folder, BaseName, IsYaml, OpenAPI, Invalid, Unreadable, Refs,
          Located, LocateVars,   \* the files, as in FileResolver
          Resolutions,          \* set of [file, max, refs]
          YamlFiles,            \* set of sequences of nodes, one per document
          JsonFiles,            \* set of objects and arrays
          Plans,                \* set of root modules
          Filters,              \* set of filter expressions, see FilterText
          Programs              \* set of sequences of Bicep declarations, see Printed

Resolver == INSTANCE FileResolver
Yaml == INSTANCE YamlDocument
Json == INSTANCE JsonDocument
Filter == INSTANCE JsonFilter
Bicep == INSTANCE BicepDocument

DocumentsInit ==
  \/ Called("resolve", Resolutions)
  \/ Called("yaml", YamlFiles)
  \/ Called("json", JsonFiles)
  \/ Called("plan", Plans)
  \/ Called("filter", Filters)
  \/ Called("bicep", Programs)

(* The tokens of a filter and of a program: how they are written. *)
Op(kind) == [kind |-> kind, text |-> kind]
RECURSIVE FilterText(_)
FilterText(f) ==
  IF f.op \in {"&&", "||"}
  THEN LET Side(g, needed) == IF needed THEN <<Op("(")>> \o FilterText(g) \o <<Op(")")>> ELSE FilterText(g)
           Looser(g) == f.op = "&&" /\ g.op = "||"
       IN  Side(f.left, Looser(f.left)) \o <<Op(f.op)>>
           \o Side(f.right, Looser(f.right) \/ f.right.op = f.op)
  ELSE <<Op("$.")>> \o f.selector \o <<Op(f.op)>> \o f.value
FilterTokens(f) == <<Op("{")>> \o FilterText(f) \o <<Op("}")>>

RECURSIVE Printed(_), PrintedParts(_)
PrintedParts(parts) == FlattenSeq([i \in DOMAIN parts |-> Printed(parts[i])])
Word(kind) == [kind |-> kind, text |-> <<kind>>]
Named(name) == [kind |-> "IDENTIFIER", text |-> name]
Printed(v) ==
  CASE v.is = "tokens" -> v.of
    [] v.is = "number" -> <<[kind |-> "NUMBER", text |-> v.of]>>
    [] v.is = "bool" -> <<[kind |-> Head(v.of), text |-> v.of]>>
    [] v.is = "text" -> <<[kind |-> "STRING_COMPLETE", text |-> v.of]>>
    [] v.is = "list" ->
         <<Word("["), Word("NL")>> \o FlattenSeq([i \in DOMAIN v.of |-> Append(Printed(v.of[i]), Word("NL"))])
         \o <<Word("]")>>
    [] v.is = "map" ->
         <<Word("{"), Word("NL")>>
         \o FlattenSeq([i \in DOMAIN v.of |->
              <<Named(v.of[i].key), Word(":")>> \o Append(Printed(v.of[i].value), Word("NL"))])
         \o <<Word("}")>>
    [] v.is = "param" ->
         v.decorators \o <<Word("param"), Named(v.name), [Word("string") EXCEPT !.kind = v.type, !.text = <<v.type>>],
                           Word("=")>> \o Append(Printed(v.of), Word("NL"))
    [] v.is = "var" -> v.decorators \o <<Word("var"), Named(v.name), Word("=")>> \o Append(Printed(v.of), Word("NL"))
    [] v.is = "resource" ->
         v.decorators \o <<Word("resource"), Named(v.name), [kind |-> "STRING_COMPLETE", text |-> v.type], Word("=")>>
         \o Append(Printed(v.of), Word("NL"))
BicepTokens(program) ==
  LET ts == Append(PrintedParts(program), Word("EOF"))
      Line(i) == 1 + Cardinality({j \in 1 .. i - 1 : ts[j].kind = "NL"})
  IN  [i \in DOMAIN ts |-> [kind |-> ts[i].kind, text |-> ts[i].text, line |-> Line(i)]]

Resolve == call = "resolve" /\ Return(Resolver!ParserResolve(input.file, input.max, input.refs))
ParseYaml == call = "yaml" /\ Return(Yaml!ParseYaml(input))
ParseJson == call = "json" /\ Return(Json!ParseJson(input))
ParsePlan == call = "plan" /\ Return(Json!ReadPlan(input))
ReadFilter == call = "filter" /\ Return(Filter!ResolveJSONFilter(FilterTokens(input)))
ParseBicep == call = "bicep" /\ Return(Bicep!With(BicepTokens(input), Bicep!ParseBicep))

DocumentsNext == Resolve \/ ParseYaml \/ ParseJson \/ ParsePlan \/ ReadFilter \/ ParseBicep
DocumentsSpec == DocumentsInit /\ [][DocumentsNext]_vars

Resolved == returned /\ call = "resolve"
YamlParsed == returned /\ call = "yaml"
JsonParsed == returned /\ call = "json"
PlanParsed == returned /\ call = "plan"
FilterRead == returned /\ call = "filter"
BicepParsed == returned /\ call = "bicep"

-----------------------------------------------------------------------------
(* References: what a reader of the files expects.                           *)

(* The files that the texts of a tree name. *)
RECURSIVE Texts(_)
Texts(t) == IF t.kind = "scalar" THEN {t.text} ELSE UNION {Texts(t.items[i]) : i \in DOMAIN t.items}
TextsIn(trees) == UNION {Texts(trees[i]) : i \in DOMAIN trees}
FileTexts(f) == TextsIn(Content[f]) \intersect DOMAIN Refs
Place(f, text) == <<Folder[f], Refs[text].name>>
Target(f, text) == Located[Place(f, text)]
Names(f) == {text \in FileTexts(f) : Place(f, text) \in DOMAIN Located}
Successors(f) == {Target(f, text) : text \in Names(f)}

RECURSIVE ReachedIn(_, _)
ReachedIn(fs, n) == IF n = 0 THEN fs ELSE ReachedIn(UNION {Successors(f) : f \in fs}, n - 1)
Reachable(f) == UNION {ReachedIn({f}, n) : n \in 0 .. Cardinality(DOMAIN Content)}
Acyclic(f) == ReachedIn({f}, Cardinality(DOMAIN Content)) = {}

(* Whole files and their sections only, all of one format and all of them legible. *)
NamesFile(g, ref, yaml) ==
  /\ <<Folder[g], ref.name>> \in DOMAIN Located
  /\ IF yaml THEN ref.sec = Resolver!NoSection ELSE ref.sec # Resolver!Hash
Simple(f) ==
  /\ Acyclic(f)
  /\ \A g \in Reachable(f) :
       /\ g \notin Invalid \union Unreadable \union OpenAPI
       /\ IsYaml[g] = IsYaml[f]
       /\ \A text \in FileTexts(g) : NamesFile(g, Refs[text], IsYaml[f])

RECURSIVE Expand(_, _), ExpandText(_, _), SectionOf(_, _)
SectionOf(t, sec) ==
  IF sec = <<>> THEN <<t>>
  ELSE LET at == {i \in DOMAIN t.items : i % 2 = 1 /\ t.items[i].text = Head(sec)}
       IN  IF at = {} THEN <<>> ELSE SectionOf(t.items[1 + CHOOSE i \in at : TRUE], Tail(sec))
(* A text that names a file stands for its first document; with "$ref" before it *)
(* it replaces the whole map.                                                    *)
OrSection(whole, sec, t) ==
  IF sec = Resolver!NoSection THEN whole
  ELSE LET part == SectionOf(whole, sec) IN IF part = <<>> THEN t ELSE part[1]
ExpandText(f, t) ==
  LET g == Target(f, t.text)
  IN  IF t.text \in Names(f) THEN OrSection(Expand(g, Content[g][1]), Refs[t.text].sec, t) ELSE t
Expand(f, t) ==
  LET refs == {i \in DOMAIN t.items : i % 2 = 1 /\ t.kind = "map" /\ t.items[i].text = "$ref"}
      IsKey(i) == t.kind = "map" /\ i % 2 = 1
  IN  IF t.kind = "scalar" THEN ExpandText(f, t)
      ELSE IF refs # {} THEN Expand(f, t.items[1 + CHOOSE i \in refs : TRUE])
      ELSE [t EXCEPT !.items = [i \in DOMAIN @ |-> IF IsKey(i) THEN @[i] ELSE Expand(f, @[i])]]

(* The resolver's own entries. *)
RECURSIVE WithoutMetadata(_)
WithoutMetadata(t) ==
  LET keep == {i \in DOMAIN t.items :
                 ~(t.kind = "map" /\ t.items[IF i % 2 = 1 THEN i ELSE i - 1].text = "RefMetadata")}
      items == [i \in DOMAIN t.items |-> WithoutMetadata(t.items[i])]
  IN  [t EXCEPT !.items = [k \in 1 .. Cardinality(keep) |->
                             items[CHOOSE i \in keep : Cardinality({j \in keep : j <= i}) = k]]]

(* A file whose chains of references are shorter than the limit is expanded     *)
(* completely, whatever the order of its references and however often a file    *)
(* is named: Resolve of pkg/resolver/file/file.go, its cache and its depth.     *)
ShortChainsExpanded ==
  Resolved =>
    LET f == input.file
    IN  Simple(f) /\ ReachedIn({f}, input.max + 1) = {} =>
          output.out # <<>> /\ WithoutMetadata(output.out[1]) = Expand(f, Content[f][1])

(* Resolving ends: no file is entered below the limit, and without a cycle of   *)
(* references no file is read twice.                                            *)
ResolverBounded ==
  Resolved =>
    /\ output.st.deepest <= input.max
    /\ Simple(input.file) => output.st.reads <= Cardinality(Reachable(input.file))

-----------------------------------------------------------------------------
(* YAML.                                                                     *)

KeysOf(node) == {i \in DOMAIN node.items : i % 2 = 1}
RECURSIVE PlainNode(_)
PlainNode(node) ==
  /\ node.kind # "alias"
  /\ node.kind = "map" => \A i, j \in KeysOf(node) : node.items[i].text = node.items[j].text => i = j
  /\ node.kind = "seq" => \A i \in DOMAIN node.items : node.items[i].kind # "seq"
  /\ \A i \in DOMAIN node.items : PlainNode(node.items[i])

(* The lines recorded for a mapping: each key's own, the default of a list's      *)
(* element that is a map its first key's, at the element's place in the list.     *)
RECURSIVE LinesMatch(_, _, _)
LinesMatch(node, value, lines) ==
  /\ DOMAIN lines = {node.items[i].text : i \in KeysOf(node)} \union {Yaml!Default}
  /\ \A i \in KeysOf(node) :
       LET key == node.items[i]
           val == node.items[i + 1]
           info == lines[key.text]
       IN  /\ info.line = key.line
           /\ val.kind = "map" =>
                LET inner == value.of[key.text]
                IN  LinesMatch(val, inner, inner.lines) /\ inner.lines[Yaml!Default].line = key.line
           /\ val.kind = "seq" =>
                /\ Len(info.arr) = Len(val.items)
                /\ \A e \in DOMAIN val.items :
                     LET element == val.items[e]
                     IN  /\ element.kind = "map" => LinesMatch(element, value.of[key.text].of[e], info.arr[e])
                         /\ info.arr[e][Yaml!Default].line =
                              IF element.kind = "map" /\ element.items # <<>>
                              THEN element.items[1].line
                              ELSE IF element.kind = "scalar" THEN element.line ELSE key.line

(* The queries find every key of every document where the file has it, in maps,   *)
(* lists and lists of maps: getLines of pkg/model/model_yaml.go against the walk  *)
(* of unmarshal that fills the values beside it.                                  *)
YamlLinesRight ==
  YamlParsed =>
    LET read == SelectSeq(input, LAMBDA d : d.tag # "!!null")
    IN  \A k \in DOMAIN output.docs :
          PlainNode(read[k]) /\ read[k].kind = "map" =>
            LinesMatch(read[k], output.docs[k], output.docs[k].lines)

RECURSIVE Nodes(_), BlockEnd(_)
Nodes(node) == {node} \union UNION {Nodes(node.items[i]) : i \in DOMAIN node.items}
BlockEnd(node) ==
  LET ends == {n.line + n.rows : n \in Nodes(node)} IN CHOOSE l \in ends : \A m \in ends : m <= l

(* Every comment of the file: over which item of which node it stands. *)
HeadComments(docs) ==
  {c \in UNION {{[node |-> n, i |-> i] : i \in DOMAIN n.items} : n \in UNION {Nodes(docs[k]) : k \in DOMAIN docs}} :
     c.node.items[c.i].head.cmd # ""}

(* "ignore-block" over a key other than the first excludes the comment's line and *)
(* the key down to the last line of its value, however deep the value goes; and   *)
(* a file whose only comment it is loses no other line (processBlock,             *)
(* getNodeLastLine of pkg/model/comment_yaml.go).                                 *)
IgnoreBlockExact ==
  YamlParsed /\ ~output.crash =>
    \A c \in HeadComments(input) :
      LET key == c.node.items[c.i]
          block == (key.line - 1) .. BlockEnd(c.node.items[c.i + 1])
      IN  key.head.cmd = "ignore-block" /\ c.node.kind = "map" /\ c.i > 1 =>
            /\ block \subseteq output.ignore
            /\ Cardinality(HeadComments(input)) = 1 => output.ignore = block

(* docs/running-kics.md:191: "`ignore-block`: Will ignore the block and all its   *)
(* key-value pairs on the results".  A comment never stops the program.           *)
IgnoreBlockNeverCrashes == YamlParsed => ~output.crash

-----------------------------------------------------------------------------
(* JSON.                                                                     *)

RECURSIVE JsonTexts(_), JsonKeys(_), ArraysFlat(_)
JsonTexts(t) ==
  IF t.kind = "val" THEN {t.text}
  ELSE IF t.kind = "obj" THEN UNION {JsonTexts(t.items[i].val) : i \in DOMAIN t.items}
  ELSE UNION {JsonTexts(t.items[i]) : i \in DOMAIN t.items}
JsonKeys(t) ==
  IF t.kind = "val" THEN {}
  ELSE IF t.kind = "obj" THEN {t.items[i].key : i \in DOMAIN t.items}
                              \union UNION {JsonKeys(t.items[i].val) : i \in DOMAIN t.items}
  ELSE UNION {JsonKeys(t.items[i]) : i \in DOMAIN t.items}
ArraysFlat(t) ==
  CASE t.kind = "val" -> TRUE
    [] t.kind = "obj" -> \A i \in DOMAIN t.items : ArraysFlat(t.items[i].val)
    [] OTHER -> \A i \in DOMAIN t.items : t.items[i].kind # "arr" /\ ArraysFlat(t.items[i])

RECURSIVE JsonLinesMatch(_, _)
JsonLinesMatch(obj, lines) ==
  /\ DOMAIN lines = {obj.items[i].key : i \in DOMAIN obj.items} \union {"_kics__default"}
  /\ \A i \in DOMAIN obj.items :
       LET m == obj.items[i]
           info == lines[m.key]
       IN  /\ info.line = m.line
           /\ m.val.kind = "obj" => JsonLinesMatch(m.val, info.sub)
           /\ m.val.kind = "arr" =>
                /\ Len(info.arr) = Len(m.val.items)
                /\ \A e \in DOMAIN m.val.items :
                     LET element == m.val.items[e]
                     IN  IF element.kind = "obj" THEN JsonLinesMatch(element, info.arr[e])
                         ELSE info.arr[e]["_kics__default"].line = element.line

(* The lines that the JSON parser recovers from the token stream are the lines of *)
(* the keys, in nested objects and in lists whose elements have the same keys,    *)
(* unless a text of the file is also one of its keys or a list holds a list       *)
(* (delimSetup, closeBrackets, setLine and setSeqLines of json_line.go).          *)
JsonLinesRight ==
  JsonParsed /\ input.kind = "obj" /\ JsonTexts(input) \intersect JsonKeys(input) = {} /\ ArraysFlat(input) =>
    JsonLinesMatch(input, output[1])

RECURSIVE Modules(_)
Modules(m) == <<m>> \o FlattenSeq([i \in DOMAIN m.children |-> Modules(m.children[i])])

(* Every planned resource reaches the document, of whichever module, as long as   *)
(* no later module has a resource of its type: readModule of tfplan.go.           *)
PlanKeepsResources ==
  PlanParsed =>
    LET modules == Modules(input)
    IN  \A k \in DOMAIN modules : \A r \in ToSet(modules[k].resources) :
          (\A j \in (k + 1) .. Len(modules) : \A s \in ToSet(modules[j].resources) : s.type # r.type)
          => /\ r.type \in DOMAIN output /\ r.name \in DOMAIN output[r.type]
             /\ output[r.type][r.name] = r.attrs

-----------------------------------------------------------------------------
(* Filters.                                                                  *)

Texts_(tokens) == [i \in DOMAIN tokens |-> tokens[i].text]
RECURSIVE FilterTree(_)
FilterTree(f) ==
  IF f.op \in {"&&", "||"} THEN [op |-> f.op, left |-> FilterTree(f.left), right |-> FilterTree(f.right)]
  ELSE [selector |-> <<"$.">> \o Texts_(f.selector), op |-> <<f.op>>, value |-> Texts_(f.value)]

(* However a filter is composed and wherever it needs parentheses, the tree that  *)
(* the queries see is the one that was written: "&&" before "||", both from the   *)
(* left (filter_expr of jsonfilter_parser.go, whose precedences are numbers in a  *)
(* loop, and jsonfilter_tree_visitor.go).  Qualified identifiers, whose value the *)
(* visitor loses, are not among the values.                                       *)
FiltersReadAsWritten == FilterRead => output.parsed /\ output.val = FilterTree(input)

-----------------------------------------------------------------------------
(* Bicep.                                                                    *)

Height(v) == Len(SelectSeq(Printed(v), LAMBDA t : t.kind = "NL"))
RECURSIVE LineIn(_, _, _)
LineIn(parts, i, line) == IF i = 1 THEN line ELSE LineIn(Tail(parts), i - 1, line + Height(Head(parts)) + 1)

(* A call with one argument is read as two items of a list: its name, and the *)
(* argument in parentheses.                                                   *)
Unambiguous(items) ==
  \A i \in DOMAIN items : items[i].is = "tokens" => "(" \notin {items[i].of[k].kind : k \in DOMAIN items[i].of}

RECURSIVE ValueMatches(_, _, _)
ValueMatches(written, read, line) ==
  CASE written.is = "tokens" -> TRUE
    [] written.is = "list" ->
         Unambiguous(written.of) =>
         /\ read.is = "list" /\ Len(read.of) = Len(written.of)
         /\ \A i \in DOMAIN written.of : ValueMatches(written.of[i], read.of[i], LineIn(written.of, i, line + 1))
    [] written.is = "map" ->
         /\ read.is = "map"
         /\ \A i \in DOMAIN written.of :
              LET p == written.of[i]
                  at == LineIn([k \in DOMAIN written.of |-> written.of[k].value], i, line + 1)
              IN  /\ p.key \in DOMAIN read.of
                  /\ ValueMatches(p.value, read.of[p.key], at)
                  /\ read.of[Bicep!LinesKey].of[Bicep!LineOf(p.key)].line = at
    [] OTHER -> read.is = written.is /\ read.of = written.of

DeclaredLine(program, i) ==
  1 + Cardinality({j \in DOMAIN PrintedParts(SubSeq(program, 1, i - 1)) :
                     PrintedParts(SubSeq(program, 1, i - 1))[j].kind = "NL"})
    + Cardinality({j \in DOMAIN program[i].decorators : program[i].decorators[j].kind = "NL"})

RECURSIVE Inside(_)
Inside(resources) ==
  resources \o FlattenSeq([i \in DOMAIN resources |->
    IF <<"resources">> \in DOMAIN resources[i]
    THEN Inside([k \in DOMAIN resources[i][<<"resources">>].of |-> resources[i][<<"resources">>].of[k].of])
    ELSE <<>>])

(* What is declared is in the document, with the line of every property, whatever *)
(* stands before it and however it is nested: parameters, variables, and the      *)
(* resources that are in the document at all (the rules of bicep_parser.go and    *)
(* the visitor of bicep/parser.go); lists of ambiguous items are left out.        *)
BicepDeclarationsKept ==
  BicepParsed =>
    \A i \in DOMAIN input :
      LET d == input[i]
          line == DeclaredLine(input, i)
      IN  CASE d.is = "param" ->
                 /\ d.name \in DOMAIN output.params
                 /\ ValueMatches(d.of, output.params[d.name].of[<<"defaultValue">>], line)
                 /\ output.params[d.name].of[Bicep!LinesKey].of[Bicep!LineOf(<<"type">>)].line
                      = line + Height(d.of)
            [] d.is = "var" ->
                 d.name \in DOMAIN output.vars /\ ValueMatches(d.of, output.vars[d.name].of[<<"value">>], line)
            [] d.is = "resource" ->
                 \A r \in ToSet(Inside(output.resources)) :
                   r[<<"identifier">>].of = d.name => ValueMatches(d.of, Bicep!Value("map", r), line)
            [] OTHER -> TRUE

DeclaredParent(d) ==
  LET parents == {i \in DOMAIN d.of.of : d.of.of[i].key = <<"parent">>}
  IN  IF d.of.is # "map" \/ parents = {} THEN <<>> ELSE Head(d.of.of[CHOOSE i \in parents : TRUE].value.of).text
Declared(program) == SelectSeq(program, LAMBDA d : d.is = "resource")
RECURSIVE Rooted(_, _, _)
Rooted(program, name, n) ==
  \E d \in ToSet(Declared(program)) :
    d.name = name /\ (DeclaredParent(d) = <<>> \/ (n > 0 /\ Rooted(program, DeclaredParent(d), n - 1)))
(* every parent is the name of a resource or of nothing *)
NamedParents(program) ==
  \A d \in ToSet(Declared(program)) : d.of.is = "map" =>
    \A p \in ToSet(d.of.of) : p.key = <<"parent">> => p.value.is = "tokens" /\ Len(p.value.of) = 1

(* Every resource whose parents lead to a resource without one is in the document *)
(* exactly once, below its parent, in whatever order they are declared            *)
(* (makeResourcesNestedStructure of bicep/parser.go).                             *)
BicepResourcesNested ==
  BicepParsed /\ NamedParents(input) =>
    \A d \in ToSet(Declared(input)) :
      LET all == Inside(output.resources)
          Named_(rs) == SelectSeq(rs, LAMBDA r : r[<<"identifier">>].of = d.name)
          below == Inside(FlattenSeq([i \in DOMAIN all |->
                     IF all[i][<<"identifier">>].of = DeclaredParent(d) THEN <<all[i]>> ELSE <<>>]))
      IN  Rooted(input, d.name, Len(input)) =>
            /\ Len(Named_(all)) = 1
            /\ DeclaredParent(d) # <<>> => Len(Named_(below)) = 1

(* A Bicep file keeps what it declares, and keeps it where it belongs: both of the above. *)
BicepProgramKept == BicepDeclarationsKept /\ BicepResourcesNested
=============================================================================
