---------------------------- MODULE BicepDocument ----------------------------
(***************************************************************************)
(* What the visitor of pkg/parser/bicep/parser.go makes of the tree of a   *)
(* Bicep file: its parameters, its variables, and its resources, each one  *)
(* below the resource it names as its parent.                              *)
(*                                                                         *)
(* A text is a sequence of pieces, so that a text may be built from others *)
(* and looked into; a value is [is, of], with is one of text, number,      *)
(* bool, nil, list, map and call (a function's name and arguments).        *)
(***************************************************************************)
EXTENDS Naturals, Sequences, FiniteSets, TLC, SequencesExt, BicepGrammar

Value(is, of) == [is |-> is, of |-> of]
Nil == Value("nil", <<>>)
TextOf(t) == Value("text", t)

(* Op(e), with e evaluated once. *)
With(e, Op(_)) == CHOOSE r \in {Op(x) : x \in {e}} : TRUE

Kids(node, rule) == SelectSeq(node.kids, LAMBDA k : k.rule = rule)
Has(node, rule) == Kids(node, rule) # <<>>
Kid(node, rule) == Head(Kids(node, rule))

EntryOf(name) == <<name>>
LinesKey == EntryOf("_kics_lines")
DefaultLine == EntryOf("_kics__default")
LineOf(key) == <<"_kics_">> \o key

(* isParameter, isDotFunction *)
IsParameter(v) == v.is = "text" /\ ToSet(v.of) \intersect {"parameters('", "variables('"} # {}
IsDotFunction(v) == v.is = "text" /\ \E i \in 1 .. Len(v.of) - 1 : v.of[i] \in {")", "')"} /\ v.of[i + 1] = "."
Bracketed(v) == TextOf(<<"[">> \o v.of \o <<"]">>)
InBrackets(v) == IF IsParameter(v) \/ IsDotFunction(v) THEN Bracketed(v) ELSE v

(* VisitIdentifier: the text of its token, a keyword's too. *)
IdentifierText(node) == Head(node.kids).text

(* convertToParamVar: what is declared so far. *)
ConvertToParamVar(name, s) ==
  IF name \in DOMAIN s.vars THEN <<"variables('">> \o name \o <<"')">>
  ELSE IF name \in DOMAIN s.params THEN <<"parameters('">> \o name \o <<"')">>
  ELSE name

(* parseFunctionCall: an argument that is no text and no call leaves nothing. *)
RECURSIVE ParseFunctionCall(_)
ParseFunctionCall(call) ==
  LET args == call.of.args
      Piece(a) == IF a.is = "text" THEN a.of ELSE IF a.is = "call" THEN ParseFunctionCall(a) ELSE <<>>
      Separated(i) == Piece(args[i]) \o (IF i < Len(args) THEN <<", ">> ELSE <<>>)
  IN  call.of.name \o <<"(">> \o FlattenSeq([i \in DOMAIN args |-> Separated(i)]) \o <<")">>

(* parseComplexInterp, buildComplexInterp: the pieces and the expressions between *)
(* them; a call with an argument that is no text leaves nothing of the whole.     *)
BuildComplexInterp(values) ==
  LET Argument(args, i) == args[i].of \o (IF i < Len(args) THEN <<", ">> ELSE <<>>)
      Bare(v) ==
        IF v.is = "text" THEN v.of
        ELSE IF v.is = "call"
        THEN LET args == v.of.args
             IN  <<"[">> \o v.of.name \o <<"(">> \o FlattenSeq([i \in DOMAIN args |-> Argument(args, i)]) \o <<")]">>
        ELSE <<>>
  IN  IF \E k \in DOMAIN values : values[k].is = "call" /\ \E i \in DOMAIN values[k].of.args :
                                    values[k].of.args[i].is # "text"
      THEN <<>> ELSE FlattenSeq([k \in DOMAIN values |-> Bare(values[k])])

RECURSIVE VisitExpression(_, _), VisitObject(_, _), VisitArray(_, _), VisitInterpString(_, _), VisitFunctionCall(_, _)

AllIn(nodes, s) == [i \in DOMAIN nodes |-> VisitExpression(nodes[i], s)]

VisitInterpString(node, s) ==
  IF Len(node.kids) = 1 THEN Head(node.kids).text
  ELSE BuildComplexInterp([i \in DOMAIN node.kids |->
         LET k == node.kids[i] IN IF k.rule = "expression" THEN VisitExpression(k, s) ELSE TextOf(k.text)])

(* VisitFunctionCall, VisitArgumentList *)
Arguments(node) == IF Has(node, "argumentList") THEN Kids(Kid(node, "argumentList"), "expression") ELSE <<>>
VisitFunctionCall(node, s) ==
  Value("call", [name |-> IdentifierText(Kid(node, "identifier")), args |-> AllIn(Arguments(node), s)])

VisitLiteralValue(node, s) ==
  CASE Has(node, "NUMBER") -> Value("number", Head(node.kids).text)
    [] Has(node, "true") \/ Has(node, "false") -> Value("bool", Head(node.kids).text)
    [] Has(node, "identifier") -> TextOf(ConvertToParamVar(IdentifierText(Head(node.kids)), s))
    [] OTHER -> Nil

VisitPrimaryExpression(node, s) ==
  LET k == Head(node.kids)
  IN  CASE k.rule = "literalValue" -> VisitLiteralValue(k, s)
        [] k.rule = "functionCall" -> VisitFunctionCall(k, s)
        [] k.rule = "interpString" -> TextOf(VisitInterpString(k, s))
        [] k.rule = "MULTILINE_STRING" -> TextOf(k.text)
        [] k.rule = "array" -> VisitArray(k, s)
        [] k.rule = "object" -> VisitObject(k, s)
        [] k.rule = "parenthesizedExpression" -> VisitExpression(Kid(k, "expression"), s)
        [] OTHER -> Nil   \* forExpression, lambdaExpression

(* VisitExpression: of the longer expressions only those with a dot have a value. *)
Operand(v) == IF v.is = "call" THEN ParseFunctionCall(v) ELSE IF v.is = "text" THEN v.of ELSE <<>>
Member(node, s) ==
  IF Has(node, "identifier") THEN ConvertToParamVar(IdentifierText(Kid(node, "identifier")), s)
  ELSE ParseFunctionCall(VisitFunctionCall(Kid(node, "functionCall"), s))
DotExpression(before, after) == TextOf(before \o <<".">> \o after)
VisitExpression(node, s) ==
  IF Has(node, ".") THEN DotExpression(Operand(VisitExpression(Kid(node, "expression"), s)), Member(node, s))
  ELSE IF Has(node, "primaryExpression") THEN VisitPrimaryExpression(Head(node.kids), s)
  ELSE Nil

(* VisitArray, VisitArrayItem *)
BracketsIn(values) == [i \in DOMAIN values |-> InBrackets(values[i])]
FirstKids(nodes) == [i \in DOMAIN nodes |-> Head(nodes[i].kids)]
VisitArray(node, s) == Value("list", BracketsIn(AllIn(FirstKids(Kids(node, "arrayItem")), s)))

(* VisitObjectProperty *)
PropertyKey(node, s) ==
  LET k == Head(node.kids) IN IF k.rule = "identifier" THEN IdentifierText(k) ELSE VisitInterpString(k, s)

PropertyLine(node) == node.line

(* VisitObject: however long a list is, its lines have one entry. *)
PropertyWith(key, value, line) ==
  [key |-> key, value |-> value,
   line |-> [line |-> line, arr |-> IF value.is = "list" /\ value.of # <<>> THEN <<line>> ELSE <<>>]]
Property(node, s) ==
  PropertyWith(PropertyKey(node, s), InBrackets(VisitExpression(Kid(node, "expression"), s)), PropertyLine(node))
PropertyMap(entries, line) ==
  LET keys == {entries[i].key : i \in DOMAIN entries}
      LastOf(key) == entries[Max({i \in DOMAIN entries : entries[i].key = key})]
  IN  Value("map", [key \in keys |-> LastOf(key).value]
                   @@ (LinesKey :> Value("lines", [key \in {LineOf(k) : k \in keys} |-> LastOf(Tail(key)).line]
                                                  @@ (DefaultLine :> [line |-> line, arr |-> <<>>]))))
Properties(nodes, s) == [i \in DOMAIN nodes |-> Property(nodes[i], s)]
VisitObject(node, s) == PropertyMap(Properties(Kids(node, "objectProperty"), s), node.line)

-----------------------------------------------------------------------------
(* parseDecorators, VisitDecorator, VisitDecoratorExpression: the later decorator *)
(* of a name replaces the earlier one.                                            *)
Limits == {EntryOf(n) : n \in {"maxLength", "minLength", "minValue", "maxValue"}}
DecoratorEntry(call) ==
  CASE call.name = EntryOf("description") ->
         IF call.args = <<>> THEN <<>>
         ELSE EntryOf("metadata") :> Value("map", EntryOf("description") :> Head(call.args))
    [] call.name \in Limits -> IF call.args = <<>> THEN <<>> ELSE call.name :> Head(call.args)
    [] OTHER -> call.name :> Value("list", call.args)
ParseDecorators(node, s) ==
  LET decorators == Kids(node, "decorator")
      CallOf(d) == VisitFunctionCall(Kid(Kid(d, "decoratorExpression"), "functionCall"), s)
  IN  FoldLeft(LAMBDA map, d : DecoratorEntry(CallOf(d).of) @@ map, <<>>, decorators)

(* VisitParameterDecl *)
DefaultValue(default) ==
  IF default.is = "call" THEN Bracketed(TextOf(ParseFunctionCall(default)))
  ELSE IF IsDotFunction(default) THEN Bracketed(default) ELSE default
SecureTypes == EntryOf("string") :> EntryOf("secureString") @@ EntryOf("object") :> EntryOf("secureObject")
TypeName(type, secure) == IF secure /\ type \in DOMAIN SecureTypes THEN SecureTypes[type] ELSE type
Renamed(name) == IF name = EntryOf("allowed") THEN EntryOf("allowedValues") ELSE name
Parameter(node, s, decorators) ==
  LET line == [line |-> node.stop, arr |-> <<>>]
  IN  (LinesKey :> Value("lines", LineOf(EntryOf("defaultValue")) :> line @@ LineOf(EntryOf("type")) :> line))
      @@ [key \in {Renamed(n) : n \in DOMAIN decorators \ {EntryOf("secure")}} |->
            decorators[CHOOSE n \in DOMAIN decorators : Renamed(n) = key]]
      @@ (IF ~Has(node, "typeExpression") THEN <<>>
          ELSE EntryOf("type") :> TextOf(TypeName(IdentifierText(Kid(Kid(node, "typeExpression"), "identifier")),
                                                  EntryOf("secure") \in DOMAIN decorators)))
      @@ (IF ~Has(node, "parameterDefaultValue") THEN <<>>
          ELSE EntryOf("defaultValue") :>
                 DefaultValue(VisitExpression(Kid(Kid(node, "parameterDefaultValue"), "expression"), s)))
VisitParameterDecl(node, s) ==
  [s EXCEPT !.params = IdentifierText(Kid(node, "identifier"))
                       :> Value("map", Parameter(node, s, ParseDecorators(node, s))) @@ @]

(* VisitVariableDecl *)
VisitVariableDecl(node, s) ==
  LET variable == (EntryOf("value") :> VisitExpression(Kid(node, "expression"), s)) @@ ParseDecorators(node, s)
  IN  [s EXCEPT !.vars = IdentifierText(Kid(node, "identifier")) :> Value("map", variable) @@ @]

Before(t, piece) == LET at == {i \in DOMAIN t : t[i] = piece}
                    IN  IF at = {} THEN t ELSE SubSeq(t, 1, (CHOOSE i \in at : \A j \in at : i <= j) - 1)
After(t, piece) == IF Before(t, piece) = t THEN <<>> ELSE Before(SubSeq(t, Len(Before(t, piece)) + 2, Len(t)), piece)

(* VisitResourceDecl: only an object is a body that is visited. *)
TypeAndVersion(fullType) ==
  EntryOf("type") :> TextOf(Before(fullType, "@")) @@ EntryOf("apiVersion") :> TextOf(After(fullType, "@"))
ObjectBody(node, body) ==
  LET line == [line |-> node.line, arr |-> <<>>]
      lines == LineOf(EntryOf("apiVersion")) :> line @@ LineOf(EntryOf("type")) :> line
  IN  IF body = <<>> THEN <<>> ELSE (LinesKey :> Value("lines", lines @@ body[LinesKey].of)) @@ body
VisitResourceDecl(node, s) ==
  [s EXCEPT !.resources =
     Append(@, ObjectBody(node, IF Has(node, "object") THEN VisitObject(Kid(node, "object"), s).of ELSE <<>>)
               @@ ParseDecorators(node, s)
               @@ (EntryOf("identifier") :> TextOf(IdentifierText(Kid(node, "identifier"))))
               @@ TypeAndVersion(VisitInterpString(Kid(node, "interpString"), s)))]

(* VisitProgram, VisitStatement *)
VisitStatement(k, s) ==
  CASE k.rule = "parameterDecl" -> VisitParameterDecl(k, s)
    [] k.rule = "variableDecl" -> VisitVariableDecl(k, s)
    [] k.rule = "resourceDecl" -> VisitResourceDecl(k, s)
    [] OTHER -> s
VisitProgram(tree) ==
  FoldLeft(LAMBDA s, statement : VisitStatement(Head(statement.kids), s),
           [params |-> <<>>, vars |-> <<>>, resources |-> <<>>], Kids(tree, "statement"))

-----------------------------------------------------------------------------
(* convertOriginalResourcesToStruct: the first resource without a text for its    *)
(* identifier, its type or its parent ends the conversion.                        *)
ConvertOriginalResourcesToStruct(resources) ==
  LET Textual(r, name) == r[EntryOf(name)].is = "text"
      Parented(r) == EntryOf("parent") \in DOMAIN r
      bad == {i \in DOMAIN resources :
                LET r == resources[i]
                IN  ~Textual(r, "identifier") \/ ~Textual(r, "type") \/ (Parented(r) /\ ~Textual(r, "parent"))}
      end == IF bad = {} THEN Len(resources) ELSE (CHOOSE i \in bad : \A j \in bad : i <= j) - 1
  IN  [i \in 1 .. end |->
         LET r == resources[i]
         IN  [name |-> r[EntryOf("identifier")].of, type |-> r[EntryOf("type")].of, data |-> r,
              parent |-> IF Parented(r) THEN r[EntryOf("parent")].of ELSE <<>>]]

(* Faulty: a parent must stand before its children. *)
ChildrenDeclaredLater(rs, i) == {j \in (i + 1) .. Len(rs) : rs[j].parent = rs[i].name}

(* addChildrenToParents: of several resources of one name the last has the children. *)
ChildrenOf(rs, i) ==
  IF \E j \in (i + 1) .. Len(rs) : rs[j].name = rs[i].name THEN {}
  ELSE {j \in DOMAIN rs : rs[j].parent = rs[i].name /\ rs[j].parent # <<>>}

(* setChildType: the first occurrence of the parent's type and a slash is cut. *)
SetChildType(type, parentType) ==
  LET prefix == parentType \o <<"/">>
      at == {i \in 1 .. Len(type) - Len(prefix) + 1 : SubSeq(type, i, i + Len(prefix) - 1) = prefix}
      first == CHOOSE i \in at : \A j \in at : i <= j
  IN  IF parentType = <<>> \/ at = {} THEN type
      ELSE SubSeq(type, 1, first - 1) \o SubSeq(type, first + Len(prefix), Len(type))

(* reformatTestTree: a property resources of the body replaces the children. *)
RECURSIVE ReformatTestTree(_, _)
ReformatTestTree(rs, i) ==
  LET children == SetToSortSeq(ChildrenOf(rs, i), <)
      Child(j) == LET c == ReformatTestTree(rs, j)
                  IN  Value("map", [c EXCEPT ![EntryOf("type")] =
                                      IF @.is = "text" THEN TextOf(SetChildType(@.of, rs[i].type)) ELSE @])
  IN  rs[i].data @@
      (IF children = <<>> THEN <<>>
       ELSE EntryOf("resources") :> Value("list", [k \in DOMAIN children |-> Child(children[k])]))

(* makeResourcesNestedStructure, filterParentStructs *)
MakeResourcesNestedStructure(resources) ==
  LET rs == ConvertOriginalResourcesToStruct(resources)
      roots == SetToSortSeq({i \in DOMAIN rs : rs[i].parent = <<>>}, <)
  IN  [k \in DOMAIN roots |-> ReformatTestTree(rs, roots[k])]

(* Parser.Parse *)
ParseBicep(ts) ==
  With(With(Tree(ts), VisitProgram),
       LAMBDA s : [params |-> s.params, vars |-> s.vars, resources |-> MakeResourcesNestedStructure(s.resources)])
=============================================================================
