------------------------- MODULE TerraformDocument --------------------------
(***************************************************************************)
(* A Terraform file as the document that the queries read                  *)
(* (pkg/parser/terraform/terraform.go, variables.go, data_source.go,       *)
(* converter/default.go, comment/comment.go).                              *)
(*                                                                         *)
(* The variables that a file is evaluated with are kept in one map for the *)
(* whole process; before a file is parsed, "var" and "data" are computed   *)
(* anew from the folder of the file.  A folder is a sequence of files in   *)
(* the order of their names, a file [name, kind, body, comments, blank,    *)
(* hint]: kind is "tf", "auto" for .auto.tfvars or "tfvars" for            *)
(* terraform.tfvars, hint the path in its kics_terraform_vars comment.     *)
(*                                                                         *)
(* Converting a file may put new variables into that map, so the map goes  *)
(* in and comes out: r is [vars, out].  What is converted is a value, a    *)
(* string of pieces of text and of source, a list, or a document: what is  *)
(* under its keys and their lines.                                         *)
(***************************************************************************)
EXTENDS Hcl

CONSTANTS Functions_,   \* the names in functions.TerraformFuncs
          VarsFiles     \* the bodies of the files that a path to variables leads to

Merged(maps) == FoldLeft(LAMBDA all, new : new @@ all, <<>>, maps)
Collect(folder, Variables(_), Test(_)) ==
  LET files == SelectSeq(folder, Test) IN Merged([i \in DOMAIN files |-> Variables(files[i].body)])

(* setInputVariablesDefaultValues: of the blocks variable "name". *)
DefaultValues(body) ==
  LET Declares(b) == b.type = "variable" /\ Len(b.labels) = 1 /\ b.labels[1] # "" /\ HasAttr(b.body, "default")
      declared == SelectSeq(body.blocks, Declares)
  IN  Merged([i \in DOMAIN declared |->
                declared[i].labels[1] :> Eval(AttrOf(declared[i].body, "default").expr, <<>>, {}).value])

(* getInputVariablesFromFile: the attributes at the top. *)
Assigned(body) == Merged([i \in DOMAIN body.attrs |-> body.attrs[i].name :> Eval(body.attrs[i].expr, <<>>, {}).value])

(* Faulty: a terraform.tfvars comes before the other files. *)
ValuesTfvarsFirst(folder) ==
  Merged(<<Collect(folder, Assigned, LAMBDA f : f.kind = "tfvars"), Collect(folder, Assigned, LAMBDA f : f.kind = "auto")>>)
(* The files that assign values: each overrides those before it. *)
AssignedValues(folder) ==
  Merged(<<Collect(folder, Assigned, LAMBDA f : f.kind = "auto"), Collect(folder, Assigned, LAMBDA f : f.kind = "tfvars")>>)

(* getInputVariables.  The flag hides the file's own hint. *)
GetInputVariables(folder, file, flag) ==
  LET path == IF flag # "" THEN flag ELSE file.hint
      external == IF path \in DOMAIN VarsFiles THEN Assigned(VarsFiles[path]) ELSE <<>>
  IN  Merged(<<Collect(folder, DefaultValues, LAMBDA f : f.kind = "tf"), AssignedValues(folder), external,
               Collect(folder, Assigned, LAMBDA f : f.kind = "tf" /\ f.name = "variables")>>)

-----------------------------------------------------------------------------
(* Policies.                                                                 *)

(* ExpToString, resolveTuple: the elements of a statement's resources become texts. *)
ResolvedResources(expr) ==
  IF expr.is # "tuple" THEN expr
  ELSE Is("tuple", [i \in DOMAIN expr.of |-> Is("literal", IF expr.of[i].is = "literal" THEN expr.of[i].of
                                                           ELSE Is("source", <<expr.of[i]>>))])
(* parseFile quotes the references to data sources: they become texts. *)
RECURSIVE Quoted(_)
Quoted(expr) ==
  CASE expr.is = "reference" /\ expr.of[1] = "data" -> Is("literal", Is("source", <<expr>>))
    [] expr.is = "tuple" -> Is("tuple", [i \in DOMAIN expr.of |-> Quoted(expr.of[i])])
    [] expr.is = "call" -> Is("call", <<expr.of[1], [i \in DOMAIN expr.of[2] |-> Quoted(expr.of[2][i])]>>)
    [] OTHER -> expr
PolicyExpr(attr) == IF attr.name = "resources" THEN ResolvedResources(Quoted(attr.expr)) ELSE Quoted(attr.expr)

(* getStatementSpec, getPrincipalSpec, getConditionalSpec: what is decoded of a     *)
(* statement, the attributes of its inner blocks under the names of both.  Inner    *)
(* blocks without a type or a variable are not converted.                           *)
SpecAttrs == {"sid", "effect", "actions", "not_actions", "resources", "not_resources"}
InnerKey == "principals" :> "type" @@ "not_principals" :> "type" @@ "condition" :> "variable"
StatementAttrs(statement) ==
  LET Inner(b) ==
        [i \in DOMAIN b.body.attrs |-> [b.body.attrs[i] EXCEPT !.name = b.type \o "." \o @]]
      inner == SelectSeq(statement.body.blocks, LAMBDA b : b.type \in DOMAIN InnerKey /\ HasAttr(b.body, InnerKey[b.type]))
  IN  SelectSeq(statement.body.attrs, LAMBDA a : a.name \in SpecAttrs)
      \o FlattenSeq([i \in DOMAIN inner |-> Inner(inner[i])])

(* parseDataSourceBody, decodeDataSourcePolicy.  An unknown variable is let pass, but *)
(* what depends on it is unknown, and the whole policy is then not decoded.            *)
ConvertedStatement(decoded) ==
  [name \in {decoded[j].name : j \in DOMAIN decoded} |->
     decoded[CHOOSE j \in DOMAIN decoded : decoded[j].name = name].got.value]
DecodedPolicy(decoded) ==
  LET all == FlattenSeq(decoded)
  IN  IF \E i \in DOMAIN all : \E e \in ToSet(all[i].got.errors) : e.summary # "Unknown variable" THEN Text("")
      ELSE IF \E i \in DOMAIN all : all[i].got.value.is = "dynamic" THEN Is("policy", <<>>)
      ELSE Is("policy", [i \in DOMAIN decoded |-> ConvertedStatement(decoded[i])])
DecodedStatement(attrs, variables) ==
  [j \in DOMAIN attrs |-> [name |-> attrs[j].name, got |-> Eval(PolicyExpr(attrs[j]), variables, Functions_)]]
ParsePolicy(body, variables) ==
  LET statements == SelectSeq(body.blocks, LAMBDA b : b.type = "statement")
  IN  DecodedPolicy([i \in DOMAIN statements |-> DecodedStatement(StatementAttrs(statements[i]), variables)])

(* getDataSourcePolicy: nothing changes for a folder without .tf files. *)
GetDataSourcePolicy(folder, variables) ==
  LET IsPolicy(b) == b.type = "data" /\ b.labels[1] = "aws_iam_policy_document" /\ Len(b.labels) > 1
      Policies(body) ==
        LET blocks == SelectSeq(body.blocks, IsPolicy)
        IN  Merged([i \in DOMAIN blocks |->
                      blocks[i].labels[2] :> Object("json" :> ParsePolicy(blocks[i].body, variables))])
      policies == Collect(folder, Policies, LAMBDA f : f.kind = "tf")
  IN  IF \A i \in DOMAIN folder : folder[i].kind # "tf" THEN variables
      ELSE ("data" :> Object("aws_iam_policy_document" :> Object(policies))) @@ variables

(* Parser.Resolve *)
ResolveVariables(variables, folder, file, flag) ==
  GetDataSourcePolicy(folder, ("var" :> Object(GetInputVariables(folder, file, flag))) @@ variables)

-----------------------------------------------------------------------------
(* The document.                                                             *)

Converted(vars, out) == [vars |-> vars, out |-> out]
Value(v) == Is("value", v)
String(pieces) == Is("string", pieces)
Wrapped(expr) == String(<<Is("source", <<expr>>)>>)   \* wrapExpr: "${" source "}"
Refused == Is("error", <<>>)

(* createEntryInputVar: nested objects down to the text of the reference. *)
RECURSIVE Entry(_, _)
Entry(path, text) == IF path = <<>> THEN text ELSE Object(Head(path) :> Entry(Tail(path), text))

(* evalFunction: what a call refers to and nobody knows is invented as its own text; *)
(* it stays in the map.                                                               *)
Invent(known, failure) ==
  IF failure.summary # "Unknown variable" THEN known
  ELSE (Head(failure.path) :> Entry(Tail(failure.path), Is("invented", failure.path))) @@ known
ValueOrSource(result, expr) ==
  IF result.errors # <<>> \/ result.value.is = "dynamic" THEN Wrapped(expr) ELSE Value(result.value)
EvalAgain(vars, expr) == Converted(vars, ValueOrSource(Eval(expr, vars, Functions_), expr))
EvalFunction(vars, expr) == EvalAgain(FoldLeft(Invent, vars, Eval(expr, vars, Functions_).errors), expr)

(* convertStringPart, convertTemplate: without functions, and only texts are put in. *)
Inserted(expr, value) == IF expr.is = "literal" \/ value.is \in {"text", "invented"} THEN <<value>> ELSE <<Is("source", <<expr>>)>>
IfDirective(condition, yes, no) ==
  <<Text("%{if "), Is("source", <<condition>>)>> \o yes
  \o (IF no = <<>> THEN <<>> ELSE <<Text("%{else}")>> \o no) \o <<Text("%{endif}")>>
RECURSIVE StringPart(_, _)
StringPart(vars, expr) ==
  LET parts == [i \in DOMAIN expr.of |-> StringPart(vars, expr.of[i])]
  IN  CASE expr.is = "template" -> FlattenSeq(parts)
        [] expr.is = "conditional" -> IfDirective(expr.of[1], parts[2], parts[3])
        [] OTHER -> Inserted(expr, Eval(expr, vars, {}).value)

(* checkDynamicKnownTypes *)
RECURSIVE KnownThroughout(_)
KnownThroughout(value) ==
  CASE value.is = "dynamic" -> FALSE
    [] value.is = "list" -> \A i \in DOMAIN value.of : KnownThroughout(value.of[i])
    [] value.is = "object" -> \A key \in DOMAIN value.of : KnownThroughout(value.of[key])
    [] OTHER -> TRUE

(* convertExpression *)
LastOf(items, key) ==
  CHOOSE i \in DOMAIN items : items[i].key = key /\ \A j \in i + 1 .. Len(items) : items[j].key # key
Gathered(expr, converted) ==
  Converted(converted.vars,
    IF expr.is = "tuple" THEN Is("list", converted.out)
    ELSE Is("object", [key \in {expr.of[i].key : i \in DOMAIN expr.of} |-> converted.out[LastOf(expr.of, key)]]))
AndThen(r, next) == Converted(next.vars, Append(r.out, next.out))
EvalValue(expr, result) ==
  IF (expr.is = "conditional" /\ result.errors = <<>>) \/ (expr.is # "conditional" /\ KnownThroughout(result.value))
  THEN Value(result.value) ELSE Wrapped(expr)
RECURSIVE ConvertExpression(_, _), ConvertAll(_, _)
ConvertAll(r, items) ==
  IF items = <<>> THEN r ELSE ConvertAll(AndThen(r, ConvertExpression(r.vars, Head(items))), Tail(items))
ConvertExpression(vars, expr) ==
  CASE expr.is = "literal" -> Converted(vars, Value(expr.of))
    [] expr.is = "template" -> Converted(vars, String(StringPart(vars, expr)))
    [] expr.is \in {"tuple", "object"} -> Gathered(expr, ConvertAll(Converted(vars, <<>>), Parts(expr)))
    [] expr.is = "call" -> EvalFunction(vars, expr)
    [] OTHER -> Converted(vars, EvalValue(expr, Eval(expr, vars, Functions_)))

(* getArrLines: of the elements of a list, the line of an object being one too far. *)
RECURSIVE ArrLines(_)
ArrLines(expr) ==
  IF expr.is # "tuple" THEN <<>>
  ELSE [i \in DOMAIN expr.of |->
          LET item == expr.of[i]
          IN  CASE item.is = "object" -> [keys |-> [j \in DOMAIN item.of |-> <<item.of[j].key, item.of[j].line>>], arr |-> <<>>]
                [] item.is = "tuple" -> [keys |-> <<>>, arr |-> ArrLines(item)]
                [] OTHER -> [keys |-> <<>>, arr |-> <<>>]]

-----------------------------------------------------------------------------
(* Bodies.                                                                   *)

Document(members, lines) == [is |-> "document", of |-> members, lines |-> lines]
Line(n, arr) == [line |-> n, arr |-> arr]

(* A body counts for nothing when its count is 0. *)
CountIsZero(body) ==
  HasAttr(body, "count") /\ Eval(AttrOf(body, "count").expr, <<>>, {}) = Evaluated(Text("0"))

(* Faulty: the second of two blocks makes the list, a third replaces it. *)
PutPair(members, key, new) ==
  IF key \notin DOMAIN members THEN (key :> new) @@ members
  ELSE IF members[key].is = "list" THEN (key :> Is("list", <<members[key].of[1], new>>)) @@ members
  ELSE (key :> Is("list", <<members[key], new>>)) @@ members
(* The end of convertBlock: under one key a value, and a list of all when there are more. *)
Put(members, key, new) ==
  IF key \notin DOMAIN members THEN (key :> new) @@ members
  ELSE IF members[key].is = "list" THEN (key :> Is("list", Append(members[key].of, new))) @@ members
  ELSE (key :> Is("list", <<members[key], new>>)) @@ members

(* convertBlock: the type and the labels lead to the place of a block. *)
RECURSIVE PutAt(_, _, _)
PutAt(document, path, new) ==
  LET key == Head(path)
      inner == IF key \in DOMAIN document.of THEN document.of[key] ELSE Document(<<>>, <<>>)
      below == PutAt(inner, Tail(path), new)
  IN  IF Len(path) = 1 THEN [document EXCEPT !.of = Put(@, key, new)]
      ELSE IF inner.is # "document" \/ below = Refused THEN Refused
      ELSE [document EXCEPT !.of = (key :> below) @@ @]
Path(block) == <<block.type>> \o block.labels

(* convertBody.  The attributes come out of a map: order is any order of their names. *)
Ordered(attrs, order) == FlattenSeq([i \in DOMAIN order |-> SelectSeq(attrs, LAMBDA a : a.name = order[i])])
AttrPut(document, a, value) ==
  Document((a.name :> value) @@ document.of, (a.name :> Line(a.line, ArrLines(a.expr))) @@ document.lines)
AndAttr(document, a, converted) == Converted(converted.vars, AttrPut(document, a, converted.out))
RECURSIVE ConvertAttrs(_, _)
ConvertAttrs(r, attrs) ==
  IF attrs = <<>> THEN r
  ELSE ConvertAttrs(AndAttr(r.out, Head(attrs), ConvertExpression(r.vars, Head(attrs).expr)), Tail(attrs))

BlockPut(document, b, inner) ==
  IF inner = Refused THEN Refused ELSE IF CountIsZero(b.body) THEN document ELSE PutAt(document, Path(b), inner)
AndBlock(document, b, converted) ==
  Converted(converted.vars, BlockPut([document EXCEPT !.lines = (b.type :> Line(b.line, <<>>)) @@ @], b, converted.out))
RECURSIVE ConvertBody(_, _, _, _), ConvertBlocks(_, _, _)
ConvertBlocks(r, blocks, order) ==
  IF blocks = <<>> \/ r.out = Refused THEN r
  ELSE ConvertBlocks(AndBlock(r.out, Head(blocks), ConvertBody(r.vars, Head(blocks).body, Head(blocks).line, order)),
                     Tail(blocks), order)
ConvertBody(vars, body, line, order) ==
  IF CountIsZero(body) THEN Converted(vars, Document(<<>>, <<>>))
  ELSE ConvertBlocks(ConvertAttrs(Converted(vars, Document(<<>>, "_default" :> Line(line, <<>>))), Ordered(body.attrs, order)),
                     body.blocks, order)

(* processResources, processResourcesElements: a list where a resource or one of its *)
(* attributes is expected refuses the file.                                            *)
ResourcesRefused(document) ==
  LET HasList(d) == d.is = "document" /\ \E name \in DOMAIN d.of : d.of[name].is = "list"
      Elements(d) == IF d.is = "list" THEN ToSet(d.of) ELSE {d}
  IN  /\ document.is = "document" /\ "resource" \in DOMAIN document.of /\ document.of["resource"].is = "document"
      /\ \E type \in DOMAIN document.of["resource"].of : \E d \in Elements(document.of["resource"].of[type]) : HasList(d)

-----------------------------------------------------------------------------
(* Comments.  A comment is [block, command, from, to, trailing]: block for one in     *)
(* slash and star, whose token ends on its last line; that of another one ends where  *)
(* the next line begins.  No command is found in a block comment.                      *)

(* position: the line after the one that a token ends on, counted from 0. *)
Position(token) == IF token.block THEN token.to ELSE token.to + 1

(* The line of the position of the token after a comment: what stands on the next *)
(* line, or the end of a line.                                                     *)
NextPosition(file, comment) ==
  LET next == comment.to + 1
      there == {i \in DOMAIN file.comments : file.comments[i].from = next /\ ~file.comments[i].trailing}
  IN  IF next \in file.blank THEN next + 1
      ELSE IF there = {} THEN next ELSE Position(file.comments[CHOOSE i \in there : TRUE])

(* getLinesFromBlock, getLinesFromAttr: of a block whose type is there, or of an *)
(* attribute within a block.                                                      *)
RECURSIVE LinesFromBlocks(_, _)
LinesFromBlocks(blocks, line) ==
  LET b == Head(blocks)
      Attrs == {i \in DOMAIN b.body.attrs : b.body.attrs[i].line = line}
  IN  IF blocks = <<>> THEN {}
      ELSE IF b.line = line THEN b.line .. b.last
      ELSE UNION {b.body.attrs[i].line .. b.body.attrs[i].last : i \in Attrs}
           \union LinesFromBlocks(b.body.blocks, line) \union LinesFromBlocks(Tail(blocks), line)
(* checkBlock: nothing is there when another comment or an empty line comes next. *)
CheckBlock(file, comment) ==
  IF NextPosition(file, comment) # comment.to + 1 \/ comment.to + 1 \in file.blank THEN {}
  ELSE LinesFromBlocks(file.body.blocks, comment.to + 1)

(* Faulty: the lines of the comment only. *)
OwnLine(file, comment) == {Position(comment) - 1}
(* processComment, GetIgnoreLines *)
ProcessComment(file, comment) ==
  CASE comment.command = "ignore-line" -> {NextPosition(file, comment), Position(comment) - 1}
    [] comment.command = "ignore-block" -> CheckBlock(file, comment)
    [] OTHER -> {Position(comment) - 1}
IgnoreLines(file) ==
  UNION {ProcessComment(file, file.comments[i]) : i \in {j \in DOMAIN file.comments : ~file.comments[j].trailing}}

(* Parser.Parse *)
Parsed(file, converted) ==
  Converted(converted.vars,
            [document |-> IF ResourcesRefused(converted.out) THEN Refused ELSE converted.out, ignore |-> IgnoreLines(file)])
ParseTerraform(vars, file, order) == Parsed(file, ConvertBody(vars, file.body, 0, order))
=============================================================================
