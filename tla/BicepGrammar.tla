---------------------------- MODULE BicepGrammar ----------------------------
(***************************************************************************)
(* The grammar of Bicep files, one definition per function of the parser   *)
(* of pkg/parser/bicep/antlr/parser/bicep_parser.go, and the parser: it    *)
(* predicts the lowest alternative with which the whole file can be read,  *)
(* and stays in a loop as long as it can.  Files with syntax errors, which *)
(* the parser only logs, are left out.                                     *)
(*                                                                         *)
(* A token is [kind, text, line].  A node of the tree is [rule, kids,      *)
(* text, line, stop]: text is a leaf's, line its first token's, stop its   *)
(* last token's.                                                           *)
(***************************************************************************)
EXTENDS Naturals, Sequences, SequencesExt

Tokens(kinds) == [is |-> "token", of |-> kinds]
Tok(kind) == Tokens({kind})
Rule(name) == [is |-> "rule", of |-> name]
Expression(p) == [is |-> "expression", of |-> p]
Row(es) == [is |-> "row", of |-> es]
Alt(es) == [is |-> "alt", of |-> es]
Star(e) == [is |-> "star", of |-> e]
Opt(e) == Alt(<<e, Row(<<>>)>>)
Plus(e) == Row(<<e, Star(e)>>)

NL == Tok("NL")
Id == Rule("identifier")
Decorators == Star(Rule("decorator"))

Program == Row(<<Star(Rule("statement")), Tok("EOF")>>)
Statement ==
  Alt(<<Rule("targetScopeDecl"), Rule("importDecl"), Rule("metadataDecl"), Rule("parameterDecl"),
        Rule("typeDecl"), Rule("variableDecl"), Rule("resourceDecl"), Rule("moduleDecl"),
        Rule("outputDecl"), NL>>)

TargetScopeDecl == Row(<<Tok("targetScope"), Tok("="), Expression(0), NL>>)
ImportDecl ==
  Row(<<Decorators, Tok("import"), Rule("interpString"),
        Star(Alt(<<Row(<<Tok("with"), Rule("object")>>), Row(<<Tok("as"), Id>>)>>)), NL>>)
MetadataDecl == Row(<<Tok("metadata"), Id, Tok("="), Expression(0), NL>>)
ParameterDecl ==
  LET default == Opt(Rule("parameterDefaultValue"))
  IN  Row(<<Decorators, Tok("param"), Id,
            Alt(<<Row(<<Rule("typeExpression"), default>>),
                  Row(<<Tok("resource"), Rule("interpString"), default>>)>>), NL>>)
ParameterDefaultValue == Row(<<Tok("="), Expression(0)>>)
TypeDecl == Row(<<Decorators, Tok("type"), Id, Tok("="), Rule("typeExpression"), NL>>)
VariableDecl == Row(<<Decorators, Tok("var"), Id, Tok("="), Expression(0), NL>>)

Body == Alt(<<Rule("ifCondition"), Rule("object"), Rule("forExpression")>>)
ResourceDecl ==
  Row(<<Decorators, Tok("resource"), Id, Rule("interpString"), Opt(Tok("existing")), Tok("="), Body, NL>>)
ModuleDecl == Row(<<Decorators, Tok("module"), Id, Rule("interpString"), Tok("="), Body, NL>>)
OutputDecl ==
  Row(<<Decorators, Tok("output"), Id, Alt(<<Id, Row(<<Tok("resource"), Rule("interpString")>>)>>),
        Tok("="), Expression(0), NL>>)

IfCondition == Row(<<Tok("if"), Rule("parenthesizedExpression"), Rule("object")>>)
ForExpression ==
  Row(<<Tok("["), Star(NL), Tok("for"), Alt(<<Id, Rule("forVariableBlock")>>), Tok("in"), Expression(0),
        Tok(":"), Rule("forBody"), Star(NL), Tok("]")>>)
ForVariableBlock == Row(<<Tok("("), Id, Tok(","), Id, Tok(")")>>)
ForBody == Alt(<<Expression(0), Rule("ifCondition")>>)

InterpString ==
  Alt(<<Row(<<Tok("STRING_LEFT_PIECE"), Star(Row(<<Expression(0), Tok("STRING_MIDDLE_PIECE")>>)),
              Expression(0), Tok("STRING_RIGHT_PIECE")>>),
        Tok("STRING_COMPLETE")>>)

(* expression: what may follow an operand, in the order of the alternatives, each *)
(* with the precedence it needs.                                                  *)
Continuations ==
  <<[prec |-> 6, of |-> Row(<<Tok("?"), Expression(0), Tok(":"), Expression(7)>>)],
    [prec |-> 2, of |-> Row(<<Rule("logicCharacter"), Expression(3)>>)],
    [prec |-> 7, of |-> Row(<<Tok("["), Expression(0), Tok("]")>>)],
    [prec |-> 5, of |-> Row(<<Tok("."), Id>>)],
    [prec |-> 4, of |-> Row(<<Tok("."), Rule("functionCall")>>)],
    [prec |-> 3, of |-> Row(<<Tok(":"), Id>>)]>>

LambdaExpression ==
  Row(<<Alt(<<Row(<<Tok("("), Opt(Rule("argumentList")), Tok(")")>>), Id>>), Tok("=>"), Expression(0)>>)
LogicCharacter == Tokens({">", ">=", "<", "<=", "==", "!="})
PrimaryExpression ==
  Alt(<<Rule("literalValue"), Rule("functionCall"), Rule("interpString"), Tok("MULTILINE_STRING"),
        Rule("array"), Rule("object"), Rule("forExpression"), Rule("parenthesizedExpression"),
        Rule("lambdaExpression")>>)
ParenthesizedExpression == Row(<<Tok("("), Opt(NL), Expression(0), Opt(NL), Tok(")")>>)
TypeExpression == Id
LiteralValue == Alt(<<Tok("NUMBER"), Tok("true"), Tok("false"), Tok("null"), Id>>)

Object ==
  Row(<<Tok("{"), Opt(Row(<<Plus(NL), Star(Row(<<Rule("objectProperty"), Plus(NL)>>))>>)), Tok("}")>>)
ObjectProperty == Row(<<Alt(<<Id, Rule("interpString")>>), Tok(":"), Expression(0)>>)
Array == Row(<<Tok("["), Star(NL), Star(Rule("arrayItem")), Tok("]")>>)
ArrayItem == Row(<<Expression(0), Opt(Alt(<<Plus(NL), Tok(",")>>))>>)

Decorator == Row(<<Tok("@"), Rule("decoratorExpression"), NL>>)
DecoratorExpression == Alt(<<Rule("functionCall"), Row(<<Expression(0), Tok("."), Rule("functionCall")>>)>>)
FunctionCall ==
  Row(<<Id, Tok("("), Opt(Row(<<Opt(NL), Rule("argumentList")>>)), Opt(NL), Tok(")")>>)
ArgumentList == Row(<<Expression(0), Star(Row(<<Tok(","), Opt(NL), Expression(0)>>))>>)

Identifier ==
  Tokens({"IDENTIFIER", "import", "with", "as", "metadata", "param", "resource", "module", "output",
          "existing", "type", "var", "if", "for", "in", "true", "false", "null", "targetScope",
          "string", "int", "bool", "array", "object"})

Rules ==
  [ program |-> Program, statement |-> Statement, targetScopeDecl |-> TargetScopeDecl,
    importDecl |-> ImportDecl, metadataDecl |-> MetadataDecl, parameterDecl |-> ParameterDecl,
    parameterDefaultValue |-> ParameterDefaultValue, typeDecl |-> TypeDecl,
    variableDecl |-> VariableDecl, resourceDecl |-> ResourceDecl, moduleDecl |-> ModuleDecl,
    outputDecl |-> OutputDecl, ifCondition |-> IfCondition, forExpression |-> ForExpression,
    forVariableBlock |-> ForVariableBlock, forBody |-> ForBody, interpString |-> InterpString,
    lambdaExpression |-> LambdaExpression, logicCharacter |-> LogicCharacter,
    primaryExpression |-> PrimaryExpression, parenthesizedExpression |-> ParenthesizedExpression,
    typeExpression |-> TypeExpression, literalValue |-> LiteralValue, object |-> Object,
    objectProperty |-> ObjectProperty, array |-> Array, arrayItem |-> ArrayItem,
    decorator |-> Decorator, decoratorExpression |-> DecoratorExpression,
    functionCall |-> FunctionCall, argumentList |-> ArgumentList, identifier |-> Identifier ]

-----------------------------------------------------------------------------
(* Every way to read e at the head of the tokens, the predicted one first: a *)
(* sequence of [kids, rest].                                                 *)
Leaf(token) ==
  [rule |-> token.kind, kids |-> <<>>, text |-> token.text, line |-> token.line, stop |-> token.line]
Node(rule, kids) ==
  [rule |-> rule, kids |-> kids, text |-> <<>>,
   line |-> IF kids = <<>> THEN 0 ELSE Head(kids).line, stop |-> IF kids = <<>> THEN 0 ELSE Last(kids).stop]

Each(rs, Op(_)) ==
  IF Len(rs) = 1 THEN Op(rs[1]) ELSE FlattenSeq([i \in DOMAIN rs |-> Op(rs[i])])

RECURSIVE Parse(_, _), InTurn(_, _), Suffixed(_, _, _)
(* The reading r, and e behind it. *)
Behind(r, e) ==
  LET more == Parse(e, r.rest) IN [i \in DOMAIN more |-> [more[i] EXCEPT !.kids = r.kids \o @]]
InTurn(rs, es) ==
  IF rs = <<>> \/ es = <<>> THEN rs ELSE InTurn(Each(rs, LAMBDA r : Behind(r, Head(es))), Tail(es))
Parse(e, ts) ==
  CASE e.is = "token" ->
         IF ts # <<>> /\ Head(ts).kind \in e.of THEN <<[kids |-> <<Leaf(Head(ts))>>, rest |-> Tail(ts)]>> ELSE <<>>
    [] e.is = "rule" ->
         LET rs == Parse(Rules[e.of], ts)
         IN  [i \in DOMAIN rs |-> [rs[i] EXCEPT !.kids = <<Node(e.of, @)>>]]
    [] e.is = "expression" ->
         Each(Parse(Rule("primaryExpression"), ts),
              LAMBDA r : Suffixed(Node("expression", r.kids), r.rest, e.of))
    [] e.is = "row" -> InTurn(<<[kids |-> <<>>, rest |-> ts]>>, e.of)
    [] e.is = "alt" -> Each(e.of, LAMBDA alternative : Parse(alternative, ts))
    [] e.is = "star" ->
         Each(Parse(e.of, ts), LAMBDA r : Behind(r, e)) \o <<[kids |-> <<>>, rest |-> ts]>>

Suffixed(operand, ts, p) ==
  Each(Continuations,
       LAMBDA s : IF s.prec < p THEN <<>>
                  ELSE Each(Parse(s.of, ts),
                            LAMBDA r : Suffixed(Node("expression", <<operand>> \o r.kids), r.rest, p)))
  \o <<[kids |-> <<operand>>, rest |-> ts]>>

Readable(ts) == Parse(Rule("program"), ts) # <<>>
Tree(ts) == Head(Head(Parse(Rule("program"), ts)).kids)
=============================================================================
