-------------------------------- MODULE Hcl --------------------------------
(***************************************************************************)
(* The part of the HCL library that the Terraform parser relies on: values *)
(* and the evaluation of expressions under variables (hcl/v2, go-cty).     *)
(*                                                                         *)
(* A body is [attrs, blocks]; an attribute [name, expr, line, last]; a     *)
(* block [type, labels, line, last, body].  An expression is [is, of]:     *)
(* a literal, a reference <<root, name, ...>>, a call <<function, args>>,   *)
(* a template (parts), a tuple (items), an object ([key, expr, line]), a    *)
(* conditional <<c, a, b>>.                                                 *)
(***************************************************************************)
EXTENDS Integers, Sequences, FiniteSets, TLC, SequencesExt, Functions

Is(kind, x) == [is |-> kind, of |-> x]
Text(t) == Is("text", <<t>>)
Object(f) == Is("object", f)
Dynamic == Is("dynamic", <<>>)   \* cty.DynamicVal: nothing is known of it

Failure(summary, path) == [summary |-> summary, path |-> path]
Evaluated(value) == [value |-> value, errors |-> <<>>]
Failed(errors) == [value |-> Dynamic, errors |-> errors]

RECURSIVE Traverse(_, _)
Traverse(value, path) ==
  IF path = <<>> \/ value.is = "dynamic" THEN Evaluated(value)
  ELSE IF value.is = "object" /\ Head(path) \in DOMAIN value.of THEN Traverse(value.of[Head(path)], Tail(path))
  ELSE Failed(<<Failure("Unsupported attribute", path)>>)

(* What an expression comes to from the results of its parts: all their errors, or a *)
(* value, of which nothing is known when nothing is known of a part of a text.        *)
Outcome(expr, parts) ==
  LET values == [i \in DOMAIN parts |-> parts[i].value]
      MemberOf(key) == CHOOSE i \in DOMAIN expr.of : expr.of[i].key = key
  IN  CASE expr.is \in {"call", "template"} /\ Dynamic \in ToSet(values) -> Dynamic
        [] expr.is = "call" -> Is("result", <<expr.of[1], values>>)
        [] expr.is = "template" -> Is("joined", values)
        [] expr.is = "tuple" -> Is("list", values)
        [] expr.is = "object" -> Object([key \in {expr.of[i].key : i \in DOMAIN expr.of} |-> values[MemberOf(key)]])
        [] expr.is = "conditional" -> IF values[1] = Text("true") THEN values[2] ELSE values[3]
Parts(expr) ==
  CASE expr.is = "call" -> expr.of[2]
    [] expr.is = "object" -> [i \in DOMAIN expr.of |-> expr.of[i].expr]
    [] OTHER -> expr.of
Combined(expr, parts, errors) == IF errors # <<>> THEN Failed(errors) ELSE Evaluated(Outcome(expr, parts))
ErrorsOf(parts) == FlattenSeq([i \in DOMAIN parts |-> parts[i].errors])

(* hclsyntax.Expression.Value *)
RECURSIVE Eval(_, _, _)
Eval(expr, variables, functions) ==
  CASE expr.is = "literal" -> Evaluated(expr.of)
    [] expr.is = "reference" ->
         IF Head(expr.of) \notin DOMAIN variables THEN Failed(<<Failure("Unknown variable", expr.of)>>)
         ELSE Traverse(variables[Head(expr.of)], Tail(expr.of))
    [] expr.is = "call" /\ expr.of[1] \notin functions ->
         Failed(<<Failure("Call to unknown function", <<expr.of[1]>>)>>)
    [] OTHER ->
         LET parts == [i \in DOMAIN Parts(expr) |-> Eval(Parts(expr)[i], variables, functions)]
         IN  Combined(expr, parts, ErrorsOf(parts))

(* body.Attributes[name] *)
HasAttr(body, name) == \E i \in DOMAIN body.attrs : body.attrs[i].name = name
AttrOf(body, name) == body.attrs[CHOOSE i \in DOMAIN body.attrs : body.attrs[i].name = name]
=============================================================================
