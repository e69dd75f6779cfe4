----------------------------- MODULE JsonFilter -----------------------------
(***************************************************************************)
(* The filter patterns of log metrics: the recursive-descent parser of     *)
(* pkg/parser/jsonfilter/parser and the visitor that turns its tree into   *)
(* the value the queries see, resolveJSONFilter of pkg/kics/sink.go.       *)
(*                                                                         *)
(* A token is [kind, text].  A rule takes the tokens that are left and     *)
(* returns [ok, val, rest]; ok is FALSE when the error listener heard of   *)
(* an error: how the parser recovers does not matter then.  A text is the  *)
(* sequence of the texts of its tokens.                                    *)
(***************************************************************************)
EXTENDS Naturals, Sequences

Kind(ts) == IF ts = <<>> THEN "EOF" ELSE Head(ts).kind
Second(ts) == IF Len(ts) < 2 THEN "EOF" ELSE ts[2].kind

Failed == [ok |-> FALSE, val |-> <<>>, rest |-> <<>>]
Match(ts, kinds) ==
  IF Kind(ts) \in kinds THEN [ok |-> TRUE, val |-> <<Head(ts).text>>, rest |-> Tail(ts)] ELSE Failed

(* One rule after another: the texts are joined. *)
Then(r, Rule(_)) ==
  LET s == Rule(r.rest)
  IN  IF r.ok /\ s.ok THEN [s EXCEPT !.val = r.val \o s.val] ELSE Failed

RECURSIVE Subscripts(_), DotMembers(_), DotNumbers(_)
Subscripts(ts) ==
  LET closed == Then(Then(Match(ts, {"["}), LAMBDA rest : Match(rest, {"NUMBER"})),
                     LAMBDA rest : Match(rest, {"]"}))
  IN  IF Kind(ts) # "[" THEN [ok |-> TRUE, val |-> <<>>, rest |-> ts] ELSE Then(closed, Subscripts)
Member(ts) == Then(Match(ts, {"IDENTIFIER"}), Subscripts)
DotMembers(ts) ==
  IF Kind(ts) # "." THEN [ok |-> TRUE, val |-> <<>>, rest |-> ts]
  ELSE Then(Then(Match(ts, {"."}), Member), DotMembers)
Qualifiedidentifier(ts) == Then(Member(ts), DotMembers)
Selector(ts) == Then(Match(ts, {"$."}), Qualifiedidentifier)

Operators == {"=", "!=", "IS", "NOT", ">", "<", ">=", "<="}
Operator(ts) == Match(ts, Operators)

DotNumbers(ts) ==
  IF Kind(ts) # "." THEN [ok |-> TRUE, val |-> <<>>, rest |-> ts]
  ELSE Then(Then(Match(ts, {"."}), LAMBDA rest : Match(rest, {"NUMBER", "*"})), DotNumbers)
Literal(ts) ==
  IF Kind(ts) = "NUMBER" THEN Then(Match(ts, {"NUMBER"}), DotNumbers)
  ELSE Match(ts, {"STRING", "NULL", "EXISTS", "TRUE", "FALSE", "IDENTIFIER"})

(* Exp and VisitExp: a single identifier is a literal.  A qualified identifier   *)
(* has no value: its visitor returns nothing.                                    *)
IsQualified(ts) == Kind(ts) = "IDENTIFIER" /\ Second(ts) \in {".", "["}
Operand(ts) ==
  IF ~IsQualified(ts) THEN Literal(ts)
  ELSE LET r == Qualifiedidentifier(ts) IN IF r.ok THEN [r EXCEPT !.val = <<>>] ELSE r
Compared(selector, operator, value) ==
  IF ~(selector.ok /\ operator.ok /\ value.ok) THEN Failed
  ELSE [ok |-> TRUE, rest |-> value.rest,
        val |-> [selector |-> selector.val, op |-> operator.val, value |-> value.val]]
Compare(selector, operator) == Compared(selector, operator, Operand(operator.rest))
CompareWith(selector) == Compare(selector, Operator(selector.rest))
Exp(ts) == CompareWith(Selector(ts))

RECURSIVE FilterExpr(_, _), Climb(_, _, _)
(* Faulty: "||" binds as tightly as "&&". *)
PrecedenceOfOr(op) == 3

(* filter_expr_Sempred: an operator is taken while it binds at least as tightly as p. *)
Precedence(op) == IF op = "&&" THEN 3 ELSE 2

Climb(lhs, ts, p) ==
  LET op == Kind(ts)
      rhs == FilterExpr(Tail(ts), Precedence(op) + 1)
  IN  IF op \notin {"&&", "||"} \/ Precedence(op) < p THEN [ok |-> TRUE, val |-> lhs, rest |-> ts]
      ELSE IF ~rhs.ok THEN Failed
      ELSE Climb([op |-> op, left |-> lhs, right |-> rhs.val], rhs.rest, p)

(* filter_expr *)
Closed(inner, kind) ==
  LET close == Match(inner.rest, {kind})
  IN  IF inner.ok /\ close.ok THEN [inner EXCEPT !.rest = close.rest] ELSE Failed
ClimbFrom(primary, p) == IF primary.ok THEN Climb(primary.val, primary.rest, p) ELSE Failed
FilterExpr(ts, p) ==
  ClimbFrom(IF Kind(ts) = "$." THEN Exp(ts)
            ELSE IF Kind(ts) = "(" THEN Closed(FilterExpr(Tail(ts), 0), ")") ELSE Failed, p)

(* dotnotation; awsjsonfilter does not ask for the end of the text. *)
Dotnotation(ts) ==
  IF Kind(ts) = "{" THEN Closed(FilterExpr(Tail(ts), 0), "}") ELSE Failed

(* resolveJSONFilter: a text with an error stays the text it is. *)
ResolveJSONFilter(ts) ==
  LET r == Dotnotation(ts) IN IF r.ok THEN [parsed |-> TRUE, val |-> r.val] ELSE [parsed |-> FALSE, val |-> ts]
=============================================================================
