---------------------------- MODULE MCTerraform ----------------------------
(***************************************************************************)
(* Folders with every source of variables and with policies; a file whose  *)
(* calls refer to locals before and after one that does not; blocks with   *)
(* the same place, with count, within each other; comments over lines,     *)
(* blocks, attributes, other comments and empty lines.                     *)
(***************************************************************************)
EXTENDS Terraform

Terms == INSTANCE Hcl

MCFunctions == {"upper", "merge"}

TLit(t) == Terms!Is("literal", Terms!Text(t))
TRef(path) == Terms!Is("reference", path)
TVar(name) == TRef(<<"var", name>>)
TCall(fn, args) == Terms!Is("call", <<fn, args>>)
TTuple(items) == Terms!Is("tuple", items)
TItem(key, expr, line) == [key |-> key, expr |-> expr, line |-> line]
TTemplate(parts) == Terms!Is("template", parts)
TPolicy(name) == TRef(<<"data", "aws_iam_policy_document", name, "json">>)

At1(name, line, expr) == [name |-> name, expr |-> expr, line |-> line, last |-> line]
TBody(attrs, blocks) == [attrs |-> attrs, blocks |-> blocks]
TBlock(type, labels, line, last, attrs, blocks) ==
  [type |-> type, labels |-> labels, line |-> line, last |-> last, body |-> TBody(attrs, blocks)]
TFile(name, kind, body) == [name |-> name, kind |-> kind, body |-> body, comments |-> <<>>, blank |-> {}, hint |-> ""]
TVariable(name, line, default) == TBlock("variable", <<name>>, line, line + 2, <<At1("default", line + 1, default)>>, <<>>)

MCVarsFiles ==
  "common.tf" :> TBody(<<At1("c", 1, TLit("c-common")), At1("e", 2, TLit("e-common"))>>, <<>>)
  @@ "flag.tf" :> TBody(<<At1("b", 1, TLit("b-flag")), At1("e", 2, TLit("e-flag"))>>, <<>>)

Statement(line, attrs) == TBlock("statement", <<>>, line, line + 3, attrs, <<>>)
Allow(line, resources) ==
  Statement(line, <<At1("effect", line + 1, TLit("Allow")), At1("actions", line + 2, TTuple(<<TVar("a")>>)),
                    At1("resources", line + 2, TTuple(resources))>>)
Policy(name, line, statements) ==
  TBlock("data", <<"aws_iam_policy_document", name>>, line, line + 12, <<At1("version", line + 1, TLit("2012"))>>, statements)
Principal(line, id) ==
  [Statement(line, <<At1("effect", line + 1, TLit("Deny"))>>) EXCEPT
     !.body.blocks = <<TBlock("principals", <<>>, line + 1, line + 2, <<At1("type", line + 2, TLit("AWS")), At1("identifiers", line + 2, TTuple(<<id>>))>>, <<>>)>>]

Uses(line) ==
  TBlock("resource", <<"bucket", "uses">>, line, line + 8,
    <<At1("a", line + 1, TVar("a")), At1("b", line + 2, TVar("b")), At1("c", line + 3, TVar("c")),
      At1("e", line + 4, TVar("e")), At1("p", line + 5, TPolicy("p"))>>, <<>>)
Calls(line) ==
  TBlock("resource", <<"bucket", "calls">>, line, line + 8,
    <<At1("a", line + 1, TCall("upper", <<TRef(<<"local", "x">>)>>)), At1("b", line + 2, TRef(<<"local", "x">>)),
      At1("c", line + 3, TCall("merge", <<TVar("a"), TRef(<<"local", "y">>)>>)),
      At1("e", line + 4, TTemplate(<<TLit("t"), TRef(<<"local", "x">>), TVar("e")>>))>>, <<>>)
Main(line) == TFile("main", "tf", TBody(<<>>, <<Uses(line), Policy("p", line + 20, <<Allow(line + 22, <<TLit("r"), TRef(<<"bucket", "uses", "arn">>)>>),
                                                                         Principal(line + 26, TVar("a"))>>)>>))
MCVariables == TFile("variables", "tf", TBody(<<At1("e", 9, TLit("e-own"))>>, <<TVariable("a", 1, TLit("a-default")), TVariable("b", 4, TLit("b-default"))>>))
Auto == TFile("x.auto", "auto", TBody(<<At1("a", 1, TLit("a-auto")), At1("b", 2, TLit("b-auto"))>>, <<>>))
Tfvars == TFile("terraform", "tfvars", TBody(<<At1("a", 1, TLit("a-tfvars"))>>, <<>>))
Other == TFile("other", "tf", TBody(<<>>, <<Calls(1), TVariable("b", 20, TLit("b-other"))>>))
MCFolders ==
  { [one |-> <<Main(1)>> \o rest, two |-> <<[Main(1) EXCEPT !.hint = hint], Other>>] :
      rest \in {<<>>, <<MCVariables>>, <<Tfvars>>, <<MCVariables, Auto, Tfvars>>, <<Auto>>, <<Tfvars, MCVariables>>},
      hint \in {"", "common.tf", "absent.tf"} }
Walks == {<<<<"one", 1>>, <<"two", 1>>>>, <<<<"two", 2>>, <<"one", 1>>, <<"two", 1>>>>, <<<<"two", 1>>, <<"two", 2>>, <<"one", 1>>>>}

-----------------------------------------------------------------------------
TAttrs(line) == <<At1("k", line + 1, TLit("v")), At1("l", line + 2, TTuple(<<TLit("v"), Terms!Is("object", <<TItem("m", TLit("w"), line + 2)>>)>>))>>
Plainly(type, labels, line) == TBlock(type, labels, line, line + 3, TAttrs(line), <<>>)
Counted(n, block) == [block EXCEPT !.body.attrs = Append(@, At1("count", block.line + 3, TLit(n)))]
With(block, inner) == [block EXCEPT !.body.blocks = inner]
Shapes ==
  { <<Plainly("resource", <<"bucket", "a">>, 1), Plainly("resource", <<"bucket", "b">>, 10), Plainly("resource", <<"role", "a">>, 20)>>,
    <<Plainly("provider", <<"aws">>, 1), Plainly("provider", <<"aws">>, 10), Plainly("provider", <<"aws">>, 20), Plainly("provider", <<"gcp">>, 30)>>,
    <<Counted("0", Plainly("resource", <<"bucket", "a">>, 1)), Counted("1", Plainly("resource", <<"bucket", "b">>, 10))>>,
    <<Counted("0", Plainly("resource", <<"bucket", "a">>, 1)), Plainly("resource", <<"bucket", "a">>, 10)>>,
    <<With(Plainly("resource", <<"group", "a">>, 1),
           <<Plainly("ingress", <<>>, 4), Plainly("ingress", <<>>, 10), Counted("0", Plainly("ingress", <<>>, 15)), Plainly("ingress", <<>>, 20),
             Plainly("dynamic", <<"tag">>, 25), Plainly("dynamic", <<"egress">>, 30)>>)>>,
    <<Plainly("resource", <<"bucket", "a">>, 1), Plainly("resource", <<"bucket", "a">>, 10)>>,
    <<Plainly("resource", <<"bucket">>, 1)>>,
    <<Plainly("module", <<"m">>, 1), Plainly("module", <<"m", "n">>, 10)>>,
    <<Plainly("module", <<"m">>, 1), Plainly("module", <<"m">>, 10), Plainly("module", <<"m", "n">>, 20)>>,
    <<Plainly("terraform", <<>>, 1), Plainly("locals", <<>>, 10), Plainly("locals", <<>>, 20)>> }
Shaped == {TFile("main", "tf", TBody(<<>>, s)) : s \in Shapes}

-----------------------------------------------------------------------------
TComment(block, command, from, to) == [block |-> block, command |-> command, from |-> from, to |-> to, trailing |-> FALSE]
Hash(command, line) == TComment(FALSE, command, line, line)
Commands == {"", "ignore-line", "ignore-block"}
(* 2: the block  3: a  5: b, over two lines  8: inner  9: c  11: the end; 4, 7 and 12 have comments or nothing. *)
CommentedBody ==
  TBody(<<>>, <<TBlock("resource", <<"bucket", "a">>, 2, 11,
    <<At1("a", 3, TLit("v")), [At1("b", 5, TTuple(<<TLit("v")>>)) EXCEPT !.last = 6]>>,
    <<TBlock("inner", <<>>, 8, 10, <<At1("c", 9, TLit("v"))>>, <<>>)>>)>>)
CommentedWith(comments, blank) == [TFile("main", "tf", CommentedBody) EXCEPT !.comments = comments, !.blank = blank]
CommentedFiles ==
  {CommentedWith(<<Hash(c, 1), Hash(d, 4), Hash(e, 7)>>, {12}) : c \in Commands, d \in Commands, e \in Commands}
  \union {CommentedWith(<<Hash(c, 1), [Hash(d, 3) EXCEPT !.trailing = TRUE], Hash(d, 12)>>, {4, 7, 13}) : c \in Commands, d \in Commands}
  \union {[CommentedWith(<<Hash(c, 12), Hash(d, 13)>>, {1, 4, 7, 14}) EXCEPT !.body.blocks = Append(@, Plainly("locals", <<>>, 15))] :
            c \in Commands, d \in Commands}
  \union {CommentedWith(<<TComment(TRUE, "", 4, 4), Hash(c, 7)>>, {1, 12}) : c \in Commands}
  \union {CommentedWith(<<Hash(c, 12), TComment(TRUE, "", 13, 15)>>, {1, 4, 7}) : c \in Commands}

Alone(file) == [folders |-> [one |-> <<file>>], files |-> <<<<"one", 1>>>>, flag |-> ""]
MCProjects ==
  {[folders |-> f, files |-> w, flag |-> flag] : f \in MCFolders, w \in Walks, flag \in {"", "flag.tf"}}
  \union {Alone(f) : f \in Shaped \union CommentedFiles}
=============================================================================
