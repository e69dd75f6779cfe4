------------------------------ MODULE Terraform -----------------------------
(***************************************************************************)
(* The Terraform files of a scan, parsed one after the other with the one  *)
(* map of variables that the process has (TerraformVariables,              *)
(* TerraformDocument).                                                     *)
(***************************************************************************)
EXTENDS Call

CONSTANTS Functions_, VarsFiles,   \* as in TerraformVariables
          Projects   \* set of [folders, files, flag]: files are the <<folder, index>> in the order of the walk

Tf == INSTANCE TerraformDocument

TerraformInit == Called("terraform", Projects)

RECURSIVE AllAttrs(_)
AllAttrs(body) == ToSet(body.attrs) \union UNION {AllAttrs(body.blocks[i].body) : i \in DOMAIN body.blocks}

FileAt(at) == input.folders[at[1]][at[2]]

(* An attribute whose place among the others can matter: it makes inventions, or reads *)
(* what may be one.  What is known of var and data is never invented.                    *)
OrderMatters(a) ==
  a.expr.is \in {"call", "template", "conditional"} \/ (a.expr.is = "reference" /\ a.expr.of[1] \notin {"var", "data"})

(* Resolve and Parse of one file after another; the attributes of its bodies come in *)
(* any order, the same for all files of a behaviour.                                  *)
ParseFile(project, known, at, order) ==
  Tf!ParseTerraform(Tf!ResolveVariables(known, project.folders[at[1]], project.folders[at[1]][at[2]], project.flag),
                    project.folders[at[1]][at[2]], order)
RECURSIVE ParseFiles(_, _, _, _)
ParseFiles(project, r, files, order) ==
  IF files = <<>> THEN r.out
  ELSE ParseFiles(project, Tf!AndThen(r, ParseFile(project, r.vars, Head(files), order)), Tail(files), order)
NamesOf(attrs) == {a.name : a \in attrs}
Completed(order, names) == FoldSet(LAMBDA name, all : Append(all, name), order, names \ ToSet(order))
ParseFolders ==
  /\ call = "terraform"
  /\ LET attrs == UNION {AllAttrs(FileAt(input.files[i]).body) : i \in DOMAIN input.files}
     IN \E order \in SetToSeqs(NamesOf({a \in attrs : OrderMatters(a)})) :
          Return(ParseFiles(input, Tf!Converted(<<>>, <<>>), input.files, Completed(order, NamesOf(attrs))))

TerraformNext == ParseFolders
TerraformSpec == TerraformInit /\ [][TerraformNext]_vars

TerraformParsed == returned /\ call = "terraform"

-----------------------------------------------------------------------------
(* What a document has at a path; absent when it has nothing there. *)
Absent == Tf!Is("absent", <<>>)
RECURSIVE At(_, _)
At(document, path) ==
  IF path = <<>> THEN document
  ELSE IF document.is # "document" \/ Head(path) \notin DOMAIN document.of THEN Absent
  ELSE At(document.of[Head(path)], Tail(path))

Kept(body) == SelectSeq(body.blocks, LAMBDA b : ~Tf!CountIsZero(b.body))
Paths(body) == {Tf!Path(Kept(body)[i]) : i \in DOMAIN Kept(body)}
Together(body, path) == SelectSeq(Kept(body), LAMBDA b : Tf!Path(b) = path)

(* The value a folder gives a variable: the one of the highest rank that gives any. *)
Given(folder, file, flag, name) ==
  LET Defaults(i) == {b \in ToSet(folder[i].body.blocks) : b.type = "variable" /\ b.labels = <<name>> /\ Tf!HasAttr(b.body, "default")}
      path == IF flag # "" THEN flag ELSE file.hint
      Ranked(rank, body) == {<<rank, a.expr>> : a \in {x \in ToSet(body.attrs) : x.name = name}}
      n == Len(folder)
      all ==
        UNION {{<<i, Tf!AttrOf(b.body, "default").expr>> : b \in Defaults(i)} : i \in {j \in 1 .. n : folder[j].kind = "tf"}}
        \union UNION {Ranked(n + i, folder[i].body) : i \in {j \in 1 .. n : folder[j].kind = "auto"}}
        \union UNION {Ranked(2 * n + 1, folder[i].body) : i \in {j \in 1 .. n : folder[j].kind = "tfvars"}}
        \union (IF path \in DOMAIN VarsFiles THEN Ranked(2 * n + 2, VarsFiles[path]) ELSE {})
        \union UNION {Ranked(2 * n + 3, folder[i].body) : i \in {j \in 1 .. n : folder[j].kind = "tf" /\ folder[j].name = "variables"}}
      top == Max({given[1] : given \in all})
  IN  {given[2] : given \in {g \in all : g[1] = top}}

RECURSIVE VariablesIn(_)
VariablesIn(expr) ==
  CASE expr.is = "reference" /\ expr.of[1] = "var" -> {expr.of[2]}
    [] expr.is = "tuple" -> UNION {VariablesIn(expr.of[i]) : i \in DOMAIN expr.of}
    [] OTHER -> {}

(* A reference to a variable is the value that its own folder gives it - defaults,    *)
(* the tfvars files, the file of variables that the flag or a comment names - and     *)
(* stays as written when there is none; a reference to a policy document is the one   *)
(* of its own folder: with all its statements when the folder gives every variable    *)
(* that it refers to outside its resources, else with none.  Neither depends on the files parsed before, whose variables and     *)
(* inventions are still in the map (getInputVariables, getDataSourcePolicy,           *)
(* convertExpression).                                                                *)
ReferencesOfOwnFolder ==
  TerraformParsed =>
    \A k \in DOMAIN input.files :
      LET folder == input.folders[input.files[k][1]]
          file == FileAt(input.files[k])
          document == output[k].document
          Policies(name) ==
            UNION {{b \in ToSet(folder[i].body.blocks) : b.type = "data" /\ b.labels = <<"aws_iam_policy_document", name>>} :
                   i \in {j \in DOMAIN folder : folder[j].kind = "tf"}}
          Complete(policy) ==
            \A a \in AllAttrs(policy.body) : a.name # "resources" => \A name \in VariablesIn(a.expr) : Given(folder, file, input.flag, name) # {}
          Right(ref, got) ==
            IF ref.of[1] = "var"
            THEN LET given == Given(folder, file, input.flag, ref.of[2])
                 IN  IF given = {} THEN got = Tf!Wrapped(ref) ELSE \E expr \in given : got = Tf!Value(expr.of)
            ELSE LET policies == Policies(ref.of[3])
                 IN  IF policies = {} THEN got = Tf!Wrapped(ref)
                     ELSE \E b \in policies :
                            IF Complete(b) THEN got.of.is = "policy" /\ Len(got.of.of) = Len(b.body.blocks)
                            ELSE got.of \in {Tf!Text(""), Tf!Is("policy", <<>>)}
      IN  document # Tf!Refused =>
            \A path \in Paths(file.body) :
              LET blocks == Together(file.body, path)
              IN  Len(blocks) = 1 =>
                    \A i \in DOMAIN blocks[1].body.attrs :
                      LET a == blocks[1].body.attrs[i]
                      IN  a.expr.is = "reference" /\ a.expr.of[1] \in {"var", "data"} =>
                            Right(a.expr, At(document, Append(path, a.name)))

(* Every block is in the document, at the place of its type and labels, in order with  *)
(* the others of that place and with its own line; only count = 0 takes a block away   *)
(* (convertBody, convertBlock).  A file is refused only when the place of one block is *)
(* within another one, or a resource stands twice or has no name and a list.           *)
TerraformBlocksKept ==
  LET Inside(body) == \E p \in Paths(body), q \in Paths(body) \union {<<a.name>> : a \in ToSet(body.attrs)} : IsStrictPrefix(q, p)
      RECURSIVE Clash(_)
      Clash(body) == Inside(body) \/ \E i \in DOMAIN body.blocks : Clash(body.blocks[i].body)
      Listed(b) == \E a \in ToSet(b.body.attrs) : a.expr.is = "tuple"
      Twice(body) ==
        \/ \E p \in Paths(body) : p[1] = "resource" /\ Len(p) = 3 /\ Len(Together(body, p)) > 1
        \/ \E i \in DOMAIN body.blocks : LET b == body.blocks[i] IN b.type = "resource" /\ Len(b.labels) < 2 /\ (Listed(b) \/ b.body.blocks # <<>>)
      RECURSIVE Holds(_, _)
      Holds(document, body) ==
        /\ \A a \in ToSet(body.attrs) : a.name \in DOMAIN document.of /\ document.lines[a.name].line = a.line
        /\ \A path \in Paths(body) :
             LET blocks == Together(body, path)
                 there == At(document, path)
                 The(i) == IF Len(blocks) = 1 THEN there ELSE there.of[i]
             IN  /\ Len(blocks) > 1 => there.is = "list" /\ Len(there.of) = Len(blocks)
                 /\ \A i \in DOMAIN blocks : /\ The(i).is = "document" /\ The(i).lines["_default"].line = blocks[i].line
                                             /\ Holds(The(i), blocks[i].body)
  IN  TerraformParsed =>
        \A k \in DOMAIN input.files :
          LET body == FileAt(input.files[k]).body
              document == output[k].document
          IN  IF Clash(body) \/ Twice(body) THEN TRUE ELSE document # Tf!Refused /\ Holds(document, body)

(* The lines that a command hides. *)
Beneath(file, comment) == IF comment.to + 1 \in file.blank THEN comment.to + 2 ELSE comment.to + 1
RECURSIVE Starting(_, _)
Starting(body, line) ==   \* the lines of a block at a line, or of an attribute of a block
  UNION {LET b == body.blocks[i]
         IN  IF b.line = line THEN b.line .. b.last
             ELSE UNION {a.line .. a.last : a \in {x \in ToSet(b.body.attrs) : x.line = line}} \union Starting(b.body, line) :
         i \in DOMAIN body.blocks}
LinesOf(comment) == comment.from .. comment.to

(* Without comments in slash and star: every comment on a line of its own hides that *)
(* line, ignore-line the one beneath, also over an empty line, and ignore-block the    *)
(* block or attribute beneath; nothing else is hidden (ParseComments, GetIgnoreLines). *)
TerraformIgnoreExact ==
  TerraformParsed =>
    \A k \in DOMAIN input.files :
      LET file == FileAt(input.files[k])
          own == {c \in ToSet(file.comments) : ~c.trailing}
          Hidden(c) ==
            CASE c.command = "ignore-line" ->
                   LinesOf(c) \union {IF \E d \in own : d.from = c.to + 1 THEN c.to + 2 ELSE Beneath(file, c)}
              [] c.command = "ignore-block" -> IF c.to + 1 \in file.blank THEN {} ELSE Starting(file.body, c.to + 1)
              [] OTHER -> LinesOf(c)
      IN  (\A c \in own : ~c.block) => output[k].ignore = UNION {Hidden(c) : c \in own}

(* What the documentation of the commands says of comments that are none: a comment *)
(* hides no line but its own, and a command only what is after it.                    *)
CommentsHideNothingBefore ==
  TerraformParsed =>
    \A k \in DOMAIN input.files :
      LET comments == ToSet(FileAt(input.files[k]).comments)
      IN  \A line \in output[k].ignore : \E c \in comments : line \in LinesOf(c) \/ (c.command # "" /\ line > c.to)
=============================================================================
