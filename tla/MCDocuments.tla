---------------------------- MODULE MCDocuments ----------------------------
(***************************************************************************)
(* Files in one folder: chains, diamonds in both orders, a cycle, sections,  *)
(* a file that is named twice; YAML documents with comments over keys, over  *)
(* list items and at the end of lists, an alias, two documents; JSON         *)
(* objects with lists of objects; plans with nested modules.                 *)
(***************************************************************************)
EXTENDS Documents

(* Trees and references, as FileResolver has them. *)
L(x) == [kind |-> "scalar", text |-> x, items |-> <<>>]
M(items) == [kind |-> "map", text |-> "", items |-> items]
S(items) == [kind |-> "seq", text |-> "", items |-> items]
One(t) == <<t>>

MCContent ==
  [ bcK    |-> One(M(<<L("k1"), L("b.yaml"), L("k2"), L("c.yaml")>>)),
    cbK    |-> One(M(<<L("k2"), L("c.yaml"), L("k1"), L("b.yaml")>>)),
    b      |-> One(M(<<L("x"), L("c.yaml")>>)),
    c      |-> One(M(<<L("y"), L("d.yaml")>>)),
    d      |-> <<M(<<L("z"), L("v")>>), M(<<L("second"), L("v")>>)>>,
    play   |-> One(S(<<M(<<L("include_tasks"), L("task.yaml")>>), M(<<L("include_tasks"), L("task.yaml")>>)>>)),
    task   |-> One(S(<<M(<<L("include_vars"), L("play.yaml")>>), M(<<L("debug"), L("hi")>>)>>)),
    refs   |-> One(M(<<L("p"), M(<<L("$ref"), L("d.yaml")>>), L("q"), M(<<L("$ref"), L("b.yaml"), L("r"), L("v")>>)>>)),
    ansible |-> One(M(<<L("include_vars"), L("main.yaml")>>)),
    main   |-> One(M(<<L("region"), L("v")>>)),
    api    |-> One(M(<<L("p"), M(<<L("$ref"), L("defs.json#/A")>>), L("q"), L("leaf.json")>>)),
    defs   |-> One(M(<<L("A"), M(<<L("i"), L("leaf.json")>>), L("B"), L("v")>>)),
    leaf   |-> One(M(<<L("z"), S(<<L("v"), L("w")>>)>>)),
    own    |-> One(M(<<L("A"), M(<<L("i"), M(<<L("$ref"), L("#/B")>>)>>),
                       L("B"), M(<<L("j"), M(<<L("$ref"), L("#/A")>>)>>)>>)),
    hash   |-> One(M(<<L("p"), M(<<L("$ref"), L("leaf.json#")>>)>>)),
    twice  |-> One(M(<<L("p"), M(<<L("$ref"), L("leaf.json")>>), L("q"), M(<<L("$ref"), L("./leaf.json")>>)>>)),
    ownY   |-> One(M(<<L("A"), M(<<L("i"), M(<<L("$ref"), L("#/B")>>)>>), L("B"), M(<<L("z"), L("v")>>)>>)),
    ring   |-> One(M(<<L("A"), M(<<L("i"), M(<<L("$ref"), L("#/B")>>)>>),
                       L("B"), M(<<L("j"), M(<<L("$ref"), L("#/A")>>)>>)>>)),
    broken |-> One(M(<<L("k"), L("bad.yaml"), L("l"), L("shut.yaml"), L("m"), L("d.yaml")>>)),
    bad    |-> One(M(<<L("z"), L("v")>>)),
    shut   |-> One(M(<<L("z"), L("v")>>)) ]
MCFiles == {"bcK", "cbK", "b", "c", "d", "play", "task", "refs", "ansible", "main", "api", "defs", "leaf", "own", "hash",
            "twice", "ownY", "ring", "broken", "bad", "shut"}
MCFolder == [f \in MCFiles |-> "."]
MCJson == {"api", "defs", "leaf", "own", "hash", "twice"}
MCBaseName == [f \in MCFiles |-> IF f \in MCJson THEN f \o ".json" ELSE f \o ".yaml"]
MCIsYaml == [f \in MCFiles |-> f \notin MCJson]
File(name) == [name |-> name, sec |-> <<"no section">>]
Section(name, sec) == [name |-> name, sec |-> sec]
MCRefs ==
  [t \in {"b.yaml", "c.yaml", "d.yaml", "task.yaml", "play.yaml", "main.yaml", "bad.yaml", "shut.yaml",
          "leaf.json", "./leaf.json"} |-> File(t)]
  @@ ("defs.json#/A" :> Section("defs.json", <<"A">>)) @@ ("leaf.json#" :> Section("leaf.json", <<"empty">>))
  @@ ("#/A" :> Section("same file", <<"A">>)) @@ ("#/B" :> Section("same file", <<"B">>))
FilesBy(names) == [at \in {<<".", names[f]>> : f \in MCFiles} |-> CHOOSE f \in MCFiles : names[f] = at[2]]
MCLocated == FilesBy(MCBaseName) @@ (<<".", "./leaf.json">> :> "leaf")
MCLocateVars == <<".", "main.yaml">> :> "main"
MCOpenAPI == {"api"}
MCInvalid == {"bad"}
MCUnreadable == {"shut"}
Roots == {"bcK", "cbK", "play", "refs", "ansible", "api", "own", "hash", "twice", "ownY", "ring", "broken", "d"}
MCResolutions == [file : Roots, max : 0 .. 4, refs : BOOLEAN]

-----------------------------------------------------------------------------
Node(kind, text, line, items) ==
  [kind |-> kind, text |-> text, tag |-> "!!str", line |-> line, rows |-> 0, head |-> Yaml!NoComment,
   foot |-> Yaml!NoComment, items |-> items, anchor |-> <<>>]
T(text, line) == Node("scalar", text, line, <<>>)
Command(cmd) == [cmd |-> cmd, n |-> 1, ends |-> FALSE]
Remark(n) == [cmd |-> "remark", n |-> n, ends |-> FALSE]
Over(c, node) == [node EXCEPT !.head = c]
Below(c, node) == [node EXCEPT !.foot = c]
YMap(line, items) == Node("map", "", line, items)
YSeq(line, items) == Node("seq", "", line, items)
Rows(n, node) == [node EXCEPT !.rows = n]

(* 2: a  3: b: {c, d: [..]}  with the comment c over b at line 3 *)
Nested(c) ==
  YMap(1, <<T("a", 1), T("v", 1),
            Over(c, T("b", 3)),
            YMap(4, <<T("c", 4), T("v", 4),
                      T("d", 5), YSeq(6, <<YMap(6, <<T("e", 6), T("v", 6), T("f", 7), Rows(2, T("text", 8))>>)>>)>>),
            T("g", 12), T("v", 12)>>)
(* a list whose second element has the comment *)
Listed(c) ==
  YMap(1, <<T("l", 1), YSeq(2, <<YMap(2, <<T("x", 2), T("v", 2)>>),
                                 Over(c, YMap(4, <<T("x", 4), T("v", 4), T("y", 5), T("w", 5)>>))>>),
            T("m", 7), YSeq(8, <<T("p", 8), T("q", 9)>>)>>)
(* a comment at the end of a list, the foot of the key before it *)
Footed(c) ==
  YMap(1, <<Below(c, T("l", 1)), YSeq(2, <<T("p", 2), T("q", 3)>>), T("m", 6), T("v", 6)>>)
(* over the key of a scalar; over an empty map; over the first key *)
OverScalar(c) == YMap(1, <<T("a", 1), T("v", 1), Over(c, T("b", 3)), T("v", 3)>>)
OverEmpty(c) == YMap(1, <<T("a", 1), T("v", 1), Over(c, T("b", 3)), YMap(3, <<>>)>>)
OverFirst(c) == YMap(2, <<Over(c, T("a", 2)), T("v", 2), T("b", 3), T("v", 3)>>)
Top(c) == Over(c, YMap(2, <<T("a", 2), T("v", 2)>>))
Alias ==
  LET anchor == YMap(2, <<T("x", 2), T("v", 2)>>)
  IN  YMap(1, <<T("a", 1), anchor, T("<<", 4), [Node("alias", "", 4, <<>>) EXCEPT !.anchor = <<anchor>>]>>)
Typed ==
  YMap(1, <<T("on", 1), [T("true", 1) EXCEPT !.tag = "!!bool"], T("n", 2), [T("null", 2) EXCEPT !.tag = "!!null"]>>)
Play(certificate) == YSeq(1, <<YMap(1, <<T("acm", 1), YMap(2, <<T("certificate", 2), certificate>>)>>)>>)
Null == [T("", 1) EXCEPT !.tag = "!!null"]

Comments == {Yaml!NoComment, Command("ignore-block"), Command("ignore-line"), Remark(1), Remark(2),
             [Remark(1) EXCEPT !.ends = TRUE]}
MCYamlFiles ==
  UNION {{<<Nested(c)>>, <<Listed(c)>>, <<OverScalar(c)>>, <<OverEmpty(c)>>, <<OverFirst(c)>>, <<Top(c)>>,
          <<OverFirst(Yaml!NoComment), Null, Nested(c)>>, <<Nested(c), T("text", 20), Typed>>} : c \in Comments}
  \union {<<Footed(Remark(n))>> : n \in 0 .. 2}
  \union {<<Alias>>, <<Typed>>, <<YSeq(1, <<OverFirst(Yaml!NoComment)>>)>>,
          <<Play(T("v", 2))>>, <<Play([T("1", 2) EXCEPT !.tag = "!!int"])>>}

-----------------------------------------------------------------------------
Val(text, line) == [kind |-> "val", text |-> text, line |-> line, items |-> <<>>]
Obj(items) == [kind |-> "obj", items |-> items]
Arr(items) == [kind |-> "arr", items |-> items]
In(key, line, val) == [key |-> key, line |-> line, val |-> val]
MCJsonFiles ==
  { Obj(<<In("a", 1, Obj(<<In("b", 2, Val("v", 2)), In("a", 3, Val("v", 3))>>)), In("b", 5, Val("w", 5))>>),
    Obj(<<In("l", 1, Arr(<<Obj(<<In("x", 2, Val("v", 2)), In("y", 3, Val("v", 3))>>),
                           Obj(<<In("x", 5, Val("v", 5)), In("y", 6, Val("w", 6))>>)>>)),
          In("x", 9, Val("v", 9))>>),
    Obj(<<In("l", 1, Arr(<<Val("p", 2), Val("q", 3), Val("p", 4)>>)), In("m", 6, Val("v", 6))>>),
    Obj(<<In("l", 1, Arr(<<Obj(<<In("x", 2, Obj(<<In("z", 3, Val("v", 3))>>))>>),
                           Obj(<<In("x", 5, Obj(<<In("z", 6, Val("v", 6))>>))>>)>>)),
          In("m", 9, Obj(<<In("z", 10, Arr(<<Val("p", 11)>>))>>))>>),
    Obj(<<In("e", 1, Obj(<<>>)), In("f", 2, Arr(<<>>)), In("g", 3, Obj(<<In("h", 4, Val("v", 4))>>)),
          In("i", 5, Val("v", 5))>>),
    Obj(<<In("a", 1, Val("b", 1)), In("b", 2, Val("v", 2))>>),
    Obj(<<In("n", 1, Arr(<<Arr(<<Obj(<<In("x", 3, Val("v", 3))>>)>>)>>)), In("m", 5, Val("v", 5))>>),
    Arr(<<Obj(<<In("a", 1, Val("v", 1))>>), Obj(<<In("b", 2, Val("v", 2))>>)>>) }

Planned(type, name) == [type |-> type, name |-> name, attrs |-> name]
Module(resources, children) == [resources |-> resources, children |-> children]
MCPlans ==
  { Module(<<Planned("bucket", "a"), Planned("bucket", "b"), Planned("role", "r")>>,
           <<Module(<<Planned("queue", "q")>>, <<Module(<<Planned("role", "s")>>, <<>>)>>),
             Module(<<Planned("queue", "t"), Planned("key", "k")>>, <<>>)>>),
    Module(<<>>, <<Module(<<Planned("bucket", "a")>>, <<>>)>>) }

-----------------------------------------------------------------------------
FTok(kind, text) == [kind |-> kind, text |-> text]
Compare(selector, op, value) == [op |-> op, selector |-> selector, value |-> value]
FA == Compare(<<FTok("IDENTIFIER", "a")>>, "=", <<FTok("STRING", "s")>>)
FB == Compare(<<FTok("IDENTIFIER", "b"), FTok("[", "["), FTok("NUMBER", "0"), FTok("]", "]"), FTok(".", "."),
                FTok("IDENTIFIER", "c")>>, ">=",
              <<FTok("NUMBER", "1"), FTok(".", "."), FTok("NUMBER", "5"), FTok(".", "."), FTok("*", "*")>>)
FC == Compare(<<FTok("IDENTIFIER", "d")>>, "NOT", <<FTok("EXISTS", "EXISTS")>>)
Joined(left, right) == [op : {"&&", "||"}, left : left, right : right]
Two == Joined({FA, FB}, {FB, FC})
MCFilters == {FA, FB, FC} \union Two \union Joined(Two, {FC}) \union Joined({FA}, Two) \union Joined(Two, Two)

-----------------------------------------------------------------------------
(* The words of a piece of program that is only read past. *)
Raw(words) ==
  LET punctuation == {"@", ",", "[", "]", "(", ")", ".", ":", "=", "{", "}", "?", ">", "==", "=>", "NL", "if", "for",
                      "in", "import", "with", "as", "metadata", "module", "output", "targetScope", "type", "resource",
                      "string", "existing", "param", "true", "null", "object"}
  IN  [i \in DOMAIN words |->
         IF words[i] \in punctuation THEN Word(words[i])
         ELSE IF words[i] = "'text'" THEN [kind |-> "STRING_COMPLETE", text |-> <<"text">>]
         ELSE IF words[i] = "'''" THEN [kind |-> "MULTILINE_STRING", text |-> <<"rows">>]
         ELSE IF words[i] = "'${" THEN [kind |-> "STRING_LEFT_PIECE", text |-> <<"'${">>]
         ELSE IF words[i] = "}${" THEN [kind |-> "STRING_MIDDLE_PIECE", text |-> <<"}${">>]
         ELSE IF words[i] = "}'" THEN [kind |-> "STRING_RIGHT_PIECE", text |-> <<"}'">>]
         ELSE IF words[i] = "1" THEN [kind |-> "NUMBER", text |-> <<"1">>]
         ELSE Named(<<words[i]>>)]
Code(words) == [is |-> "tokens", of |-> Raw(words)]
Name(x) == Code(<<x>>)
Num(n) == [is |-> "number", of |-> <<n>>]
Str(t) == [is |-> "text", of |-> <<t>>]
Yes == [is |-> "bool", of |-> <<"true">>]
List(items) == [is |-> "list", of |-> items]
Map_(items) == [is |-> "map", of |-> items]
P(key, value) == [key |-> <<key>>, value |-> value]
Param(name, type, value, decorators) ==
  [is |-> "param", name |-> <<name>>, type |-> type, of |-> value, decorators |-> Raw(decorators)]
Var(name, value) == [is |-> "var", name |-> <<name>>, of |-> value, decorators |-> <<>>]
Resource(name, type, body) == [is |-> "resource", name |-> <<name>>, type |-> type, of |-> body, decorators |-> <<>>]

ServerType == <<"sql", "/", "servers", "@", "2021">>
DatabaseType == <<"sql", "/", "servers", "/", "databases", "@", "2021">>
Server(name) == Resource(name, ServerType, Map_(<<P("name", Str("s")), P("properties", Map_(<<P("port", Num("1"))>>))>>))
Child(name, parent) == Resource(name, DatabaseType, Map_(<<P("name", Str("d")), P("parent", Name(parent))>>))

Values ==
  { Code(<<"resourceGroup", "(", ")", ".", "location">>),
    Code(<<"a", "?", "b", ":", "c">>), Code(<<"a", ".", "b", "==", "c", "[", "1", "]">>),
    Code(<<"(", "NL", "a", ")">>), Code(<<"f", "(", "NL", "'text'", ",", "g", "(", "1", ")", "NL", ")">>),
    Code(<<"'${", "f", "(", "a", ")", "}${", "b", "}'">>), Code(<<"'''">>), Code(<<"null">>),
    Code(<<"map", "(", "xs", ",", "x", "=>", "x", ")">>), Code(<<"f", "(", "(", "a", ",", "b", ")", "=>", "1", ")">>),
    Code(<<"[", "for", "x", "in", "xs", ":", "x", "]">>), Code(<<"[", "f", "(", "a", ")", "]">>),
    Code(<<"a", ":", "b">>), Code(<<"a", ".", "f", "(", "'text'", ")">>),
    List(<<Num("1"), Yes, Str("t"), List(<<Str("u")>>)>>),
    Map_(<<P("k", List(<<Map_(<<P("x", Num("1"))>>), Map_(<<P("y", Num("2"))>>)>>)), P("l", Yes)>>) }
MCPrograms ==
  {<<Var("first", v), Param("p", "string", v, <<"@", "secure", "(", ")", "NL">>), Code(<<"NL">>), Var("last", Num("1"))>> :
     v \in Values}
  \union
  UNION {{<<Resource("r", ServerType, Map_(<<P("size", v), P("after", Num("1"))>>))>>, <<Var("all", List(<<v, Str("t")>>))>>} :
           v \in {x \in Values : x.is = "tokens"}}
  \union
  {<<Code(<<"targetScope", "=", "'text'", "NL">>), Code(<<"metadata", "m", "=", "'text'", "NL">>),
     Code(<<"import", "'text'", "with", "{", "}", "as", "az", "NL">>), Code(<<"type", "t", "=", "string", "NL">>),
     Param("a", "object", Map_(<<>>), <<"@", "sys", ".", "description", "(", "'text'", ")", "NL",
                                       "@", "allowed", "(", "[", "'text'", "]", ")", "NL",
                                       "@", "minLength", "(", "1", ")", "NL", "@", "secure", "(", ")", "NL">>),
     Code(<<"param", "q", "resource", "'text'", "NL">>),
     Resource("r", ServerType, Code(<<"if", "(", "a", ")", "{", "NL", "k", ":", "1", "NL", "}">>)),
     Resource("s", ServerType, Code(<<"[", "NL", "for", "(", "x", ",", "i", ")", "in", "xs", ":", "if", "(", "a", ")", "{", "}",
                                      "NL", "]">>)),
     Code(<<"module", "m", "'text'", "=", "{", "}", "NL">>), Code(<<"output", "o", "string", "=", "a", "NL">>),
     Code(<<"output", "o", "resource", "'text'", "=", "a", "NL">>), Var("z", Num("1"))>>}
  \union
  {[i \in 1 .. 4 |-> <<Server("top"), Child("mid", "top"), Child("low", "mid"), Server("other")>>[order[i]]] :
     order \in {o \in [1 .. 4 -> 1 .. 4] : \A i, j \in 1 .. 4 : o[i] = o[j] => i = j}}
  \union
  {<<Server("top"), Child("mid", "absent"), Child("low", "mid"), Child("self", "self"), Child("kid", "top")>>,
   <<Server("top"), Child("mid", "low"), Child("low", "mid"), Server("other")>>,
   <<Server("top"), Resource("bad", DatabaseType, Map_(<<P("parent", Code(<<"xs", "[", "1", "]">>))>>)), Server("lost")>>}
=============================================================================
