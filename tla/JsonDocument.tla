---------------------------- MODULE JsonDocument ----------------------------
(***************************************************************************)
(* The JSON parser: the lines of the keys, recovered from the token stream *)
(* (pkg/parser/json/json_line.go), and Terraform plans (tfplan.go).        *)
(*                                                                         *)
(* An object is [kind |-> "obj", items] with items [key, line, val], an    *)
(* array [kind |-> "arr", items], anything else [kind |-> "val", text,     *)
(* line]; line is where the token ends.  A dotted path is the sequence of  *)
(* its parts: no key of the instances has a dot in it.                     *)
(***************************************************************************)
EXTENDS Integers, Sequences, FiniteSets, TLC, SequencesExt

Token(kind, text, line) == [kind |-> kind, text |-> text, line |-> line]

RECURSIVE Tokens(_)
Tokens(t) ==
  LET Member(m) == <<Token("text", m.key, m.line)>> \o Tokens(m.val)
      inner == IF t.kind = "obj" THEN [i \in DOMAIN t.items |-> Member(t.items[i])]
               ELSE [i \in DOMAIN t.items |-> Tokens(t.items[i])]
  IN  IF t.kind = "val" THEN <<Token("text", t.text, t.line)>>
      ELSE <<Token("open", "", 0)>> \o FlattenSeq(inner) \o <<Token("close", "", 0)>>

(* jsonLineStruct and newMap: info[text, path] is the queue of the lines where   *)
(* that text, key or value, was read under that path.                            *)
NoTokens == [tmpParent |-> "", pathArr |-> <<>>, lastWasRune |-> FALSE, noremove |-> <<>>, info |-> <<>>]

Without(f, x) == [y \in DOMAIN f \ {x} |-> f[y]]

(* delimSetup *)
Open(j) ==
  LET last == Len(j.pathArr)
  IN  IF ~j.lastWasRune THEN [j EXCEPT !.pathArr = Append(@, j.tmpParent), !.lastWasRune = TRUE]
      ELSE [j EXCEPT !.tmpParent = j.pathArr[last], !.lastWasRune = TRUE,
                     !.noremove = (last :> j.pathArr[last]) @@ @]
(* Faulty: every closing bracket shortens the path. *)
CloseAlways(j) ==
  IF Len(j.pathArr) <= 1 THEN [j EXCEPT !.lastWasRune = TRUE]
  ELSE [j EXCEPT !.pathArr = Front(@), !.lastWasRune = TRUE]

(* closeBrackets *)
Close(j) ==
  LET last == Len(j.pathArr)
      kept == last \in DOMAIN j.noremove /\ j.noremove[last] = j.pathArr[last]
  IN  IF last <= 1 THEN [j EXCEPT !.lastWasRune = TRUE]
      ELSE IF kept THEN [j EXCEPT !.noremove = Without(@, last), !.lastWasRune = TRUE]
      ELSE [j EXCEPT !.pathArr = Front(@), !.lastWasRune = TRUE]

ReadText(j, tok) ==
  LET at == <<tok.text, j.pathArr>>
      seen == IF at \in DOMAIN j.info THEN j.info[at] ELSE <<>>
  IN  [j EXCEPT !.tmpParent = tok.text, !.lastWasRune = FALSE,
                !.info = (at :> Append(seen, tok.line)) @@ @]

(* initializeJSONLine *)
LineInfo(t) ==
  FoldLeft(LAMBDA j, tok : CASE tok.kind = "open" -> Open(j)
                             [] tok.kind = "close" -> Close(j)
                             [] OTHER -> ReadText(j, tok),
           NoTokens, Tokens(t)).info

Known(info, text, father) == <<text, father>> \in DOMAIN info /\ info[<<text, father>>] # <<>>
Lead(info, text, father) == Head(info[<<text, father>>])
Pop(info, text, father) == [info EXCEPT ![<<text, father>>] = Tail(@)]

(* getMapDefaultLine: the smallest line of the last element that has one. *)
MapDefaultLine(info, elements, father, def) ==
  LET LinesOf(e) == IF e.kind # "obj" THEN {}
                    ELSE {Lead(info, e.items[i].key, father) : i \in
                            {k \in DOMAIN e.items : Known(info, e.items[k].key, father)}}
      with == {i \in DOMAIN elements : LinesOf(elements[i]) # {}}
      last == CHOOSE i \in with : \A k \in with : k <= i
  IN  IF with = {} THEN def
      ELSE CHOOSE l \in LinesOf(elements[last]) : \A m \in LinesOf(elements[last]) : l <= m

RECURSIVE SetLine(_, _, _, _, _), SetMembers(_, _, _, _, _), SetSeqLines(_, _, _, _, _)
(* setLine of an object: result [info, lines].  lines[key] is [line, arr, sub]:  *)
(* sub are the _kics_lines put into a value that is an object.                   *)
SetLine(info, obj, def, father, pop) ==
  SetMembers(info, obj.items, father, pop,
             "_kics__default" :> [line |-> def, arr |-> <<>>, sub |-> <<>>])
SetMembers(info, items, father, pop, lines) ==
  IF items = <<>> THEN [info |-> info, lines |-> lines]
  ELSE LET m == Head(items)
           line == Lead(info, m.key, father)
           rest == IF pop THEN Pop(info, m.key, father) ELSE info
           inner == CASE m.val.kind = "arr" -> SetSeqLines(rest, m.val.items, line, Append(father, m.key), <<>>)
                      [] m.val.kind = "obj" -> SetLine(rest, m.val, line, Append(father, m.key), pop)
                      [] OTHER -> [info |-> rest]
           own == [line |-> line,
                   arr |-> IF m.val.kind = "arr" THEN inner.lines ELSE <<>>,
                   sub |-> IF m.val.kind = "obj" THEN inner.lines ELSE <<>>]
       IN  IF ~Known(info, m.key, father) THEN SetMembers(info, Tail(items), father, pop, lines)
           ELSE SetMembers(inner.info, Tail(items), father, pop, m.key :> own @@ lines)
(* setSeqLines: an element that is neither an object nor a known text has no     *)
(* entry, and those after it move up.                                            *)
SetSeqLines(info, all, def, father, arr) ==
  LET Step(r, e) ==
        IF e.kind = "obj"
        THEN LET o == SetLine(r.info, e, MapDefaultLine(r.info, all, father, def), father, TRUE)
             IN  [info |-> o.info, lines |-> Append(r.lines, o.lines)]
        ELSE IF e.kind = "val" /\ Known(r.info, e.text, father)
        THEN [info |-> Pop(r.info, e.text, father),
              lines |-> Append(r.lines, "_kics__default" :>
                                 [line |-> Lead(r.info, e.text, father), arr |-> <<>>, sub |-> <<>>])]
        ELSE r
  IN  FoldLeft(Step, [info |-> info, lines |-> arr], all)

(* Parser.Parse: setLineInfo of a document that is an object.  A list of objects *)
(* is a list of documents without lines.                                         *)
ParseJson(t) ==
  IF t.kind = "obj" THEN <<SetLine(LineInfo(t), t, 0, <<"">>, FALSE).lines>>
  ELSE [i \in DOMAIN t.items |-> <<>>]

-----------------------------------------------------------------------------
(* A plan's module is [resources, children], a resource [type, name, attrs].     *)

Filled(resource, module) ==
  FoldLeft(LAMBDA r, x : [r EXCEPT ![x.type] = (x.name :> x.attrs) @@ @], resource, module.resources)
Types(module) == {module.resources[i].type : i \in DOMAIN module.resources}

(* Faulty: the resources of the modules read before are dropped. *)
OwnResourcesOnly(resource, module) == Filled([t \in Types(module) |-> <<>>], module)

(* readModule: the maps of the module's types are made before they are filled,   *)
(* for every module anew.                                                        *)
OwnResources(resource, module) == Filled([t \in Types(module) |-> <<>>] @@ resource, module)
RECURSIVE ReadModule(_, _)
ReadModule(resource, module) ==
  FoldLeft(ReadModule, OwnResources(resource, module), module.children)
ReadPlan(root) == ReadModule(<<>>, root)
=============================================================================
