---------------------------- MODULE FileResolver ----------------------------
(***************************************************************************)
(* pkg/resolver/file/file.go: the references of a JSON or YAML file are    *)
(* replaced by the files and sections they name before the file is parsed. *)
(*                                                                         *)
(* A file's content is a sequence of trees, one per document; a JSON file  *)
(* has one.  A tree is Leaf(text), Map(items) with keys and values in      *)
(* turn, or Seq_(items).  Decoding allocates it on a heap of arrays: a     *)
(* value is [kind, text, arr] and arr points to the array of its children. *)
(* Go maps and slices, and the Content of a yaml.Node, are shared by every *)
(* value that holds the same arr, and the walk changes them in place.      *)
(*                                                                         *)
(* Each operator below is a function of the code with the mutable state    *)
(* passed along: st = [heap, cache, resolved, deepest, reads, panic].  A   *)
(* JSON object is iterated in the order its items are listed: the          *)
(* instances list both orders.  append to a Content array always moves it  *)
(* (the arrays of the instances are full).                                 *)
(***************************************************************************)
EXTENDS Naturals, Sequences, TLC

CONSTANTS
  Content,       \* file -> sequence of trees
  Folder,        \* file -> folder
  BaseName,      \* file -> filepath.Base(path)
  IsYaml,        \* file -> extension .yml or .yaml
  OpenAPI,       \* files that match the three OpenAPI expressions
  Invalid,       \* files whose content does not decode
  Unreadable,    \* files that os.Stat finds and os.Open refuses
  Refs,          \* text -> [name, sec]: a text that names a file or a section
  Located,       \* <<folder, name>> -> file, for the files that exist
  LocateVars     \* <<folder, name>> -> file, under the folder vars/

Leaf(text) == [kind |-> "scalar", text |-> text, items |-> <<>>]
Map(items) == [kind |-> "map", text |-> "", items |-> items]
Seq_(items) == [kind |-> "seq", text |-> "", items |-> items]
Cyclic == [kind |-> "cyclic", text |-> "", items |-> <<>>]

NoSection == <<"no section">>       \* no '#' in the reference
Hash == <<"empty">>                 \* '#' with nothing after it
Same == "same file"                 \* the name of a reference that starts with '#'

RefKeys == {"$ref"}                 \* keys that contain "$ref"
VarsKeys == {"include_vars"}        \* keys that contain "include_vars"

Start == [heap |-> <<>>, cache |-> <<>>, resolved |-> <<>>, deepest |-> 0, reads |-> 0,
          panic |-> FALSE]

Scalar(text) == [kind |-> "scalar", text |-> text, arr |-> 0]
Items(st, v) == IF v.arr = 0 THEN <<>> ELSE st.heap[v.arr]
Allocate(st, items) == [st EXCEPT !.heap = Append(@, items)]
NewMap(st, items) == [st |-> Allocate(st, items),
                      val |-> [kind |-> "map", text |-> "", arr |-> Len(st.heap) + 1]]
Panic(st) == [st EXCEPT !.panic = TRUE]

(* unmarshler: a tree becomes values on the heap. *)
RECURSIVE Decode(_, _), DecodeItems(_, _, _)
Decode(st, t) ==
  IF t.kind = "scalar" THEN [st |-> st, val |-> Scalar(t.text)]
  ELSE LET r == DecodeItems(st, t.items, <<>>)
       IN  [st |-> Allocate(r.st, r.vals),
            val |-> [kind |-> t.kind, text |-> "", arr |-> Len(r.st.heap) + 1]]
DecodeItems(st, items, vals) ==
  IF items = <<>> THEN [st |-> st, vals |-> vals]
  ELSE LET r == Decode(st, Head(items)) IN DecodeItems(r.st, Tail(items), Append(vals, r.val))

(* marshler: the tree below a value; a value inside itself cannot be written. *)
RECURSIVE Encode(_, _, _)
Encode(st, v, above) ==
  IF v.kind \in {"scalar", "none"} THEN Leaf(v.text)
  ELSE IF v.arr \in above THEN Cyclic
  ELSE LET items == [i \in DOMAIN Items(st, v) |-> Encode(st, Items(st, v)[i], above \union {v.arr})]
       IN  IF \E i \in DOMAIN items : items[i] = Cyclic THEN Cyclic
           ELSE [kind |-> v.kind, text |-> "", items |-> items]

Key(st, v, i) == Items(st, v)[2 * i - 1].text
Value(st, v, i) == Items(st, v)[2 * i]
Pairs(st, v) == 1 .. (Len(Items(st, v)) \div 2)

(* valMap["RefMetadata"] = {"$ref": v, "alone": len(value) == 1}: it replaces   *)
(* an entry of that name in whatever map valMap is.                             *)
SetRefMetadata(st, valMap, ref, alone) ==
  LET meta == NewMap(st, <<Scalar("$ref"), ref, Scalar("alone"), Scalar(ToString(alone))>>)
      old == {i \in Pairs(st, valMap) : Key(st, valMap, i) = "RefMetadata"}
  IN  [meta.st EXCEPT !.heap[valMap.arr] =
         IF old = {} THEN @ \o <<Scalar("RefMetadata"), meta.val>>
         ELSE [@ EXCEPT ![2 * CHOOSE i \in old : TRUE] = meta.val]]

(* findSection: keys of maps, one after the other. *)
RECURSIVE FindSection(_, _, _)
FindSection(st, v, sections) ==
  IF sections = <<>> THEN [found |-> TRUE, val |-> v]
  ELSE LET at == {i \in Pairs(st, v) : v.kind = "map" /\ Key(st, v, i) = Head(sections)}
       IN  IF at = {} THEN [found |-> FALSE, val |-> v]
           ELSE FindSection(st, Value(st, v, CHOOSE i \in at : TRUE), Tail(sections))

(* findSectionYaml: the node after the first node with that text, key or value. *)
(* A match in the last place has no next node: an index out of range.           *)
RECURSIVE FindSectionYaml(_, _, _)
FindSectionYaml(st, v, sections) ==
  IF sections = <<>> THEN [found |-> TRUE, val |-> v, panic |-> FALSE]
  ELSE LET items == Items(st, v)
           at == {i \in DOMAIN items : items[i].text = Head(sections)}
           first == CHOOSE i \in at : \A j \in at : i <= j
       IN  IF at = {} THEN [found |-> FALSE, val |-> v, panic |-> FALSE]
           ELSE IF first = Len(items) THEN [found |-> FALSE, val |-> v, panic |-> TRUE]
           ELSE FindSectionYaml(st, items[first + 1], Tail(sections))

(* checkIfCircular looks down to maxResolverDepth for "$ref": circularValue. *)
RECURSIVE CheckIfCircular(_, _, _, _)
CheckIfCircular(st, circular, v, depth) ==
  /\ depth > 0 /\ v.kind # "scalar"
  /\ IF v.kind = "map"
     THEN \E i \in Pairs(st, v) :
            \/ Key(st, v, i) = "$ref" /\ Value(st, v, i).text = circular
            \/ CheckIfCircular(st, circular, Value(st, v, i), depth - 1)
     ELSE \E i \in DOMAIN Items(st, v) : CheckIfCircular(st, circular, Items(st, v)[i], depth - 1)

(* checkIfCircularYaml has no bound. *)
RECURSIVE CheckIfCircularYaml(_, _, _)
CheckIfCircularYaml(st, circular, v) ==
  LET items == Items(st, v)
  IN  \/ \E i \in 1 .. (Len(items) - 1) :
           items[i].text = "$ref" /\ items[i + 1].text = circular
      \/ \E i \in DOMAIN items : CheckIfCircularYaml(st, circular, items[i])

OwnSectionElsewhere(ref, refBool) == ref.name = Same /\ (~refBool \/ ref.sec = Hash)
(* Faulty: a file is still entered at the limit. *)
NotResolvedLate(text, depth, max, refBool) ==
  depth > max \/ text \notin DOMAIN Refs \/ OwnSectionElsewhere(Refs[text], refBool)

(* The first guard of resolvePath and resolveYamlPath. *)
NotResolved(text, depth, max, refBool) ==
  depth >= max \/ text \notin DOMAIN Refs \/ OwnSectionElsewhere(Refs[text], refBool)

Record(st, key, file) == [st EXCEPT !.resolved = (key :> file) @@ @]

Unresolved(st, v) == [st |-> st, val |-> v, ok |-> FALSE]
Resolved(r) == [st |-> r.st, val |-> r.val, ok |-> TRUE]

(* resolvePathReturnValue: the section, copied one level deep when it is a map. *)
TakeSection(st, text, section, max) ==
  IF ~section.found \/ CheckIfCircular(st, text, section.val, max) THEN Unresolved(st, Scalar(text))
  ELSE Resolved(IF section.val.kind = "map" THEN NewMap(st, Items(st, section.val))
                ELSE [st |-> st, val |-> section.val])
ReturnSection(st, text, sec, obj, max) ==
  IF sec = Hash THEN Unresolved(Panic(st), Scalar(text))
  ELSE TakeSection(st, text, FindSection(st, obj, sec), max)

TakeSectionYaml(st, v, section) ==
  IF section.panic THEN Unresolved(Panic(st), v)
  ELSE IF section.found /\ ~CheckIfCircularYaml(st, v.text, section.val)
       THEN [st |-> st, val |-> section.val, ok |-> TRUE]
  ELSE Unresolved(st, v)
ReturnSectionYaml(st, v, sec, doc) == TakeSectionYaml(st, v, FindSectionYaml(st, Items(st, doc)[1], sec))

(* filepath.Join and os.Stat of a JSON reference *)
At(files, place) == IF place \in DOMAIN files THEN {files[place]} ELSE {}
FilePath(folder, ref) == At(Located, <<folder, ref.name>>)
(* findFilePath, findAnsibleVarsPath: the path of a YAML reference is tested with *)
(* its '#section', which no file is called.                                       *)
FindFilePath(folder, ref, ansibleVars) ==
  LET inVars == IF ansibleVars THEN At(LocateVars, <<folder, ref.name>>) ELSE {}
  IN  IF ref.sec # NoSection THEN {} ELSE IF inVars # {} THEN inVars ELSE FilePath(folder, ref)
SameExtension(yaml, files) == {f \in files : IsYaml[f] = yaml}

RECURSIVE Resolve(_, _, _, _), Walk(_, _, _, _, _), WalkItems(_, _, _, _, _, _),
          HandleMap(_, _, _, _, _),
          YamlWalk(_, _, _, _, _, _), YamlItems(_, _, _, _, _)

(* c = [path, depth, max, refs, yaml]: the arguments that a walk never changes. *)

(* Faulty: what is cached is the file as it was read. *)
ResolveFileUnresolved(c, st, f) ==
  LET r == Resolve(st, f, Content[f], [c EXCEPT !.path = f, !.depth = @ + 1])
      obj == Decode(r.st, Content[f][1])
  IN  IF f \in Unreadable \/ f \in Invalid THEN [st |-> st, failed |-> TRUE]
      ELSE [st |-> [obj.st EXCEPT !.cache = (f :> obj.val) @@ @], failed |-> FALSE]

(* resolveFile: st.cache[f] is set when the nested Resolve has returned. *)
Cached(obj, f) == [st |-> [obj.st EXCEPT !.cache = (f :> obj.val) @@ @], failed |-> FALSE]
DecodeFile(c, r, f) ==
  IF f \in Invalid \/ (r.out = <<>> /\ ~c.yaml) THEN [st |-> r.st, failed |-> TRUE]
  ELSE Cached(IF r.out = <<>> THEN [st |-> r.st, val |-> [kind |-> "none", text |-> "", arr |-> 0]]
              ELSE Decode(r.st, r.out[1]), f)
ResolveFile(c, st, f) ==
  IF f \in Unreadable THEN [st |-> st, failed |-> TRUE]
  ELSE DecodeFile(c, Resolve(st, f, Content[f], [c EXCEPT !.path = f, !.depth = @ + 1]), f)

ReadOnce(c, st, f) == IF f \in DOMAIN st.cache THEN [st |-> st, failed |-> FALSE] ELSE ResolveFile(c, st, f)

(* resolvePath: a whole file is put in place, but counts as not resolved. *)
FileOrSection(c, known, v, ref, value) ==
  IF ref.sec = NoSection THEN Unresolved(known, value) ELSE ReturnSection(known, v.text, ref.sec, value, c.max)
TakeFile(c, v, ref, f, read) ==
  IF read.failed \/ read.st.panic THEN Unresolved(read.st, v)
  ELSE FileOrSection(c, Record(read.st, ref.name, f), v, ref, read.st.cache[f])
ReadReference(c, st, v, ref, files) ==
  IF files = {} THEN Unresolved(st, v)
  ELSE LET f == CHOOSE g \in files : TRUE IN TakeFile(c, v, ref, f, ReadOnce(c, st, f))
ResolveReference(c, st, root, v, ref) ==
  IF ref.name = Same THEN ReturnSection(Record(st, c.path, c.path), v.text, ref.sec, root, c.max)
  ELSE ReadReference(c, st, v, ref, SameExtension(FALSE, FilePath(Folder[c.path], ref)))
ResolvePath(c, st, root, v, refBool) ==
  IF NotResolved(v.text, c.depth, c.max, refBool) THEN Unresolved(st, v)
  ELSE ResolveReference(c, st, root, v, Refs[v.text])

(* resolveYamlPath *)
TakeYamlFile(v, ref, f, read) ==
  IF read.failed \/ read.st.panic THEN Unresolved(read.st, v)
  ELSE [st |-> Record(read.st, ref.name, f), val |-> read.st.cache[f], ok |-> TRUE]
ReadYamlReference(c, st, v, ref, files) ==
  IF files = {} THEN Unresolved(st, v)
  ELSE LET f == CHOOSE g \in files : TRUE IN TakeYamlFile(v, ref, f, ReadOnce(c, st, f))
ResolveYamlReference(c, st, root, v, ref, vars) ==
  IF ref.name = Same THEN ReturnSectionYaml(Record(st, c.path, c.path), v, ref.sec, root)
  ELSE ReadYamlReference(c, st, v, ref, SameExtension(TRUE, FindFilePath(Folder[c.path], ref, vars)))
ResolveYamlPath(c, st, root, v, refBool, vars) ==
  IF NotResolved(v.text, c.depth, c.max, refBool) THEN Unresolved(st, v)
  ELSE ResolveYamlReference(c, st, root, v, Refs[v.text], vars)

(* walk of a JSON value *)
Walk(c, st, root, v, refBool) ==
  IF v.kind = "scalar" /\ v.text # BaseName[c.path]
  THEN ResolvePath(c, st, root, v, refBool)
  ELSE IF v.kind = "seq" THEN WalkItems(c, st, root, v, refBool, 1)
  ELSE IF v.kind = "map" THEN HandleMap(c, st, root, v, 1)
  ELSE [st |-> st, val |-> v, ok |-> FALSE]

WalkItems(c, st, root, v, refBool, i) ==
  IF i > Len(Items(st, v)) \/ st.panic THEN [st |-> st, val |-> v, ok |-> FALSE]
  ELSE LET r == Walk(c, st, root, Items(st, v)[i], refBool)
       IN  WalkItems(c, [r.st EXCEPT !.heap[v.arr][i] = r.val], root, v, refBool, i + 1)

(* handleMap returns at the first "$ref": what replaces it stands for the whole *)
(* map, with RefMetadata when it is a map or the reference was not resolved.    *)
HandleMap(c, st, root, v, i) ==
  IF i \notin Pairs(st, v) \/ st.panic THEN [st |-> st, val |-> v, ok |-> FALSE]
  ELSE LET isRef == Key(st, v, i) \in RefKeys
           ref == Value(st, v, i)
           r == Walk(c, st, root, ref, isRef)
           isMap == r.val.kind = "map"
           valMap == IF isMap THEN [st |-> r.st, val |-> r.val] ELSE NewMap(r.st, <<>>)
           alone == Len(Items(st, v)) = 2
       IN  IF r.st.panic THEN r
           ELSE IF isRef /\ (isMap \/ ~r.ok)
                THEN [st |-> SetRefMetadata(valMap.st, valMap.val, ref, alone),
                      val |-> valMap.val, ok |-> FALSE]
           ELSE IF isRef THEN [r EXCEPT !.ok = FALSE]
           ELSE HandleMap(c, [r.st EXCEPT !.heap[v.arr][2 * i] = r.val], root, v, i + 1)

(* yamlWalk: every node, keys included; the node before it says what it is. *)
YamlWalk(c, st, root, v, refBool, vars) ==
  IF v.kind = "scalar"
  THEN IF v.text # BaseName[c.path]
       THEN ResolveYamlPath(c, st, root, v, refBool, vars)
       ELSE [st |-> st, val |-> v, ok |-> FALSE]
  ELSE YamlItems(c, st, root, v, 1)

YamlItems(c, st, root, v, i) ==
  IF i > Len(Items(st, v)) \/ st.panic THEN [st |-> st, val |-> v, ok |-> FALSE]
  ELSE LET items == Items(st, v)
           refBool == i > 1 /\ items[i - 1].text \in RefKeys
           vars == i > 1 /\ items[i - 1].text \in VarsKeys
           r == YamlWalk(c, st, root, items[i], refBool, vars)
           body == IF r.ok THEN Items(r.st, r.val) ELSE <<>>
           meta == NewMap(r.st, <<Scalar("$ref"), items[i], Scalar("alone"), Scalar(ToString(Len(items) = 2))>>)
           resolved == NewMap(meta.st, body \o <<Scalar("RefMetadata"), meta.val>>)
       IN  IF r.st.panic THEN r
           ELSE IF refBool /\ (r.val.kind = "map" \/ ~r.ok)
                THEN [st |-> resolved.st, val |-> resolved.val, ok |-> FALSE]
           ELSE YamlItems(c, [r.st EXCEPT !.heap[v.arr][i] = r.val], root, v, i + 1)

(* yamlResolve: the walk starts at the document's node. *)
YamlResolve(c, obj) ==
  LET doc == [st |-> Allocate(obj.st, <<obj.val>>),
              val |-> [kind |-> "doc", text |-> "", arr |-> Len(obj.st.heap) + 1]]
      r == YamlWalk(c, doc.st, doc.val, doc.val, FALSE, FALSE)
  IN  [st |-> r.st, val |-> IF r.val.kind = "doc" THEN Items(r.st, r.val)[1] ELSE r.val]

(* Resolve: what cannot be decoded or written stays as it is; after a panic the  *)
(* function returns nil, <<>> here.  yaml.Unmarshal reads the first document     *)
(* only.                                                                         *)
Written(r, content) ==
  LET out == Encode(r.st, r.val, {})
  IN  IF r.st.panic THEN [st |-> [r.st EXCEPT !.panic = FALSE], out |-> <<>>]
      ELSE [st |-> r.st, out |-> IF out = Cyclic THEN content ELSE <<out>>]
WalkObject(c, f, obj) == IF IsYaml[f] THEN YamlResolve(c, obj) ELSE Walk(c, obj.st, obj.val, obj.val, FALSE)
ResolveContent(seen, f, content, c) ==
  IF (~c.refs /\ f \in OpenAPI) \/ f \in Invalid THEN [st |-> seen, out |-> content]
  ELSE Written(WalkObject(c, f, Decode(seen, content[1])), content)
Resolve(st, f, content, c) ==
  ResolveContent([st EXCEPT !.reads = @ + 1, !.deepest = IF c.depth > @ THEN c.depth ELSE @], f, content, c)

(* Parser.Resolve of the JSON and the YAML parser: a file without resolved      *)
(* references keeps its own content.                                            *)
ParserResolve(f, max, refs) ==
  LET r == Resolve(Start, f, Content[f],
                   [path |-> f, depth |-> 0, max |-> max, refs |-> refs, yaml |-> IsYaml[f]])
  IN  IF r.st.resolved = <<>> THEN [r EXCEPT !.out = Content[f]] ELSE r
=============================================================================
