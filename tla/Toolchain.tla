------------------------------ MODULE Toolchain ------------------------------
(***************************************************************************)
(* The two parsers and the serializer at work on one source: the syntax    *)
(* parser's entry loop over SyntaxGrammar, its tree serialized and parsed  *)
(* once more, and the runtime parser on the same source.                   *)
(***************************************************************************)
EXTENDS TwoParses, SyntaxGrammar, RuntimeParser, Serializer, Traversal

(* Parse what Serialize made of the tree. *)
Reparse ==
  /\ pc = "done"
  /\ \E withJunk \in BOOLEAN :
       Again(Serialize(body, withJunk), IF withJunk THEN "with junk" ELSE "without junk")

NextAll == NextTwice \/ Reparse

SpecAll == InitAll /\ [][NextAll]_varsAll

-----------------------------------------------------------------------------
Finished == pc = "done"

(* Two trees are the same up to where their entries are, and junk up to   *)
(* the blank lines behind it, which are its own in one layout but not in   *)
(* another.                                                                *)
Shape(entry) ==
  CASE entry.t = "junk" -> [t |-> "junk", content |-> TrimmedRight(entry.content, Blanks),
                            code |-> entry.annotations[1].code]
    [] entry.t \in {"message", "term"} ->
         [t |-> entry.t, id |-> entry.id, value |-> entry.value, attrs |-> entry.attrs,
          comment |-> IF entry.comment = None THEN None ELSE entry.comment.content]
    [] OTHER -> [t |-> entry.t, content |-> entry.content]

Shapes(entries) == [n \in DOMAIN entries |-> Shape(entries[n])]

(* A tree survives its serialization (ARCHITECTURE.md: the tree of the     *)
(* syntax parser round-trips): indentation, comments, the layout of        *)
(* select expressions and the junk, if it is kept, all come back.          *)
RoundTrip ==
  Finished /\ second \in {"with junk", "without junk"} =>
    Shapes(body) = Shapes(Kept(first, second = "with junk"))

(***************************************************************************)
(* The syntax tree as the runtime parser would build it.                   *)
(***************************************************************************)
RECURSIVE AsRuntime(_)

PatternAsRuntime(pattern) ==
  IF pattern = None THEN None
  ELSE [elements |-> [n \in DOMAIN pattern.elements |->
          IF pattern.elements[n].t = "text" THEN pattern.elements[n]
          ELSE [t |-> "placeable", expr |-> AsRuntime(pattern.elements[n].expr)]]]

ArgsAsRuntime(args) ==
  IF args = None THEN NoArguments
  ELSE [pos |-> [n \in DOMAIN args.pos |-> AsRuntime(args.pos[n])], named |-> args.named]

AsRuntime(expr) ==
  CASE expr.t = "placeable" -> AsRuntime(expr.expr)
    [] expr.t \in {"term", "function"} -> [expr EXCEPT !.args = ArgsAsRuntime(@)]
    [] expr.t = "select" ->
         [expr EXCEPT !.sel = AsRuntime(@),
                      !.variants = [n \in DOMAIN @ |->
                        [key |-> @[n].key, value |-> PatternAsRuntime(@[n].value)]]]
    [] OTHER -> expr

EntryAsRuntime(entry) ==
  [t |-> entry.t, id |-> entry.id, value |-> PatternAsRuntime(entry.value),
   attrs |-> [id \in {entry.attrs[n].id : n \in DOMAIN entry.attrs} |->
     LET last == Greatest({n \in DOMAIN entry.attrs : entry.attrs[n].id = id}) IN
     PatternAsRuntime(entry.attrs[last].value)]]

(* The runtime keeps adjacent texts apart. *)
RECURSIVE Merged(_)
MergedPattern(pattern) ==
  IF pattern = None THEN None
  ELSE [elements |-> FoldLeft(Joined, << >>,
          [n \in DOMAIN pattern.elements |->
             IF pattern.elements[n].t = "text" THEN pattern.elements[n]
             ELSE [t |-> "placeable", expr |-> Merged(pattern.elements[n].expr)]])]

MergedArgs(args) == [args EXCEPT !.pos = [n \in DOMAIN @ |-> Merged(@[n])]]

Merged(expr) ==
  CASE expr.t \in {"term", "function"} -> [expr EXCEPT !.args = MergedArgs(@)]
    [] expr.t = "select" ->
         [expr EXCEPT !.sel = Merged(@),
                      !.variants = [n \in DOMAIN @ |->
                        [key |-> @[n].key, value |-> MergedPattern(@[n].value)]]]
    [] OTHER -> expr

MergedEntry(entry) ==
  [entry EXCEPT !.value = MergedPattern(@),
                !.attrs = [id \in DOMAIN @ |-> MergedPattern(@[id])]]

Tree(entries) == [n \in DOMAIN entries |-> EntryAsRuntime(entries[n])]
Unbroken(resource) == [n \in DOMAIN resource |-> MergedEntry(resource[n])]

Same(tree, resource) ==
  IF \E n \in DOMAIN body : body[n].t = "junk"
    THEN Range(tree) \subseteq Range(resource)
    ELSE tree = resource

(* The two parsers agree (ARCHITECTURE.md: two parsers, on purpose): every *)
(* message and term in the tree is in the resource with the same patterns, *)
(* in the same order, and nothing else is unless there is junk.            *)
ParsersAgree ==
  Finished =>
    Same(Tree(SelectSeq(body, LAMBDA e : e.t \in {"message", "term"})),
         Unbroken(NewResource(source)))

(***************************************************************************)
(* Transform takes away exactly what Walk does not visit when it turns     *)
(* away the same type (visitor.go: the two name the children of every type *)
(* in two places).                                                         *)
(***************************************************************************)
TransformIsWalk ==
  Finished /\ second = "no" =>
    LET tree == Node("Resource", [body |-> body]) IN
    \A type \in Range(Walk(tree, {})) \ {"Resource"} :
      Walk(Node("Resource", Transform(tree, {type})), {}) = Walk(tree, {type})

(***************************************************************************)
(* How deep placeables are in one another.                                 *)
(***************************************************************************)
RECURSIVE Levels(_)
PatternLevels(pattern) ==
  IF pattern = None THEN 0
  ELSE Greatest({0} \cup {Levels(pattern.elements[n]) : n \in DOMAIN pattern.elements})

Levels(node) ==
  CASE node.t = "placeable" -> 1 + Levels(node.expr)
    [] node.t = "select" ->
         Greatest({PatternLevels(node.variants[n].value) : n \in DOMAIN node.variants})
    [] OTHER -> 0

(* Placeables do not nest deeper than the parsers' limit (CHANGELOG.md:    *)
(* both parsers bound the nesting depth of placeables).  They do: a select *)
(* expression's variants are parsed after the depth was counted down.      *)
NestingBounded ==
  \A n \in DOMAIN body : body[n].t \in {"message", "term"} =>
    PatternLevels(body[n].value) <= MaxDepth
=============================================================================
