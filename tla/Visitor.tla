------------------------------- MODULE Visitor -------------------------------
(***************************************************************************)
(* Walk and Transform (syntax/visitor.go).  A node is taken with its type, *)
(* since the tree does not tell a reference from what it refers to.  A     *)
(* visitor is the set of types it turns away: Walk does not descend into   *)
(* them, Transform removes them.  Spans are left out.                      *)
(***************************************************************************)
EXTENDS Integers, Sequences, SequencesExt

Nil == << >>

Node(type, n) == [type |-> type, node |-> n]

(***************************************************************************)
(* The slots of a node: the fields that hold its children, some of them a  *)
(* sequence of nodes, the others a node or nil, and the type of the node n *)
(* in one.                                                                 *)
(***************************************************************************)
Many == {"body", "attrs", "elements", "variants", "pos", "named", "annotations"}

EntryTypes ==
  [message |-> "Message", term |-> "Term", junk |-> "Junk", comment |-> "Comment",
   group |-> "GroupComment", resource |-> "ResourceComment"]
ElementTypes ==
  [text |-> "TextElement", placeable |-> "Placeable", str |-> "StringLiteral",
   num |-> "NumberLiteral", variable |-> "VariableReference", message |-> "MessageReference",
   term |-> "TermReference", function |-> "FunctionReference", select |-> "SelectExpression"]

HoldsElement(type, slot) ==
  \/ slot \in {"elements", "expr", "sel", "pos"}
  \/ type = "NamedArgument" /\ slot = "value"

TypeIn(type, slot, n) ==
  CASE slot = "body"                  -> EntryTypes[n.t]
    [] HoldsElement(type, slot)       -> ElementTypes[n.t]
    [] slot = "key"                   -> IF n.t = "num" THEN "NumberLiteral" ELSE "Identifier"
    [] slot \in {"id", "name", "attr"} -> "Identifier"
    [] slot = "value" /\ ~HoldsElement(type, slot) -> "Pattern"
    [] slot = "attrs"                 -> "Attribute"
    [] slot = "comment"               -> "Comment"
    [] slot = "args"                  -> "CallArguments"
    [] slot = "variants"              -> "Variant"
    [] slot = "named"                 -> "NamedArgument"
    [] slot = "annotations"           -> "Annotation"

(* children: the slots of each type, in order. *)
Slots(type) ==
  CASE type = "Resource"               -> <<"body">>
    [] type \in {"Message", "Term"}    -> <<"id", "value", "attrs", "comment">>
    [] type = "Pattern"                -> <<"elements">>
    [] type = "Placeable"              -> <<"expr">>
    [] type = "MessageReference"       -> <<"name", "attr">>
    [] type = "TermReference"          -> <<"name", "attr", "args">>
    [] type = "VariableReference"      -> <<"name">>
    [] type = "FunctionReference"      -> <<"name", "args">>
    [] type = "SelectExpression"       -> <<"sel", "variants">>
    [] type = "CallArguments"          -> <<"pos", "named">>
    [] type = "Attribute"              -> <<"id", "value">>
    [] type = "Variant"                -> <<"key", "value">>
    [] type = "NamedArgument"          -> <<"name", "value">>
    [] type = "Junk"                   -> <<"annotations">>
    [] OTHER                           -> << >>

(* transformChildren: the slots it rewrites. *)
ArgumentsForgotten(type) ==                     \* fault: a slot is left out
  IF type = "TermReference" THEN {"name", "attr"} ELSE Range(Slots(type))
Rewritten(type) ==
  CASE type = "Resource"               -> {"body"}
    [] type \in {"Message", "Term"}    -> {"id", "value", "attrs", "comment"}
    [] type = "Pattern"                -> {"elements"}
    [] type = "Placeable"              -> {"expr"}
    [] type = "MessageReference"       -> {"name", "attr"}
    [] type = "TermReference"          -> {"name", "attr", "args"}
    [] type = "VariableReference"      -> {"name"}
    [] type = "FunctionReference"      -> {"name", "args"}
    [] type = "SelectExpression"       -> {"sel", "variants"}
    [] type = "CallArguments"          -> {"pos", "named"}
    [] type = "Attribute"              -> {"id", "value"}
    [] type = "Variant"                -> {"key", "value"}
    [] type = "NamedArgument"          -> {"name", "value"}
    [] type = "Junk"                   -> {"annotations"}
    [] OTHER                           -> {}

(* What is in a slot, without nil, and with its type. *)
In(x, slot) ==
  LET value == x.node[slot] IN
  IF slot \in Many THEN value ELSE IF value = Nil THEN << >> ELSE <<value>>

Held(x, slot) ==
  [k \in DOMAIN In(x, slot) |-> Node(TypeIn(x.type, slot, In(x, slot)[k]), In(x, slot)[k])]

Children(x) == FlattenSeq([i \in DOMAIN Slots(x.type) |-> Held(x, Slots(x.type)[i])])

(***************************************************************************)
(* transformChildren fills the slots with the answers for what is in them, *)
(* without those that are nil.                                             *)
(***************************************************************************)
IfAny(n) == IF n = Nil THEN << >> ELSE <<n>>

(* transformSlice, transformNode *)
Filled(slot, answers) ==
  LET kept == FlattenSeq([k \in DOMAIN answers |-> IfAny(answers[k])])
  IN  IF slot \in Many THEN kept ELSE IF kept = << >> THEN Nil ELSE kept[1]

(* The default of a select expression is a mark on the variant in the      *)
(* code, and goes with it; the place the tree keeps of it is not moved.    *)
TransformChildren(x, answers) ==
  IF Rewritten(x.type) = {} THEN x.node
  ELSE [f \in DOMAIN x.node |->
          IF f \in Rewritten(x.type) THEN Filled(f, answers[f]) ELSE x.node[f]]

(***************************************************************************)
(* One call of Walk, which answers the types of the nodes visited in       *)
(* order, and of Transform, which answers the rewritten node or nil, from  *)
(* the answers of their calls for the children.                            *)
(***************************************************************************)
WalkNode(x, away, visited) ==
  IF x.type \in away THEN << >> ELSE <<x.type>> \o FlattenSeq(visited)

TransformNode(x, away, answers) ==
  IF x.type \in away THEN Nil ELSE TransformChildren(x, answers)

-----------------------------------------------------------------------------
(* What is relied on in the tree: a node has the slots of its type, some   *)
(* with sequences of nodes, and where nodes of several types can be, they  *)
(* say of which they are, in a field that is not a slot.                   *)
SaysType(type, slot) == slot \in {"body", "key"} \/ HoldsElement(type, slot)

Shaped(x) ==
  \A slot \in Range(Slots(x.type)) :
    /\ slot \in DOMAIN x.node
    /\ In(x, slot) \in Seq(Range(In(x, slot)))
    /\ Nil \notin Range(In(x, slot))
    /\ SaysType(x.type, slot) => \A n \in Range(In(x, slot)) : "t" \in DOMAIN n
=============================================================================
