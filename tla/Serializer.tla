----------------------------- MODULE Serializer -----------------------------
(***************************************************************************)
(* The serializer (syntax/serializer.go): the source of a tree.            *)
(***************************************************************************)
EXTENDS Integers, Sequences, SequencesExt

LOCAL NewLine == <<"\n">>
LOCAL Nil == << >>

Concat(parts) == FlattenSeq(parts)
Each(seq, Op(_)) == FlattenSeq([n \in DOMAIN seq |-> Op(seq[n])])

IndentOnce(content) ==                          \* fault: first continuation only
  LET ends == {n \in DOMAIN content : content[n] = "\n"} IN
  Concat([n \in DOMAIN content |->
    IF n \in ends /\ \A m \in ends : n <= m THEN <<"\n", " ", " ", " ", " ">>
    ELSE <<content[n]>>])
IndentExceptFirstLine(content) ==
  Each(content, LAMBDA c : IF c = "\n" THEN <<c, " ", " ", " ", " ">> ELSE <<c>>)

IncludesNewLine(element) ==
  element.t = "text" /\ \E n \in DOMAIN element.value : element.value[n] = "\n"
IsSelectExpr(element) == element.t = "placeable" /\ element.expr.t = "select"

(* A first line that starts like a variant or an attribute must stay inline.*)
ShouldStartOnNewLine(elements) ==
  /\ \E n \in DOMAIN elements : IncludesNewLine(elements[n]) \/ IsSelectExpr(elements[n])
  /\ elements[1].t = "text" => elements[1].value[1] \notin {"[", ".", "*"}

SerializeAccessor(attr) == IF attr = Nil THEN << >> ELSE <<".">> \o attr

CommaSeparated(parts) ==
  Concat([n \in DOMAIN parts |-> IF n = 1 THEN parts[n] ELSE <<",", " ">> \o parts[n]])

RECURSIVE SerializeExpression(_), SerializePattern(_)

SerializePlaceable(placeable) ==
  LET inner == SerializeExpression(placeable.expr) IN
  CASE placeable.expr.t = "placeable" -> <<"{">> \o inner \o <<"}">>
    [] placeable.expr.t = "select"    -> <<"{", " ">> \o inner \o <<"}">>
    [] OTHER                          -> <<"{", " ">> \o inner \o <<" ", "}">>

SerializeVariantKey(key) == key.value           \* a name or a number as written

SerializeVariant(variant, isDefault) ==
  NewLine \o (IF isDefault THEN <<" ", " ", " ", "*">> ELSE <<" ", " ", " ", " ">>)
    \o <<"[">> \o SerializeVariantKey(variant.key) \o <<"]">>
    \o IndentExceptFirstLine(SerializePattern(variant.value))

SerializeCallArguments(args) ==
  <<"(">>
    \o CommaSeparated(
         [n \in DOMAIN args.pos |-> SerializeExpression(args.pos[n])]
           \o [n \in DOMAIN args.named |->
                 args.named[n].name \o <<":", " ">> \o SerializeExpression(args.named[n].value)])
    \o <<")">>

SerializeExpression(expr) ==
  CASE expr.t = "str"       -> <<"\"">> \o expr.value \o <<"\"">>
    [] expr.t = "num"       -> expr.value
    [] expr.t = "variable"  -> <<"$">> \o expr.name
    [] expr.t = "message"   -> expr.name \o SerializeAccessor(expr.attr)
    [] expr.t = "term"      ->
         <<"-">> \o expr.name \o SerializeAccessor(expr.attr)
           \o (IF expr.args = Nil THEN << >> ELSE SerializeCallArguments(expr.args))
    [] expr.t = "function"  -> expr.name \o SerializeCallArguments(expr.args)
    [] expr.t = "select"    ->
         SerializeExpression(expr.sel) \o <<" ", "-", ">">>
           \o Concat([n \in DOMAIN expr.variants |->
                        SerializeVariant(expr.variants[n], n = expr.default)])
           \o NewLine
    [] expr.t = "placeable" -> SerializePlaceable(expr)

SerializeElement(element) ==
  IF element.t = "text" THEN element.value ELSE SerializePlaceable(element)

SerializePattern(pattern) ==
  (IF ShouldStartOnNewLine(pattern.elements) THEN <<"\n", " ", " ", " ", " ">> ELSE <<" ">>)
    \o IndentExceptFirstLine(Each(pattern.elements, SerializeElement))

SerializeAttribute(attr) ==
  <<"\n", " ", " ", " ", " ", ".">> \o attr.id \o <<" ", "=">>
    \o IndentExceptFirstLine(SerializePattern(attr.value))

(* Every line gets the prefix, and a space if there is anything in it. *)
SerializeComment(content, prefix) ==
  LET Start(n) == prefix \o
        (IF n \in DOMAIN content /\ content[n] # "\n" THEN <<" ">> ELSE << >>) IN
  Start(1)
    \o Concat([n \in DOMAIN content |->
                 IF content[n] = "\n" THEN NewLine \o Start(n + 1) ELSE <<content[n]>>])
    \o NewLine

Prefix(t) ==
  CASE t = "comment" -> <<"#">> [] t = "group" -> <<"#", "#">> [] t = "resource" -> <<"#", "#", "#">>

SerializeStandaloneComment(entry, hasEntries) ==
  (IF hasEntries THEN NewLine ELSE << >>)
    \o SerializeComment(entry.content, Prefix(entry.t)) \o NewLine

SerializeMessage(entry) ==
  (IF entry.comment = Nil THEN << >> ELSE SerializeComment(entry.comment.content, <<"#">>))
    \o (IF entry.t = "term" THEN <<"-">> ELSE << >>) \o entry.id \o <<" ", "=">>
    \o (IF entry.value = Nil THEN << >> ELSE SerializePattern(entry.value))
    \o Each(entry.attrs, SerializeAttribute)
    \o NewLine

SerializeEntry(entry, hasEntries) ==
  CASE entry.t \in {"message", "term"} -> SerializeMessage(entry)
    [] entry.t = "junk"                -> entry.content
    [] OTHER -> SerializeStandaloneComment(entry, hasEntries)

Kept(body, withJunk) == SelectSeq(body, LAMBDA entry : withJunk \/ entry.t # "junk")

Serialize(body, withJunk) ==
  LET kept == Kept(body, withJunk) IN
  Concat([n \in DOMAIN kept |-> SerializeEntry(kept[n], n > 1)])
=============================================================================
