---------------------------- MODULE SyntaxGrammar ----------------------------
(***************************************************************************)
(* The recursive descent of the syntax parser (syntax/parser.go) below the *)
(* entry loop.  A get operator takes the source and the position of the    *)
(* cursor, and answers where the cursor ends with the node it made or the  *)
(* code of the error.  d is ps.depth: deferred decrements make it depend   *)
(* on the open calls only.  The peek cursor is always at the cursor or in  *)
(* the blank after it when a get operator is entered, so it needs no state.*)
(***************************************************************************)
EXTENDS Stream, SequencesExt

RECURSIVE CommentLines(_, _, _, _), StringEnd(_, _), GetElements(_, _, _, _, _),
          GetPlaceable(_, _, _), GetExpression(_, _, _), GetInlineExpression(_, _, _),
          GetVariants(_, _, _, _, _), GetArguments(_, _, _, _, _), GetAttributes(_, _, _),
          GetEntry(_, _)

ExpectChar(s, i, ch) == IF Char(s, i) = ch THEN Ok(After(s, i), ch) ELSE Err(i, "E0003")
ExpectLineEnd(s, i)  == IF IsLineEnd(s, i) THEN Ok(LineEnd(s, i), eol) ELSE Err(i, "E0003")

(***************************************************************************)
(* Comments                                                                *)
(***************************************************************************)
Hashes(s, i, most) == Least({Past(s, i, {"#"}) - i, most})

CommentLines(s, i, level, content) ==
  LET text == i + Hashes(s, i, level + 1)
      end  == UpTo(s, text, {eol})
      all  == content \o SubSeq(s, text + 1, end - 1) IN
  IF Char(s, text) # eol /\ Char(s, text) # " " THEN Err(text, "E0003")
  ELSE IF IsNextLineComment(s, end, level)
    THEN CommentLines(s, After(s, end), level, Append(all, eol))
    ELSE Ok(end, all)

GetComment(s, i) ==
  LET level == Hashes(s, i, 3) - 1 IN
  Then(CommentLines(s, i, level, << >>), LAMBDA c :
    Ok(c.at, [t |-> <<"comment", "group", "resource">>[level + 1], content |-> c.val,
              from |-> i, to |-> c.at]))

(***************************************************************************)
(* Identifiers and literals                                                *)
(***************************************************************************)
GetIdentifier(s, i) ==
  LET end == Past(s, i, IDChars) IN
  IF Char(s, i) \in Letters THEN Ok(end, SubSeq(s, i, end - 1)) ELSE Err(i, "E0004")

GetDigits(s, i) ==
  LET end == Past(s, i, Digit) IN IF end > i THEN Ok(end, << >>) ELSE Err(i, "E0004")

GetNumber(s, i) ==
  LET Number(end) == Ok(end, [t |-> "num", value |-> SubSeq(s, i, end - 1)]) IN
  Then(GetDigits(s, IF Char(s, i) = "-" THEN i + 1 ELSE i), LAMBDA whole :
    IF Char(s, whole.at) # "." THEN Number(whole.at)
    ELSE Then(GetDigits(s, whole.at + 1), LAMBDA fraction : Number(fraction.at)))

HexDigit == Digit \cup {"a", "b", "c", "d", "e", "f", "A", "B", "C", "D", "E", "F"}

(* From behind the backslash. *)
GetEscapeSequence(s, i) ==
  LET Unicode(digits) ==
        IF \A n \in 1..digits : Unit(s, i + n) \in HexDigit THEN Ok(i + digits + 1, << >>)
        ELSE Err(Past(s, i + 1, HexDigit), "E0026")
  IN  CASE Char(s, i) \in {"\\", "\""} -> Ok(i + 1, << >>)
        [] Char(s, i) = "u"            -> Unicode(4)
        [] Char(s, i) = "U"            -> Unicode(6)
        [] OTHER                       -> Err(i, "E0025")

StringEnd(s, i) ==
  LET end == UpTo(s, i, {"\"", "\\", eol}) IN
  CASE Char(s, end) = "\\" ->
         Then(GetEscapeSequence(s, end + 1), LAMBDA escape : StringEnd(s, escape.at))
    [] Char(s, end) = eol -> Err(end, "E0020")
    [] OTHER -> ExpectChar(s, end, "\"")

GetString(s, i) ==
  Then(StringEnd(s, i + 1), LAMBDA end :
    Ok(end.at, [t |-> "str", value |-> SubSeq(s, i + 1, end.at - 2)]))

GetLiteral(s, i) ==
  CASE IsNumberStart(s, i)  -> GetNumber(s, i)
    [] Char(s, i) = "\""    -> GetString(s, i)
    [] OTHER                -> Err(i, "E0014")

GetVariantKey(s, i) ==
  CASE Char(s, i) = eof                  -> Err(i, "E0013")
    [] Char(s, i) \in Digit \cup {"-"}   -> GetNumber(s, i)
    [] OTHER -> Then(GetIdentifier(s, i), LAMBDA id :
                  Ok(id.at, [t |-> "str", value |-> id.val]))

(***************************************************************************)
(* Dedentation: elements are texts, indents (the line ends and the spaces  *)
(* before a line) and placeables.                                          *)
(***************************************************************************)
Text(value) == [t |-> "text", value |-> value]
Indent(lines, spaces) ==
  [t |-> "indent",
   value |-> [n \in 1..lines |-> eol] \o [n \in 1..spaces |-> " "]]

Dedented(element, common) ==
  CASE element.t # "indent" -> element
    [] OTHER -> Text(SubSeq(element.value, 1, Len(element.value) - common))

(* Adjacent texts become one. *)
Joined(elements, element) ==
  IF elements # << >> /\ Last(elements).t = "text" /\ element.t = "text"
    THEN Append(Front(elements), Text(Last(elements).value \o element.value))
    ELSE Append(elements, element)

TrimmedRight(value, C) ==
  SubSeq(value, 1, Greatest({0} \cup {n \in DOMAIN value : value[n] \notin C}))

TrimmedText(elements, C) ==
  IF elements = << >> \/ Last(elements).t # "text" THEN elements
  ELSE LET value == TrimmedRight(Last(elements).value, C) IN
       Front(elements) \o (IF value = << >> THEN << >> ELSE <<Text(value)>>)

Dedent(elements, common) ==
  LET lines == SelectSeq([n \in DOMAIN elements |-> Dedented(elements[n], common)],
                         LAMBDA e : e.t # "text" \/ e.value # << >>)
  IN  TrimmedText(FoldLeft(Joined, << >>, lines), {" ", "\n", "\r"})

-----------------------------------------------------------------------------
(***************************************************************************)
(* Patterns                                                                *)
(***************************************************************************)
GetElements(s, i, elements, common, d) ==
  LET Done == Ok(i, [elements |-> Dedent(elements, common)]) IN
  CASE Char(s, i) = eof -> Done
    [] Char(s, i) = eol ->
         LET line  == BlankBlock(s, i)
             first == BlankInline(s, line) IN
         IF ~IsValueContinuation(s, line) THEN Done
         ELSE GetElements(s, first,
                Append(elements, Indent(Cardinality(BlankLines(s, i)), first - line)),
                Least({common, first - line}), d)
    [] Char(s, i) = "{" -> Then(GetPlaceable(s, i, d), LAMBDA p :
                             GetElements(s, p.at, Append(elements, p.val), common, d))
    [] Char(s, i) = "}" -> Err(i, "E0027")
    [] OTHER ->
         LET end == UpTo(s, i, {"{", "}", eol}) IN
         GetElements(s, end, Append(elements, Text(SubSeq(s, i, end - 1))), common, d)

GetPattern(s, i, isBlock, d) ==
  LET first == BlankInline(s, i) IN
  IF isBlock THEN GetElements(s, first, <<Indent(0, first - i)>>, first - i, d)
  ELSE GetElements(s, i, << >>, Len(s), d)

(* A pattern starts on the same line, or on a later one that continues it. *)
MaybeGetPattern(s, i, d) ==
  LET inline == BlankInline(s, i)
      block  == BlankBlock(s, inline) IN
  CASE ~IsLineEnd(s, inline)          -> GetPattern(s, inline, FALSE, d)
    [] IsValueContinuation(s, block)  -> GetPattern(s, block, TRUE, d)
    [] OTHER                          -> Ok(i, None)

GetPatternOr(s, i, code, d) ==
  Then(MaybeGetPattern(s, i, d), LAMBDA p : IF p.val = None THEN Err(p.at, code) ELSE p)

(***************************************************************************)
(* Placeables and expressions                                              *)
(***************************************************************************)
GetPlaceable(s, i, d) ==
  Then(GetExpression(s, Blank(s, i + 1), d), LAMBDA e :
  Then(ExpectChar(s, e.at, "}"), LAMBDA close :
    Ok(close.at, [t |-> "placeable", expr |-> e.val])))

SelectorError(sel) ==
  CASE sel.t = "message"                 -> IF sel.attr = None THEN "E0016" ELSE "E0018"
    [] sel.t = "term" /\ sel.attr = None -> "E0017"
    [] sel.t = "placeable"               -> "E0029"
    [] OTHER                             -> ""

GetExpression(s, i, d) ==
  Then(GetInlineExpression(s, i, d), LAMBDA sel :
    LET next == Blank(s, sel.at) IN
    CASE Char(s, next) = "-" /\ Unit(s, next + 1) # ">" -> Ok(next, sel.val)
      [] Char(s, next) = "-" /\ Unit(s, next + 1) = ">" ->
           IF SelectorError(sel.val) # "" THEN Err(next, SelectorError(sel.val))
           ELSE Then(ExpectLineEnd(s, BlankInline(s, next + 2)), LAMBDA line :
                Then(GetVariants(s, Blank(s, line.at), << >>, 0, d), LAMBDA v :
                  Ok(v.at, [t |-> "select", sel |-> sel.val,
                            variants |-> v.val.variants, default |-> v.val.default])))
      [] Char(s, next) # "-" ->
           IF sel.val.t = "term" /\ sel.val.attr # None THEN Err(next, "E0019")
           ELSE Ok(next, sel.val))

(* default is the place of the starred variant, 0 while there is none. *)
GetVariant(s, i, default, d) ==
  LET open == IF Char(s, i) = "*" THEN i + 1 ELSE i IN
  IF open > i /\ default > 0 THEN Err(i, "E0015")
  ELSE Then(GetVariantKey(s, Blank(s, open + 1)), LAMBDA key :
       Then(ExpectChar(s, Blank(s, key.at), "]"), LAMBDA close :
       Then(GetPatternOr(s, close.at, "E0012", d), LAMBDA p :
       Then(ExpectLineEnd(s, p.at), LAMBDA line :
         Ok(line.at, [key |-> key.val, value |-> p.val])))))

GetVariants(s, i, variants, default, d) ==
  IF IsVariantStart(s, i)
    THEN Then(GetVariant(s, i, default, d), LAMBDA v :
           GetVariants(s, Blank(s, v.at), Append(variants, v.val),
             IF Char(s, i) = "*" THEN Len(variants) + 1 ELSE default, d))
  ELSE CASE variants = << >> -> Err(i, "E0011")
         [] variants # << >> /\ default = 0 -> Err(i, "E0010")
         [] OTHER -> Ok(i, [variants |-> variants, default |-> default])

(* The .attribute of a reference, if it has one. *)
GetAccessor(s, i) ==
  IF Char(s, i) = "." THEN GetIdentifier(s, i + 1) ELSE Ok(i, None)

NoArgs == [pos |-> << >>, named |-> << >>]

GetCallArguments(s, i, d) ==
  Then(GetArguments(s, Blank(s, i + 1), << >>, << >>, d), LAMBDA args :
  Then(ExpectChar(s, args.at, ")"), LAMBDA close : Ok(close.at, args.val)))

FunctionName(id) == id[1] \in Upper /\ Range(id) \cap Lower = {}

GetReference(s, i, d) ==
  Then(GetIdentifier(s, i), LAMBDA id :
    LET open == Blank(s, id.at) IN
    CASE Char(s, open) = "(" /\ ~FunctionName(id.val) -> Err(id.at, "E0008")
      [] Char(s, open) = "(" /\ FunctionName(id.val) ->
           Then(GetCallArguments(s, open, d), LAMBDA args :
             Ok(args.at, [t |-> "function", name |-> id.val, args |-> args.val]))
      [] OTHER ->
           Then(GetAccessor(s, id.at), LAMBDA attr :
             Ok(attr.at, [t |-> "message", name |-> id.val, attr |-> attr.val])))

GetTermReference(s, i, d) ==
  Then(GetIdentifier(s, i + 1), LAMBDA id :
  Then(GetAccessor(s, id.at), LAMBDA attr :
    LET open == Blank(s, attr.at)
        Term(end, args) ==
          Ok(end, [t |-> "term", name |-> id.val, attr |-> attr.val, args |-> args]) IN
    IF Char(s, open) # "(" THEN Term(attr.at, None)
    ELSE Then(GetCallArguments(s, open, d), LAMBDA args : Term(args.at, args.val))))

TooDeep(d) == d > MaxDepth

GetInlineExpression(s, i, depth) ==
  LET d == depth + 1 IN
  CASE TooDeep(d)            -> Err(i, "E0028")
    [] OTHER ->
  CASE Char(s, i) = "{"      -> GetPlaceable(s, i, d)
    [] IsNumberStart(s, i)   -> GetNumber(s, i)
    [] Char(s, i) = "\""     -> GetString(s, i)
    [] Char(s, i) = "$"      -> Then(GetIdentifier(s, i + 1), LAMBDA id :
                                  Ok(id.at, [t |-> "variable", name |-> id.val]))
    [] Char(s, i) = "-" /\ ~IsNumberStart(s, i) -> GetTermReference(s, i, d)
    [] Char(s, i) \in Letters -> GetReference(s, i, d)
    [] OTHER                 -> Err(i, "E0028")

(* One argument: an expression, or a literal with a name. *)
GetCallArgument(s, i, d) ==
  Then(GetInlineExpression(s, i, d), LAMBDA e :
    LET next == Blank(s, e.at)
        plain == e.val.t = "message" /\ e.val.attr = None IN
    CASE Char(s, next) # ":" -> Ok(next, [name |-> None, value |-> e.val])
      [] Char(s, next) = ":" /\ ~plain -> Err(next, "E0009")
      [] Char(s, next) = ":" /\ plain ->
           Then(GetLiteral(s, Blank(s, next + 1)), LAMBDA literal :
             Ok(literal.at, [name |-> e.val.name, value |-> literal.val])))

GetArguments(s, i, pos, named, d) ==
  LET Done(end) == Ok(end, [pos |-> pos, named |-> named]) IN
  IF Char(s, i) = ")" THEN Done(i)
  ELSE Then(GetCallArgument(s, i, d), LAMBDA arg :
    LET next  == Blank(s, arg.at)
        pos2   == IF arg.val.name = None THEN Append(pos, arg.val.value) ELSE pos
        named2 == IF arg.val.name = None THEN named ELSE Append(named, arg.val) IN
    CASE arg.val.name # None /\ \E n \in DOMAIN named : named[n].name = arg.val.name ->
           Err(arg.at, "E0022")
      [] arg.val.name = None /\ named # << >> -> Err(arg.at, "E0021")
      [] OTHER ->
           IF Char(s, next) = "," THEN GetArguments(s, Blank(s, next + 1), pos2, named2, d)
           ELSE Ok(next, [pos |-> pos2, named |-> named2]))

(***************************************************************************)
(* Entries                                                                 *)
(***************************************************************************)
GetIdentifierAndEquals(s, i) ==
  Then(GetIdentifier(s, i), LAMBDA id :
  Then(ExpectChar(s, BlankInline(s, id.at), "="), LAMBDA eq : Ok(eq.at, id.val)))

GetAttribute(s, i) ==
  Then(GetIdentifierAndEquals(s, i + 1), LAMBDA id :
  Then(GetPatternOr(s, id.at, "E0012", 0), LAMBDA p :
    Ok(p.at, [id |-> id.val, value |-> p.val])))

GetAttributes(s, i, attrs) ==
  IF Char(s, Blank(s, i)) # "." THEN Ok(i, attrs)
  ELSE Then(GetAttribute(s, Blank(s, i)), LAMBDA a :
         GetAttributes(s, a.at, Append(attrs, a.val)))

Message(t, id, value, attrs, i, end) ==
  Ok(end, [t |-> t, id |-> id, value |-> value, attrs |-> attrs, comment |-> None,
           from |-> i, to |-> end])

GetMessage(s, i) ==
  Then(GetIdentifierAndEquals(s, i), LAMBDA id :
  Then(MaybeGetPattern(s, id.at, 0), LAMBDA p :
  Then(GetAttributes(s, p.at, << >>), LAMBDA attrs :
    IF p.val = None /\ attrs.val = << >> THEN Err(attrs.at, "E0005")
    ELSE Message("message", id.val, p.val, attrs.val, i, attrs.at))))

GetTerm(s, i) ==
  Then(GetIdentifierAndEquals(s, i + 1), LAMBDA id :
  Then(GetPatternOr(s, id.at, "E0006", 0), LAMBDA p :
  Then(GetAttributes(s, p.at, << >>), LAMBDA attrs :
    Message("term", id.val, p.val, attrs.val, i, attrs.at))))

GetEntry(s, i) ==
  CASE Char(s, i) = "#"       -> GetComment(s, i)
    [] Char(s, i) = "-"       -> GetTerm(s, i)
    [] Char(s, i) \in Letters -> GetMessage(s, i)
    [] OTHER                  -> Err(i, "E0002")
=============================================================================
