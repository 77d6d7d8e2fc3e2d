---------------------------- MODULE RuntimeParser ----------------------------
(***************************************************************************)
(* The runtime parser (resource.go): NewResource finds the lines that look *)
(* like a message and parses each with a parser of its own; what fails is  *)
(* skipped.  A parse operator answers like SyntaxGrammar's get operators;  *)
(* d is p.depth.  Literals keep their written form, as the syntax tree     *)
(* does: what ParseFloat and the escapes make of it is not modelled.       *)
(***************************************************************************)
EXTENDS Stream, SequencesExt

WS == {" ", "\n", "\r", "\t"}    \* jsWS

Skip(s, i) == Past(s, i, WS)

Segment(s, i, end) == [t |-> "text", value |-> SubSeq(s, i, end - 1)]

-----------------------------------------------------------------------------
(* Literals and names *)
ParseName(s, i) ==
  IF Unit(s, i) \in Letters
    THEN LET end == Past(s, i, IDChars) IN Ok(end, SubSeq(s, i, end - 1))
  ELSE Err(i, "identifier")

IsNumberLiteral(s, i) == Unit(s, IF Unit(s, i) = "-" THEN i + 1 ELSE i) \in Digit

(* A point belongs to the number only if a digit follows. *)
ParseNumberLiteral(s, i) ==
  LET whole == Past(s, IF Unit(s, i) = "-" THEN i + 1 ELSE i, Digit)
      end   == IF Unit(s, whole) = "." THEN Past(s, whole + 1, Digit) ELSE whole
      last  == IF end = whole + 1 THEN whole ELSE end IN
  Ok(last, [t |-> "num", value |-> SubSeq(s, i, last - 1)])

Hex == Digit \cup {"a", "b", "c", "d", "e", "f", "A", "B", "C", "D", "E", "F"}

ParseEscapeSequence(s, i) ==
  LET Unicode(digits) == \A n \in 1..digits : Unit(s, i + 1 + n) \in Hex IN
  CASE Unit(s, i + 1) \in {"\\", "\""}         -> Ok(i + 2, << >>)
    [] Unit(s, i + 1) = "u" /\ Unicode(4)      -> Ok(i + 6, << >>)
    [] Unit(s, i + 1) = "U" /\ Unicode(6)      -> Ok(i + 8, << >>)
    [] OTHER                                   -> Err(i, "escape")

RECURSIVE ParseStringRest(_, _)
ParseStringRest(s, i) ==
  LET end == UpTo(s, i, {"\\", "\"", eol}) IN
  CASE Unit(s, end) = "\\" ->
         Then(ParseEscapeSequence(s, end), LAMBDA escape : ParseStringRest(s, escape.at))
    [] Unit(s, end) = "\"" -> Ok(end + 1, << >>)
    [] OTHER               -> Err(end, "unclosed string")

ParseLiteral(s, i) ==
  CASE IsNumberLiteral(s, i) -> ParseNumberLiteral(s, i)
    [] Unit(s, i) = "\""     ->
         Then(ParseStringRest(s, i + 1), LAMBDA rest :
           Ok(rest.at, [t |-> "str", value |-> SubSeq(s, i + 1, rest.at - 2)]))
    [] OTHER                 -> Err(i, "literal")

-----------------------------------------------------------------------------
(* Patterns.  The blank before a line is an indent if a pattern goes on    *)
(* behind it; otherwise it is skipped all the same.                        *)
ParseIndent(s, i) ==
  LET at == Skip(s, i)
      spaces  == Least({j \in i..at : \A k \in j..at - 1 : s[k] = " "})
      Dropped(p) == \/ s[p] = "\r" /\ Char(s, p) = eol
                    \/ s[p] = " " /\ Char(s, BlankInline(s, p)) = eol
      value == FlattenSeq([n \in 1..at - i |->
                 IF Dropped(i + n - 1) THEN << >> ELSE <<s[i + n - 1]>>]) IN
  IF /\ Unit(s, at) \notin {eof, ".", "[", "*", "}"}
     /\ Unit(s, at) = "{" \/ Unit(s, at - 1) = " "
    THEN Ok(at, [t |-> "indent", value |-> value, length |-> at - spaces])
    ELSE Err(at, "indent")

KeptNewlines(indent) == indent                   \* fault: a block begins with blank lines
WithoutLeadingNewlines(indent) ==
  LET first == Least({n \in DOMAIN indent.value : indent.value[n] # eol}
                       \cup {Len(indent.value) + 1})
  IN  [indent EXCEPT !.value = SubSeq(@, first, Len(@))]

TrimSpaces(value) ==
  SubSeq(value, 1, Greatest({0} \cup {n \in DOMAIN value : value[n] # " "}))

TrimLast(elements) ==
  IF elements = << >> \/ Last(elements).t # "text" THEN elements
  ELSE Append(Front(elements), [Last(elements) EXCEPT !.value = TrimSpaces(@)])

(* Dedent the indents, drop what is empty. *)
Bake(elements, commonIndent) ==
  LET trimmed == TrimLast(elements)
      Dedent(e) ==
        CASE e.t # "indent" -> e
          [] e.t = "indent" /\ commonIndent <= Len(e.value) ->
               [t |-> "text", value |-> SubSeq(e.value, 1, Len(e.value) - commonIndent)]
          [] OTHER -> [t |-> "text", value |-> e.value] IN
  SelectSeq([n \in DOMAIN trimmed |-> Dedent(trimmed[n])],
            LAMBDA e : e.t # "text" \/ e.value # << >>)

RECURSIVE ParseElements(_, _, _, _, _), ParsePlaceable(_, _, _), ParseVariants(_, _, _, _, _),
          ParseInlineExpression(_, _, _), ParseArguments(_, _, _, _)

ParseElements(s, i, elements, commonIndent, d) ==
  LET run    == UpTo(s, i, {"{", "}", eol})
      indent == ParseIndent(s, i) IN
  CASE run > i -> ParseElements(s, run, Append(elements, Segment(s, i, run)), commonIndent, d)
    [] Unit(s, i) = "{" -> Then(ParsePlaceable(s, i, d), LAMBDA p :
         ParseElements(s, p.at, Append(elements, [t |-> "placeable", expr |-> p.val]),
                       commonIndent, d))
    [] Unit(s, i) = "}" -> Err(i, "unbalanced brace")
    [] OTHER ->
         IF indent.ok
           THEN ParseElements(s, indent.at, Append(elements, indent.val),
                              Least({commonIndent, indent.val.length}), d)
           ELSE Ok(indent.at, [elements |-> Bake(elements, commonIndent)])

ParsePattern(s, i, d) ==
  LET run    == UpTo(s, i, {"{", "}", eol})
      first  == IF run = i THEN << >> ELSE <<Segment(s, i, run)>>
      indent == ParseIndent(s, run) IN
  CASE Unit(s, run) \in {"{", "}"} -> ParseElements(s, run, first, Len(s), d)
    [] OTHER ->
  CASE indent.ok /\ first # << >> ->
         ParseElements(s, indent.at, Append(first, indent.val), indent.val.length, d)
    [] indent.ok /\ first = << >> ->
         ParseElements(s, indent.at, <<WithoutLeadingNewlines(indent.val)>>,
                       indent.val.length, d)
    [] ~indent.ok -> Ok(indent.at, IF first = << >> THEN None ELSE [elements |-> TrimLast(first)])

ParseValue(s, i, d) ==
  Then(ParsePattern(s, i, d), LAMBDA p : IF p.val = None THEN Err(p.at, "value") ELSE p)

-----------------------------------------------------------------------------
(* Placeables and expressions *)
ParsePlaceable(s, i, d) ==
  Then(ParseInlineExpression(s, Skip(s, i + 1), d), LAMBDA sel :
    LET next == Skip(s, sel.at) IN
    CASE Unit(s, next) = "}" -> Ok(next + 1, sel.val)
      [] Unit(s, next) = "-" /\ Unit(s, next + 1) = ">" ->
           Then(ParseVariants(s, Skip(s, next + 2), << >>, 0, d), LAMBDA v :
             IF Unit(s, Skip(s, v.at)) # "}" THEN Err(v.at, "close")
             ELSE Ok(Skip(s, v.at) + 1,
                     [t |-> "select", sel |-> sel.val,
                      variants |-> v.val.variants, default |-> v.val.default]))
      [] OTHER -> Err(next, "unclosed placeable"))

ParseVariantKey(s, i) ==
  LET close(key) == Skip(s, key.at) IN
  Then(IF IsNumberLiteral(s, i) THEN ParseNumberLiteral(s, i)
       ELSE Then(ParseName(s, i), LAMBDA id : Ok(id.at, [t |-> "str", value |-> id.val])),
    LAMBDA key :
      IF Unit(s, close(key)) = "]" THEN Ok(BlankInline(s, close(key) + 1), key.val)
      ELSE Err(close(key), "bracket"))

(* A second star moves the default. *)
ParseVariants(s, i, variants, star, d) ==
  LET starred == Unit(s, i) = "*"
      open    == IF starred THEN i + 1 ELSE i IN
  IF Unit(s, open) = "["
    THEN Then(ParseVariantKey(s, Skip(s, open + 1)), LAMBDA key :
         Then(ParseValue(s, key.at, d), LAMBDA p :
           ParseVariants(s, p.at, Append(variants, [key |-> key.val, value |-> p.val]),
                         IF starred THEN Len(variants) + 1 ELSE star, d)))
  ELSE IF variants = << >> \/ star = 0 THEN Err(i, "variants")
  ELSE Ok(i, [variants |-> variants, default |-> star])

ParseReference(s, i) ==
  LET sigil == IF Unit(s, i) \in {"$", "-"} THEN Unit(s, i) ELSE "" IN
  Then(ParseName(s, IF sigil = "" THEN i ELSE i + 1), LAMBDA id :
    LET attr == IF Unit(s, id.at) = "." THEN ParseName(s, id.at + 1) ELSE Err(id.at, "") IN
    Ok(IF attr.ok THEN attr.at ELSE id.at,
       [sigil |-> sigil, name |-> id.val, attr |-> IF attr.ok THEN attr.val ELSE None]))

IsFunctionName(id) == id[1] \in Upper /\ Range(id) \cap Lower = {}

NoArguments == [pos |-> << >>, named |-> << >>]

(* What a reference is, with the arguments behind it. *)
Referenced(ref, called, end, args) ==
  CASE ref.sigil = "-" -> Ok(end, [t |-> "term", name |-> ref.name, attr |-> ref.attr, args |-> args])
    [] ref.sigil = "" /\ ~called -> Ok(end, [t |-> "message", name |-> ref.name, attr |-> ref.attr])
    [] ref.sigil = "" /\ called ->
         IF IsFunctionName(ref.name) THEN Ok(end, [t |-> "function", name |-> ref.name, args |-> args])
         ELSE Err(end, "function name")

NestedTooDeep(d) == d > MaxDepth

ParseInlineExpression(s, i, depth) ==
  LET ref  == ParseReference(s, i)
      open == Skip(s, ref.at) IN
  CASE NestedTooDeep(depth + 1) -> Err(i, "nested too deeply")
    [] OTHER ->
  CASE Unit(s, i) = "{"         -> ParsePlaceable(s, i, depth + 1)
    [] Unit(s, i) # "{" /\ ~ref.ok -> ParseLiteral(s, i)
    [] Unit(s, i) # "{" /\ ref.ok ->
         IF ref.val.sigil = "$" THEN Ok(ref.at, [t |-> "variable", name |-> ref.val.name])
         ELSE IF Unit(s, open) # "(" THEN Referenced(ref.val, FALSE, ref.at, NoArguments)
         ELSE Then(ParseArguments(s, Skip(s, open + 1), NoArguments, depth + 1), LAMBDA args :
                Referenced(ref.val, TRUE, args.at, args.val))

ParseArgument(s, i, d) ==
  Then(ParseInlineExpression(s, i, d), LAMBDA e :
    IF e.val.t = "message" /\ Unit(s, Skip(s, e.at)) = ":"
      THEN Then(ParseLiteral(s, Skip(s, Skip(s, e.at) + 1)), LAMBDA literal :
             Ok(literal.at, [name |-> e.val.name, value |-> literal.val]))
      ELSE Ok(e.at, [name |-> None, value |-> e.val]))

ParseArguments(s, i, args, d) ==
  CASE Unit(s, i) = eof -> Err(i, "unclosed arguments")
    [] Unit(s, i) = ")" -> Ok(i + 1, args)
    [] OTHER -> Then(ParseArgument(s, i, d), LAMBDA arg :
         LET comma == Skip(s, arg.at) IN
         ParseArguments(s, IF Unit(s, comma) = "," THEN Skip(s, comma + 1) ELSE comma,
           IF arg.val.name = None THEN [args EXCEPT !.pos = Append(@, arg.val.value)]
           ELSE [args EXCEPT !.named = Append(@, arg.val)], d))

-----------------------------------------------------------------------------
(* Messages *)
IsAttributeStart(s, i) ==
  /\ Unit(s, i) = "."
  /\ \E j \in 1..i : (j = 1 \/ s[j - 1] = eol) /\ \A k \in j..i - 1 : s[k] = " "
  /\ ParseName(s, i + 1).ok
  /\ Unit(s, BlankInline(s, ParseName(s, i + 1).at)) = "="

(* A repeated attribute replaces the earlier one. *)
RECURSIVE ParseAttributes(_, _, _)
ParseAttributes(s, i, attrs) ==
  LET name  == ParseName(s, i + 1)
      value == BlankInline(s, BlankInline(s, name.at) + 1) IN
  IF ~IsAttributeStart(s, i) THEN Ok(i, attrs)
  ELSE Then(ParseValue(s, value, 0), LAMBDA p :
         ParseAttributes(s, p.at,
           [id \in DOMAIN attrs \cup {name.val} |->
              IF id = name.val THEN p.val ELSE attrs[id]]))

(* reMessageScan: the lines that start with an identifier and =. *)
ScanId(s, i) == ParseName(s, IF Unit(s, i) = "-" THEN i + 1 ELSE i)
MessageStarts(s) ==
  {i \in 1..Len(s) : /\ i = 1 \/ s[i - 1] = eol
                     /\ ScanId(s, i).ok
                     /\ Unit(s, BlankInline(s, ScanId(s, i).at)) = "="}

ParseMessage(s, i) ==
  LET id == ScanId(s, i) IN
  Then(ParsePattern(s, BlankInline(s, BlankInline(s, id.at) + 1), 0), LAMBDA value :
  Then(ParseAttributes(s, value.at, << >>), LAMBDA attrs :
    IF value.val = None /\ attrs.val = << >> THEN Err(attrs.at, "value or attributes")
    ELSE Ok(attrs.at, [t |-> IF Unit(s, i) = "-" THEN "term" ELSE "message",
                       id |-> id.val, value |-> value.val, attrs |-> attrs.val])))

NewResource(s) ==
  LET starts == SetToSortSeq(MessageStarts(s), <)
      parsed == SelectSeq([n \in DOMAIN starts |-> ParseMessage(s, starts[n])], LAMBDA m : m.ok)
  IN  [n \in DOMAIN parsed |-> parsed[n].val]
=============================================================================
