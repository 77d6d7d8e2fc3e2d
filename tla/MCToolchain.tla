---------------------------- MODULE MCToolchain ----------------------------
(***************************************************************************)
(* Sources for the toolchain.  Each family is every arrangement of up to n *)
(* pieces within a frame: lines for the entry loop and its recovery, the   *)
(* characters that dedentation looks at, and the tokens of expressions,    *)
(* select expressions and call arguments.  Most arrangements are errors;   *)
(* the valid ones are all there too.                                       *)
(***************************************************************************)
EXTENDS Toolchain, TLC

Chars(text) == [n \in 1..Len(text) |-> SubSeq(text, n, n)]
Pieces(texts) == {Chars(text) : text \in texts}
Lines(texts)  == {Chars(text) \o <<"\n">> : text \in texts}

RECURSIVE Texts(_, _)
Texts(pieces, n) ==
  IF n = 0 THEN {<< >>}
  ELSE {<< >>} \cup {piece \o rest : piece \in pieces, rest \in Texts(pieces, n - 1)}

Framed(before, pieces, n, after) ==
  {Chars(before) \o text \o Chars(after) : text \in Texts(pieces, n)}

Layouts ==
  Texts(Lines({"# c", "#", "## g", "#x", "a = b", "-t = x", "-t =", "a =", "", " .x = b",
               "  b c ", "   {$x}", "a = {", "}", "] b"}), 3)
Comments ==
  Texts(Lines({"# c", "#", "## g", "### r", "#x", "a = b", "-t = x", ""}), 4)
Indents    == Framed("a =", Pieces({" ", "b", "{$x}", "[", "\n", "\n  "}), 5, "")
Placeables == Framed("a = ", Pieces({"{", "}", "$x", "->", "\n", "*[a] b", "-t", ".x"}), 4, "\n")
Expressions ==
  Framed("a = {", Pieces({"{", "}", "b", "F", ".x", "-", "(", ")", "1", "\""}), 3, "}\n")
Strings == Framed("a = {\"", Pieces({"\\", "\"", "u", "b", "001"}), 4, "\"}\n")
Selections ==
  UNION {Framed(sel, Pieces({"\n*[a] b", "\n [1]\n  b", "{$x}", "\n[x", "]", " c", "\n\n"}), 3,
                "\n}\nb = c") :
           sel \in {"a = {$x ->", "a = {-t.x -> ", "a =\n {F() ->", "a = {b ->", "a = {b.x ->",
                    "a = {-t ->", "a = {-t.x(y: 1) -> ", "a = {{$x} ->"}}
Arguments ==
  UNION {Framed(call, Pieces({"b", "F(", "-t", ")", ",", "x:", "y: 1", "{$x}", " ", "\"b\""}), 3,
                ")}\n") : call \in {"a = {F(", "a = {-t("}}

MCSources ==
  UNION {Layouts, Comments, Indents, Placeables, Expressions, Strings, Selections, Arguments}

(* The hypotheses of SyntaxParserProofs about comments and lines. *)
ASSUME Sources = MCSources => CommentsWhole /\ LinesWhole

(* The hypothesis of VisitorProofs about the nodes of a tree. *)
ASSUME TreesShaped ==
  \A s \in Sources : \A i \in 1..Len(s) :
    GetEntry(s, i).ok =>
      WellShaped(Node("Resource", [body |-> <<GetEntry(s, i).val>>]))

(* The same comments with CRLF line ends. *)
CRLFSources ==
  Texts({Chars(line) \o <<"\r", "\n">> : line \in {"# c", "#", "a = b", ""}}, 3)

(* Select expressions inside each other's variants. *)
RECURSIVE Nested(_)
Nested(n) ==
  IF n = 0 THEN Chars("b")
  ELSE Chars("{$x ->\n*[a] ") \o Nested(n - 1) \o Chars("\n}")
NestedSources == {Chars("a = ") \o Nested(n) : n \in 1..4}

Upp == {"F"}
Low == {"a", "b", "c", "g", "t", "x", "y"}
Dig == {"0", "1"}
=============================================================================
