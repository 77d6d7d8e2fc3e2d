------------------------------- MODULE Stream -------------------------------
(***************************************************************************)
(* The source as both parsers read it (syntax/stream.go): a sequence of    *)
(* characters and positions in it.  Each operator is a cursor movement: it *)
(* answers the position the cursor or the peek cursor ends at.             *)
(***************************************************************************)
EXTENDS Integers, Sequences

CONSTANTS Lower, Upper, Digit,   \* the letters and digits that occur
          MaxDepth               \* maxExpressionDepth, the same in both parsers

ASSUME StreamAssumption ==
  {"", " ", "\n", "\r", "#", "-"} \cap (Lower \cup Upper \cup Digit) = {}

(* What a parsing function answers: where the cursor is, and the node it   *)
(* made or the code of the error.                                          *)
Ok(at, val)  == [ok |-> TRUE, at |-> at, val |-> val]
Err(at, code) == [ok |-> FALSE, at |-> at, val |-> code]
Then(r, Rest(_)) == IF r.ok THEN Rest(r) ELSE r

None == << >>    \* the nil of patterns, names, arguments and comments

eof == ""
eol == "\n"

Least(S)    == CHOOSE x \in S : \A y \in S : x <= y
Greatest(S) == CHOOSE x \in S : \A y \in S : y <= x

Letters == Lower \cup Upper
IDChars == Letters \cup Digit \cup {"_", "-"}

(* The raw unit at a position, and the logical one: CRLF reads as LF. *)
Unit(s, i) == IF i \in DOMAIN s THEN s[i] ELSE eof
Char(s, i) == IF Unit(s, i) = "\r" /\ Unit(s, i + 1) = eol THEN eol ELSE Unit(s, i)
After(s, i) == IF Unit(s, i) = "\r" /\ Unit(s, i + 1) = eol THEN i + 2 ELSE i + 1

(* The first position from i on that does not, or does, hold one of C. *)
Past(s, i, C)  == Least({j \in i..Len(s) + 1 : Char(s, j) \notin C})
UpTo(s, i, C)  == Least({j \in i..Len(s) + 1 : Char(s, j) \in C \cup {eof}})

BlankInline(s, i) == Past(s, i, {" "})
Blank(s, i)       == Past(s, i, {" ", eol})

(* Past whole blank lines, to the start of a line or to the end. *)
BlankBlock(s, i) ==
  LET next == Blank(s, i) IN
  IF Char(s, next) = eof THEN next
  ELSE Greatest({i} \cup {j + 1 : j \in {k \in i..next - 1 : s[k] = eol}})

BlankLines(s, i) == {k \in i..BlankBlock(s, i) - 1 : s[k] = eol}

IsLineEnd(s, i) == Char(s, i) \in {eol, eof}
LineEnd(s, i)   == IF Char(s, i) = eol THEN After(s, i) ELSE i

(* A line continues a pattern if it starts with a placeable, or is indented *)
(* and does not start with a character that means something else there.    *)
IsValueContinuation(s, i) ==
  LET first == BlankInline(s, i) IN
  \/ Char(s, first) = "{"
  \/ first > i /\ Char(s, first) \notin {eof, "}", ".", "[", "*"}

IsVariantStart(s, i) ==
  Char(s, IF Char(s, i) = "*" THEN i + 1 ELSE i) = "["

IsNumberStart(s, i) == Unit(s, IF Char(s, i) = "-" THEN i + 1 ELSE i) \in Digit

(* A comment goes on in the next line if that has as many hashes, and then *)
(* a space or nothing.  What follows the hashes is read with peek, which   *)
(* answers the raw unit: the CR of a CRLF is neither.                      *)
Peek(s, i) == Unit(s, i)

IsNextLineComment(s, i, level) ==
  LET first == After(s, i) IN
  /\ Char(s, i) = eol
  /\ \A n \in 0..level : Unit(s, first + n) = "#"
  /\ Peek(s, first + level + 1) \in {" ", eol}

(* Recovery: back to the last line end before the error, then to the next  *)
(* line that starts like an entry.                                         *)
EntryStart == Letters \cup {"-", "#"}

SkipToNextEntryStart(s, junkStart, i) ==
  LET ends == {j \in 1..i : Unit(s, j) = eol}
      from == IF \E j \in ends : junkStart < j THEN Greatest(ends) ELSE i
  IN  Least({j \in from + 1..Len(s) : s[j - 1] = eol /\ s[j] \in EntryStart}
              \cup {Len(s) + 1})
=============================================================================
