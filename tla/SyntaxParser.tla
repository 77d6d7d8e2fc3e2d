---------------------------- MODULE SyntaxParser ----------------------------
(***************************************************************************)
(* The entry loop of the syntax parser: Parse with its held-back comment   *)
(* and its recovery from errors, and ParseEntry.  What one entry looks     *)
(* like is the business of EntryAt, a parameter: SyntaxGrammar's GetEntry  *)
(* for the model checker, anything that keeps within the source for the    *)
(* proofs.                                                                 *)
(***************************************************************************)
EXTENDS Stream

CONSTANTS
  EntryAt(_, _),   \* getEntry: where it ends and the node, or where it failed and why
  Sources          \* the sources that are parsed

(***************************************************************************)
(* What is asked of EntryAt: it goes forward and stays within the source,  *)
(* it takes only what starts like an entry, a comment where there is a     *)
(* hash, and what it makes is a node that spans what it has taken and has  *)
(* no comment yet.                                                         *)
(***************************************************************************)
CommentKinds == {"comment", "group", "resource"}
Commentables == {"message", "term"}

Nodes(answer, i) ==
  /\ {"t", "from", "to"} \subseteq DOMAIN answer.val
  /\ answer.val.from = i
  /\ answer.val.to = answer.at
  /\ answer.val.t \in CommentKinds \cup Commentables
  /\ answer.val.t \in Commentables =>
       "comment" \in DOMAIN answer.val /\ answer.val.comment = None

WithinSource(answer, s, i) ==
  /\ answer.at \in i..Len(s) + 1
  /\ answer.ok =>
       /\ i < answer.at
       /\ Char(s, i) \in EntryStart
       /\ Nodes(answer, i)
       /\ answer.val.t \in CommentKinds <=> Char(s, i) = "#"

ASSUME SyntaxParserAssumption ==
  \A s \in Sources :
    /\ s \in Seq(STRING)
    /\ \A n \in DOMAIN s : s[n] # eof
    /\ \A i \in 1..Len(s) + 1 : WithinSource(EntryAt(s, i), s, i)

VARIABLES source, index,
          read,         \* entry, until the loop has dealt with it, or None
          body,         \* entries
          lastComment,  \* the comment held back, or None
          pc
vars == <<source, index, read, body, lastComment, pc>>

Init ==
  /\ source \in Sources
  /\ index = 1
  /\ read = None
  /\ body = << >>
  /\ lastComment = None
  /\ pc = "start"

(* skipBlankBlock; Parse goes on to the loop, ParseEntry to its own. *)
Start ==
  /\ pc = "start"
  /\ index' = BlankBlock(source, index)
  /\ pc' \in {"parse", "parseEntry"}
  /\ UNCHANGED <<source, read, body, lastComment>>

(***************************************************************************)
(* getEntryOrJunk, with what getEntry answered.  The error is where the    *)
(* entry failed, unless recovery went back before that.                    *)
(***************************************************************************)
Parsed(s, answer) == answer.ok /\ IsLineEnd(s, answer.at)

Resume(at) == at                                  \* fault: no search for an entry
NoRewind(at) == SkipToNextEntryStart(source, at, at)   \* fault: on from the error
JunkEnd(at) == SkipToNextEntryStart(source, index, at)

Junk(answer) ==
  LET end == JunkEnd(answer.at) IN
  [t |-> "junk", content |-> SubSeq(source, index, end - 1),
   annotations |-> <<[code |-> IF answer.ok THEN "E0003" ELSE answer.val,
                      at |-> Least({answer.at, end})]>>,
   from |-> index, to |-> end]

Answered(answer) ==
  \/ /\ Parsed(source, answer)
     /\ read' = answer.val
     /\ index' = LineEnd(source, answer.at)
  \/ /\ ~Parsed(source, answer)
     /\ read' = Junk(answer)
     /\ index' = JunkEnd(answer.at)

GetEntryOrJunk ==
  /\ read = None
  /\ \/ pc = "parse" /\ Char(source, index) # eof
     \/ pc = "parseEntry"
  /\ Answered(EntryAt(source, index))
  /\ UNCHANGED <<source, body, lastComment, pc>>

(***************************************************************************)
(* The rest of the iteration of Parse.                                     *)
(***************************************************************************)
HasRead(loop) == pc = loop /\ read # None

NextIndex == BlankBlock(source, index)
Followed == Char(source, NextIndex) # eof         \* fault: blank lines ignored
DirectlyFollowed ==
  BlankLines(source, index) = {} /\ Char(source, NextIndex) # eof
AnyHeldBack == read.t \in CommentKinds /\ DirectlyFollowed   \* fault
HeldBack == read.t = "comment" /\ DirectlyFollowed

HoldBack ==
  /\ HasRead("parse")
  /\ HeldBack
  /\ lastComment' = read
  /\ read' = None
  /\ index' = NextIndex
  /\ UNCHANGED <<source, body, pc>>

Commentable == read.t \in Commentables

NoneStandsAlone ==                                \* fault: dropped unless attached
  IF lastComment # None /\ Commentable THEN <<[read EXCEPT !.comment = lastComment]>>
  ELSE <<read>>
Added ==
  CASE lastComment = None -> <<read>>
    [] lastComment # None /\ Commentable ->
         <<[read EXCEPT !.comment = lastComment, !.from = lastComment.from]>>
    [] lastComment # None /\ ~Commentable -> <<lastComment, read>>

AddEntry ==
  /\ HasRead("parse")
  /\ ~HeldBack
  /\ body' = body \o Added
  /\ lastComment' = None
  /\ read' = None
  /\ index' = NextIndex
  /\ UNCHANGED <<source, pc>>

EndOfSource ==
  /\ pc = "parse"
  /\ read = None
  /\ Char(source, index) = eof
  /\ pc' = "done"
  /\ UNCHANGED <<source, index, read, body, lastComment>>

(***************************************************************************)
(* The rest of ParseEntry: comments are skipped, unless they are junk.     *)
(***************************************************************************)
SkipAnyComment ==                                 \* fault: junk is skipped as well
  /\ HasRead("parseEntry")
  /\ Char(source, read.from) = "#"
  /\ read' = None
  /\ index' = NextIndex
  /\ UNCHANGED <<source, body, lastComment, pc>>
SkipComment ==
  /\ HasRead("parseEntry")
  /\ Char(source, read.from) = "#"
  /\ read.t # "junk"
  /\ read' = None
  /\ index' = NextIndex
  /\ UNCHANGED <<source, body, lastComment, pc>>

ReturnEntry ==
  /\ HasRead("parseEntry")
  /\ Char(source, read.from) = "#" => read.t = "junk"
  /\ body' = <<read>>
  /\ read' = None
  /\ pc' = "returned"
  /\ UNCHANGED <<source, index, lastComment>>

Next == Start \/ GetEntryOrJunk \/ HoldBack \/ AddEntry \/ EndOfSource \/ SkipComment \/ ReturnEntry

Spec == Init /\ [][Next]_vars

-----------------------------------------------------------------------------
Positions == 1..Len(source) + 1

TypeOK ==
  /\ source \in Seq(STRING)
  /\ index \in Positions
  /\ \A n \in DOMAIN body : body[n].from \in Positions /\ body[n].to \in Positions
  /\ read # None => read.from \in Positions /\ read.to \in Positions
  /\ lastComment # None => lastComment.t = "comment"
  /\ pc \in {"start", "parse", "parseEntry", "done", "returned"}

Blanks == {" ", "\n", "\r"}
Span(node) == node.from..node.to - 1
Pending(node) == IF node = None THEN << >> ELSE <<node>>
SoFar == body \o Pending(lastComment) \o Pending(read)

(* The tree accounts for the whole source, in order: what is between the   *)
(* spans of its entries is blank, although errors end entries early, the   *)
(* cursor goes back after them and a comment is kept aside.                *)
NothingLost ==
  /\ pc \in {"parse", "done"} =>
       /\ \A m, n \in DOMAIN SoFar : m < n => SoFar[m].to <= SoFar[n].from
       /\ \A p \in 1..index - 1 :
            source[p] \in Blanks \/ \E n \in DOMAIN SoFar : p \in Span(SoFar[n])
  /\ pc = "done" => lastComment = None

(* What keeps a comment from being overwritten while it is held back: the  *)
(* one behind it would have been the same comment, line ends of two        *)
(* characters apart.                                                       *)
IsComment(s, answer) == Parsed(s, answer) /\ answer.val.t = "comment"

CommentsWhole ==
  \A s \in Sources : \A i \in 1..Len(s) :
    LET end == LineEnd(s, EntryAt(s, i).at) IN
    IsComment(s, EntryAt(s, i)) /\ BlankLines(s, end) = {} =>
      ~IsComment(s, EntryAt(s, BlankBlock(s, end)))

(* A comment belongs to the message or term in the next line, and stands   *)
(* alone before a blank line, the end, junk or another kind of comment.    *)
DirectlyAbove(comment) ==
  LET next == LineEnd(source, comment.to) IN
  BlankLines(source, next) = {} /\ Char(source, BlankBlock(source, next)) # eof

CommentsAttached ==
  \A n \in DOMAIN body :
    /\ body[n].t = "comment" /\ n < Len(body) /\ body[n + 1].t \in Commentables
         => ~DirectlyAbove(body[n])
    /\ body[n].t \in Commentables /\ body[n].comment # None
         => DirectlyAbove(body[n].comment)

(* An error costs no more than its entry: junk holds no line that would    *)
(* have been an entry of its own.                                          *)
ErrorsAreLocal ==
  \A n \in DOMAIN body : body[n].t = "junk" =>
    \A i \in body[n].from + 1..body[n].to - 1 :
      source[i - 1] = eol => ~Parsed(source, EntryAt(source, i))

(* What this asks of the grammar: no line that an entry reads to its end   *)
(* before it fails elsewhere could have been an entry of its own.          *)
LinesWhole ==
  \A s \in Sources : \A i \in 1..Len(s) :
    LET at == EntryAt(s, i).at IN
    ~Parsed(s, EntryAt(s, i)) =>
      \A j \in i + 1..at :
        s[j - 1] = eol /\ (\E k \in j..at : Unit(s, k) = eol) =>
          ~Parsed(s, EntryAt(s, j))

(* Every entry or junk takes something from the source, whatever is in    *)
(* it, so that parsing ends.                                               *)
Advances == [][GetEntryOrJunk /\ Char(source, index) # eof => index' > index]_vars
=============================================================================
