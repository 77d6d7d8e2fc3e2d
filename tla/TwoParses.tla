------------------------------ MODULE TwoParses ------------------------------
(***************************************************************************)
(* Parse after a first call on the same parser or on another one: of the   *)
(* source that ParseEntry has read an entry of, here, and in Toolchain of  *)
(* what the serializer makes of the tree.                                  *)
(***************************************************************************)
EXTENDS SyntaxParser

VARIABLES first,     \* what the first call answered
          second     \* and how the second came about
varsAll == <<vars, first, second>>

InitAll == Init /\ first = << >> /\ second = "no"

Again(text, how) ==
  /\ second = "no"
  /\ first' = body
  /\ second' = how
  /\ source' = text
  /\ index' = BlankBlock(text, 1)
  /\ read' = None
  /\ body' = << >>
  /\ lastComment' = None
  /\ pc' = "parse"

(* Parse what ParseEntry has read the first entry of. *)
ParseWhole == pc = "returned" /\ Again(source, "whole")

NextTwice ==
  \/ Next /\ UNCHANGED <<first, second>>
  \/ ParseWhole

SpecTwice == InitAll /\ [][NextTwice]_varsAll

-----------------------------------------------------------------------------
(* The places of the entries that are no comments. *)
EntriesOf(q) == {n \in DOMAIN q : q[n].t \notin CommentKinds}

(* The same node, except for the comment Parse attaches to it. *)
WithoutComment(entry, node) ==
  /\ DOMAIN node = DOMAIN entry
  /\ node.comment = None
  /\ \A field \in DOMAIN entry \ {"comment", "from"} : node[field] = entry[field]

(* ParseEntry answers the first entry of Parse that is not a comment,      *)
(* without the comment Parse attaches to it, and empty junk if there is no *)
(* such entry.                                                             *)
EntryIsFirst ==
  pc = "done" /\ second = "whole" =>
    IF EntriesOf(body) = {} THEN first[1].t = "junk" /\ first[1].content = << >>
    ELSE LET entry == body[Least(EntriesOf(body))] IN
         IF entry.t = "junk" THEN first[1] = entry
         ELSE WithoutComment(entry, first[1])
=============================================================================
