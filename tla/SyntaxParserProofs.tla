------------------------- MODULE SyntaxParserProofs -------------------------
(* Theorems about the entry loop, for any sources and any grammar of an    *)
(* entry that keeps within the source.                                     *)
EXTENDS TwoParses, StreamProofs

IsSequence(q) == \E S : q \in Seq(S)

(* What the loop knows of the nodes it handles. *)
IsNode(node) ==
  /\ {"t", "from", "to"} \subseteq DOMAIN node
  /\ node.from \in Positions
  /\ node.to \in Positions

NodesInv ==
  /\ TypeOK
  /\ source \in Sources
  /\ IsSequence(body)
  /\ pc = "start" => read = None
  /\ read # None => IsNode(read)
  /\ lastComment # None => IsNode(lastComment)

LEMMA ConcatIs ==
  ASSUME NEW a, NEW b, IsSequence(a), IsSequence(b)
  PROVE  /\ IsSequence(a \o b)
         /\ Len(a) \in Nat /\ DOMAIN a = 1..Len(a)
         /\ Len(b) \in Nat /\ DOMAIN b = 1..Len(b)
         /\ DOMAIN (a \o b) = 1..Len(a) + Len(b)
         /\ \A n \in 1..Len(a) : (a \o b)[n] = a[n]
         /\ \A n \in 1..Len(b) : (a \o b)[Len(a) + n] = b[n]
<1>1. PICK S : a \in Seq(S)  BY DEF IsSequence
<1>2. PICK T : b \in Seq(T)  BY DEF IsSequence
<1> DEFINE U == S \cup T
<1>3. a \in Seq(U)  BY <1>1, SeqMonotonic
<1>4. b \in Seq(U)  BY <1>2, SeqMonotonic
<1> HIDE DEF U
<1>5. /\ Len(a) \in Nat /\ DOMAIN a = 1..Len(a)
      /\ Len(b) \in Nat /\ DOMAIN b = 1..Len(b)
  BY <1>3, <1>4, LenProperties
<1>6. /\ a \o b \in Seq(U)
      /\ Len(a \o b) = Len(a) + Len(b)
      /\ \A i \in 1..Len(a) + Len(b) :
           (a \o b)[i] = IF i <= Len(a) THEN a[i] ELSE b[i - Len(a)]
  BY <1>3, <1>4, ConcatProperties
<1>7. DOMAIN (a \o b) = 1..Len(a) + Len(b)  BY <1>6, LenProperties
<1>8. ASSUME NEW n \in 1..Len(a) PROVE (a \o b)[n] = a[n]  BY <1>5, <1>6
<1>9. ASSUME NEW n \in 1..Len(b) PROVE (a \o b)[Len(a) + n] = b[n]
  <2>1. Len(a) + n \in 1..Len(a) + Len(b) /\ ~(Len(a) + n <= Len(a))  BY <1>5
  <2>2. (a \o b)[Len(a) + n] = b[Len(a) + n - Len(a)]  BY <1>6, <2>1
  <2>3. Len(a) + n - Len(a) = n  BY <1>5
  <2> QED  BY <2>2, <2>3
<1> QED  BY <1>5, <1>6, <1>7, <1>8, <1>9 DEF IsSequence

LEMMA SingleIs ==
  ASSUME NEW x
  PROVE  IsSequence(<<x>>) /\ Len(<<x>>) = 1 /\ <<x>>[1] = x
<1>1. <<x>> \in Seq({x})  OBVIOUS
<1> QED  BY <1>1 DEF IsSequence

(* Every element of a concatenation is one of the parts'. *)
LEMMA ConcatElement ==
  ASSUME NEW a, NEW b, IsSequence(a), IsSequence(b), NEW n \in DOMAIN (a \o b)
  PROVE  \/ n \in DOMAIN a /\ (a \o b)[n] = a[n]
         \/ \E m \in DOMAIN b : n = Len(a) + m /\ (a \o b)[n] = b[m]
<1>1. /\ Len(a) \in Nat /\ DOMAIN a = 1..Len(a)
      /\ Len(b) \in Nat /\ DOMAIN b = 1..Len(b)
      /\ n \in 1..Len(a) + Len(b)
  BY ConcatIs
<1>2. CASE n <= Len(a)
  <2>1. n \in 1..Len(a)  BY <1>1, <1>2
  <2> QED  BY <1>1, <2>1, ConcatIs
<1>3. CASE ~(n <= Len(a))
  <2>1. n - Len(a) \in 1..Len(b) /\ n = Len(a) + (n - Len(a))  BY <1>1, <1>3
  <2>2. (a \o b)[Len(a) + (n - Len(a))] = b[n - Len(a)]  BY <2>1, ConcatIs
  <2> QED  BY <1>1, <2>1, <2>2
<1> QED  BY <1>2, <1>3

(* What EntryAt is asked for, at the cursor. *)
LEMMA AnswerIs ==
  ASSUME NEW s \in Sources, NEW i \in Within(s)
  PROVE  s \in Source /\ WithinSource(EntryAt(s, i), s, i)
BY SyntaxParserAssumption DEF Source, Within

LEMMA InitNodes == Init => NodesInv
<1> SUFFICES ASSUME Init PROVE NodesInv  OBVIOUS
<1>1. source \in Sources /\ source \in Seq(STRING)
  BY SyntaxParserAssumption DEF Init
<1>2. index \in Positions
  <2>1. Len(source) \in Nat  BY <1>1
  <2> QED  BY <2>1 DEF Init, Positions
<1>3. IsSequence(body) /\ DOMAIN body = {}
  <2>1. << >> \in Seq({})  OBVIOUS
  <2> QED  BY <2>1 DEF Init, IsSequence
<1> QED  BY <1>1, <1>2, <1>3 DEF Init, NodesInv, TypeOK

(* The cursor after an entry, and what was read. *)
LEMMA AnsweredIs ==
  ASSUME source \in Sources, index \in Positions, GetEntryOrJunk
  PROVE  /\ index' \in index..Len(source) + 1
         /\ Char(source, index) # eof => index' > index
         /\ {"t", "from", "to"} \subseteq DOMAIN read'
         /\ read'.from = index
         /\ read'.to \in index..index'
         /\ \A p \in read'.to..index' - 1 : source[p] \in Blanks
<1> DEFINE answer == EntryAt(source, index)
<1>1. /\ source \in Source /\ index \in Within(source)
      /\ WithinSource(answer, source, index)
  BY AnswerIs DEF Positions, Within
<1>2. answer.at \in index..Len(source) + 1  BY <1>1 DEF WithinSource
<1>3. Len(source) \in Nat /\ index \in Nat /\ index >= 1
  <2>1. Len(source) \in Nat  BY <1>1, LenProperties DEF Source
  <2> QED  BY <2>1 DEF Positions
<1>4. Answered(answer)  BY DEF GetEntryOrJunk
<1>5. CASE Parsed(source, answer) /\ read' = answer.val /\ index' = LineEnd(source, answer.at)
  <2>1. index < answer.at /\ Nodes(answer, index)
    BY <1>1, <1>5 DEF WithinSource, Parsed
  <2>2. answer.at \in Within(source)  BY <1>2, <1>3 DEF Within
  <2>3. /\ LineEnd(source, answer.at) \in answer.at..Len(source) + 1
        /\ \A p \in answer.at..LineEnd(source, answer.at) - 1 : source[p] \in BlankChar
    BY <1>1, <2>2, LineEndIs
  <2>4. index' \in index..Len(source) + 1 /\ index' > index /\ answer.at \in index..index'
    BY <1>2, <1>3, <1>5, <2>1, <2>3
  <2>5. /\ {"t", "from", "to"} \subseteq DOMAIN read'
        /\ read'.from = index /\ read'.to = answer.at
    BY <1>5, <2>1 DEF Nodes
  <2> QED  BY <1>5, <2>3, <2>4, <2>5 DEF Blanks, BlankChar
<1>6. CASE read' = Junk(answer) /\ index' = JunkEnd(answer.at)
  <2>1. /\ index' \in index..Len(source) + 1
        /\ Char(source, index) # eof => index' > index
    BY <1>1, <1>2, <1>6, SkipIs DEF JunkEnd
  <2>2. /\ {"t", "from", "to"} \subseteq DOMAIN read'
        /\ read'.from = index /\ read'.to = index'
    BY <1>6 DEF Junk
  <2>3. index' \in Nat /\ index' >= index  BY <1>3, <2>1
  <2>4. \A p \in index'..index' - 1 : FALSE
    <3>1. \A j \in Nat : j..j - 1 = {}  OBVIOUS
    <3> QED  BY <2>3, <3>1, Zenon
  <2>5. index' \in index..index'  BY <1>3, <2>3
  <2> QED  BY <2>1, <2>2, <2>4, <2>5
<1> QED  BY <1>4, <1>5, <1>6 DEF Answered

(* The cursor after the blank lines. *)
LEMMA NextIndexIs ==
  ASSUME source \in Sources, index \in Positions
  PROVE  /\ NextIndex \in index..Len(source) + 1
         /\ NextIndex \in Positions
         /\ \A p \in index..NextIndex - 1 : source[p] \in Blanks
<1>1. source \in Source /\ index \in Within(source)
  BY SyntaxParserAssumption DEF Source, Positions, Within
<1>2. Len(source) \in Nat  BY <1>1, LenProperties DEF Source
<1>3. /\ NextIndex \in index..Len(source) + 1
      /\ \A p \in index..NextIndex - 1 : source[p] \in BlankChar
  BY <1>1, BlankBlockIs DEF NextIndex
<1>4. NextIndex \in Positions  BY <1>2, <1>3 DEF Positions
<1> QED  BY <1>3, <1>4 DEF Blanks, BlankChar

(* The nodes that go into the body. *)
LEMMA AddedIs ==
  ASSUME NodesInv, read # None
  PROVE  /\ IsSequence(Added)
         /\ \A n \in DOMAIN Added : Added[n].from \in Positions /\ Added[n].to \in Positions
<1> DEFINE commented == [read EXCEPT !.comment = lastComment, !.from = lastComment.from]
<1>1. IsNode(read)  BY DEF NodesInv
<1>2. CASE lastComment = None
  <2>1. Added = <<read>>  BY <1>2 DEF Added
  <2> QED  BY <1>1, <2>1, SingleIs DEF IsNode
<1>3. CASE lastComment # None /\ Commentable
  <2>1. Added = <<commented>>  BY <1>3 DEF Added
  <2>2. commented.from = lastComment.from /\ commented.to = read.to
    BY <1>1 DEF IsNode
  <2>3. IsNode(lastComment)  BY <1>3 DEF NodesInv
  <2> HIDE DEF commented
  <2> QED  BY <1>1, <2>1, <2>2, <2>3, SingleIs DEF IsNode
<1>4. CASE lastComment # None /\ ~Commentable
  <2>1. Added = <<lastComment, read>>  BY <1>4 DEF Added
  <2>2. <<lastComment, read>> \in Seq({lastComment, read})  OBVIOUS
  <2>3. IsNode(lastComment)  BY <1>4 DEF NodesInv
  <2>4. \A n \in DOMAIN Added : Added[n] \in {lastComment, read}
    BY <2>1, <2>2, LenProperties, ElementOfSeq
  <2>5. IsSequence(Added)  BY <2>1, <2>2 DEF IsSequence
  <2> QED  BY <1>1, <2>3, <2>4, <2>5 DEF IsNode
<1> QED  BY <1>2, <1>3, <1>4

LEMMA NextNodes == NodesInv /\ [Next]_vars => NodesInv'
<1> SUFFICES ASSUME NodesInv, [Next]_vars PROVE NodesInv'  OBVIOUS
<1>1. source' = source /\ Positions' = Positions
  BY DEF Next, vars, Start, GetEntryOrJunk, HoldBack, AddEntry, EndOfSource,
         SkipComment, ReturnEntry, Positions
<1>2. source \in Sources /\ index \in Positions /\ source \in Seq(STRING)
  BY DEF NodesInv, TypeOK
<1>3. /\ NextIndex \in Positions
      /\ \A node : IsNode(node)' <=> IsNode(node)
  BY <1>1, <1>2, NextIndexIs DEF IsNode
<1> USE DEF NodesInv, TypeOK
<1>4. CASE UNCHANGED vars  BY <1>3, <1>4, <1>1 DEF vars
<1>5. CASE Start  BY <1>1, <1>3, <1>5 DEF Start, NextIndex
<1>6. CASE GetEntryOrJunk
  <2>1. /\ index' \in index..Len(source) + 1
        /\ {"t", "from", "to"} \subseteq DOMAIN read'
        /\ read'.from = index /\ read'.to \in index..index'
    BY <1>2, <1>6, AnsweredIs
  <2>2. Len(source) \in Nat  BY <1>2
  <2>3. index' \in Positions /\ read'.from \in Positions /\ read'.to \in Positions
    BY <1>2, <2>1, <2>2 DEF Positions
  <2>4. IsNode(read')  BY <2>1, <2>3 DEF IsNode
  <2>5. UNCHANGED <<source, body, lastComment, pc>> /\ pc # "start"
    BY <1>6 DEF GetEntryOrJunk
  <2> QED  BY <1>1, <1>3, <2>3, <2>4, <2>5
<1>7. CASE HoldBack
  <2>1. read # None /\ read.t = "comment"  BY <1>7 DEF HoldBack, HasRead, HeldBack
  <2> QED  BY <1>1, <1>3, <1>7, <2>1 DEF HoldBack
<1>8. CASE AddEntry
  <2>1. body' = body \o Added /\ IsSequence(Added) /\ IsSequence(body)
    BY <1>8, AddedIs DEF AddEntry, HasRead
  <2>2. IsSequence(body')  BY <2>1, ConcatIs
  <2>3. ASSUME NEW n \in DOMAIN body'
        PROVE  body'[n].from \in Positions /\ body'[n].to \in Positions
    <3>1. \/ n \in DOMAIN body /\ body'[n] = body[n]
          \/ \E m \in DOMAIN Added : n = Len(body) + m /\ body'[n] = Added[m]
      BY <2>1, <2>3, ConcatElement
    <3> QED  BY <1>8, <3>1, AddedIs DEF AddEntry, HasRead
  <2> QED  BY <1>1, <1>3, <1>8, <2>2, <2>3 DEF AddEntry
<1>9. CASE EndOfSource  BY <1>1, <1>3, <1>9 DEF EndOfSource
<1>10. CASE SkipComment  BY <1>1, <1>3, <1>10 DEF SkipComment
<1>11. CASE ReturnEntry
  <2>1. body' = <<read>> /\ IsNode(read)  BY <1>11 DEF ReturnEntry, HasRead
  <2>2. IsSequence(body')  BY <2>1, SingleIs
  <2>3. \A n \in DOMAIN body' : body'[n].from \in Positions /\ body'[n].to \in Positions
    BY <2>1 DEF IsNode
  <2> QED  BY <1>1, <1>3, <1>11, <2>2, <2>3 DEF ReturnEntry
<1> QED  BY <1>4, <1>5, <1>6, <1>7, <1>8, <1>9, <1>10, <1>11 DEF Next

(* The cursor and the nodes of the tree keep within the source, wherever   *)
(* the entries fail and recovery takes the cursor.                         *)
THEOREM Typed == Spec => []TypeOK
<1>1. NodesInv => TypeOK  BY DEF NodesInv
<1> QED  BY InitNodes, NextNodes, <1>1, PTL DEF Spec

(* Getting an entry, or the junk in its place, goes forward, so that Parse *)
(* and ParseEntry come to the end of any source.                           *)
THEOREM GoesForward == Spec => Advances
<1>1. NodesInv /\ [Next]_vars =>
        [GetEntryOrJunk /\ Char(source, index) # eof => index' > index]_vars
  BY AnsweredIs DEF NodesInv, TypeOK, Next, vars
<1> QED  BY InitNodes, NextNodes, <1>1, PTL DEF Spec, Advances

-----------------------------------------------------------------------------
(* The spans of q are in order, and go with blanks up to i. *)
InOrder(q, i) ==
  /\ \A n \in DOMAIN q :
       q[n].from \in 1..i /\ q[n].to \in 1..i /\ q[n].from <= q[n].to
  /\ \A m, n \in DOMAIN q : m < n => q[m].to <= q[n].from

Covers(q, s, i) ==
  \A p \in 1..i - 1 : s[p] \in Blanks \/ \E n \in DOMAIN q : p \in Span(q[n])

Accounts(q, s, i) == IsSequence(q) /\ InOrder(q, i) /\ Covers(q, s, i)

(* The tree so far accounts for what is before the cursor; only Parse      *)
(* holds a comment back, and never a second one, because what comes next   *)
(* is not a comment.                                                       *)
LoopInv ==
  /\ pc = "start" => index = 1 /\ read = None /\ body = << >>
  /\ pc # "parse" => lastComment = None
  /\ pc \in {"start", "parse", "done"} => Accounts(SoFar, source, index)
  /\ pc = "parse" /\ lastComment # None /\ read = None =>
       /\ Char(source, index) # eof
       /\ ~IsComment(source, EntryAt(source, index))
  /\ pc = "parse" /\ lastComment # None /\ read # None => read.t # "comment"
  /\ pc = "parse" /\ read # None /\ read.t = "comment" =>
       \E i \in 1..Len(source) :
         /\ IsComment(source, EntryAt(source, i))
         /\ index = LineEnd(source, EntryAt(source, i).at)

LEMMA PastBlanks ==
  ASSUME NEW q, NEW s, NEW i \in Nat \ {0}, NEW j \in Nat, i <= j,
         Accounts(q, s, i), \A p \in i..j - 1 : s[p] \in Blanks
  PROVE  Accounts(q, s, j)
<1>1. InOrder(q, j)  BY DEF Accounts, InOrder
<1>2. ASSUME NEW p \in 1..j - 1
      PROVE  s[p] \in Blanks \/ \E n \in DOMAIN q : p \in Span(q[n])
  <2>1. p \in 1..i - 1 \/ p \in i..j - 1  OBVIOUS
  <2> QED  BY <2>1 DEF Accounts, Covers
<1> QED  BY <1>1, <1>2 DEF Accounts, Covers

LEMMA OneMore ==
  ASSUME NEW q, NEW s, NEW i \in Nat \ {0}, NEW j \in Nat, i <= j,
         Accounts(q, s, i), NEW node, node.from = i, node.to = j
  PROVE  Accounts(q \o <<node>>, s, j)
<1> DEFINE r == q \o <<node>>
<1>1. IsSequence(q) /\ IsSequence(<<node>>) /\ Len(<<node>>) = 1 /\ <<node>>[1] = node
  BY SingleIs DEF Accounts
<1>2. /\ IsSequence(r)
      /\ Len(q) \in Nat /\ DOMAIN q = 1..Len(q)
      /\ DOMAIN r = 1..Len(q) + 1
      /\ \A n \in DOMAIN q : r[n] = q[n]
      /\ r[Len(q) + 1] = node
  BY <1>1, ConcatIs
<1> HIDE DEF r
<1>3. \A n \in DOMAIN r : n \in DOMAIN q \/ n = Len(q) + 1  BY <1>2
<1>4. /\ \A n \in DOMAIN q : n < Len(q) + 1 /\ n \in DOMAIN r
      /\ Len(q) + 1 \in DOMAIN r
  BY <1>2
<1>5. InOrder(r, j)
  <2>1. ASSUME NEW n \in DOMAIN r
        PROVE  r[n].from \in 1..j /\ r[n].to \in 1..j /\ r[n].from <= r[n].to
    <3>1. CASE n \in DOMAIN q
      <4>1. q[n].from \in 1..i /\ q[n].to \in 1..i /\ q[n].from <= q[n].to
        BY <3>1 DEF Accounts, InOrder
      <4> QED  BY <1>2, <3>1, <4>1
    <3>2. CASE n = Len(q) + 1  BY <1>2, <3>2
    <3> QED  BY <1>3, <3>1, <3>2
  <2>2. ASSUME NEW m \in DOMAIN r, NEW n \in DOMAIN r, m < n
        PROVE  r[m].to <= r[n].from
    <3>1. m \in DOMAIN q  BY <1>2, <2>2
    <3>2. r[m] = q[m] /\ q[m].to \in 1..i  BY <1>2, <3>1 DEF Accounts, InOrder
    <3>3. CASE n \in DOMAIN q
      <4>1. q[m].to <= q[n].from  BY <2>2, <3>1, <3>3 DEF Accounts, InOrder
      <4> QED  BY <1>2, <3>2, <3>3, <4>1
    <3>4. CASE n = Len(q) + 1  BY <1>2, <3>2, <3>4
    <3> QED  BY <1>3, <3>3, <3>4
  <2> QED  BY <2>1, <2>2 DEF InOrder
<1>6. ASSUME NEW p \in 1..j - 1, s[p] \notin Blanks
      PROVE  \E n \in DOMAIN r : p \in Span(r[n])
  <2>1. CASE p \in 1..i - 1
    <3>1. PICK n \in DOMAIN q : p \in Span(q[n])  BY <1>6, <2>1 DEF Accounts, Covers
    <3> QED  BY <1>2, <1>4, <3>1
  <2>2. CASE p \in i..j - 1
    <3>1. p \in Span(node)  BY <2>2 DEF Span
    <3> QED  BY <1>2, <1>4, <3>1
  <2>3. p \in 1..i - 1 \/ p \in i..j - 1  OBVIOUS
  <2> QED  BY <2>1, <2>2, <2>3
<1> QED  BY <1>2, <1>5, <1>6 DEF Accounts, Covers, r

(* A node that spans two neighbours stands for both. *)
LEMMA TwoAsOne ==
  ASSUME NEW q, NEW s, NEW i \in Nat, IsSequence(q), NEW a, NEW b, NEW c,
         Accounts((q \o <<a>>) \o <<b>>, s, i), c.from = a.from, c.to = b.to
  PROVE  Accounts(q \o <<c>>, s, i)
<1> DEFINE qa == q \o <<a>>
           r == qa \o <<b>>
           t == q \o <<c>>
           k == Len(q)
<1>1. /\ IsSequence(<<a>>) /\ Len(<<a>>) = 1 /\ <<a>>[1] = a
      /\ IsSequence(<<b>>) /\ Len(<<b>>) = 1 /\ <<b>>[1] = b
      /\ IsSequence(<<c>>) /\ Len(<<c>>) = 1 /\ <<c>>[1] = c
  BY SingleIs
<1>2. /\ IsSequence(qa) /\ k \in Nat /\ DOMAIN q = 1..k
      /\ DOMAIN qa = 1..k + 1
      /\ \A n \in 1..k : qa[n] = q[n]
      /\ qa[k + 1] = a
  BY <1>1, ConcatIs
<1>3. /\ IsSequence(t)
      /\ DOMAIN t = 1..k + 1
      /\ \A n \in 1..k : t[n] = q[n]
      /\ t[k + 1] = c
  BY <1>1, ConcatIs
<1>4. Len(qa) \in Nat /\ DOMAIN qa = 1..Len(qa)  BY <1>1, <1>2, ConcatIs
<1>5. Len(qa) = k + 1  BY <1>2, <1>4
<1> HIDE DEF qa, t, k
<1>6. /\ DOMAIN r = 1..k + 2
      /\ \A n \in 1..k + 1 : r[n] = qa[n]
      /\ r[k + 2] = b
  <2>1. /\ DOMAIN r = 1..Len(qa) + 1
        /\ \A n \in 1..Len(qa) : r[n] = qa[n]
        /\ r[Len(qa) + 1] = b
    BY <1>1, <1>2, ConcatIs
  <2>2. Len(qa) + 1 = k + 2  BY <1>2, <1>5
  <2> QED  BY <1>5, <2>1, <2>2
<1>7. InOrder(r, i) /\ Covers(r, s, i)  BY DEF Accounts, r, qa
<1> HIDE DEF r
<1>8. /\ \A n \in 1..k : r[n] = q[n] /\ n \in DOMAIN r /\ n < k + 1 /\ n < k + 2
      /\ r[k + 1] = a /\ k + 1 \in DOMAIN r /\ k + 1 < k + 2 /\ k + 2 \in DOMAIN r
  BY <1>2, <1>6
<1>9. /\ a.from \in 1..i /\ a.to \in 1..i /\ a.from <= a.to
      /\ b.from \in 1..i /\ b.to \in 1..i /\ b.from <= b.to
      /\ a.to <= b.from
  BY <1>6, <1>7, <1>8 DEF InOrder
<1>10. \A n \in 1..k :
         /\ q[n].from \in 1..i /\ q[n].to \in 1..i /\ q[n].from <= q[n].to
         /\ q[n].to <= a.from
         /\ \A m \in 1..k : m < n => q[m].to <= q[n].from
  BY <1>7, <1>8 DEF InOrder
<1>11. InOrder(t, i)
  <2>1. \A n \in DOMAIN t : n \in 1..k \/ n = k + 1  BY <1>2, <1>3
  <2>2. \A n \in DOMAIN t : t[n].from \in 1..i /\ t[n].to \in 1..i /\ t[n].from <= t[n].to
    <3>1. c.from \in 1..i /\ c.to \in 1..i /\ c.from <= c.to  BY <1>9
    <3> QED  BY <1>3, <1>10, <2>1, <3>1
  <2>3. ASSUME NEW m \in DOMAIN t, NEW n \in DOMAIN t, m < n
        PROVE  t[m].to <= t[n].from
    <3>1. m \in 1..k  BY <1>2, <1>3, <2>1, <2>3
    <3>2. CASE n \in 1..k  BY <1>3, <1>10, <2>3, <3>1, <3>2
    <3>3. CASE n = k + 1  BY <1>3, <1>10, <3>1, <3>3
    <3> QED  BY <2>1, <3>2, <3>3
  <2> QED  BY <2>2, <2>3 DEF InOrder
<1>12. ASSUME NEW p \in 1..i - 1, s[p] \notin Blanks
       PROVE  \E n \in DOMAIN t : p \in Span(t[n])
  <2>1. PICK n \in DOMAIN r : p \in Span(r[n])  BY <1>7, <1>12 DEF Covers
  <2>2. k + 1 \in DOMAIN t /\ \A l \in 1..k : l \in DOMAIN t  BY <1>2, <1>3
  <2>3. CASE n \in 1..k
    <3>1. r[n] = t[n]  BY <1>3, <1>8, <2>3
    <3> QED  BY <2>1, <2>2, <2>3, <3>1
  <2>4. CASE n = k + 1
    <3>1. p \in Span(a)  BY <1>8, <2>1, <2>4
    <3>2. p \in Span(c)  BY <1>9, <3>1 DEF Span
    <3> QED  BY <1>3, <2>2, <3>2
  <2>5. CASE n = k + 2
    <3>1. p \in Span(b)  BY <1>6, <2>1, <2>5
    <3>2. p \in Span(c)  BY <1>9, <3>1 DEF Span
    <3> QED  BY <1>3, <2>2, <3>2
  <2>6. n \in 1..k \/ n = k + 1 \/ n = k + 2  BY <1>2, <1>6
  <2> QED  BY <2>3, <2>4, <2>5, <2>6
<1>13. Covers(t, s, i)  BY <1>12 DEF Covers
<1> QED  BY <1>3, <1>11, <1>13 DEF Accounts, t

LEMMA NothingAdded ==
  ASSUME NEW q, IsSequence(q)
  PROVE  q \o << >> = q
BY ConcatEmptySeq DEF IsSequence

LEMMA TwoAdded ==
  ASSUME NEW q, IsSequence(q), NEW a, NEW b
  PROVE  q \o <<a, b>> = (q \o <<a>>) \o <<b>>
<1>1. PICK S : q \in Seq(S)  BY DEF IsSequence
<1> DEFINE U == S \cup {a, b}
<1>2. q \in Seq(U)  BY <1>1, SeqMonotonic
<1>3. <<a>> \in Seq(U) /\ <<b>> \in Seq(U)  OBVIOUS
<1>4. <<a, b>> = <<a>> \o <<b>>
  <2>1. <<a, b>> \in Seq(U) /\ Len(<<a, b>>) = 2  OBVIOUS
  <2>2. /\ <<a>> \o <<b>> \in Seq(U)
        /\ Len(<<a>> \o <<b>>) = 2
        /\ (<<a>> \o <<b>>)[1] = a
        /\ (<<a>> \o <<b>>)[2] = b
    <3>1. /\ <<a>> \o <<b>> \in Seq(U)
          /\ Len(<<a>> \o <<b>>) = 1 + 1
      BY <1>3, ConcatProperties
    <3>2. /\ IsSequence(<<a>>) /\ Len(<<a>>) = 1 /\ <<a>>[1] = a
          /\ IsSequence(<<b>>) /\ Len(<<b>>) = 1 /\ <<b>>[1] = b
      BY SingleIs
    <3>3. (<<a>> \o <<b>>)[1] = a  BY <3>2, ConcatIs
    <3>4. (<<a>> \o <<b>>)[1 + 1] = b  BY <3>2, ConcatIs
    <3> QED  BY <3>1, <3>3, <3>4
  <2>3. \A n \in 1..2 : <<a, b>>[n] = (<<a>> \o <<b>>)[n]  BY <2>2
  <2> HIDE DEF U
  <2> QED  BY <2>1, <2>2, <2>3, SeqEqual
<1> HIDE DEF U
<1> QED  BY <1>2, <1>3, <1>4, ConcatAssociative

LEMMA InitLoop == Init => LoopInv
<1> SUFFICES ASSUME Init PROVE LoopInv  OBVIOUS
<1>1. SoFar = << >>
  <2>1. << >> \o << >> = << >>  OBVIOUS
  <2> QED  BY <2>1 DEF Init, SoFar, Pending
<1>2. IsSequence(<< >>) /\ DOMAIN << >> = {}
  <2>1. << >> \in Seq({})  OBVIOUS
  <2> QED  BY <2>1 DEF IsSequence
<1>3. \A p \in 1..1 - 1 : FALSE  OBVIOUS
<1>4. Accounts(SoFar, source, index)
  BY <1>1, <1>2, <1>3 DEF Init, Accounts, InOrder, Covers
<1> QED  BY <1>4 DEF Init, LoopInv

(* A node is not the empty sequence that stands for none. *)
LEMMA NodeIsThere ==
  ASSUME NEW node, "t" \in DOMAIN node
  PROVE  node # None
<1>1. DOMAIN None = {}  BY DEF None
<1> QED  BY <1>1

LEMMA NextLoop ==
  ASSUME CommentsWhole
  PROVE  NodesInv /\ LoopInv /\ [Next]_vars => LoopInv'
<1> SUFFICES ASSUME NodesInv, LoopInv, [Next]_vars PROVE LoopInv'  OBVIOUS
<1>1. source \in Sources /\ index \in Positions /\ source \in Seq(STRING) /\ IsSequence(body)
  BY DEF NodesInv, TypeOK
<1>2. Len(source) \in Nat /\ index \in Nat \ {0}  BY <1>1 DEF Positions
<1>3. /\ NextIndex \in index..Len(source) + 1
      /\ \A p \in index..NextIndex - 1 : source[p] \in Blanks
  BY <1>1, NextIndexIs
<1>4. NextIndex \in Nat /\ index <= NextIndex  BY <1>2, <1>3
<1>5. IsSequence(Pending(lastComment)) /\ IsSequence(body \o Pending(lastComment))
  <2>1. << >> \in Seq({})  OBVIOUS
  <2>2. IsSequence(Pending(lastComment))  BY <2>1, SingleIs DEF Pending, IsSequence
  <2> QED  BY <1>1, <2>2, ConcatIs
<1>6. CASE UNCHANGED vars  BY <1>6 DEF vars, LoopInv, SoFar
<1>7. CASE Start
  <2>1. /\ read = None /\ index' = NextIndex /\ pc' \in {"parse", "parseEntry"}
        /\ lastComment = None
        /\ UNCHANGED <<source, read, body, lastComment>>
    BY <1>7 DEF Start, NextIndex, LoopInv
  <2>2. Accounts(SoFar, source, index)  BY <1>7 DEF Start, LoopInv
  <2>3. Accounts(SoFar, source, index')  BY <1>2, <1>3, <1>4, <2>1, <2>2, PastBlanks
  <2>4. SoFar' = SoFar  BY <2>1 DEF SoFar
  <2> QED  BY <2>1, <2>3, <2>4 DEF LoopInv
<1>8. CASE GetEntryOrJunk
  <2> DEFINE answer == EntryAt(source, index)
  <2>1. /\ read = None /\ pc \in {"parse", "parseEntry"}
        /\ UNCHANGED <<source, body, lastComment, pc>>
        /\ Answered(answer)
        /\ pc = "parse" => Char(source, index) # eof
    BY <1>8 DEF GetEntryOrJunk
  <2>2. /\ index' \in index..Len(source) + 1
        /\ "t" \in DOMAIN read' /\ read'.from = index /\ read'.to \in index..index'
        /\ \A p \in read'.to..index' - 1 : source[p] \in Blanks
    BY <1>1, <1>8, AnsweredIs
  <2>3. read' # None  BY <2>2, NodeIsThere
  <2>4. pc = "parse" => Accounts(SoFar', source', index')
    <3> SUFFICES ASSUME pc = "parse" PROVE Accounts(SoFar', source, index')  BY <2>1
    <3>1. SoFar = body \o Pending(lastComment)
      BY <1>5, <2>1, NothingAdded DEF SoFar, Pending
    <3>2. SoFar' = SoFar \o <<read'>>  BY <2>1, <2>3, <3>1 DEF SoFar, Pending
    <3>3. Accounts(SoFar, source, index)  BY DEF LoopInv
    <3>4. /\ index' \in Nat /\ read'.to \in Nat \ {0}
          /\ index <= read'.to /\ read'.to <= index'
      BY <1>2, <2>2
    <3>5. Accounts(SoFar \o <<read'>>, source, read'.to)
      BY <1>2, <2>2, <3>3, <3>4, OneMore
    <3> HIDE DEF answer
    <3> QED  BY <2>2, <3>2, <3>4, <3>5, PastBlanks
  <2>5. ASSUME pc = "parse", read'.t = "comment"
        PROVE  /\ lastComment = None
               /\ \E i \in 1..Len(source) :
                    /\ IsComment(source, EntryAt(source, i))
                    /\ index' = LineEnd(source, EntryAt(source, i).at)
    <3>1. ~(read' = Junk(answer))
      <4>1. Junk(answer).t = "junk"  BY DEF Junk
      <4> QED  BY <2>5, <4>1
    <3>2. /\ Parsed(source, answer) /\ read' = answer.val
          /\ index' = LineEnd(source, answer.at)
      BY <2>1, <3>1 DEF Answered
    <3>3. IsComment(source, answer)  BY <2>5, <3>2 DEF IsComment
    <3>4. lastComment = None  BY <2>1, <2>5, <3>3 DEF LoopInv
    <3>5. index \in 1..Len(source)
      <4>1. source \in Source /\ index >= 1  BY <1>1, <1>2 DEF Source
      <4> QED  BY <1>2, <2>1, <2>5, <4>1, CharIs
    <3> QED  BY <3>2, <3>3, <3>4, <3>5
  <2> HIDE DEF answer
  <2>6. pc # "parse" => lastComment = None  BY DEF LoopInv
  <2> QED  BY <2>1, <2>3, <2>4, <2>5, <2>6 DEF LoopInv
<1>9. CASE HoldBack
  <2>1. /\ pc = "parse" /\ read # None /\ read.t = "comment" /\ DirectlyFollowed
        /\ lastComment' = read /\ read' = None /\ index' = NextIndex
        /\ UNCHANGED <<source, body, pc>>
    BY <1>9 DEF HoldBack, HasRead, HeldBack
  <2>2. lastComment = None  BY <2>1 DEF LoopInv
  <2>3. SoFar' = SoFar
    <3>1. SoFar = body \o <<read>>
      BY <1>1, <2>1, <2>2, NothingAdded DEF SoFar, Pending
    <3>2. IsSequence(body \o <<read>>)  BY <1>1, SingleIs, ConcatIs
    <3>3. SoFar' = (body \o <<read>>) \o << >>  BY <2>1 DEF SoFar, Pending
    <3> QED  BY <3>1, <3>2, <3>3, NothingAdded
  <2>4. Accounts(SoFar, source, index')
    <3>1. Accounts(SoFar, source, index)  BY <2>1 DEF LoopInv
    <3> QED  BY <1>2, <1>3, <1>4, <2>1, <3>1, PastBlanks
  <2>5. Char(source, NextIndex) # eof  BY <2>1 DEF DirectlyFollowed
  <2>6. ~IsComment(source, EntryAt(source, NextIndex))
    <3>1. PICK i \in 1..Len(source) : /\ IsComment(source, EntryAt(source, i))
                                      /\ index = LineEnd(source, EntryAt(source, i).at)
      BY <2>1 DEF LoopInv
    <3>2. BlankLines(source, index) = {}  BY <2>1 DEF DirectlyFollowed
    <3>3. ~IsComment(source, EntryAt(source, BlankBlock(source, index)))
      BY <1>1, <3>1, <3>2 DEF CommentsWhole
    <3> QED  BY <3>3 DEF NextIndex
  <2> QED  BY <2>1, <2>3, <2>4, <2>5, <2>6 DEF LoopInv
<1>10. CASE AddEntry
  <2>1. /\ pc = "parse" /\ read # None
        /\ body' = body \o Added /\ lastComment' = None /\ read' = None
        /\ index' = NextIndex /\ UNCHANGED <<source, pc>>
    BY <1>10 DEF AddEntry, HasRead
  <2>2. Accounts(SoFar, source, index)  BY <2>1 DEF LoopInv
  <2>3. SoFar = (body \o Pending(lastComment)) \o <<read>>  BY <2>1 DEF SoFar, Pending
  <2>4. Accounts(body \o Added, source, index)
    <3>1. CASE lastComment = None
      <4>1. SoFar = body \o <<read>>
        BY <1>1, <2>3, <3>1, NothingAdded DEF Pending
      <4> QED  BY <2>2, <3>1, <4>1 DEF Added
    <3>2. CASE lastComment # None /\ ~Commentable
      <4>1. SoFar = (body \o <<lastComment>>) \o <<read>>  BY <2>3, <3>2 DEF Pending
      <4>2. Added = <<lastComment, read>>  BY <3>2 DEF Added
      <4>3. body \o <<lastComment, read>> = (body \o <<lastComment>>) \o <<read>>
        BY <1>1, TwoAdded
      <4>4. body \o Added = SoFar  BY <4>1, <4>2, <4>3
      <4> QED  BY <2>2, <4>4
    <3>3. CASE lastComment # None /\ Commentable
      <4> DEFINE merged == [read EXCEPT !.comment = lastComment, !.from = lastComment.from]
      <4>1. SoFar = (body \o <<lastComment>>) \o <<read>>  BY <2>3, <3>3 DEF Pending
      <4>2. Added = <<merged>>  BY <3>3 DEF Added
      <4>3. merged.from = lastComment.from /\ merged.to = read.to
        BY <2>1 DEF NodesInv, IsNode
      <4> HIDE DEF merged
      <4>4. Accounts((body \o <<lastComment>>) \o <<read>>, source, index)
        BY <2>2, <4>1
      <4>5. Accounts(body \o <<merged>>, source, index)
        BY <1>1, <1>2, <4>3, <4>4, TwoAsOne
      <4> QED  BY <4>2, <4>5
    <3> QED  BY <3>1, <3>2, <3>3
  <2>5. IsSequence(body')  BY <2>1, <2>4 DEF Accounts
  <2>6. SoFar' = body'
    <3>1. SoFar' = (body' \o << >>) \o << >>  BY <2>1 DEF SoFar, Pending
    <3> QED  BY <2>5, <3>1, NothingAdded
  <2>7. Accounts(SoFar', source', index')
    BY <1>2, <1>3, <1>4, <2>1, <2>4, <2>6, PastBlanks
  <2> QED  BY <2>1, <2>7 DEF LoopInv
<1>11. CASE EndOfSource
  <2>1. /\ pc = "parse" /\ pc' = "done" /\ lastComment = None
        /\ UNCHANGED <<source, index, read, body, lastComment>>
    BY <1>11 DEF EndOfSource, LoopInv
  <2>2. SoFar' = SoFar /\ Accounts(SoFar, source, index)  BY <2>1 DEF SoFar, LoopInv
  <2> QED  BY <2>1, <2>2 DEF LoopInv
<1>12. CASE SkipComment
  BY <1>12 DEF SkipComment, HasRead, LoopInv
<1>13. CASE ReturnEntry
  BY <1>13 DEF ReturnEntry, HasRead, LoopInv
<1> QED  BY <1>6, <1>7, <1>8, <1>9, <1>10, <1>11, <1>12, <1>13 DEF Next

(* The tree accounts for the whole source, if whatever a comment is        *)
(* directly followed by is not a comment again: the sources where line     *)
(* ends are two characters are not like that.                              *)
THEOREM Whole == CommentsWhole => (Spec => []NothingLost)
<1> SUFFICES ASSUME CommentsWhole PROVE Spec => []NothingLost  OBVIOUS
<1>1. LoopInv => NothingLost  BY DEF LoopInv, NothingLost, Accounts, InOrder, Covers
<1> QED  BY InitNodes, NextNodes, InitLoop, NextLoop, <1>1, PTL DEF Spec

-----------------------------------------------------------------------------
(* Commentables carry a comment that was directly above them, and a        *)
(* comment that stays in the body on its own is directly above none.  Over: *)
(* ParseEntry returns the last of q for what it is.                        *)
Above(s, comment) ==
  LET next == LineEnd(s, comment.to) IN
  BlankLines(s, next) = {} /\ Char(s, BlankBlock(s, next)) # eof

Attached(s, q, over) ==
  \A n \in DOMAIN q :
    /\ q[n].t = "comment" =>
         \/ over /\ n = Len(q)
         \/ ~Above(s, q[n])
         \/ n < Len(q) /\ q[n + 1].t \notin Commentables
    /\ q[n].t \in Commentables /\ q[n].comment # None => Above(s, q[n].comment)

AttachInv ==
  /\ read # None =>
       /\ read.t = "comment" => index = LineEnd(source, read.to)
       /\ read.t \in Commentables => "comment" \in DOMAIN read /\ read.comment = None
  /\ lastComment # None => Above(source, lastComment)
  /\ Attached(source, body, pc = "returned")

LEMMA AttachedConcat ==
  ASSUME NEW s, NEW q, NEW r, IsSequence(q), IsSequence(r),
         Attached(s, q, FALSE), Attached(s, r, FALSE)
  PROVE  Attached(s, q \o r, FALSE)
<1> DEFINE a == q \o r
<1>1. /\ IsSequence(a)
      /\ Len(q) \in Nat /\ DOMAIN q = 1..Len(q)
      /\ Len(r) \in Nat /\ DOMAIN r = 1..Len(r)
      /\ DOMAIN a = 1..Len(q) + Len(r)
      /\ \A n \in 1..Len(q) : a[n] = q[n]
      /\ \A n \in 1..Len(r) : a[Len(q) + n] = r[n]
  BY ConcatIs
<1>2. Len(a) = Len(q) + Len(r)
  <2>1. PICK S : a \in Seq(S)  BY <1>1 DEF IsSequence
  <2>2. Len(a) \in Nat /\ DOMAIN a = 1..Len(a)  BY <2>1, LenProperties
  <2> HIDE DEF a
  <2> QED  BY <1>1, <2>2
<1>3. ASSUME NEW n \in 1..Len(q)
      PROVE  /\ a[n].t = "comment" =>
                  ~Above(s, a[n]) \/ (n < Len(a) /\ a[n + 1].t \notin Commentables)
             /\ a[n].t \in Commentables /\ a[n].comment # None => Above(s, a[n].comment)
  <2>1. a[n] = q[n] /\ n \in DOMAIN q  BY <1>1
  <2>2. n < Len(q) => n < Len(a) /\ n + 1 \in 1..Len(q)  BY <1>1, <1>2
  <2>3. n < Len(q) => a[n + 1] = q[n + 1]  BY <1>1, <2>2
  <2> HIDE DEF a
  <2> QED  BY <2>1, <2>2, <2>3 DEF Attached
<1>4. ASSUME NEW n \in 1..Len(r), NEW m, m = Len(q) + n
      PROVE  /\ a[m].t = "comment" =>
                  ~Above(s, a[m]) \/ (m < Len(a) /\ a[m + 1].t \notin Commentables)
             /\ a[m].t \in Commentables /\ a[m].comment # None => Above(s, a[m].comment)
  <2>1. a[m] = r[n] /\ n \in DOMAIN r  BY <1>1, <1>4
  <2>2. n < Len(r) => m < Len(a) /\ n + 1 \in 1..Len(r) /\ m + 1 = Len(q) + (n + 1)
    BY <1>1, <1>2, <1>4
  <2>3. n < Len(r) => a[m + 1] = r[n + 1]  BY <1>1, <2>2
  <2> HIDE DEF a
  <2> QED  BY <2>1, <2>2, <2>3 DEF Attached
<1>5. \A m \in DOMAIN a : m \in 1..Len(q) \/ \E n \in 1..Len(r) : m = Len(q) + n
  <2> SUFFICES ASSUME NEW m \in DOMAIN a, m \notin 1..Len(q)
               PROVE  \E n \in 1..Len(r) : m = Len(q) + n
    OBVIOUS
  <2>1. m - Len(q) \in 1..Len(r) /\ m = Len(q) + (m - Len(q))  BY <1>1
  <2> QED  BY <2>1
<1> HIDE DEF a
<1>6. Attached(s, a, FALSE)  BY <1>3, <1>4, <1>5 DEF Attached
<1> QED  BY <1>6 DEF a

LEMMA AttachedOne ==
  ASSUME NEW s, NEW node, NEW over,
         node.t = "comment" => over \/ ~Above(s, node),
         node.t \in Commentables /\ node.comment # None => Above(s, node.comment)
  PROVE  Attached(s, <<node>>, over)
<1>1. Len(<<node>>) = 1 /\ <<node>>[1] = node /\ DOMAIN <<node>> = {1}  OBVIOUS
<1> QED  BY <1>1 DEF Attached

LEMMA InitAttach == Init => AttachInv
<1>1. DOMAIN << >> = {}  OBVIOUS
<1> QED  BY <1>1 DEF Init, AttachInv, Attached

(* What goes into the body. *)
LEMMA AddedAttached ==
  ASSUME NodesInv, AttachInv, read # None, ~HeldBack
  PROVE  Attached(source, Added, FALSE)
<1>1. /\ {"t", "from", "to"} \subseteq DOMAIN read
      /\ lastComment # None => lastComment.t = "comment" /\ Above(source, lastComment)
      /\ read.t \in Commentables => "comment" \in DOMAIN read /\ read.comment = None
  BY DEF NodesInv, TypeOK, IsNode, AttachInv
<1>2. read.t = "comment" => ~Above(source, read)
  BY DEF HeldBack, DirectlyFollowed, NextIndex, Above, AttachInv
<1>3. Attached(source, <<read>>, FALSE)  BY <1>1, <1>2, AttachedOne
<1>4. Commentable <=> read.t \in Commentables  BY DEF Commentable, Commentables
<1>5. CASE lastComment = None  BY <1>3, <1>5 DEF Added
<1>6. CASE lastComment # None /\ Commentable
  <2> DEFINE merged == [read EXCEPT !.comment = lastComment, !.from = lastComment.from]
  <2>1. Added = <<merged>>  BY <1>6 DEF Added
  <2>2. merged.t = read.t /\ merged.comment = lastComment  BY <1>1, <1>4, <1>6
  <2> HIDE DEF merged
  <2>3. merged.t # "comment"  BY <1>4, <1>6, <2>2 DEF Commentables
  <2>4. Attached(source, <<merged>>, FALSE)  BY <1>1, <1>6, <2>2, <2>3, AttachedOne
  <2> QED  BY <2>1, <2>4
<1>7. CASE lastComment # None /\ ~Commentable
  <2>1. Added = <<lastComment, read>>  BY <1>7 DEF Added
  <2>2. /\ Len(Added) = 2 /\ DOMAIN Added = {1, 2}
        /\ Added[1] = lastComment /\ Added[2] = read
    <3>1. DOMAIN Added = 1..2  BY <2>1
    <3> QED  BY <2>1, <3>1
  <2>3. read.t \notin Commentables  BY <1>4, <1>7
  <2>4. lastComment.t \notin Commentables  BY <1>1, <1>7 DEF Commentables
  <2> QED  BY <1>2, <2>2, <2>3, <2>4 DEF Attached
<1> QED  BY <1>5, <1>6, <1>7

LEMMA NextAttach == NodesInv /\ AttachInv /\ [Next]_vars => AttachInv'
<1> SUFFICES ASSUME NodesInv, AttachInv, [Next]_vars PROVE AttachInv'  OBVIOUS
<1>1. source \in Sources /\ index \in Positions /\ IsSequence(body)
  BY DEF NodesInv, TypeOK
<1>2. Attached(source, body, pc = "returned")  BY DEF AttachInv
<1>3. pc # "returned" => Attached(source, body, FALSE)  BY <1>2 DEF Attached
<1>4. ASSUME pc' = "returned" <=> pc = "returned", UNCHANGED <<source, body>>
      PROVE  Attached(source', body', pc' = "returned")
  BY <1>2, <1>4 DEF Attached
<1>5. CASE UNCHANGED vars  BY <1>5 DEF vars, AttachInv, Attached
<1>6. CASE Start
  <2>1. /\ read' = None /\ UNCHANGED <<source, body, lastComment>>
        /\ pc # "returned" /\ pc' # "returned"
    BY <1>6 DEF Start, NodesInv
  <2> QED  BY <2>1, <1>4 DEF AttachInv
<1>7. CASE GetEntryOrJunk
  <2> DEFINE answer == EntryAt(source, index)
  <2>1. /\ UNCHANGED <<source, body, lastComment, pc>> /\ Answered(answer)
    BY <1>7 DEF GetEntryOrJunk
  <2>2. WithinSource(answer, source, index)
    <3>1. index \in Within(source)  BY <1>1 DEF Positions, Within
    <3> QED  BY <1>1, <3>1, AnswerIs
  <2>3. /\ read'.t = "comment" => index' = LineEnd(source, read'.to)
        /\ read'.t \in Commentables => "comment" \in DOMAIN read' /\ read'.comment = None
    <3>1. CASE Parsed(source, answer) /\ read' = answer.val /\ index' = LineEnd(source, answer.at)
      <4>1. Nodes(answer, index)  BY <2>2, <3>1 DEF WithinSource, Parsed
      <4> HIDE DEF answer
      <4> QED  BY <3>1, <4>1 DEF Nodes, Commentables
    <3>2. CASE read' = Junk(answer)
      <4>1. Junk(answer).t = "junk"  BY DEF Junk
      <4> QED  BY <3>2, <4>1 DEF Commentables
    <3> QED  BY <2>1, <3>1, <3>2 DEF Answered
  <2> HIDE DEF answer
  <2>4. Attached(source', body', pc' = "returned")  BY <1>4, <2>1
  <2> QED  BY <2>1, <2>3, <2>4 DEF AttachInv
<1>8. CASE HoldBack
  <2>1. /\ read # None /\ read.t = "comment" /\ DirectlyFollowed
        /\ lastComment' = read /\ read' = None /\ UNCHANGED <<source, body, pc>>
    BY <1>8 DEF HoldBack, HasRead, HeldBack
  <2>2. Above(source, read)
    BY <2>1 DEF AttachInv, DirectlyFollowed, NextIndex, Above
  <2>3. Attached(source', body', pc' = "returned")  BY <1>4, <2>1
  <2> QED  BY <2>1, <2>2, <2>3 DEF AttachInv
<1>9. CASE AddEntry
  <2>1. /\ pc = "parse" /\ read # None /\ ~HeldBack
        /\ body' = body \o Added /\ lastComment' = None /\ read' = None
        /\ UNCHANGED <<source, pc>>
    BY <1>9 DEF AddEntry, HasRead
  <2>2. IsSequence(Added) /\ Attached(source, Added, FALSE)
    BY <2>1, AddedIs, AddedAttached
  <2>3. Attached(source, body, FALSE)  BY <1>3, <2>1
  <2>4. Attached(source, body', FALSE)  BY <1>1, <2>1, <2>2, <2>3, AttachedConcat
  <2>5. Attached(source', body', pc' = "returned")
    <3>1. ~(pc' = "returned")  BY <2>1
    <3> QED  BY <2>1, <2>4, <3>1 DEF Attached
  <2> QED  BY <2>1, <2>5 DEF AttachInv
<1>10. CASE EndOfSource
  <2>1. /\ UNCHANGED <<source, index, read, body, lastComment>>
        /\ pc # "returned" /\ pc' # "returned"
    BY <1>10 DEF EndOfSource
  <2> QED  BY <1>4, <2>1 DEF AttachInv
<1>11. CASE SkipComment
  <2>1. /\ read' = None /\ UNCHANGED <<source, body, lastComment, pc>>
    BY <1>11 DEF SkipComment
  <2> QED  BY <1>4, <2>1 DEF AttachInv
<1>12. CASE ReturnEntry
  <2>1. /\ read # None /\ body' = <<read>> /\ read' = None /\ pc' = "returned"
        /\ UNCHANGED <<source, lastComment>>
    BY <1>12 DEF ReturnEntry, HasRead
  <2>2. Attached(source, <<read>>, pc' = "returned")
    BY <2>1, AttachedOne DEF AttachInv
  <2> QED  BY <2>1, <2>2 DEF AttachInv
<1> QED  BY <1>5, <1>6, <1>7, <1>8, <1>9, <1>10, <1>11, <1>12 DEF Next

(* A comment belongs to the message or term in the next line, and stands   *)
(* alone before a blank line, the end, junk or another kind of comment.    *)
THEOREM CommentsBelong == Spec => []CommentsAttached
<1>1. NodesInv /\ AttachInv => CommentsAttached
  <2> SUFFICES ASSUME NodesInv, AttachInv PROVE CommentsAttached  OBVIOUS
  <2>1. Attached(source, body, pc = "returned")  BY DEF AttachInv
  <2>2. Len(body) \in Nat /\ DOMAIN body = 1..Len(body)
    <3>1. PICK S : body \in Seq(S)  BY DEF NodesInv, IsSequence
    <3> QED  BY <3>1, LenProperties
  <2>3. \A comment : DirectlyAbove(comment) <=> Above(source, comment)
    BY DEF DirectlyAbove, Above
  <2>4. \A n \in DOMAIN body : n < Len(body) => ~(n = Len(body))  BY <2>2
  <2> QED  BY <2>1, <2>3, <2>4 DEF Attached, CommentsAttached, Commentables
<1> QED  BY InitNodes, NextNodes, InitAttach, NextAttach, <1>1, PTL DEF Spec

-----------------------------------------------------------------------------
(* No line of this junk could have been an entry. *)
Local(s, node) ==
  node.t = "junk" =>
    \A i \in node.from + 1..node.to - 1 :
      s[i - 1] = eol => ~Parsed(s, EntryAt(s, i))

(* An entry is never read from the end of a line: the first line of junk   *)
(* is the one it begins in.                                                *)
JunkInv ==
  /\ read = None /\ pc \in {"parse", "parseEntry"} => Unit(source, index) # eol
  /\ read # None => Local(source, read)
  /\ \A n \in DOMAIN body : Local(source, body[n])

LEMMA InitJunk == Init => JunkInv
<1>1. DOMAIN << >> = {}  OBVIOUS
<1> QED  BY <1>1 DEF Init, JunkInv

LEMMA JunkIsLocal ==
  ASSUME LinesWhole, source \in Sources, index \in Positions, Unit(source, index) # eol,
         NEW answer, answer = EntryAt(source, index), ~Parsed(source, answer)
  PROVE  Local(source, Junk(answer))
<1>1. /\ source \in Source /\ index \in Within(source)
      /\ WithinSource(answer, source, index)
  BY AnswerIs DEF Positions, Within
<1>2. answer.at \in index..Len(source) + 1  BY <1>1 DEF WithinSource
<1> DEFINE to == SkipToNextEntryStart(source, index, answer.at)
<1>3. Junk(answer).from = index /\ Junk(answer).to = to  BY DEF Junk, JunkEnd
<1>4. to \in index..Len(source) + 1  BY <1>1, <1>2, SkipIs
<1>5. ASSUME NEW i \in index + 1..to - 1, source[i - 1] = eol
      PROVE  ~Parsed(source, EntryAt(source, i))
  <2>1. /\ index \in 1..Len(source)
        /\ \/ Char(source, i) \notin EntryStart
           \/ i \in index + 1..answer.at /\ \E k \in i..answer.at : Unit(source, k) = eol
    BY <1>1, <1>2, <1>5, SkippedLines
  <2>2. CASE Char(source, i) \notin EntryStart
    <3>1. i \in Within(source)
      <4>1. Len(source) \in Nat  BY <1>1, LenProperties DEF Source
      <4> HIDE DEF to
      <4> QED  BY <1>4, <2>1, <4>1 DEF Within
    <3>2. WithinSource(EntryAt(source, i), source, i)  BY <3>1, AnswerIs
    <3> QED  BY <2>2, <3>2 DEF WithinSource, Parsed
  <2>3. CASE i \in index + 1..answer.at /\ \E k \in i..answer.at : Unit(source, k) = eol
    BY <1>5, <2>1, <2>3 DEF LinesWhole
  <2> QED  BY <2>1, <2>2, <2>3
<1> HIDE DEF to
<1> QED  BY <1>3, <1>5 DEF Local

LEMMA NextJunk ==
  ASSUME LinesWhole
  PROVE  NodesInv /\ JunkInv /\ [Next]_vars => JunkInv'
<1> SUFFICES ASSUME NodesInv, JunkInv, [Next]_vars PROVE JunkInv'  OBVIOUS
<1>1. source \in Sources /\ index \in Positions /\ IsSequence(body)
  BY DEF NodesInv, TypeOK
<1>2. Unit(source, NextIndex) # eol
  <2>1. source \in Source /\ index \in Within(source)
    BY <1>1, SyntaxParserAssumption DEF Source, Positions, Within
  <2> QED  BY <2>1, BlankBlockStops DEF NextIndex
<1>3. CASE UNCHANGED vars  BY <1>3 DEF vars, JunkInv
<1>4. CASE Start
  <2>1. /\ read = None /\ read' = None /\ index' = NextIndex
        /\ UNCHANGED <<source, body>>
    <3>1. index' = NextIndex /\ UNCHANGED <<source, read, body>>
      BY <1>4 DEF Start, NextIndex
    <3>2. read = None  BY <1>4 DEF Start, NodesInv
    <3> QED  BY <3>1, <3>2
  <2> QED  BY <1>2, <2>1 DEF JunkInv
<1>5. CASE GetEntryOrJunk
  <2>1. /\ read = None /\ pc \in {"parse", "parseEntry"}
        /\ Answered(EntryAt(source, index)) /\ UNCHANGED <<source, body>>
    BY <1>5 DEF GetEntryOrJunk
  <2>2. /\ "t" \in DOMAIN read'
    BY <1>1, <1>5, AnsweredIs
  <2>3. read' # None  BY <2>2, NodeIsThere
  <2>4. Local(source, read')
    <3>1. PICK answer : answer = EntryAt(source, index)  OBVIOUS
    <3>2. CASE ~Parsed(source, answer) /\ read' = Junk(answer)
      BY <1>1, <2>1, <3>1, <3>2, JunkIsLocal DEF JunkInv
    <3>3. CASE Parsed(source, answer) /\ read' = answer.val
      <4>1. index \in Within(source)  BY <1>1 DEF Positions, Within
      <4>2. Nodes(answer, index)
        BY <1>1, <3>1, <3>3, <4>1, AnswerIs DEF WithinSource, Parsed
      <4>3. read'.t # "junk"  BY <3>3, <4>2 DEF Nodes, CommentKinds, Commentables
      <4> QED  BY <4>3 DEF Local
    <3> QED  BY <2>1, <3>1, <3>2, <3>3 DEF Answered
  <2> QED  BY <2>1, <2>3, <2>4 DEF JunkInv
<1>6. CASE HoldBack
  BY <1>2, <1>6 DEF HoldBack, JunkInv
<1>7. CASE AddEntry
  <2>1. /\ read # None /\ body' = body \o Added /\ read' = None
        /\ index' = NextIndex /\ UNCHANGED source
    BY <1>7 DEF AddEntry, HasRead
  <2>2. IsSequence(Added)  BY <2>1, AddedIs
  <2>3. ASSUME NEW m \in DOMAIN Added PROVE Local(source, Added[m])
    <3> DEFINE merged == [read EXCEPT !.comment = lastComment, !.from = lastComment.from]
    <3>1. Local(source, read)  BY <2>1 DEF JunkInv
    <3>2. lastComment # None => Local(source, lastComment)
      BY DEF NodesInv, TypeOK, Local
    <3>3. Commentable => Local(source, merged)
      <4>1. "t" \in DOMAIN read  BY <2>1 DEF NodesInv, IsNode
      <4>2. merged.t = read.t  BY <4>1
      <4> HIDE DEF merged
      <4> QED  BY <4>2 DEF Commentable, Commentables, Local
    <3>4. \/ Added = <<read>>
          \/ Commentable /\ Added = <<merged>>
          \/ lastComment # None /\ Added = <<lastComment, read>>
      BY DEF Added
    <3> HIDE DEF merged
    <3>5. CASE Added = <<read>>
      <4>1. Added[m] = read  BY <3>5
      <4> QED  BY <3>1, <4>1
    <3>6. CASE Commentable /\ Added = <<merged>>
      <4>1. Added[m] = merged  BY <3>6
      <4> QED  BY <3>3, <3>6, <4>1
    <3>7. CASE lastComment # None /\ Added = <<lastComment, read>>
      <4>1. Added[m] = lastComment \/ Added[m] = read
        <5>1. m \in 1..2  BY <3>7
        <5>2. m = 1 \/ m = 2  BY <5>1
        <5> QED  BY <3>7, <5>2
      <4> QED  BY <3>1, <3>2, <3>7, <4>1
    <3> QED  BY <3>4, <3>5, <3>6, <3>7
  <2>4. ASSUME NEW n \in DOMAIN body' PROVE Local(source, body'[n])
    <3>1. \/ n \in DOMAIN body /\ body'[n] = body[n]
          \/ \E m \in DOMAIN Added : n = Len(body) + m /\ body'[n] = Added[m]
      BY <1>1, <2>1, <2>2, <2>4, ConcatElement
    <3> QED  BY <2>3, <3>1 DEF JunkInv
  <2> QED  BY <1>2, <2>1, <2>4 DEF JunkInv
<1>8. CASE EndOfSource  BY <1>8 DEF EndOfSource, JunkInv
<1>9. CASE SkipComment  BY <1>2, <1>9 DEF SkipComment, JunkInv
<1>10. CASE ReturnEntry
  <2>1. /\ read # None /\ body' = <<read>> /\ read' = None /\ pc' = "returned"
        /\ UNCHANGED source
    BY <1>10 DEF ReturnEntry, HasRead
  <2>2. \A n \in DOMAIN body' : body'[n] = read  BY <2>1
  <2> QED  BY <2>1, <2>2 DEF JunkInv
<1> QED  BY <1>3, <1>4, <1>5, <1>6, <1>7, <1>8, <1>9, <1>10 DEF Next

(* An error costs no more than its entry: if no line that an entry reads   *)
(* to its end before it fails is an entry itself, then no line of the junk *)
(* that recovery makes is one.                                             *)
THEOREM ErrorsStayLocal == LinesWhole => (Spec => []ErrorsAreLocal)
<1> SUFFICES ASSUME LinesWhole PROVE Spec => []ErrorsAreLocal  OBVIOUS
<1>1. JunkInv => ErrorsAreLocal  BY DEF JunkInv, ErrorsAreLocal, Local
<1> QED  BY InitNodes, NextNodes, InitJunk, NextJunk, <1>1, PTL DEF Spec

-----------------------------------------------------------------------------
(* What is read at a place of a source, and where reading goes on.         *)
JunkAt(s, i) ==
  LET answer == EntryAt(s, i)
      end    == SkipToNextEntryStart(s, i, answer.at) IN
  [t |-> "junk", content |-> SubSeq(s, i, end - 1),
   annotations |-> <<[code |-> IF answer.ok THEN "E0003" ELSE answer.val,
                      at |-> Least({answer.at, end})]>>,
   from |-> i, to |-> end]

ReadAt(s, i) == IF Parsed(s, EntryAt(s, i)) THEN EntryAt(s, i).val ELSE JunkAt(s, i)

EndAt(s, i) ==
  IF Parsed(s, EntryAt(s, i)) THEN LineEnd(s, EntryAt(s, i).at)
  ELSE SkipToNextEntryStart(s, i, EntryAt(s, i).at)

CommentAt(s, i) == ReadAt(s, i).t \in CommentKinds
NextAt(s, i) == BlankBlock(s, EndAt(s, i))

(* The places that one comes to from the beginning past comments only.     *)
Closed(s, P) == \A i \in P : CommentAt(s, i) => NextAt(s, i) \in P
Leads(s, i, j) == \A P \in SUBSET Within(s) : i \in P /\ Closed(s, P) => j \in P
Reached(s, i) == i \in Within(s) /\ Leads(s, BlankBlock(s, 1), i)

(* The node that is no comment and has only comments before it. *)
Answer(s, node) == \E i : Reached(s, i) /\ ~CommentAt(s, i) /\ node = ReadAt(s, i)

Same(entry, node) == IF entry.t = "junk" THEN node = entry ELSE WithoutComment(entry, node)

LEMMA ReadIs ==
  ASSUME NEW s \in Sources, NEW i \in Within(s)
  PROVE  /\ {"t", "from", "to"} \subseteq DOMAIN ReadAt(s, i)
         /\ ReadAt(s, i).from = i
         /\ ReadAt(s, i).t \in CommentKinds \cup Commentables \cup {"junk"}
         /\ ReadAt(s, i).t \in Commentables =>
              "comment" \in DOMAIN ReadAt(s, i) /\ ReadAt(s, i).comment = None
         /\ ReadAt(s, i).t # "junk" => (CommentAt(s, i) <=> Char(s, i) = "#")
         /\ EndAt(s, i) \in Within(s)
         /\ NextAt(s, i) \in Within(s)
<1>1. s \in Source /\ WithinSource(EntryAt(s, i), s, i)  BY AnswerIs
<1>2. Len(s) \in Nat /\ i \in 1..Len(s) + 1  BY <1>1, LenProperties DEF Source, Within
<1>3. EntryAt(s, i).at \in i..Len(s) + 1  BY <1>1 DEF WithinSource
<1>4. EndAt(s, i) \in Within(s)
  <2>1. EntryAt(s, i).at \in Within(s)  BY <1>2, <1>3 DEF Within
  <2>2. LineEnd(s, EntryAt(s, i).at) \in EntryAt(s, i).at..Len(s) + 1
    BY <1>1, <2>1, LineEndIs
  <2>3. SkipToNextEntryStart(s, i, EntryAt(s, i).at) \in i..Len(s) + 1
    BY <1>1, <1>3, SkipIs
  <2>4. EndAt(s, i) \in i..Len(s) + 1
    BY <1>2, <1>3, <2>2, <2>3 DEF EndAt
  <2> QED  BY <1>2, <2>4 DEF Within
<1>5. NextAt(s, i) \in Within(s)
  <2>1. NextAt(s, i) \in EndAt(s, i)..Len(s) + 1  BY <1>1, <1>4, BlankBlockIs DEF NextAt
  <2> QED  BY <1>2, <1>4, <2>1 DEF Within
<1>6. CASE Parsed(s, EntryAt(s, i))
  <2>1. ReadAt(s, i) = EntryAt(s, i).val  BY <1>6 DEF ReadAt
  <2>2. /\ Nodes(EntryAt(s, i), i)
        /\ EntryAt(s, i).val.t \in CommentKinds <=> Char(s, i) = "#"
    BY <1>1, <1>6 DEF WithinSource, Parsed
  <2> QED  BY <1>4, <1>5, <2>1, <2>2 DEF Nodes, CommentAt
<1>7. CASE ~Parsed(s, EntryAt(s, i))
  <2>1. ReadAt(s, i) = JunkAt(s, i)  BY <1>7 DEF ReadAt
  <2>2. /\ {"t", "from", "to"} \subseteq DOMAIN JunkAt(s, i)
        /\ JunkAt(s, i).from = i /\ JunkAt(s, i).t = "junk"
    BY DEF JunkAt
  <2> QED  BY <1>4, <1>5, <2>1, <2>2 DEF Commentables
<1> QED  BY <1>6, <1>7

LEMMA StartReached ==
  ASSUME NEW s \in Sources
  PROVE  Reached(s, BlankBlock(s, 1))
<1>1. s \in Source  BY SyntaxParserAssumption DEF Source
<1>2. Len(s) \in Nat  BY <1>1, LenProperties DEF Source
<1>3. 1 \in Within(s)  BY <1>2 DEF Within
<1>4. BlankBlock(s, 1) \in 1..Len(s) + 1  BY <1>1, <1>3, BlankBlockIs
<1> QED  BY <1>4 DEF Reached, Leads, Within

LEMMA NextReached ==
  ASSUME NEW s \in Sources, NEW i, Reached(s, i), CommentAt(s, i)
  PROVE  Reached(s, NextAt(s, i))
<1>1. i \in Within(s)  BY DEF Reached
<1>2. NextAt(s, i) \in Within(s)  BY <1>1, ReadIs
<1> QED  BY <1>2 DEF Reached, Leads, Closed

(* There is one such node: whoever passes comments only comes to it.       *)
LEMMA OneStop ==
  ASSUME NEW s \in Sources, NEW a, NEW b, Reached(s, a), Reached(s, b),
         ~CommentAt(s, a), ~CommentAt(s, b)
  PROVE  a = b
<1> DEFINE P == {j \in Within(s) : Leads(s, j, a)}
<1>1. a \in Within(s) /\ b \in Within(s)  BY DEF Reached
<1>2. BlankBlock(s, 1) \in P  BY StartReached DEF Reached
<1>3. Closed(s, P)
  <2> SUFFICES ASSUME NEW j \in P, CommentAt(s, j) PROVE NextAt(s, j) \in P
    BY DEF Closed
  <2>1. NextAt(s, j) \in Within(s)  BY ReadIs
  <2>2. Leads(s, NextAt(s, j), a)
    <3> SUFFICES ASSUME NEW Q \in SUBSET Within(s), NextAt(s, j) \in Q, Closed(s, Q)
                 PROVE  a \in Q
      BY DEF Leads
    <3>1. Q \cup {j} \in SUBSET Within(s) /\ j \in Q \cup {j}  OBVIOUS
    <3>2. Closed(s, Q \cup {j})  BY DEF Closed
    <3>3. Leads(s, j, a)  OBVIOUS
    <3>4. a \in Q \cup {j}  BY <3>1, <3>2, <3>3 DEF Leads
    <3>5. a # j  OBVIOUS
    <3> QED  BY <3>4, <3>5
  <2> QED  BY <2>1, <2>2
<1>4. b \in P
  <2>1. Leads(s, BlankBlock(s, 1), b)  BY DEF Reached
  <2>2. P \in SUBSET Within(s)  OBVIOUS
  <2> HIDE DEF P
  <2> QED  BY <1>2, <1>3, <2>1, <2>2 DEF Leads
<1>5. Leads(s, b, a)  BY <1>4
<1>6. Closed(s, {b})  BY DEF Closed
<1>7. a \in {b}  BY <1>1, <1>5, <1>6 DEF Leads
<1> QED  BY <1>7

LEMMA OneAnswer ==
  ASSUME NEW s \in Sources, NEW a, NEW b, Answer(s, a), Answer(s, b)
  PROVE  a = b
BY OneStop DEF Answer

(* At the end there is nothing but empty junk. *)
LEMMA ReadAtEnd ==
  ASSUME NEW s \in Sources, NEW i \in Within(s), Char(s, i) = eof
  PROVE  ReadAt(s, i).t = "junk" /\ ReadAt(s, i).content = << >>
<1>1. /\ s \in Source /\ WithinSource(EntryAt(s, i), s, i)
      /\ \A n \in DOMAIN s : s[n] # eof
  BY AnswerIs, SyntaxParserAssumption
<1>2. Len(s) \in Nat /\ i \in 1..Len(s) + 1 /\ DOMAIN s = 1..Len(s)
  BY <1>1, LenProperties DEF Source, Within
<1>3. i = Len(s) + 1
  <2>1. i \notin DOMAIN s
    <3>1. Char(s, i) = eol \/ Char(s, i) = Unit(s, i)  BY DEF Char
    <3> QED  BY <1>1, <3>1 DEF Unit, eof, eol
  <2> QED  BY <1>2, <2>1
<1>4. EntryAt(s, i).at \in i..Len(s) + 1  BY <1>1 DEF WithinSource
<1>5. ~Parsed(s, EntryAt(s, i))  BY <1>1, <1>2, <1>3 DEF WithinSource, Parsed
<1> DEFINE end == SkipToNextEntryStart(s, i, EntryAt(s, i).at)
<1>6. end \in i..Len(s) + 1  BY <1>1, <1>4, SkipIs
<1>7. ReadAt(s, i).t = "junk" /\ ReadAt(s, i).content = SubSeq(s, i, end - 1)
  BY <1>5 DEF ReadAt, JunkAt
<1> HIDE DEF end
<1>8. SubSeq(s, i, end - 1) = << >>
  <2>1. end - 1 = Len(s) /\ i > Len(s)  BY <1>2, <1>3, <1>6
  <2>2. s \in Seq(STRING)  BY <1>1 DEF Source
  <2> QED  BY <1>2, <1>3, <2>1, <2>2
<1> QED  BY <1>7, <1>8

(* The entries of a concatenation. *)
LEMMA EntriesConcat ==
  ASSUME NEW q, NEW r, IsSequence(q), IsSequence(r)
  PROVE  /\ Len(q) \in Nat
         /\ EntriesOf(q) \subseteq 1..Len(q)
         /\ EntriesOf(q \o r) = EntriesOf(q) \cup {Len(q) + k : k \in EntriesOf(r)}
         /\ \A n \in EntriesOf(q) : (q \o r)[n] = q[n]
         /\ \A k \in EntriesOf(r) : (q \o r)[Len(q) + k] = r[k]
<1> DEFINE a == q \o r
<1>1. /\ Len(q) \in Nat /\ DOMAIN q = 1..Len(q)
      /\ Len(r) \in Nat /\ DOMAIN r = 1..Len(r)
      /\ DOMAIN a = 1..Len(q) + Len(r)
      /\ \A n \in 1..Len(q) : a[n] = q[n]
      /\ \A n \in 1..Len(r) : a[Len(q) + n] = r[n]
  BY ConcatIs
<1>2. \A m \in DOMAIN a : m \in 1..Len(q) \/ \E n \in 1..Len(r) : m = Len(q) + n
  <2> SUFFICES ASSUME NEW m \in DOMAIN a, m \notin 1..Len(q)
               PROVE  \E n \in 1..Len(r) : m = Len(q) + n
    OBVIOUS
  <2>1. m - Len(q) \in 1..Len(r) /\ m = Len(q) + (m - Len(q))  BY <1>1
  <2> QED  BY <2>1
<1>3. \A n \in 1..Len(q) : n \in DOMAIN a  BY <1>1
<1>4. \A n \in 1..Len(r) : Len(q) + n \in DOMAIN a  BY <1>1
<1> HIDE DEF a
<1>5. EntriesOf(a) = EntriesOf(q) \cup {Len(q) + k : k \in EntriesOf(r)}
  BY <1>1, <1>2, <1>3, <1>4 DEF EntriesOf
<1> QED  BY <1>1, <1>5 DEF EntriesOf, a

(* The first entry stays the first. *)
LEMMA FirstKept ==
  ASSUME NEW q, NEW r, IsSequence(q), IsSequence(r), EntriesOf(q) # {}
  PROVE  /\ EntriesOf(q \o r) # {}
         /\ (q \o r)[Least(EntriesOf(q \o r))] = q[Least(EntriesOf(q))]
<1> DEFINE E == EntriesOf(q)
           A == EntriesOf(q \o r)
<1>1. /\ Len(q) \in Nat /\ E \subseteq 1..Len(q)
      /\ A = E \cup {Len(q) + k : k \in EntriesOf(r)}
      /\ \A n \in E : (q \o r)[n] = q[n]
  BY EntriesConcat
<1>2. EntriesOf(r) \subseteq Nat
  <2>1. Len(r) \in Nat /\ EntriesOf(r) \subseteq 1..Len(r)  BY EntriesConcat
  <2> QED  BY <2>1
<1> HIDE DEF E, A
<1>3. E \in SUBSET Nat /\ E # {} /\ A \in SUBSET Nat /\ A # {}
  BY <1>1, <1>2 DEF E
<1>4. Least(E) \in E /\ \A k \in E : Least(E) <= k  BY <1>3, LeastIs
<1>5. Least(A) \in A /\ \A k \in A : Least(A) <= k  BY <1>3, LeastIs
<1>6. Least(A) <= Least(E) /\ Least(E) \in 1..Len(q) /\ Least(A) \in Nat
  BY <1>1, <1>3, <1>4, <1>5
<1>7. Least(A) \in E
  <2> SUFFICES ASSUME Least(A) \notin E PROVE FALSE  OBVIOUS
  <2>1. PICK k \in EntriesOf(r) : Least(A) = Len(q) + k  BY <1>1, <1>5
  <2>2. k >= 1 /\ k \in Nat
    <3>1. Len(r) \in Nat /\ EntriesOf(r) \subseteq 1..Len(r)  BY EntriesConcat
    <3> QED  BY <3>1
  <2> QED  BY <1>1, <1>6, <2>1, <2>2
<1>8. Least(A) = Least(E)
  <2>1. Least(E) <= Least(A)  BY <1>4, <1>7
  <2> QED  BY <1>6, <2>1
<1> QED  BY <1>1, <1>3, <1>4, <1>8 DEF E, A

LEMMA FirstComes ==
  ASSUME NEW q, NEW r, IsSequence(q), IsSequence(r), EntriesOf(q) = {},
         NEW k, EntriesOf(r) = {k}
  PROVE  /\ EntriesOf(q \o r) # {}
         /\ (q \o r)[Least(EntriesOf(q \o r))] = r[k]
<1>1. /\ Len(q) \in Nat
      /\ EntriesOf(q \o r) = {Len(q) + k}
      /\ (q \o r)[Len(q) + k] = r[k]
  <2>1. /\ Len(q) \in Nat
        /\ EntriesOf(q \o r) = EntriesOf(q) \cup {Len(q) + n : n \in EntriesOf(r)}
        /\ \A n \in EntriesOf(r) : (q \o r)[Len(q) + n] = r[n]
    BY EntriesConcat, Zenon
  <2> QED  BY <2>1
<1>2. k \in Nat
  <2>1. Len(r) \in Nat /\ EntriesOf(r) \subseteq 1..Len(r)  BY EntriesConcat
  <2> QED  BY <2>1
<1>3. Least({Len(q) + k}) = Len(q) + k
  <2>1. {Len(q) + k} \in SUBSET Nat  BY <1>1, <1>2
  <2> QED  BY <2>1, LeastIs
<1> QED  BY <1>1, <1>3

(* Where the calls are: up to the answer there are only comments. *)
Passing ==
  /\ read = None => Reached(source, index)
  /\ read # None =>
       /\ Reached(source, read.from)
       /\ read = ReadAt(source, read.from)
       /\ index = EndAt(source, read.from)

TwiceInv ==
  /\ second \in {"no", "whole"}
  /\ second = "whole" => pc \in {"parse", "done"} /\ Answer(source, first[1])
  /\ pc = "start" => index = 1 /\ body = << >>
  /\ pc = "parseEntry" => Passing
  /\ pc = "returned" => Answer(source, body[1])
  /\ pc \in {"parse", "done"} =>
       /\ EntriesOf(body) = {} => Passing
       /\ EntriesOf(body) # {} =>
            \E node : Answer(source, node) /\ Same(body[Least(EntriesOf(body))], node)
  /\ pc = "done" => read = None /\ Char(source, index) = eof

LEMMA InitTwice == InitAll => NodesInv /\ TwiceInv
<1> SUFFICES ASSUME InitAll PROVE NodesInv /\ TwiceInv  OBVIOUS
<1>1. Init /\ second = "no"  BY DEF InitAll
<1>2. NodesInv  BY <1>1, InitNodes
<1> QED  BY <1>1, <1>2 DEF Init, TwiceInv

(* Reading at the cursor, and going on behind a comment. *)
LEMMA ReadsAt ==
  ASSUME NodesInv, Passing, GetEntryOrJunk
  PROVE  Passing'
<1>1. source \in Sources /\ index \in Within(source)
  BY DEF NodesInv, TypeOK, Positions, Within
<1>2. /\ read = None /\ Answered(EntryAt(source, index)) /\ source' = source
  BY DEF GetEntryOrJunk
<1>3. Reached(source, index)  BY <1>2 DEF Passing
<1>4. read' = ReadAt(source, index) /\ index' = EndAt(source, index)
  <2>1. Junk(EntryAt(source, index)) = JunkAt(source, index)
    BY DEF Junk, JunkAt, JunkEnd
  <2> QED  BY <1>2, <2>1 DEF Answered, ReadAt, EndAt, JunkEnd
<1>5. "t" \in DOMAIN read' /\ read'.from = index  BY <1>1, <1>4, ReadIs
<1>6. read' # None  BY <1>5, NodeIsThere
<1> QED  BY <1>2, <1>3, <1>4, <1>5, <1>6 DEF Passing

LEMMA PassesComment ==
  ASSUME NodesInv, Passing, read # None, CommentAt(source, read.from),
         UNCHANGED source, index' = NextIndex, read' = None
  PROVE  Passing'
<1>1. /\ source \in Sources /\ Reached(source, read.from)
      /\ index = EndAt(source, read.from)
  BY DEF NodesInv, Passing
<1>2. Reached(source, NextAt(source, read.from))  BY <1>1, NextReached
<1>3. index' = NextAt(source, read.from)  BY <1>1 DEF NextIndex, NextAt
<1> QED  BY <1>2, <1>3 DEF Passing

LEMMA ReadNode ==
  ASSUME NodesInv, Passing, read # None
  PROVE  /\ read.t \in CommentKinds <=> CommentAt(source, read.from)
         /\ read.t # "junk" => (CommentAt(source, read.from) <=> Char(source, read.from) = "#")
         /\ read.t \in CommentKinds \cup Commentables \cup {"junk"}
         /\ {"t", "from", "to"} \subseteq DOMAIN read
         /\ read.t \in Commentables => "comment" \in DOMAIN read /\ read.comment = None
         /\ ~CommentAt(source, read.from) => Answer(source, read)
<1>1. source \in Sources /\ Reached(source, read.from) /\ read = ReadAt(source, read.from)
  BY DEF NodesInv, Passing
<1>2. read.from \in Within(source)  BY <1>1 DEF Reached
<1>3. PICK i \in Within(source) : i = read.from  BY <1>2
<1>4. read = ReadAt(source, i)  BY <1>1, <1>3
<1>5. /\ {"t", "from", "to"} \subseteq DOMAIN read
      /\ read.t \in CommentKinds \cup Commentables \cup {"junk"}
      /\ read.t \in Commentables => "comment" \in DOMAIN read /\ read.comment = None
      /\ read.t # "junk" => (CommentAt(source, i) <=> Char(source, i) = "#")
  BY <1>1, <1>4, ReadIs
<1>6. read.t \in CommentKinds <=> CommentAt(source, i)  BY <1>4 DEF CommentAt
<1>7. ~CommentAt(source, i) => Answer(source, read)  BY <1>1, <1>3, <1>4 DEF Answer
<1> QED  BY <1>3, <1>5, <1>6, <1>7

(* The first entry that comes into the body is the answer. *)
LEMMA FirstAdded ==
  ASSUME NodesInv, Passing, read # None
  PROVE  /\ CommentAt(source, read.from) => EntriesOf(Added) = {}
         /\ ~CommentAt(source, read.from) =>
              \E k : EntriesOf(Added) = {k} /\ Same(Added[k], read)
<1> DEFINE merged == [read EXCEPT !.comment = lastComment, !.from = lastComment.from]
<1>1. /\ read.t \in CommentKinds <=> CommentAt(source, read.from)
      /\ read.t \in CommentKinds \cup Commentables \cup {"junk"}
      /\ {"t", "from", "to"} \subseteq DOMAIN read
      /\ read.t \in Commentables => "comment" \in DOMAIN read /\ read.comment = None
  BY ReadNode
<1>2. lastComment # None => lastComment.t \in CommentKinds
  BY DEF NodesInv, TypeOK, CommentKinds
<1>3. CommentKinds \cap (Commentables \cup {"junk"}) = {} /\ "junk" \notin Commentables
  BY DEF CommentKinds, Commentables
<1>4. read.t \notin CommentKinds => Same(read, read)
  BY <1>1 DEF Same, WithoutComment
<1>5. CASE lastComment = None
  <2>1. Added = <<read>>  BY <1>5 DEF Added
  <2>2. DOMAIN Added = {1} /\ Added[1] = read
    <3>1. DOMAIN <<read>> = {1} /\ <<read>>[1] = read  OBVIOUS
    <3> QED  BY <2>1, <3>1
  <2> QED  BY <1>1, <1>4, <2>2 DEF EntriesOf
<1>6. CASE lastComment # None /\ Commentable
  <2>1. Added = <<merged>>  BY <1>6 DEF Added
  <2>2. read.t \in Commentables  BY <1>6 DEF Commentable
  <2>3. merged.t = read.t /\ DOMAIN read = DOMAIN merged  BY <1>1
  <2>4. \A field \in DOMAIN merged \ {"comment", "from"} : read[field] = merged[field]
    OBVIOUS
  <2> HIDE DEF merged
  <2>5. Same(merged, read)  BY <1>1, <1>3, <2>2, <2>3, <2>4 DEF Same, WithoutComment
  <2>6. DOMAIN Added = {1} /\ Added[1] = merged
    <3>1. DOMAIN <<merged>> = {1} /\ <<merged>>[1] = merged  OBVIOUS
    <3> QED  BY <2>1, <3>1
  <2>7. merged.t \notin CommentKinds  BY <1>3, <2>2, <2>3
  <2>8. EntriesOf(Added) = {1}  BY <2>6, <2>7 DEF EntriesOf
  <2> QED  BY <1>1, <1>3, <2>2, <2>5, <2>6, <2>8
<1>7. CASE lastComment # None /\ ~Commentable
  <2>1. Added = <<lastComment, read>>  BY <1>7 DEF Added
  <2>2. DOMAIN Added = {1, 2} /\ Added[1] = lastComment /\ Added[2] = read
    <3>1. DOMAIN Added = 1..2  BY <2>1
    <3> QED  BY <2>1, <3>1
  <2> QED  BY <1>1, <1>2, <1>4, <1>7, <2>2 DEF EntriesOf
<1> QED  BY <1>5, <1>6, <1>7

LEMMA NextTwiceNodes == NodesInv /\ [NextTwice]_varsAll => NodesInv'
<1> SUFFICES ASSUME NodesInv, [NextTwice]_varsAll PROVE NodesInv'  OBVIOUS
<1>1. CASE [Next]_vars  BY <1>1, NextNodes
<1>2. CASE ParseWhole
  <2>1. /\ source' = source /\ index' = BlankBlock(source, 1) /\ read' = None
        /\ body' = << >> /\ lastComment' = None /\ pc' = "parse"
    BY <1>2 DEF ParseWhole, Again
  <2>2. source \in Sources /\ source \in Seq(STRING)  BY DEF NodesInv, TypeOK
  <2>3. index' \in Positions'
    <3>1. BlankBlock(source, 1) \in Within(source)  BY <2>2, StartReached DEF Reached
    <3> QED  BY <2>1, <3>1 DEF Positions, Within
  <2>4. IsSequence(body') /\ DOMAIN body' = {}
    <3>1. << >> \in Seq({})  OBVIOUS
    <3> QED  BY <2>1, <3>1 DEF IsSequence
  <2> QED  BY <2>1, <2>2, <2>3, <2>4 DEF NodesInv, TypeOK
<1> QED  BY <1>1, <1>2 DEF NextTwice, varsAll, vars

LEMMA NextTwiceInv == NodesInv /\ TwiceInv /\ [NextTwice]_varsAll => TwiceInv'
<1> SUFFICES ASSUME NodesInv, TwiceInv, [NextTwice]_varsAll PROVE TwiceInv'  OBVIOUS
<1>1. source \in Sources /\ index \in Positions /\ IsSequence(body)
  BY DEF NodesInv, TypeOK
<1>2. EntriesOf(<< >>) = {}  BY DEF EntriesOf
<1>3. CASE UNCHANGED varsAll  BY <1>3 DEF varsAll, vars, TwiceInv, Passing
<1>4. CASE ParseWhole
  <2>1. /\ pc = "returned" /\ first' = body /\ second' = "whole" /\ source' = source
        /\ index' = BlankBlock(source, 1) /\ read' = None /\ body' = << >> /\ pc' = "parse"
    BY <1>4 DEF ParseWhole, Again
  <2>2. Passing'  BY <1>1, <2>1, StartReached DEF Passing
  <2>3. Answer(source', first'[1])  BY <2>1 DEF TwiceInv
  <2> QED  BY <1>2, <2>1, <2>2, <2>3 DEF TwiceInv
<1>5. CASE Start /\ UNCHANGED <<first, second>>
  <2>1. /\ pc = "start" /\ index' = BlankBlock(source, index) /\ pc' \in {"parse", "parseEntry"}
        /\ UNCHANGED <<source, read, body, lastComment, first, second>>
    BY <1>5 DEF Start
  <2>2. index = 1 /\ body = << >> /\ read = None /\ second = "no"
    BY <2>1 DEF TwiceInv, NodesInv
  <2>3. Passing'  BY <1>1, <2>1, <2>2, StartReached DEF Passing
  <2> QED  BY <1>2, <2>1, <2>2, <2>3 DEF TwiceInv
<1>6. CASE GetEntryOrJunk /\ UNCHANGED <<first, second>>
  <2>1. /\ read = None /\ pc \in {"parse", "parseEntry"}
        /\ UNCHANGED <<source, body, lastComment, pc, first, second>>
    BY <1>6 DEF GetEntryOrJunk
  <2>2. Passing => Passing'  BY <1>6, ReadsAt
  <2> QED  BY <2>1, <2>2 DEF TwiceInv
<1>7. CASE HoldBack /\ UNCHANGED <<first, second>>
  <2>1. /\ pc = "parse" /\ read # None /\ read.t = "comment"
        /\ read' = None /\ index' = NextIndex
        /\ UNCHANGED <<source, body, pc, first, second>>
    BY <1>7 DEF HoldBack, HasRead, HeldBack
  <2>2. Passing => Passing'
    <3> SUFFICES ASSUME Passing PROVE Passing'  OBVIOUS
    <3>1. CommentAt(source, read.from)  BY <2>1, ReadNode DEF CommentKinds
    <3> QED  BY <2>1, <3>1, PassesComment
  <2> QED  BY <2>1, <2>2 DEF TwiceInv
<1>8. CASE AddEntry /\ UNCHANGED <<first, second>>
  <2>1. /\ pc = "parse" /\ read # None /\ body' = body \o Added
        /\ read' = None /\ index' = NextIndex
        /\ UNCHANGED <<source, pc, first, second>>
    BY <1>8 DEF AddEntry, HasRead
  <2>2. IsSequence(Added)  BY <2>1, AddedIs
  <2>3. /\ EntriesOf(body') = {} => Passing'
        /\ EntriesOf(body') # {} =>
             \E node : Answer(source, node) /\ Same(body'[Least(EntriesOf(body'))], node)
    <3>1. CASE EntriesOf(body) # {}
      <4>1. PICK node : Answer(source, node) /\ Same(body[Least(EntriesOf(body))], node)
        BY <2>1, <3>1 DEF TwiceInv
      <4>2. /\ EntriesOf(body') # {}
            /\ body'[Least(EntriesOf(body'))] = body[Least(EntriesOf(body))]
        BY <1>1, <2>1, <2>2, <3>1, FirstKept
      <4> QED  BY <4>1, <4>2
    <3>2. CASE EntriesOf(body) = {} /\ CommentAt(source, read.from)
      <4>1. Passing  BY <2>1, <3>2 DEF TwiceInv
      <4>2. EntriesOf(Added) = {}  BY <2>1, <3>2, <4>1, FirstAdded
      <4>3. EntriesOf(body') = {}
        <5>1. EntriesOf(body \o Added) =
                EntriesOf(body) \cup {Len(body) + k : k \in EntriesOf(Added)}
          BY <1>1, <2>2, EntriesConcat
        <5> QED  BY <2>1, <3>2, <4>2, <5>1
      <4>4. Passing'  BY <2>1, <3>2, <4>1, PassesComment
      <4> QED  BY <4>3, <4>4
    <3>3. CASE EntriesOf(body) = {} /\ ~CommentAt(source, read.from)
      <4>1. Passing  BY <2>1, <3>3 DEF TwiceInv
      <4>2. PICK k : EntriesOf(Added) = {k} /\ Same(Added[k], read)
        BY <2>1, <3>3, <4>1, FirstAdded
      <4>3. /\ EntriesOf(body') # {}
            /\ body'[Least(EntriesOf(body'))] = Added[k]
        BY <1>1, <2>1, <2>2, <3>3, <4>2, FirstComes
      <4>4. Answer(source, read)  BY <2>1, <3>3, <4>1, ReadNode
      <4> QED  BY <4>2, <4>3, <4>4
    <3> QED  BY <3>1, <3>2, <3>3
  <2> QED  BY <2>1, <2>3 DEF TwiceInv
<1>9. CASE EndOfSource /\ UNCHANGED <<first, second>>
  BY <1>9 DEF EndOfSource, TwiceInv, Passing
<1>10. CASE SkipComment /\ UNCHANGED <<first, second>>
  <2>1. /\ pc = "parseEntry" /\ read # None /\ Char(source, read.from) = "#"
        /\ read.t # "junk" /\ read' = None /\ index' = NextIndex
        /\ UNCHANGED <<source, body, lastComment, pc, first, second>>
    BY <1>10 DEF SkipComment, HasRead
  <2>2. Passing  BY <2>1 DEF TwiceInv
  <2>3. CommentAt(source, read.from)  BY <2>1, <2>2, ReadNode
  <2>4. Passing'  BY <2>1, <2>2, <2>3, PassesComment
  <2> QED  BY <2>1, <2>4 DEF TwiceInv
<1>11. CASE ReturnEntry /\ UNCHANGED <<first, second>>
  <2>1. /\ pc = "parseEntry" /\ read # None
        /\ Char(source, read.from) = "#" => read.t = "junk"
        /\ body' = <<read>> /\ pc' = "returned" /\ UNCHANGED <<source, first, second>>
    BY <1>11 DEF ReturnEntry, HasRead
  <2>2. Passing /\ second = "no"  BY <2>1 DEF TwiceInv
  <2>3. ~CommentAt(source, read.from)
    <3>1. read.t \in CommentKinds => read.t # "junk"  BY DEF CommentKinds
    <3> QED  BY <2>1, <2>2, <3>1, ReadNode
  <2>4. Answer(source, read)  BY <2>1, <2>2, <2>3, ReadNode
  <2>5. Answer(source', body'[1])  BY <2>1, <2>4
  <2> QED  BY <2>1, <2>2, <2>5 DEF TwiceInv
<1> QED
  BY <1>3, <1>4, <1>5, <1>6, <1>7, <1>8, <1>9, <1>10, <1>11 DEF NextTwice, Next

(* ParseEntry answers the first entry of Parse that is not a comment,      *)
(* without the comment Parse attaches to it: the two skip comments in      *)
(* loops of their own, but come to the same place.                         *)
THEOREM SameEntry == SpecTwice => []EntryIsFirst
<1>1. NodesInv /\ TwiceInv => EntryIsFirst
  <2> SUFFICES ASSUME NodesInv, TwiceInv, pc = "done", second = "whole"
               PROVE  IF EntriesOf(body) = {}
                      THEN first[1].t = "junk" /\ first[1].content = << >>
                      ELSE Same(body[Least(EntriesOf(body))], first[1])
    BY DEF EntryIsFirst, Same
  <2>1. /\ source \in Sources /\ Answer(source, first[1])
        /\ read = None /\ Char(source, index) = eof
    BY DEF TwiceInv, NodesInv
  <2>2. CASE EntriesOf(body) = {}
    <3>1. Reached(source, index)  BY <2>1, <2>2 DEF TwiceInv, Passing
    <3>2. index \in Within(source)  BY <3>1 DEF Reached
    <3>3. ReadAt(source, index).t = "junk" /\ ReadAt(source, index).content = << >>
      BY <2>1, <3>2, ReadAtEnd
    <3>4. ~CommentAt(source, index)  BY <3>3 DEF CommentAt, CommentKinds
    <3>5. Answer(source, ReadAt(source, index))  BY <3>1, <3>4 DEF Answer
    <3>6. first[1] = ReadAt(source, index)  BY <2>1, <3>5, OneAnswer
    <3> QED  BY <2>2, <3>3, <3>6
  <2>3. CASE EntriesOf(body) # {}
    <3>1. PICK node : Answer(source, node) /\ Same(body[Least(EntriesOf(body))], node)
      BY <2>3 DEF TwiceInv
    <3>2. first[1] = node  BY <2>1, <3>1, OneAnswer
    <3> QED  BY <2>3, <3>1, <3>2
  <2> QED  BY <2>2, <2>3
<1> QED  BY InitTwice, NextTwiceNodes, NextTwiceInv, <1>1, PTL DEF SpecTwice
=============================================================================
