---------------------------- MODULE StreamProofs ----------------------------
(* Where the cursor movements that Parse makes between two entries end,    *)
(* and what they go past.                                                  *)
EXTENDS Stream, NaturalsInduction, WellFoundedInduction, SequenceTheorems, TLAPS

Source == Seq(STRING)
Within(s) == 1..Len(s) + 1
BlankChar == {" ", "\n", "\r"}

LEMMA LeastIs ==
  ASSUME NEW S \in SUBSET Nat, S # {}
  PROVE  Least(S) \in S /\ \A k \in S : Least(S) <= k
<1> DEFINE R == {ss \in Nat \X Nat : ss[1] < ss[2]}
<1>1. IsWellFoundedOn(R, Nat)  BY NatLessThanWellFounded, Zenon DEF OpToRel
<1>2. PICK j \in S : \A k \in S : ~(<<k, j>> \in R)  BY <1>1, WFMin
<1>3. ASSUME NEW k \in S PROVE j <= k
  <2>1. ~(k < j)  BY <1>2
  <2> QED  BY <2>1
<1> QED  BY <1>3 DEF Least

LEMMA GreatestIs ==
  ASSUME NEW n \in Nat, NEW S \in SUBSET (0..n), S # {}
  PROVE  Greatest(S) \in S /\ \A k \in S : k <= Greatest(S)
<1> DEFINE T == {n - k : k \in S}
<1>1. T \in SUBSET Nat /\ T # {}  OBVIOUS
<1>2. Least(T) \in T /\ \A k \in T : Least(T) <= k  BY <1>1, LeastIs
<1>3. PICK j \in S : Least(T) = n - j  BY <1>2
<1>4. ASSUME NEW k \in S PROVE k <= j
  <2>1. n - k \in T  OBVIOUS
  <2>2. n - j <= n - k  BY <1>2, <1>3, <2>1
  <2> QED  BY <2>2
<1> QED  BY <1>4 DEF Greatest

(* There is a character only inside the source, and a line end is made of  *)
(* characters that are blank.                                              *)
LEMMA CharIs ==
  ASSUME NEW s \in Source, NEW i \in Nat, i >= 1
  PROVE  /\ Char(s, i) # eof => i \in 1..Len(s)
         /\ Char(s, i) \in {" ", eol} => s[i] \in BlankChar
         /\ Char(s, i) = eol => After(s, i) \in i + 1..Len(s) + 1
         /\ \A k \in i..After(s, i) - 1 : Char(s, i) = eol => s[k] \in BlankChar
<1>1. Len(s) \in Nat /\ DOMAIN s = 1..Len(s)  BY LenProperties DEF Source
<1>2. \A j \in Nat : j >= 1 /\ Unit(s, j) # "" => j \in 1..Len(s) /\ Unit(s, j) = s[j]
  BY <1>1 DEF Unit, eof
<1>3. CASE Unit(s, i) = "\r" /\ Unit(s, i + 1) = "\n"
  <2>1. Char(s, i) = "\n" /\ After(s, i) = i + 2  BY <1>3 DEF Char, After, eol
  <2>2. i \in 1..Len(s) /\ s[i] = "\r"
    <3>1. Unit(s, i) # ""  BY <1>3
    <3> QED  BY <1>2, <1>3, <3>1
  <2>3. i + 1 \in 1..Len(s) /\ s[i + 1] = "\n"
    <3>1. Unit(s, i + 1) # ""  BY <1>3
    <3>2. i + 1 \in Nat /\ i + 1 >= 1  OBVIOUS
    <3> QED  BY <1>2, <1>3, <3>1, <3>2
  <2>4. \A k \in i..After(s, i) - 1 : s[k] \in BlankChar
    <3>1. ASSUME NEW k \in i..After(s, i) - 1 PROVE k = i \/ k = i + 1  BY <2>1
    <3> QED  BY <2>2, <2>3, <3>1 DEF BlankChar
  <2>5. After(s, i) \in i + 1..Len(s) + 1  BY <1>1, <2>1, <2>3
  <2>6. s[i] \in BlankChar  BY <2>2 DEF BlankChar
  <2> QED  BY <2>2, <2>4, <2>5, <2>6
<1>4. CASE ~(Unit(s, i) = "\r" /\ Unit(s, i + 1) = "\n")
  <2>1. Char(s, i) = Unit(s, i) /\ After(s, i) = i + 1  BY <1>4 DEF Char, After, eol
  <2>2. Char(s, i) # eof => i \in 1..Len(s) /\ s[i] = Char(s, i)
    BY <1>2, <2>1 DEF eof
  <2>3. Char(s, i) \in {" ", eol} => s[i] \in BlankChar
    BY <2>2 DEF eof, eol, BlankChar
  <2>4. \A k \in i..After(s, i) - 1 : k = i  BY <2>1
  <2>5. Char(s, i) = eol => Char(s, i) # eof  BY DEF eof, eol
  <2>6. Char(s, i) = eol => After(s, i) \in i + 1..Len(s) + 1  BY <1>1, <2>1, <2>2, <2>5
  <2> QED  BY <2>2, <2>3, <2>4, <2>6
<1> QED  BY <1>3, <1>4

LEMMA PastIs ==
  ASSUME NEW s \in Source, NEW i \in Within(s), NEW C, eof \notin C
  PROVE  /\ Past(s, i, C) \in i..Len(s) + 1
         /\ Char(s, Past(s, i, C)) \notin C
         /\ \A k \in i..Past(s, i, C) - 1 : Char(s, k) \in C
<1> DEFINE S == {j \in i..Len(s) + 1 : Char(s, j) \notin C}
<1>1. Len(s) \in Nat  BY LenProperties DEF Source
<1>2. Len(s) + 1 \in S
  <2>1. Len(s) + 1 \in Nat /\ Len(s) + 1 >= 1 /\ Len(s) + 1 \notin 1..Len(s)  BY <1>1
  <2>2. Char(s, Len(s) + 1) = eof  BY <2>1, CharIs
  <2> QED  BY <1>1, <2>2 DEF Within
<1>3. S \in SUBSET Nat /\ S # {}  BY <1>1, <1>2 DEF Within
<1>4. Least(S) \in S /\ \A k \in S : Least(S) <= k  BY <1>3, LeastIs
<1>5. Past(s, i, C) = Least(S)  BY DEF Past
<1>6. ASSUME NEW k \in i..Least(S) - 1 PROVE Char(s, k) \in C
  <2>1. k \in i..Len(s) + 1 /\ ~(Least(S) <= k)  BY <1>1, <1>4 DEF Within
  <2> QED  BY <1>4, <2>1
<1> QED  BY <1>4, <1>5, <1>6

LEMMA BlankIs ==
  ASSUME NEW s \in Source, NEW i \in Within(s)
  PROVE  /\ Blank(s, i) \in i..Len(s) + 1
         /\ \A k \in i..Blank(s, i) - 1 : s[k] \in BlankChar
<1>1. eof \notin {" ", eol}  BY DEF eof, eol
<1>2. /\ Blank(s, i) \in i..Len(s) + 1
      /\ \A k \in i..Blank(s, i) - 1 : Char(s, k) \in {" ", eol}
  BY <1>1, PastIs DEF Blank
<1>3. ASSUME NEW k \in i..Blank(s, i) - 1 PROVE s[k] \in BlankChar
  <2>1. Len(s) \in Nat  BY LenProperties DEF Source
  <2>2. i \in Nat /\ i >= 1  BY <2>1 DEF Within
  <2>3. k \in Nat /\ k >= 1
    <3>1. Blank(s, i) \in i..Len(s) + 1  BY <1>2
    <3>2. Blank(s, i) \in Nat  BY <2>1, <2>2, <3>1
    <3> QED  BY <2>2, <3>2
  <2> QED  BY <1>2, <2>3, CharIs
<1> QED  BY <1>2, <1>3

(* skipBlankBlock goes past nothing but blanks. *)
LEMMA BlankBlockIs ==
  ASSUME NEW s \in Source, NEW i \in Within(s)
  PROVE  /\ BlankBlock(s, i) \in i..Len(s) + 1
         /\ \A k \in i..BlankBlock(s, i) - 1 : s[k] \in BlankChar
<1> DEFINE next == Blank(s, i)
           S == {i} \cup {j + 1 : j \in {k \in i..next - 1 : s[k] = eol}}
<1>1. Len(s) \in Nat  BY LenProperties DEF Source
<1>2. next \in i..Len(s) + 1 /\ \A k \in i..next - 1 : s[k] \in BlankChar  BY BlankIs
<1> HIDE DEF next
<1>3. S \in SUBSET (0..next) /\ S # {} /\ next \in Nat  BY <1>1, <1>2 DEF Within
<1>4. Greatest(S) \in S /\ \A k \in S : k <= Greatest(S)  BY <1>3, GreatestIs
<1>5. i \in S  OBVIOUS
<1>6. Greatest(S) \in i..next  BY <1>1, <1>2, <1>3, <1>4, <1>5 DEF Within
<1>7. BlankBlock(s, i) \in i..next
  <2>1. BlankBlock(s, i) = IF Char(s, next) = eof THEN next ELSE Greatest(S)
    BY DEF BlankBlock, next
  <2> QED  BY <1>1, <1>2, <1>6, <2>1 DEF Within
<1> QED  BY <1>1, <1>2, <1>7 DEF Within

(* expectLineEnd takes blanks only. *)
LEMMA LineEndIs ==
  ASSUME NEW s \in Source, NEW i \in Within(s)
  PROVE  /\ LineEnd(s, i) \in i..Len(s) + 1
         /\ \A k \in i..LineEnd(s, i) - 1 : s[k] \in BlankChar
<1>1. Len(s) \in Nat /\ i \in Nat /\ i >= 1  BY LenProperties DEF Source, Within
<1>2. CASE Char(s, i) = eol
  <2>1. LineEnd(s, i) = After(s, i)  BY <1>2 DEF LineEnd
  <2>2. After(s, i) \in i + 1..Len(s) + 1  BY <1>1, <1>2, CharIs
  <2>3. \A k \in i..After(s, i) - 1 : s[k] \in BlankChar  BY <1>1, <1>2, CharIs
  <2> QED  BY <1>1, <2>1, <2>2, <2>3
<1>3. CASE Char(s, i) # eol  BY <1>1, <1>3 DEF LineEnd, Within
<1> QED  BY <1>2, <1>3

(* skipToNextEntryStart goes back, but always ends behind the beginning of *)
(* the junk.                                                               *)
LEMMA SkipIs ==
  ASSUME NEW s \in Source, NEW start \in Within(s), NEW i \in start..Len(s) + 1
  PROVE  /\ SkipToNextEntryStart(s, start, i) \in start..Len(s) + 1
         /\ Char(s, start) # eof => SkipToNextEntryStart(s, start, i) > start
<1> DEFINE ends == {j \in 1..i : Unit(s, j) = eol}
           from == IF \E j \in ends : start < j THEN Greatest(ends) ELSE i
           T == {j \in from + 1..Len(s) : s[j - 1] = eol /\ s[j] \in EntryStart}
                  \cup {Len(s) + 1}
<1>1. Len(s) \in Nat /\ DOMAIN s = 1..Len(s)  BY LenProperties DEF Source
<1>2. start \in 1..Len(s) + 1 /\ i \in Nat  BY <1>1 DEF Within
<1>3. from \in Nat /\ from >= start
  <2>1. CASE \E j \in ends : start < j
    <3>1. ends \in SUBSET (0..i) /\ ends # {}  BY <1>2, <2>1
    <3>2. Greatest(ends) \in ends /\ \A k \in ends : k <= Greatest(ends)
      BY <1>2, <3>1, GreatestIs
    <3>3. PICK j \in ends : start < j  BY <2>1
    <3>4. j <= Greatest(ends) /\ j \in Nat /\ Greatest(ends) \in Nat  BY <1>2, <3>2, <3>3
    <3>5. from = Greatest(ends)  BY <2>1
    <3> QED  BY <1>2, <3>3, <3>4, <3>5
  <2>2. CASE ~\E j \in ends : start < j  BY <1>2, <2>2
  <2> QED  BY <2>1, <2>2
<1> HIDE DEF from
<1>4. T \in SUBSET Nat /\ T # {}  BY <1>1, <1>3
<1>5. Least(T) \in T  BY <1>4, LeastIs
<1>6. SkipToNextEntryStart(s, start, i) = Least(T)  BY DEF SkipToNextEntryStart, from
<1>7. Char(s, start) # eof => start <= Len(s)
  <2>1. start \in Nat /\ start >= 1  BY <1>1, <1>2
  <2>2. Char(s, start) # eof => start \in 1..Len(s)  BY <2>1, CharIs
  <2> QED  BY <1>1, <2>2
<1> QED  BY <1>1, <1>2, <1>3, <1>5, <1>6, <1>7

(* Where skipBlankBlock stops there is no line end. *)
LEMMA BlankBlockStops ==
  ASSUME NEW s \in Source, NEW i \in Within(s)
  PROVE  Unit(s, BlankBlock(s, i)) # eol
<1> DEFINE next == Blank(s, i)
           S == {i} \cup {j + 1 : j \in {k \in i..next - 1 : s[k] = eol}}
<1>1. Len(s) \in Nat /\ DOMAIN s = 1..Len(s) /\ i \in 1..Len(s) + 1
  BY LenProperties DEF Source, Within
<1>2. next \in i..Len(s) + 1  BY BlankIs
<1>3. Char(s, next) # eol
  <2>1. eof \notin {" ", eol}  BY DEF eof, eol
  <2>2. Char(s, Past(s, i, {" ", eol})) \notin {" ", eol}  BY <2>1, PastIs
  <2> QED  BY <2>2 DEF Blank, next
<1>4. Unit(s, next) # eol  BY <1>3 DEF Char, eol
<1> HIDE DEF next
<1>5. S \in SUBSET (0..next) /\ S # {} /\ next \in Nat  BY <1>1, <1>2
<1>6. Greatest(S) \in S /\ \A k \in S : k <= Greatest(S)  BY <1>5, GreatestIs
<1>7. Unit(s, Greatest(S)) # eol
  <2> SUFFICES ASSUME Unit(s, Greatest(S)) = eol PROVE FALSE  OBVIOUS
  <2> DEFINE g == Greatest(S)
  <2>1. g \in i..next
    <3>1. i \in S  OBVIOUS
    <3>2. g \in 0..next /\ i <= g  BY <1>5, <1>6, <3>1
    <3> QED  BY <1>1, <3>2
  <2>2. g # next  BY <1>4
  <2>3. s[g] = eol  BY DEF Unit, eof, eol
  <2>4. g + 1 \in S /\ g \in Nat
    <3>1. g \in {k \in i..next - 1 : s[k] = eol}  BY <1>1, <1>5, <2>1, <2>2, <2>3
    <3> HIDE DEF g
    <3> QED  BY <1>1, <2>1, <3>1
  <2>5. g + 1 <= g  BY <1>6, <2>4
  <2> HIDE DEF g
  <2> QED  BY <2>4, <2>5
<1>8. BlankBlock(s, i) = IF Char(s, next) = eof THEN next ELSE Greatest(S)
  BY DEF BlankBlock, next
<1> QED  BY <1>4, <1>7, <1>8

(* Recovery goes past no line that starts like an entry, except for those  *)
(* that the failed entry has read to their end.                            *)
LEMMA SkippedLines ==
  ASSUME NEW s \in Source, NEW start \in Within(s), NEW i \in start..Len(s) + 1,
         Unit(s, start) # eol,
         NEW j \in start + 1..SkipToNextEntryStart(s, start, i) - 1, s[j - 1] = eol
  PROVE  /\ start \in 1..Len(s)
         /\ \/ Char(s, j) \notin EntryStart
            \/ j \in start + 1..i /\ \E k \in j..i : Unit(s, k) = eol
<1> DEFINE ends == {l \in 1..i : Unit(s, l) = eol}
           from == IF \E l \in ends : start < l THEN Greatest(ends) ELSE i
           T == {l \in from + 1..Len(s) : s[l - 1] = eol /\ s[l] \in EntryStart}
                  \cup {Len(s) + 1}
           to == SkipToNextEntryStart(s, start, i)
<1>1. Len(s) \in Nat /\ DOMAIN s = 1..Len(s)  BY LenProperties DEF Source
<1>2. start \in 1..Len(s) + 1 /\ i \in Nat  BY <1>1 DEF Within
<1>3. to \in start..Len(s) + 1  BY SkipIs
<1>4. to = Least(T)  BY DEF SkipToNextEntryStart
<1> HIDE DEF to
<1>5. j \in start + 1..Len(s) /\ j < to  BY <1>1, <1>2, <1>3 DEF to
<1>6. start \in 1..Len(s)  BY <1>1, <1>2, <1>5
<1>7. \/ /\ from \in start + 1..i
         /\ Unit(s, from) = eol
      \/ /\ from = i
         /\ \A l \in ends : l <= start
  <2>1. CASE \E l \in ends : start < l
    <3>1. ends \in SUBSET (0..i) /\ ends # {}  BY <1>2, <2>1
    <3>2. Greatest(ends) \in ends /\ \A k \in ends : k <= Greatest(ends)
      BY <1>2, <3>1, GreatestIs
    <3>3. PICK l \in ends : start < l  BY <2>1
    <3>4. l <= Greatest(ends) /\ l \in Nat /\ Greatest(ends) \in 1..i  BY <1>2, <3>2, <3>3
    <3>5. from = Greatest(ends)  BY <2>1
    <3>6. from \in start + 1..i
      <4> HIDE DEF ends, from
      <4> QED  BY <1>2, <3>3, <3>4, <3>5
    <3> QED  BY <3>2, <3>5, <3>6
  <2>2. CASE ~\E l \in ends : start < l  BY <1>2, <2>2
  <2> QED  BY <2>1, <2>2
<1>8. from \in Nat  BY <1>1, <1>2, <1>7
<1> HIDE DEF from
<1>9. CASE j > from
  <2>1. T \in SUBSET Nat /\ T # {}  BY <1>1, <1>8
  <2>2. \A k \in T : Least(T) <= k  BY <2>1, LeastIs
  <2>3. j \notin T
    <3> SUFFICES ASSUME j \in T PROVE FALSE  OBVIOUS
    <3>1. to <= j  BY <1>4, <2>2
    <3> HIDE DEF T
    <3> QED  BY <1>1, <1>2, <1>3, <1>5, <3>1
  <2>4. j \in from + 1..Len(s)  BY <1>1, <1>5, <1>8, <1>9, <1>6
  <2>5. s[j] \notin EntryStart  BY <2>3, <2>4
  <2>6. Unit(s, j) = s[j]  BY <1>1, <1>5, <1>6 DEF Unit
  <2>7. Char(s, j) = eol \/ Char(s, j) = Unit(s, j)  BY DEF Char
  <2>8. eol \notin EntryStart  BY StreamAssumption DEF EntryStart, Letters, eol
  <2> QED  BY <1>6, <2>5, <2>6, <2>7, <2>8
<1>10. CASE j <= from
  <2>1. CASE from \in start + 1..i /\ Unit(s, from) = eol
    <3>1. j \in start + 1..i /\ from \in j..i  BY <1>2, <1>5, <1>10, <2>1
    <3> QED  BY <1>6, <2>1, <3>1
  <2>2. CASE from = i /\ \A l \in ends : l <= start
    <3>1. j - 1 \in 1..i /\ j - 1 >= start /\ j - 1 \in 1..Len(s)
      BY <1>1, <1>2, <1>5, <1>6, <1>10, <2>2
    <3>2. Unit(s, j - 1) = eol  BY <1>1, <3>1 DEF Unit
    <3>3. j - 1 \in ends  BY <3>1, <3>2
    <3>4. j - 1 <= start  BY <2>2, <3>3
    <3>5. j - 1 = start  BY <1>2, <3>1, <3>4
    <3> QED  BY <3>2, <3>5
  <2> QED  BY <1>7, <2>1, <2>2
<1> QED  BY <1>5, <1>6, <1>8, <1>9, <1>10
=============================================================================
