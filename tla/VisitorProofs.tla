---------------------------- MODULE VisitorProofs ----------------------------
(***************************************************************************)
(* What Transform leaves of a tree is what Walk visits of it, for trees of *)
(* any shape and height.                                                   *)
(***************************************************************************)
EXTENDS Visitor, EntriesProofs, SequenceTheorems

-----------------------------------------------------------------------------
(* FlattenSeq, step by step. *)

(* An operator of its own, which the provers can match. *)
Sends(g, S, V) == g \in [S -> V]

Mapped(g, s) == [k \in DOMAIN s |-> g[s[k]]]

LEMMA MappedTyped ==
  ASSUME NEW S, NEW V, NEW g, Sends(g, S, V), NEW s \in Seq(S)
  PROVE  /\ Mapped(g, s) \in Seq(V) /\ Len(Mapped(g, s)) = Len(s)
         /\ DOMAIN Mapped(g, s) = 1..Len(s) /\ DOMAIN s = 1..Len(s)
         /\ \A k \in 1..Len(s) : Mapped(g, s)[k] = g[s[k]] /\ s[k] \in S
<1>1. Len(s) \in Nat /\ DOMAIN s = 1..Len(s) /\ \A k \in 1..Len(s) : s[k] \in S
  BY LenProperties
<1>2. Mapped(g, s) = [k \in 1..Len(s) |-> g[s[k]]]  BY <1>1 DEF Mapped
<1>3. Mapped(g, s) \in [1..Len(s) -> V]  BY <1>1, <1>2 DEF Sends
<1>4. Mapped(g, s) \in Seq(V)  BY <1>1, <1>3, SeqDef
<1>5. Len(Mapped(g, s)) = Len(s)
  <2>1. DOMAIN Mapped(g, s) = 1..Len(Mapped(g, s)) /\ Len(Mapped(g, s)) \in Nat
    BY <1>4, LenProperties
  <2>2. 1..Len(Mapped(g, s)) = 1..Len(s)  BY <1>2, <2>1
  <2>3. \A a, b \in Nat : 1..a = 1..b => a = b
    <3> SUFFICES ASSUME NEW a \in Nat, NEW b \in Nat, 1..a = 1..b, a < b PROVE FALSE
      OBVIOUS
    <3>1. b \in 1..b /\ b \notin 1..a  OBVIOUS
    <3> QED  BY <3>1
  <2> QED  BY <1>1, <2>1, <2>2, <2>3
<1> QED  BY <1>1, <1>2, <1>4, <1>5

LEMMA MappedConcat ==
  ASSUME NEW S, NEW V, NEW g, Sends(g, S, V), NEW s \in Seq(S), NEW t \in Seq(S)
  PROVE  Mapped(g, s \o t) = Mapped(g, s) \o Mapped(g, t)
<1> DEFINE m == Len(s)
           n == Len(t)
<1>1. m \in Nat /\ n \in Nat  BY LenProperties
<1>2. /\ s \o t \in Seq(S) /\ Len(s \o t) = m + n
      /\ \A k \in 1..m + n : (s \o t)[k] = IF k <= m THEN s[k] ELSE t[k - m]
  BY ConcatProperties
<1>3. /\ Mapped(g, s) \in Seq(V) /\ Len(Mapped(g, s)) = Len(s)
      /\ \A k \in 1..Len(s) : Mapped(g, s)[k] = g[s[k]]
  BY MappedTyped
<1>4. /\ Mapped(g, t) \in Seq(V) /\ Len(Mapped(g, t)) = Len(t)
      /\ \A k \in 1..Len(t) : Mapped(g, t)[k] = g[t[k]]
  BY MappedTyped
<1>5. /\ Mapped(g, s \o t) \in Seq(V) /\ Len(Mapped(g, s \o t)) = Len(s \o t)
      /\ \A k \in 1..Len(s \o t) : Mapped(g, s \o t)[k] = g[(s \o t)[k]]
  <2>1. \A q \in Seq(S) : /\ Mapped(g, q) \in Seq(V) /\ Len(Mapped(g, q)) = Len(q)
                          /\ \A k \in 1..Len(q) : Mapped(g, q)[k] = g[q[k]]
    BY MappedTyped
  <2> QED  BY <1>2, <2>1
<1>6. /\ Mapped(g, s) \o Mapped(g, t) \in Seq(V)
      /\ Len(Mapped(g, s) \o Mapped(g, t)) = Len(Mapped(g, s)) + Len(Mapped(g, t))
      /\ \A k \in 1..Len(Mapped(g, s)) + Len(Mapped(g, t)) :
           (Mapped(g, s) \o Mapped(g, t))[k] =
             IF k <= Len(Mapped(g, s)) THEN Mapped(g, s)[k]
             ELSE Mapped(g, t)[k - Len(Mapped(g, s))]
  BY <1>3, <1>4, ConcatProperties
<1>7. ASSUME NEW k \in 1..m + n
      PROVE  Mapped(g, s \o t)[k] = (Mapped(g, s) \o Mapped(g, t))[k]
  <2>1. CASE k <= m
    <3>1. k \in 1..m  BY <1>1, <2>1
    <3> QED  BY <1>2, <1>3, <1>4, <1>5, <1>6, <2>1, <3>1
  <2>2. CASE ~(k <= m)
    <3>1. k - m \in 1..n  BY <1>1, <2>2
    <3> QED  BY <1>2, <1>3, <1>4, <1>5, <1>6, <2>2, <3>1
  <2> QED  BY <2>1, <2>2
<1>8. Len(Mapped(g, s \o t)) = m + n /\ Len(Mapped(g, s) \o Mapped(g, t)) = m + n
  BY <1>2, <1>3, <1>4, <1>5, <1>6
<1> QED  BY <1>5, <1>6, <1>7, <1>8, SeqEqual

(* The value of FlattenSeq is the last of the values of its recursion. *)
Flattening(u, S, ss) ==
  /\ u \in [0..Len(ss) -> Seq(S)]
  /\ u[0] = << >>
  /\ \A n \in 1..Len(ss) : u[n] = u[n - 1] \o ss[n]

LEMMA FlattenIs ==
  ASSUME NEW S, NEW ss \in Seq(Seq(S)), NEW u, Flattening(u, S, ss)
  PROVE  FlattenSeq(ss) = u[Len(ss)]
<1> DEFINE N == Len(ss)
           Is(f) == f = [n \in 1..N |-> IF n = 1 THEN ss[n] ELSE f[n - 1] \o ss[n]]
           g == [n \in 1..N |-> u[n]]
<1>1. N \in Nat /\ \A n \in 1..N : ss[n] \in Seq(S)  BY LenProperties
<1>2. CASE N = 0
  <2>1. ss = << >>  BY <1>2
  <2> QED  BY <1>2, <2>1 DEF FlattenSeq, Flattening
<1>3. CASE N # 0
  <2>1. Is(g)
    <3>1. ASSUME NEW n \in 1..N
          PROVE  u[n] = IF n = 1 THEN ss[n] ELSE g[n - 1] \o ss[n]
      <4>1. u[n] = u[n - 1] \o ss[n]  BY DEF Flattening
      <4>2. CASE n = 1
        <5>1. u[n - 1] = << >>  BY <4>2 DEF Flattening
        <5>2. << >> \o ss[n] = ss[n]  BY <1>1, ConcatEmptySeq
        <5> QED  BY <4>1, <4>2, <5>1, <5>2
      <4>3. CASE n # 1
        <5>1. n - 1 \in 1..N  BY <1>1, <4>3
        <5> QED  BY <4>1, <4>3, <5>1
      <4> QED  BY <4>2, <4>3
    <3> QED  BY <3>1
  <2>2. ASSUME NEW f, Is(f) PROVE f[N] = u[N]
    <3> DEFINE Bad == {n \in 1..N : f[n] # u[n]}
    <3>1. Bad = {}
      <4> SUFFICES ASSUME Bad # {} PROVE FALSE  OBVIOUS
      <4>1. PICK n \in Bad : \A j \in Bad : n <= j
        <5>1. Bad \in SUBSET Nat  OBVIOUS
        <5> HIDE DEF Bad
        <5> QED  BY <5>1, FirstExists
      <4>2. n \in 1..N /\ f[n] # u[n]  BY <4>1
      <4>3. f[n] = IF n = 1 THEN ss[n] ELSE f[n - 1] \o ss[n]  BY <2>2, <4>2
      <4>4. u[n] = IF n = 1 THEN ss[n] ELSE u[n - 1] \o ss[n]
        <5>1. g[n] = IF n = 1 THEN ss[n] ELSE g[n - 1] \o ss[n]  BY <2>1, <4>2
        <5>2. n # 1 => n - 1 \in 1..N  BY <4>2
        <5> QED  BY <4>2, <5>1, <5>2
      <4>5. n # 1  BY <4>2, <4>3, <4>4
      <4>6. n - 1 \in 1..N /\ ~(n <= n - 1)  BY <4>2, <4>5
      <4>7. n - 1 \notin Bad
        <5> HIDE DEF Bad
        <5> QED  BY <4>1, <4>6
      <4>8. f[n - 1] = u[n - 1]  BY <4>6, <4>7
      <4> QED  BY <4>2, <4>3, <4>4, <4>5, <4>8
    <3>2. N \in 1..N  BY <1>1, <1>3
    <3> QED  BY <3>1, <3>2
  <2>3. FlattenSeq(ss) = (CHOOSE f : Is(f))[N]  BY <1>3 DEF FlattenSeq
  <2>4. Is(CHOOSE f : Is(f))
    <3> HIDE DEF Is, g
    <3> QED  BY <2>1
  <2> HIDE DEF Is, g
  <2> QED  BY <2>2, <2>3, <2>4
<1> QED  BY <1>2, <1>3

LEMMA FlattenExists ==
  ASSUME NEW S, NEW ss \in Seq(Seq(S))
  PROVE  \E u : Flattening(u, S, ss)
<1> DEFINE G == [p \in (1..Len(ss)) \X Seq(S) |-> p[2] \o ss[p[1]]]
<1>1. Len(ss) \in Nat /\ \A n \in 1..Len(ss) : ss[n] \in Seq(S)  BY LenProperties
<1>2. G \in [(1..Len(ss)) \X Seq(S) -> Seq(S)]
  <2>1. \A p \in (1..Len(ss)) \X Seq(S) : p[1] \in 1..Len(ss) /\ p[2] \in Seq(S)  OBVIOUS
  <2>2. \A p \in (1..Len(ss)) \X Seq(S) : p[2] \o ss[p[1]] \in Seq(S)
    BY <1>1, <2>1, ConcatProperties
  <2> QED  BY <2>2
<1>3. << >> \in Seq(S)  BY EmptySeq
<1>4. PICK u : Stepwise(u, Len(ss), Seq(S), << >>, G)
  <2> HIDE DEF G
  <2> QED  BY <1>1, <1>2, <1>3, RecursionExists
<1>5. ASSUME NEW n \in 1..Len(ss) PROVE u[n] = u[n - 1] \o ss[n]
  <2>1. n \in 0..Len(ss) /\ n # 0 /\ n - 1 \in 0..Len(ss)  BY <1>1
  <2>2. u[n - 1] \in Seq(S)  BY <1>4, <2>1 DEF Stepwise
  <2>3. u[n] = G[<<n, u[n - 1]>>]
    <3> HIDE DEF G
    <3> QED  BY <1>4, <2>1 DEF Stepwise
  <2>4. <<n, u[n - 1]>> \in (1..Len(ss)) \X Seq(S)  BY <2>2
  <2> QED  BY <2>3, <2>4
<1>6. u \in [0..Len(ss) -> Seq(S)] /\ u[0] = << >>
  <2>1. 0 \in 0..Len(ss)  BY <1>1
  <2> HIDE DEF G
  <2> QED  BY <1>4, <2>1 DEF Stepwise
<1> HIDE DEF G
<1> QED  BY <1>5, <1>6 DEF Flattening

LEMMA FlattenEmpty ==
  FlattenSeq(<< >>) = << >>
<1>1. Len(<< >>) = 0  OBVIOUS
<1> QED  BY <1>1 DEF FlattenSeq

LEMMA FlattenTyped ==
  ASSUME NEW S, NEW ss \in Seq(Seq(S))
  PROVE  FlattenSeq(ss) \in Seq(S)
<1>1. PICK u : Flattening(u, S, ss)  BY FlattenExists
<1>2. Len(ss) \in 0..Len(ss)  BY LenProperties
<1>3. u[Len(ss)] \in Seq(S)  BY <1>1, <1>2 DEF Flattening
<1> QED  BY <1>1, <1>3, FlattenIs

LEMMA FlattenOne ==
  ASSUME NEW S, NEW s \in Seq(S)
  PROVE  FlattenSeq(<<s>>) = s
<1>1. <<s>> \in Seq(Seq(S)) /\ Len(<<s>>) = 1 /\ <<s>>[1] = s  OBVIOUS
<1>2. PICK u : Flattening(u, S, <<s>>)  BY <1>1, FlattenExists
<1>3. u[0] = << >> /\ u[1] = u[0] \o s
  <2>1. 1 \in 1..1 /\ 1 - 1 = 0  OBVIOUS
  <2> QED  BY <1>1, <1>2, <2>1 DEF Flattening
<1>4. u[1] = s  BY <1>3, ConcatEmptySeq
<1>5. FlattenSeq(<<s>>) = u[Len(<<s>>)]  BY <1>1, <1>2, FlattenIs
<1> QED  BY <1>1, <1>4, <1>5

LEMMA Associative ==
  ASSUME NEW S, NEW a \in Seq(S), NEW b \in Seq(S), NEW c \in Seq(S)
  PROVE  a \o (b \o c) = (a \o b) \o c
BY ConcatAssociative

LEMMA FlattenConcat ==
  ASSUME NEW S, NEW ss \in Seq(Seq(S)), NEW tt \in Seq(Seq(S))
  PROVE  FlattenSeq(ss \o tt) = FlattenSeq(ss) \o FlattenSeq(tt)
<1> DEFINE m == Len(ss)
           n == Len(tt)
<1>1. m \in Nat /\ n \in Nat  BY LenProperties
<1>2. /\ ss \o tt \in Seq(Seq(S)) /\ Len(ss \o tt) = m + n
      /\ \A k \in 1..m + n : (ss \o tt)[k] = IF k <= m THEN ss[k] ELSE tt[k - m]
  BY ConcatProperties
<1>3. PICK u : Flattening(u, S, ss)  BY FlattenExists
<1>4. PICK w : Flattening(w, S, tt)  BY FlattenExists
<1>5. /\ u[0] = << >> /\ \A k \in 0..m : u[k] \in Seq(S)
      /\ \A k \in 1..m : u[k] = u[k - 1] \o ss[k]
  BY <1>3 DEF Flattening
<1>6. /\ w[0] = << >> /\ \A k \in 0..n : w[k] \in Seq(S)
      /\ \A k \in 1..n : w[k] = w[k - 1] \o tt[k]
  BY <1>4 DEF Flattening
<1>7. FlattenSeq(ss) = u[m] /\ FlattenSeq(tt) = w[n]  BY <1>3, <1>4, FlattenIs
<1>8. \A k \in 1..n : tt[k] \in Seq(S)  BY LenProperties
<1> HIDE DEF m, n
<1>9. PICK f : f = [k \in 0..m + n |-> IF k < m THEN u[k] ELSE u[m] \o w[k - m]]  OBVIOUS
<1>10. u[m] \in Seq(S)
  <2>1. m \in 0..m  BY <1>1
  <2> QED  BY <1>5, <2>1
<1>11. \A k \in 0..m : k \in 0..m + n /\ f[k] = u[k] /\ f[k] \in Seq(S)
  <2> SUFFICES ASSUME NEW k \in 0..m
               PROVE  k \in 0..m + n /\ f[k] = u[k] /\ f[k] \in Seq(S)
    OBVIOUS
  <2>1. k \in 0..m + n  BY <1>1
  <2>2. CASE k < m  BY <1>5, <1>9, <2>1, <2>2
  <2>3. CASE ~(k < m)
    <3>1. k = m /\ k - m = 0  BY <1>1, <2>3
    <3>2. f[k] = u[m] \o w[0]  BY <1>9, <2>1, <2>3, <3>1
    <3>3. u[m] \o << >> = u[m]  BY <1>10, ConcatEmptySeq
    <3> QED  BY <1>6, <1>10, <2>1, <3>1, <3>2, <3>3
  <2> QED  BY <2>2, <2>3
<1>12. \A k \in 0..n : m + k \in 0..m + n /\ f[m + k] = u[m] \o w[k] /\ f[m + k] \in Seq(S)
  <2> SUFFICES ASSUME NEW k \in 0..n
               PROVE  m + k \in 0..m + n /\ f[m + k] = u[m] \o w[k] /\ f[m + k] \in Seq(S)
    OBVIOUS
  <2>1. m + k \in 0..m + n /\ ~(m + k < m) /\ m + k - m = k  BY <1>1
  <2>2. f[m + k] = u[m] \o w[k]
    <3>1. PICK x : x = m + k  OBVIOUS
    <3>2. x \in 0..m + n /\ ~(x < m) /\ x - m = k  BY <1>1, <2>1, <3>1
    <3>3. f[x] = u[m] \o w[k]  BY <1>9, <3>2
    <3> QED  BY <3>1, <3>3
  <2>3. u[m] \o w[k] \in Seq(S)  BY <1>6, <1>10, ConcatProperties
  <2> QED  BY <2>1, <2>2, <2>3
<1>13. Flattening(f, S, ss \o tt)
  <2>1. ASSUME NEW k \in 0..m + n PROVE f[k] \in Seq(S)
    <3>1. CASE k <= m
      <4>1. k \in 0..m  BY <1>1, <3>1
      <4> QED  BY <1>11, <4>1
    <3>2. CASE ~(k <= m)
      <4>1. k - m \in 0..n /\ m + (k - m) = k  BY <1>1, <3>2
      <4>2. f[m + (k - m)] \in Seq(S)  BY <1>12, <4>1
      <4> QED  BY <4>1, <4>2
    <3> QED  BY <3>1, <3>2
  <2>2. ASSUME NEW k \in 1..m + n PROVE f[k] = f[k - 1] \o (ss \o tt)[k]
    <3>1. CASE k <= m
      <4>1. k \in 0..m /\ k - 1 \in 0..m /\ k \in 1..m  BY <1>1, <3>1
      <4> QED  BY <1>2, <1>5, <1>11, <3>1, <4>1
    <3>2. CASE ~(k <= m)
      <4> DEFINE j == k - m
      <4>1. /\ j \in 0..n /\ j - 1 \in 0..n /\ j \in 1..n /\ m + j = k /\ m + (j - 1) = k - 1
        BY <1>1, <3>2
      <4>2. (ss \o tt)[k] = tt[j]  BY <1>2, <3>2
      <4> HIDE DEF j
      <4>3. f[m + j] = u[m] \o w[j]  BY <1>12, <4>1
      <4>4. f[m + (j - 1)] = u[m] \o w[j - 1]  BY <1>12, <4>1
      <4>5. w[j] = w[j - 1] \o tt[j] /\ w[j - 1] \in Seq(S) /\ tt[j] \in Seq(S)
        BY <1>6, <1>8, <4>1
      <4>6. u[m] \o (w[j - 1] \o tt[j]) = (u[m] \o w[j - 1]) \o tt[j]
        <5>1. ASSUME NEW a \in Seq(S), NEW b \in Seq(S), NEW c \in Seq(S)
              PROVE  a \o (b \o c) = (a \o b) \o c
          BY Associative
        <5> QED  BY <1>10, <4>5, <5>1
      <4> QED  BY <4>1, <4>2, <4>3, <4>4, <4>5, <4>6
    <3> QED  BY <3>1, <3>2
  <2>3. f[0] = << >>
    <3>1. 0 \in 0..m  BY <1>1
    <3> QED  BY <1>5, <1>11, <3>1
  <2>4. f \in [0..m + n -> Seq(S)]  BY <1>9, <2>1
  <2> QED  BY <1>2, <2>2, <2>3, <2>4 DEF Flattening
<1>14. FlattenSeq(ss \o tt) = f[m + n]  BY <1>2, <1>13, FlattenIs
<1>15. f[m + n] = u[m] \o w[n]
  <2>1. n \in 0..n  BY <1>1
  <2> QED  BY <1>12, <2>1
<1> QED  BY <1>7, <1>14, <1>15

(***************************************************************************)
(* Replacing each element by a sequence, one after the other.              *)
(***************************************************************************)
Chained(g, s) == FlattenSeq(Mapped(g, s))

LEMMA ChainedTyped ==
  ASSUME NEW S, NEW V, NEW g, Sends(g, S, Seq(V)), NEW s \in Seq(S)
  PROVE  Chained(g, s) \in Seq(V)
<1>1. Mapped(g, s) \in Seq(Seq(V))  BY MappedTyped
<1> QED  BY <1>1, FlattenTyped DEF Chained

LEMMA ChainedConcat ==
  ASSUME NEW S, NEW V, NEW g, Sends(g, S, Seq(V)), NEW s \in Seq(S), NEW t \in Seq(S)
  PROVE  Chained(g, s \o t) = Chained(g, s) \o Chained(g, t)
<1>1. Mapped(g, s) \in Seq(Seq(V)) /\ Mapped(g, t) \in Seq(Seq(V))  BY MappedTyped
<1>2. Mapped(g, s \o t) = Mapped(g, s) \o Mapped(g, t)  BY MappedConcat
<1>3. FlattenSeq(Mapped(g, s) \o Mapped(g, t))
        = FlattenSeq(Mapped(g, s)) \o FlattenSeq(Mapped(g, t))
  BY <1>1, FlattenConcat
<1> QED  BY <1>2, <1>3 DEF Chained

LEMMA ChainedFlatten ==
  ASSUME NEW S, NEW V, NEW g, Sends(g, S, Seq(V)), NEW ss \in Seq(Seq(S)),
         NEW h, \A s \in Seq(S) : h[s] = Chained(g, s), Sends(h, Seq(S), Seq(V))
  PROVE  Chained(g, FlattenSeq(ss)) = Chained(h, ss)
<1> DEFINE N == Len(ss)
           tt == Mapped(h, ss)
<1>1. N \in Nat /\ \A n \in 1..N : ss[n] \in Seq(S)  BY LenProperties
<1>2. tt \in Seq(Seq(V)) /\ Len(tt) = N /\ \A n \in 1..N : tt[n] = h[ss[n]]  BY MappedTyped
<1>3. PICK u : Flattening(u, S, ss)  BY FlattenExists
<1>4. /\ u[0] = << >> /\ \A n \in 0..N : u[n] \in Seq(S)
      /\ \A n \in 1..N : u[n] = u[n - 1] \o ss[n]
  BY <1>3 DEF Flattening
<1>5. FlattenSeq(ss) = u[N]  BY <1>3, FlattenIs
<1> HIDE DEF N, tt
<1>6. PICK f : f = [n \in 0..N |-> Chained(g, u[n])]  OBVIOUS
<1>7. \A n \in 0..N : f[n] = Chained(g, u[n]) /\ f[n] \in Seq(V)
  <2>1. \A s \in Seq(S) : Chained(g, s) \in Seq(V)  BY ChainedTyped
  <2> QED  BY <1>4, <1>6, <2>1
<1>8. Flattening(f, V, tt)
  <2>1. ASSUME NEW n \in 1..N PROVE f[n] = f[n - 1] \o tt[n]
    <3>1. n \in 0..N /\ n - 1 \in 0..N  BY <1>1
    <3>2. u[n] = u[n - 1] \o ss[n] /\ u[n - 1] \in Seq(S) /\ ss[n] \in Seq(S)
      BY <1>1, <1>4, <3>1
    <3>3. Chained(g, u[n - 1] \o ss[n]) = Chained(g, u[n - 1]) \o Chained(g, ss[n])
      <4>1. \A s, t \in Seq(S) : Chained(g, s \o t) = Chained(g, s) \o Chained(g, t)
        BY ChainedConcat
      <4> QED  BY <3>2, <4>1
    <3>4. tt[n] = Chained(g, ss[n])  BY <1>2, <3>2
    <3> QED  BY <1>7, <3>1, <3>2, <3>3, <3>4
  <2>2. f[0] = << >>
    <3>1. 0 \in 0..N  BY <1>1
    <3>2. Mapped(g, << >>) = << >>  BY DEF Mapped
    <3> QED  BY <1>4, <1>7, <3>1, <3>2, FlattenEmpty DEF Chained
  <2>3. f \in [0..N -> Seq(V)]  BY <1>6, <1>7
  <2> QED  BY <1>2, <2>1, <2>2, <2>3 DEF Flattening
<1>9. FlattenSeq(tt) = f[N]  BY <1>2, <1>8, FlattenIs
<1>10. f[N] = Chained(g, u[N])
  <2>1. N \in 0..N  BY <1>1
  <2> QED  BY <1>7, <2>1
<1> QED  BY <1>5, <1>9, <1>10 DEF Chained, tt

LEMMA MappedFlatten ==
  ASSUME NEW S, NEW V, NEW g, Sends(g, S, V), NEW ss \in Seq(Seq(S)),
         NEW h, \A s \in Seq(S) : h[s] = Mapped(g, s), Sends(h, Seq(S), Seq(V))
  PROVE  Mapped(g, FlattenSeq(ss)) = Chained(h, ss)
<1> DEFINE N == Len(ss)
           tt == Mapped(h, ss)
<1>1. N \in Nat /\ \A n \in 1..N : ss[n] \in Seq(S)  BY LenProperties
<1>2. tt \in Seq(Seq(V)) /\ Len(tt) = N /\ \A n \in 1..N : tt[n] = h[ss[n]]  BY MappedTyped
<1>3. PICK u : Flattening(u, S, ss)  BY FlattenExists
<1>4. /\ u[0] = << >> /\ \A n \in 0..N : u[n] \in Seq(S)
      /\ \A n \in 1..N : u[n] = u[n - 1] \o ss[n]
  BY <1>3 DEF Flattening
<1>5. FlattenSeq(ss) = u[N]  BY <1>3, FlattenIs
<1> HIDE DEF N, tt
<1>6. PICK f : f = [n \in 0..N |-> Mapped(g, u[n])]  OBVIOUS
<1>7. \A n \in 0..N : f[n] = Mapped(g, u[n]) /\ f[n] \in Seq(V)
  <2>1. \A s \in Seq(S) : Mapped(g, s) \in Seq(V)  BY MappedTyped
  <2> QED  BY <1>4, <1>6, <2>1
<1>8. Flattening(f, V, tt)
  <2>1. ASSUME NEW n \in 1..N PROVE f[n] = f[n - 1] \o tt[n]
    <3>1. n \in 0..N /\ n - 1 \in 0..N  BY <1>1
    <3>2. u[n] = u[n - 1] \o ss[n] /\ u[n - 1] \in Seq(S) /\ ss[n] \in Seq(S)
      BY <1>1, <1>4, <3>1
    <3>3. Mapped(g, u[n - 1] \o ss[n]) = Mapped(g, u[n - 1]) \o Mapped(g, ss[n])
      <4>1. \A s, t \in Seq(S) : Mapped(g, s \o t) = Mapped(g, s) \o Mapped(g, t)  BY MappedConcat
      <4> QED  BY <3>2, <4>1
    <3>4. tt[n] = Mapped(g, ss[n])  BY <1>2, <3>2
    <3> QED  BY <1>7, <3>1, <3>2, <3>3, <3>4
  <2>2. f[0] = << >>
    <3>1. 0 \in 0..N  BY <1>1
    <3>2. Mapped(g, << >>) = << >>  BY DEF Mapped
    <3> QED  BY <1>4, <1>7, <3>1, <3>2
  <2>3. f \in [0..N -> Seq(V)]  BY <1>6, <1>7
  <2> QED  BY <1>2, <2>1, <2>2, <2>3 DEF Flattening
<1>9. FlattenSeq(tt) = f[N]  BY <1>2, <1>8, FlattenIs
<1>10. f[N] = Mapped(g, u[N])
  <2>1. N \in 0..N  BY <1>1
  <2> QED  BY <1>7, <2>1
<1> QED  BY <1>5, <1>9, <1>10 DEF Chained, tt

LEMMA MappedOne ==
  ASSUME NEW g, NEW a
  PROVE  Mapped(g, <<a>>) = <<g[a]>>
<1>1. DOMAIN <<a>> = {1} /\ <<a>>[1] = a  OBVIOUS
<1>2. Mapped(g, <<a>>) = [k \in {1} |-> g[a]]  BY <1>1 DEF Mapped
<1>3. DOMAIN <<g[a]>> = {1} /\ <<g[a]>>[1] = g[a]  OBVIOUS
<1>4. <<g[a]>> = [k \in {1} |-> g[a]]  OBVIOUS
<1> QED  BY <1>2, <1>4

LEMMA MappedTwice ==
  ASSUME NEW S, NEW V, NEW W, NEW g, Sends(g, S, V), NEW h, Sends(h, V, W),
         NEW f, \A c \in S : f[c] = h[g[c]], NEW s \in Seq(S)
  PROVE  Mapped(h, Mapped(g, s)) = Mapped(f, s)
<1>1. /\ Mapped(g, s) \in Seq(V) /\ DOMAIN Mapped(g, s) = 1..Len(s) /\ DOMAIN s = 1..Len(s)
      /\ \A k \in 1..Len(s) : Mapped(g, s)[k] = g[s[k]] /\ s[k] \in S
  BY MappedTyped
<1>2. Mapped(h, Mapped(g, s)) = [k \in 1..Len(s) |-> h[Mapped(g, s)[k]]]  BY <1>1 DEF Mapped
<1>3. Mapped(f, s) = [k \in 1..Len(s) |-> f[s[k]]]  BY <1>1 DEF Mapped
<1> QED  BY <1>1, <1>2, <1>3

-----------------------------------------------------------------------------
(* transformChildren rewrites the slots that children walks, and no other  *)
(* field.                                                                  *)

Fields ==
  {"body", "id", "value", "attrs", "comment", "elements", "expr", "name", "attr", "args", "sel",
   "variants", "pos", "named", "key", "annotations"}

LEMMA SlotsAgree ==
  ASSUME NEW type
  PROVE  /\ Range(Slots(type)) = Rewritten(type)
         /\ Rewritten(type) \in SUBSET Fields
         /\ DOMAIN Slots(type) = 1..Len(Slots(type))
         /\ Slots(type) \in Seq(Range(Slots(type)))
<1> DEFINE Agree(s, R) == Range(s) = R /\ DOMAIN s = 1..Len(s) /\ s \in Seq(Range(s))
<1>1. ASSUME NEW a PROVE Agree(<<a>>, {a})  BY DEF Range
<1>2. ASSUME NEW a, NEW b PROVE Agree(<<a, b>>, {a, b})  BY DEF Range
<1>3. ASSUME NEW a, NEW b, NEW c PROVE Agree(<<a, b, c>>, {a, b, c})  BY DEF Range
<1>4. ASSUME NEW a, NEW b, NEW c, NEW d PROVE Agree(<<a, b, c, d>>, {a, b, c, d})
  BY DEF Range
<1>5. Agree(<< >>, {})  BY DEF Range
<1> DEFINE Row(s, R) == Slots(type) = s /\ Rewritten(type) = R
<1>6. \/ Row(<< >>, {})
      \/ Row(<<"body">>, {"body"}) \/ Row(<<"elements">>, {"elements"})
      \/ Row(<<"expr">>, {"expr"}) \/ Row(<<"name">>, {"name"})
      \/ Row(<<"annotations">>, {"annotations"})
      \/ Row(<<"name", "attr">>, {"name", "attr"}) \/ Row(<<"name", "args">>, {"name", "args"})
      \/ Row(<<"sel", "variants">>, {"sel", "variants"})
      \/ Row(<<"pos", "named">>, {"pos", "named"})
      \/ Row(<<"id", "value">>, {"id", "value"}) \/ Row(<<"key", "value">>, {"key", "value"})
      \/ Row(<<"name", "value">>, {"name", "value"})
      \/ Row(<<"name", "attr", "args">>, {"name", "attr", "args"})
      \/ Row(<<"id", "value", "attrs", "comment">>, {"id", "value", "attrs", "comment"})
  BY DEF Slots, Rewritten
<1>7. Agree(Slots(type), Rewritten(type))
  <2> HIDE DEF Agree
  <2> QED  BY <1>1, <1>2, <1>3, <1>4, <1>5, <1>6
<1>8. Rewritten(type) \in SUBSET Fields  BY <1>6 DEF Fields
<1> QED  BY <1>7, <1>8

(* The type of what is in a slot is the slot's, or the one it says. *)
LEMMA TypeInSame ==
  ASSUME NEW type, NEW slot \in Fields, NEW n, NEW m, SaysType(type, slot) => n.t = m.t
  PROVE  TypeIn(type, slot, n) = TypeIn(type, slot, m)
<1>1. CASE SaysType(type, slot)
  <2>1. n.t = m.t  BY <1>1
  <2> QED  BY <2>1 DEF TypeIn
<1>2. CASE ~SaysType(type, slot)
  <2>1. slot \notin {"body", "key"} /\ ~HoldsElement(type, slot)  BY <1>2 DEF SaysType
  <2>2. slot \in {"id", "value", "attrs", "comment", "name", "attr", "args", "variants", "named",
                  "annotations"}
    BY <2>1 DEF Fields, HoldsElement
  <2> QED  BY <2>1, <2>2 DEF TypeIn
<1> QED  BY <1>1, <1>2

(* The answer for a node is not nil, and says the type the node says. *)
LEMMA AnswerKeeps ==
  ASSUME NEW c, Shaped(c), c.node # Nil, NEW answers
  PROVE  /\ TransformChildren(c, answers) # Nil
         /\ "t" \in DOMAIN c.node => TransformChildren(c, answers).t = c.node.t
<1>1. CASE Rewritten(c.type) = {}
  BY <1>1 DEF TransformChildren
<1>2. CASE Rewritten(c.type) # {}
  <2>1. PICK slot \in Rewritten(c.type) : slot \in DOMAIN c.node
    BY <1>2, SlotsAgree DEF Shaped
  <2>2. PICK a : a = TransformChildren(c, answers)  OBVIOUS
  <2>3. a = [f \in DOMAIN c.node |->
               IF f \in Rewritten(c.type) THEN Filled(f, answers[f]) ELSE c.node[f]]
    BY <1>2, <2>2 DEF TransformChildren
  <2>4. DOMAIN a # {}  BY <2>1, <2>3
  <2>5. a # Nil
    <3>1. DOMAIN Nil = {}  BY DEF Nil
    <3> QED  BY <2>4, <3>1
  <2>6. "t" \in DOMAIN c.node => a["t"] = c.node["t"]  BY <2>3, SlotsAgree DEF Fields
  <2> QED  BY <2>2, <2>5, <2>6
<1> QED  BY <1>1, <1>2

(* What is in a slot is a sequence of nodes with their types, at most one  *)
(* of them in a slot for a node or nil.                                    *)
LEMMA HeldTyped ==
  ASSUME NEW x, NEW slot \in Range(Slots(x.type)), Shaped(x)
  PROVE  /\ Held(x, slot) \in Seq(Range(Held(x, slot)))
         /\ DOMAIN Held(x, slot) = 1..Len(Held(x, slot))
         /\ slot \notin Many => Len(Held(x, slot)) \in {0, 1}
         /\ \A c \in Range(Held(x, slot)) :
              /\ c.node # Nil
              /\ SaysType(x.type, slot) => "t" \in DOMAIN c.node
              /\ c.type = TypeIn(x.type, slot, c.node)
              /\ c = Node(c.type, c.node)
<1> DEFINE in == In(x, slot)
           R == Range(in)
           typed == [n \in R |-> Node(TypeIn(x.type, slot, n), n)]
<1>1. /\ in \in Seq(R) /\ Nil \notin R
      /\ SaysType(x.type, slot) => \A n \in R : "t" \in DOMAIN n
  BY DEF Shaped
<1>2. slot \notin Many => Len(in) \in {0, 1}  BY DEF In
<1> HIDE DEF in
<1>3. Len(in) \in Nat /\ DOMAIN in = 1..Len(in) /\ \A k \in 1..Len(in) : in[k] \in R
  BY <1>1, LenProperties
<1>4. Held(x, slot) = Mapped(typed, in)  BY <1>3 DEF Held, Mapped, in
<1>5. Sends(typed, R, Range(Held(x, slot)))
  <2>1. ASSUME NEW n \in R PROVE typed[n] \in Range(Held(x, slot))
    <3>1. PICK k \in DOMAIN in : in[k] = n  BY DEF Range
    <3>2. Held(x, slot)[k] = typed[n] /\ k \in DOMAIN Held(x, slot)  BY <3>1 DEF Held, in
    <3> QED  BY <3>2 DEF Range
  <2> QED  BY <2>1 DEF Sends
<1>6. /\ Mapped(typed, in) \in Seq(Range(Held(x, slot))) /\ Len(Mapped(typed, in)) = Len(in)
      /\ DOMAIN Mapped(typed, in) = 1..Len(in)
  <2> HIDE DEF typed, R
  <2> QED  BY <1>1, <1>5, MappedTyped
<1>7. ASSUME NEW c \in Range(Held(x, slot))
      PROVE  /\ c.node # Nil
             /\ SaysType(x.type, slot) => "t" \in DOMAIN c.node
             /\ c.type = TypeIn(x.type, slot, c.node)
             /\ c = Node(c.type, c.node)
  <2>1. PICK k \in DOMAIN in : c = Node(TypeIn(x.type, slot, in[k]), in[k])
    BY DEF Held, in, Range
  <2>2. c.node = in[k] /\ c.type = TypeIn(x.type, slot, in[k]) /\ in[k] \in R
    BY <2>1, <1>3 DEF Node
  <2> QED  BY <1>1, <2>1, <2>2
<1> QED  BY <1>2, <1>4, <1>6, <1>7

(* The answers of f for what is in the slots of x. *)
AnswersIn(x, f) == [slot \in Rewritten(x.type) |-> Mapped(f, Held(x, slot))]

(* A slot that is filled holds the answers, without those that are nil.    *)
LEMMA FilledIs ==
  ASSUME NEW x, NEW slot \in Range(Slots(x.type)), Shaped(x), NEW answer, NEW N,
         NEW raw, Sends(raw, Range(Held(x, slot)), Seq(N)),
         \A c \in Range(Held(x, slot)) : raw[c] = IfAny(answer[c])
  PROVE  In(Node(x.type, TransformChildren(x, AnswersIn(x, answer))), slot)
           = Chained(raw, Held(x, slot))
<1> DEFINE held == Held(x, slot)
           answers == AnswersIn(x, answer)
           kept == FlattenSeq([k \in DOMAIN answers[slot] |-> IfAny(answers[slot][k])])
           y == Node(x.type, TransformChildren(x, answers))
<1>1. slot \in Rewritten(x.type) /\ slot \in DOMAIN x.node  BY SlotsAgree DEF Shaped
<1>2. y.node[slot] = Filled(slot, answers[slot])
  <2>1. TransformChildren(x, answers)
          = [f \in DOMAIN x.node |->
               IF f \in Rewritten(x.type) THEN Filled(f, answers[f]) ELSE x.node[f]]
    BY <1>1 DEF TransformChildren
  <2>2. TransformChildren(x, answers)[slot] = Filled(slot, answers[slot])
    BY <1>1, <2>1
  <2> QED  BY <2>2 DEF Node
<1>3. held \in Seq(Range(held)) /\ DOMAIN held = 1..Len(held) /\ Len(held) \in Nat
      /\ (slot \notin Many => Len(held) \in {0, 1})
  BY HeldTyped, LenProperties
<1>4. kept = Chained(raw, held)
  <2>1. \A k \in DOMAIN held : raw[held[k]] = IfAny(answer[held[k]])  BY DEF Range
  <2>2. answers[slot] = [k \in DOMAIN held |-> answer[held[k]]]  BY <1>1 DEF AnswersIn, Mapped
  <2>3. [k \in DOMAIN answers[slot] |-> IfAny(answers[slot][k])] = Mapped(raw, held)
    BY <2>1, <2>2 DEF Mapped
  <2> QED  BY <2>3 DEF Chained
<1>5. Filled(slot, answers[slot])
        = IF slot \in Many THEN kept ELSE IF kept = << >> THEN Nil ELSE kept[1]
  BY DEF Filled
<1>6. CASE slot \in Many
  BY <1>2, <1>4, <1>5, <1>6 DEF In
<1>7. CASE slot \notin Many
  <2>1. kept = << >> \/ \E n : n # Nil /\ kept = <<n>>
    <3>1. CASE Len(held) = 0
      <4>1. Mapped(raw, held) = << >>  BY <1>3, <3>1 DEF Mapped
      <4> QED  BY <1>4, <4>1, FlattenEmpty DEF Chained
    <3>2. CASE Len(held) = 1
      <4>1. DOMAIN held = {1} /\ held[1] \in Range(held)  BY <1>3, <3>2 DEF Range
      <4>2. Mapped(raw, held) = <<raw[held[1]]>>  BY <4>1 DEF Mapped
      <4>3. raw[held[1]] \in Seq(N)  BY <4>1 DEF Sends
      <4>4. kept = raw[held[1]]  BY <1>4, <4>2, <4>3, FlattenOne DEF Chained
      <4> QED  BY <4>1, <4>4 DEF IfAny
    <3> QED  BY <1>3, <1>7, <3>1, <3>2
  <2>2. In(y, slot) = IF y.node[slot] = Nil THEN << >> ELSE <<y.node[slot]>>  BY <1>7 DEF In
  <2> HIDE DEF kept, held, y, answers
  <2>3. CASE kept = << >>
    BY <1>2, <1>4, <1>5, <1>7, <2>2, <2>3 DEF y, held, answers
  <2>4. CASE \E n : n # Nil /\ kept = <<n>>
    <3>1. PICK n : n # Nil /\ kept = <<n>>  BY <2>4
    <3>2. kept # << >> /\ kept[1] = n  BY <3>1
    <3>3. y.node[slot] = n  BY <1>2, <1>5, <1>7, <3>2
    <3> QED  BY <1>4, <2>2, <3>1, <3>3 DEF y, held, answers
  <2> QED  BY <2>1, <2>3, <2>4
<1> QED  BY <1>6, <1>7

(* answer transforms the nodes of C, and kept is what is left of each.     *)
Transforms(C, away, answer) ==
  \A c \in C : Shaped(c) /\ answer[c] = TransformNode(c, away, AnswersIn(c, answer))

Keeps(kept, C, away, answer) ==
  \A c \in C : kept[c] = IF c.type \in away THEN << >> ELSE <<Node(c.type, answer[c])>>

(* What is in a slot after the transformation: the answers for the nodes   *)
(* that were there and are not removed, with their types.                  *)
LEMMA HeldAfter ==
  ASSUME NEW x, NEW slot \in Range(Slots(x.type)), Shaped(x), NEW away, NEW answer,
         Transforms(Range(Held(x, slot)), away, answer),
         NEW kept, Keeps(kept, Range(Held(x, slot)), away, answer)
  PROVE  Held(Node(x.type, TransformChildren(x, AnswersIn(x, answer))), slot)
           = Chained(kept, Held(x, slot))
<1> DEFINE held == Held(x, slot)
           R == Range(held)
           N == {answer[c] : c \in R}
           K == {Node(TypeIn(x.type, slot, n), n) : n \in N}
           raw == [c \in R |-> IfAny(answer[c])]
           typed == [n \in N |-> Node(TypeIn(x.type, slot, n), n)]
           listed == [s \in Seq(N) |-> Mapped(typed, s)]
           y == Node(x.type, TransformChildren(x, AnswersIn(x, answer)))
<1>0. /\ \A c \in R : Shaped(c) /\ answer[c] = TransformNode(c, away, AnswersIn(c, answer))
      /\ \A c \in R :
           kept[c] = IF c.type \in away THEN << >> ELSE <<Node(c.type, answer[c])>>
  BY DEF Transforms, Keeps
<1>1. /\ held \in Seq(R)
      /\ \A c \in R : /\ c.node # Nil
                      /\ SaysType(x.type, slot) => "t" \in DOMAIN c.node
                      /\ c.type = TypeIn(x.type, slot, c.node)
                      /\ c = Node(c.type, c.node)
  BY HeldTyped
<1>2. ASSUME NEW c \in R, c.type \notin away
      PROVE  answer[c] # Nil /\ TypeIn(x.type, slot, answer[c]) = c.type
  <2>1. Shaped(c) /\ answer[c] = TransformChildren(c, AnswersIn(c, answer))
    BY <1>0, <1>2 DEF TransformNode
  <2>2. /\ answer[c] # Nil
        /\ "t" \in DOMAIN c.node => answer[c].t = c.node.t
    BY <1>1, <2>1, AnswerKeeps
  <2>3. SaysType(x.type, slot) => answer[c].t = c.node.t  BY <1>1, <2>2
  <2>4. slot \in Fields  BY SlotsAgree
  <2>5. TypeIn(x.type, slot, answer[c]) = TypeIn(x.type, slot, c.node)
    <3>1. ASSUME NEW n, NEW m, SaysType(x.type, slot) => n.t = m.t
          PROVE  TypeIn(x.type, slot, n) = TypeIn(x.type, slot, m)
      BY <2>4, <3>1, TypeInSame
    <3> QED  BY <2>3, <3>1
  <2> QED  BY <1>1, <2>2, <2>5
<1>3. \A c \in R : c.type \in away => answer[c] = Nil  BY <1>0 DEF TransformNode
<1>4. Sends(raw, R, Seq(N))
  <2>1. ASSUME NEW c \in R PROVE IfAny(answer[c]) \in Seq(N)
    <3>1. answer[c] \in N  OBVIOUS
    <3> HIDE DEF N
    <3>2. <<answer[c]>> \in Seq(N) /\ << >> \in Seq(N)  BY <3>1
    <3> QED  BY <3>2 DEF IfAny
  <2> QED  BY <2>1 DEF Sends
<1>5. Sends(typed, N, K)  BY DEF Sends
<1>6. Sends(listed, Seq(N), Seq(K))
  <2>1. \A s \in Seq(N) : Mapped(typed, s) \in Seq(K)
    <3> HIDE DEF typed, N, K
    <3> QED  BY <1>5, MappedTyped
  <2> QED  BY <2>1 DEF Sends
<1>7. \A c \in R : kept[c] = listed[raw[c]]
  <2> SUFFICES ASSUME NEW c \in R PROVE kept[c] = listed[raw[c]]  OBVIOUS
  <2>1. raw[c] = IfAny(answer[c]) /\ raw[c] \in Seq(N)  BY <1>4 DEF Sends
  <2>2. listed[raw[c]] = Mapped(typed, raw[c])  BY <2>1
  <2>3. CASE c.type \in away
    <3>1. raw[c] = << >>  BY <1>3, <2>1, <2>3 DEF IfAny
    <3>2. Mapped(typed, << >>) = << >>  BY DEF Mapped
    <3> QED  BY <1>0, <2>2, <2>3, <3>1, <3>2
  <2>4. CASE c.type \notin away
    <3>1. raw[c] = <<answer[c]>>  BY <1>2, <2>1, <2>4 DEF IfAny
    <3>2. typed[answer[c]] = Node(c.type, answer[c])  BY <1>2, <2>4
    <3> HIDE DEF typed
    <3>3. Mapped(typed, <<answer[c]>>) = <<typed[answer[c]]>>  BY MappedOne
    <3> QED  BY <1>0, <2>2, <2>4, <3>1, <3>2, <3>3
  <2> QED  BY <2>3, <2>4
<1>8. In(y, slot) = Chained(raw, held)
  <2>1. \A c \in R : raw[c] = IfAny(answer[c])  OBVIOUS
  <2> HIDE DEF raw, N
  <2> QED  BY <1>4, <2>1, FilledIs
<1>9. Mapped(raw, held) \in Seq(Seq(N))
  <2> HIDE DEF raw, N, held, R
  <2> QED  BY <1>1, <1>4, MappedTyped
<1>10. Held(y, slot) = Mapped(typed, In(y, slot))
  <2> DEFINE in == In(y, slot)
  <2>1. in \in Seq(N)  BY <1>8, <1>9, FlattenTyped DEF Chained
  <2>2. \A k \in DOMAIN in : in[k] \in N  BY <2>1, LenProperties
  <2>3. y.type = x.type  BY DEF Node
  <2>4. Held(y, slot) = [k \in DOMAIN in |-> Node(TypeIn(y.type, slot, in[k]), in[k])]
    BY DEF Held
  <2> HIDE DEF in, N
  <2>5. \A k \in DOMAIN in : typed[in[k]] = Node(TypeIn(y.type, slot, in[k]), in[k])
    BY <2>2, <2>3
  <2> QED  BY <2>4, <2>5 DEF Mapped, in
<1> HIDE DEF raw, N, K, typed, held, R, listed, y
<1>11. Mapped(typed, FlattenSeq(Mapped(raw, held))) = Chained(listed, Mapped(raw, held))
  <2>1. \A s \in Seq(N) : listed[s] = Mapped(typed, s)  BY DEF listed
  <2> QED  BY <1>5, <1>6, <1>9, <2>1, MappedFlatten
<1>12. Mapped(listed, Mapped(raw, held)) = Mapped(kept, held)
  BY <1>1, <1>4, <1>6, <1>7, MappedTwice
<1> QED  BY <1>8, <1>10, <1>11, <1>12 DEF Chained, held, y

(* The children after the transformation: the answers for the children     *)
(* that are not removed, in their order.                                   *)
LEMMA ChildrenAfter ==
  ASSUME NEW x, Shaped(x), NEW away, NEW answer, NEW C,
         \A slot \in Range(Slots(x.type)) : Range(Held(x, slot)) \in SUBSET C,
         Transforms(C, away, answer),
         NEW V, NEW kept, Sends(kept, C, Seq(V)), Keeps(kept, C, away, answer)
  PROVE  /\ Children(Node(x.type, TransformChildren(x, AnswersIn(x, answer))))
              = Chained(kept, Children(x))
         /\ Children(x) \in Seq(C)
<1> DEFINE slots == Slots(x.type)
           y == Node(x.type, TransformChildren(x, AnswersIn(x, answer)))
           heldIn == [slot \in Range(slots) |-> Held(x, slot)]
           after == [slot \in Range(slots) |-> Held(y, slot)]
           chain == [s \in Seq(C) |-> Chained(kept, s)]
<1>1. slots \in Seq(Range(slots)) /\ \A i \in DOMAIN slots : slots[i] \in Range(slots)
  BY SlotsAgree DEF Range
<1>2. ASSUME NEW slot \in Range(slots)
      PROVE  Held(x, slot) \in Seq(C) /\ Held(y, slot) = Chained(kept, Held(x, slot))
  <2>1. Held(x, slot) \in Seq(Range(Held(x, slot)))  BY HeldTyped
  <2>2. Range(Held(x, slot)) \in SUBSET C  OBVIOUS
  <2>3. Held(x, slot) \in Seq(C)
    <3>1. ASSUME NEW A, NEW B, A \in SUBSET B PROVE Seq(A) \in SUBSET Seq(B)
      BY <3>1, SeqMonotonic
    <3> QED  BY <2>1, <2>2, <3>1
  <2>4. Transforms(Range(Held(x, slot)), away, answer)  BY <2>2 DEF Transforms
  <2>5. Keeps(kept, Range(Held(x, slot)), away, answer)  BY <2>2 DEF Keeps
  <2> HIDE DEF slots
  <2>6. Held(Node(x.type, TransformChildren(x, AnswersIn(x, answer))), slot)
          = Chained(kept, Held(x, slot))
    <3>1. slot \in Range(Slots(x.type))  BY DEF slots
    <3> QED  BY <2>4, <2>5, <3>1, HeldAfter
  <2> QED  BY <2>3, <2>6
<1>3. Sends(heldIn, Range(slots), Seq(C))  BY <1>2 DEF Sends
<1>4. Sends(chain, Seq(C), Seq(V))
  <2>1. \A s \in Seq(C) : Chained(kept, s) \in Seq(V)  BY ChainedTyped
  <2> QED  BY <2>1 DEF Sends
<1>5. \A slot \in Range(slots) : after[slot] = chain[heldIn[slot]]  BY <1>2
<1>6. \A s \in Seq(C) : chain[s] = Chained(kept, s)  OBVIOUS
<1>7. Children(x) = FlattenSeq(Mapped(heldIn, slots))
  <2>1. Mapped(heldIn, slots) = [i \in DOMAIN slots |-> Held(x, slots[i])]  BY <1>1 DEF Mapped
  <2> QED  BY <2>1 DEF Children
<1>8. Children(y) = FlattenSeq(Mapped(after, slots))
  <2>1. Mapped(after, slots) = [i \in DOMAIN slots |-> Held(y, slots[i])]  BY <1>1 DEF Mapped
  <2>2. y.type = x.type  BY DEF Node
  <2> QED  BY <2>1, <2>2 DEF Children
<1> HIDE DEF slots, y, heldIn, after, chain
<1>9. Mapped(heldIn, slots) \in Seq(Seq(C))  BY <1>1, <1>3, MappedTyped
<1>10. Mapped(chain, Mapped(heldIn, slots)) = Mapped(after, slots)
  BY <1>1, <1>3, <1>4, <1>5, MappedTwice
<1>11. Chained(kept, FlattenSeq(Mapped(heldIn, slots))) = Chained(chain, Mapped(heldIn, slots))
  BY <1>4, <1>6, <1>9, ChainedFlatten
<1>12. FlattenSeq(Mapped(heldIn, slots)) \in Seq(C)  BY <1>9, FlattenTyped
<1> QED  BY <1>7, <1>8, <1>10, <1>11, <1>12 DEF Chained, y

-----------------------------------------------------------------------------
(* A tree: nodes shaped as the visitor relies on, each higher than the     *)
(* nodes in its slots.                                                     *)
Tree(T, height) ==
  /\ height \in [T -> Nat]
  /\ \A x \in T : Shaped(x) /\ \A slot \in Range(Slots(x.type)) :
       \A c \in Range(Held(x, slot)) : c \in T /\ height[c] < height[x]

(***************************************************************************)
(* In every tree, and for every set of types turned away, the walk of what *)
(* Transform leaves of a node visits what a walk that turns the same types *)
(* away visits of the node: Transform removes those nodes with all below   *)
(* them, and nothing else, wherever they are, and moves nothing            *)
(* (visitor.go:20-57 with 71-230).  The hypotheses on transformed, spared  *)
(* and visited are the equations of the recursion (module Traversal) of    *)
(* Transform(_, away), Walk(_, away) and Walk(_, {}).                      *)
(***************************************************************************)
THEOREM TransformedWalk ==
  ASSUME NEW T, NEW height, Tree(T, height), NEW away,
         NEW transformed, \A x \in T : transformed[x] =
           TransformNode(x, away, AnswersIn(x, transformed)),
         NEW spared, \A x \in T :
           spared[x] = WalkNode(x, away, Mapped(spared, Children(x))),
         NEW visited, \A x \in T : x.type \notin away =>
           visited[Node(x.type, transformed[x])]
             = WalkNode(Node(x.type, transformed[x]), {},
                        Mapped(visited, Children(Node(x.type, transformed[x]))))
  PROVE  \A x \in T : x.type \notin away => visited[Node(x.type, transformed[x])] = spared[x]
<1> DEFINE Types == {x.type : x \in T}
           Same(x) == x.type \notin away => visited[Node(x.type, transformed[x])] = spared[x]
           Agrees(x) == spared[x] \in Seq(Types) /\ Same(x)
<1>1. /\ \A x \in T : Shaped(x) /\ height[x] \in Nat
      /\ \A x \in T : \A slot \in Range(Slots(x.type)) : \A c \in Range(Held(x, slot)) :
           c \in T /\ height[c] < height[x]
  BY DEF Tree
<1>2. ASSUME NEW x \in T, \A c \in T : height[c] < height[x] => Agrees(c)
      PROVE  Agrees(x)
  <2> DEFINE C == {c \in T : height[c] < height[x]}
             K == {Node(c.type, transformed[c]) : c \in {d \in C : d.type \notin away}}
             Left(c) == IF c.type \in away THEN << >> ELSE <<Node(c.type, transformed[c])>>
             kept == [c \in C |-> Left(c)]
             spare == [c \in C |-> spared[c]]
             visit == [n \in K |-> visited[n]]
             walk == [s \in Seq(K) |-> Chained(visit, s)]
             y == Node(x.type, transformed[x])
             children == Children(x)
  <2>1. Sends(kept, C, Seq(K)) /\ \A c \in C : kept[c] = Left(c)
    <3>1. ASSUME NEW c \in C PROVE Left(c) \in Seq(K)
      <4>1. c.type \notin away => Node(c.type, transformed[c]) \in K  OBVIOUS
      <4> HIDE DEF K
      <4> QED  BY <4>1
    <3> HIDE DEF Left, C, K
    <3> QED  BY <3>1 DEF Sends
  <2>2. Sends(spare, C, Seq(Types))  BY <1>2 DEF Sends
  <2>3. Sends(visit, K, Seq(Types)) /\ \A c \in C : c.type \notin away =>
          /\ Node(c.type, transformed[c]) \in K
          /\ visit[Node(c.type, transformed[c])] = spared[c]
    <3>1. ASSUME NEW c \in C, c.type \notin away
          PROVE  /\ Node(c.type, transformed[c]) \in K
                 /\ visited[Node(c.type, transformed[c])] = spared[c]
                 /\ spared[c] \in Seq(Types)
      BY <1>2, <3>1
    <3>2. \A n \in K : visited[n] \in Seq(Types)
      <4> SUFFICES ASSUME NEW n \in K PROVE visited[n] \in Seq(Types)  OBVIOUS
      <4>1. PICK c \in C : c.type \notin away /\ n = Node(c.type, transformed[c])  OBVIOUS
      <4> HIDE DEF Types, C, K
      <4> QED  BY <3>1, <4>1
    <3> HIDE DEF Types, C, K
    <3>3. Sends(visit, K, Seq(Types))  BY <3>2 DEF Sends
    <3> QED  BY <3>1, <3>3
  <2>4. Sends(walk, Seq(K), Seq(Types)) /\ \A s \in Seq(K) : walk[s] = Chained(visit, s)
    <3> HIDE DEF visit, K, Types
    <3>1. \A s \in Seq(K) : Chained(visit, s) \in Seq(Types)  BY <2>3, ChainedTyped
    <3> QED  BY <3>1 DEF Sends
  <2>5. /\ Children(Node(x.type, TransformChildren(x, AnswersIn(x, transformed))))
          = Chained(kept, children)
        /\ children \in Seq(C)
    <3>1. \A slot \in Range(Slots(x.type)) : Range(Held(x, slot)) \in SUBSET C  BY <1>1
    <3>2. Transforms(C, away, transformed)  BY <1>1 DEF Transforms
    <3>3. Keeps(kept, C, away, transformed)  BY <2>1 DEF Keeps
    <3>4. Shaped(x)  BY <1>1
    <3> HIDE DEF C, K, kept
    <3> QED  BY <2>1, <3>1, <3>2, <3>3, <3>4, ChildrenAfter
  <2>6. Mapped(spared, children) = Mapped(spare, children)
    <3>1. \A k \in DOMAIN children : children[k] \in C
      <4> HIDE DEF C, children
      <4> QED  BY <2>5, LenProperties
    <3>2. \A k \in DOMAIN children : spare[children[k]] = spared[children[k]]
      <4> HIDE DEF C, children
      <4> QED  BY <3>1
    <3> HIDE DEF spare, children
    <3> QED  BY <3>2 DEF Mapped
  <2>7. spared[x] = IF x.type \in away THEN << >> ELSE <<x.type>> \o Chained(spare, children)
    BY <2>6 DEF WalkNode, Chained
  <2>8. spared[x] \in Seq(Types)
    <3>1. x.type \in Types  OBVIOUS
    <3> HIDE DEF Types, C, spare, children
    <3>2. <<x.type>> \in Seq(Types) /\ << >> \in Seq(Types)  BY <3>1
    <3>3. Chained(spare, children) \in Seq(Types)  BY <2>2, <2>5, ChainedTyped
    <3>4. <<x.type>> \o Chained(spare, children) \in Seq(Types)
      BY <3>2, <3>3, ConcatProperties
    <3> QED  BY <2>7, <3>2, <3>4
  <2>9. ASSUME x.type \notin away PROVE visited[y] = spared[x]
    <3>1. transformed[x] = TransformChildren(x, AnswersIn(x, transformed))
      BY <2>9 DEF TransformNode
    <3>2. Children(y) = Chained(kept, children)  BY <2>5, <3>1
    <3>3. Chained(kept, children) \in Seq(K)
      <4> HIDE DEF kept, K, C, children
      <4> QED  BY <2>1, <2>5, ChainedTyped
    <3>4. Mapped(visited, Children(y)) = Mapped(visit, Children(y))
      <4> HIDE DEF K, y
      <4>1. \A k \in DOMAIN Children(y) : Children(y)[k] \in K  BY <3>2, <3>3, LenProperties
      <4>2. \A k \in DOMAIN Children(y) : visit[Children(y)[k]] = visited[Children(y)[k]]
        BY <4>1
      <4> HIDE DEF visit
      <4> QED  BY <4>2 DEF Mapped
    <3>5. y.type = x.type  BY DEF Node
    <3>6. visited[y] = <<x.type>> \o Chained(visit, Children(y))
      <4>1. visited[y] = WalkNode(y, {}, Mapped(visited, Children(y)))  BY <2>9
      <4> HIDE DEF y, visit
      <4> QED  BY <3>4, <3>5, <4>1 DEF WalkNode, Chained
    <3>7. \A c \in C : spare[c] = walk[kept[c]]
      <4> SUFFICES ASSUME NEW c \in C PROVE spared[c] = walk[kept[c]]  OBVIOUS
      <4>1. kept[c] \in Seq(K) /\ kept[c] = Left(c)
        <5> HIDE DEF C, K, kept, Left
        <5> QED  BY <2>1 DEF Sends
      <4>2. walk[kept[c]] = Chained(visit, Left(c))
        <5> HIDE DEF C, K, kept, Left, walk, visit
        <5> QED  BY <2>4, <4>1
      <4>3. CASE c.type \in away
        <5>1. spared[c] = << >>  BY <4>3 DEF WalkNode
        <5>2. Left(c) = << >>  BY <4>3
        <5>3. Chained(visit, << >>) = << >>
          <6>1. Mapped(visit, << >>) = << >>  BY DEF Mapped
          <6> QED  BY <6>1, FlattenEmpty DEF Chained
        <5> HIDE DEF Left, walk, visit, kept
        <5> QED  BY <4>2, <5>1, <5>2, <5>3
      <4>4. CASE c.type \notin away
        <5> DEFINE n == Node(c.type, transformed[c])
        <5>1. Left(c) = <<n>>  BY <4>4
        <5>2. visit[n] = spared[c] /\ spared[c] \in Seq(Types)
          <6>1. spared[c] \in Seq(Types)  BY <1>2
          <6> HIDE DEF visit, Types, C, K
          <6> QED  BY <2>3, <4>4, <6>1
        <5> HIDE DEF Left, walk, visit, kept, n, Types
        <5>3. Chained(visit, <<n>>) = visit[n]
          <6>1. FlattenSeq(<<visit[n]>>) = visit[n]  BY <5>2, FlattenOne
          <6> QED  BY <6>1, MappedOne DEF Chained
        <5> QED  BY <4>2, <5>1, <5>2, <5>3
      <4> QED  BY <4>3, <4>4
    <3> HIDE DEF C, K, kept, spare, visit, walk, y, children, Types, Left
    <3>8. Mapped(walk, Mapped(kept, children)) = Mapped(spare, children)
      BY <2>1, <2>4, <2>5, <3>7, MappedTwice
    <3>9. Chained(visit, FlattenSeq(Mapped(kept, children)))
            = Chained(walk, Mapped(kept, children))
      <4>1. Mapped(kept, children) \in Seq(Seq(K))  BY <2>1, <2>5, MappedTyped
      <4> QED  BY <2>3, <2>4, <4>1, ChainedFlatten
    <3> QED  BY <2>7, <2>9, <3>2, <3>6, <3>8, <3>9 DEF Chained
  <2> QED  BY <2>8, <2>9
<1>3. \A x \in T : Agrees(x)
  <2> DEFINE Bad == {x \in T : ~Agrees(x)}
             Heights == {height[x] : x \in Bad}
  <2> SUFFICES ASSUME Bad # {} PROVE FALSE  OBVIOUS
  <2>1. Heights \in SUBSET Nat /\ Heights # {}  BY <1>1
  <2>2. FirstOf(Heights) \in Heights /\ \A k \in Heights : FirstOf(Heights) <= k
    <3> HIDE DEF Heights
    <3> QED  BY <2>1, FirstExists
  <2>3. PICK x \in Bad : height[x] = FirstOf(Heights)  BY <2>2
  <2>4. \A c \in Bad : height[x] <= height[c]  BY <2>2, <2>3
  <2>5. ASSUME NEW c \in T, height[c] < height[x] PROVE Agrees(c)
    <3>1. height[c] \in Nat /\ height[x] \in Nat  BY <1>1
    <3>2. c \notin Bad  
      <4> HIDE DEF Bad
      <4> QED  BY <2>4, <2>5, <3>1
    <3> HIDE DEF Agrees
    <3> QED  BY <3>2
  <2>6. x \in T /\ ~Agrees(x)  OBVIOUS
  <2> HIDE DEF Agrees, Bad, Heights
  <2> QED  BY <1>2, <2>5, <2>6
<1> QED  BY <1>3
=============================================================================
