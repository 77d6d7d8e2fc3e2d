---------------------------- MODULE EntriesProofs ----------------------------
(* What adding a resource does to a bundle's maps: the positions it takes  *)
(* definitions from exist, and the maps stay maps of definitions.          *)
EXTENDS Entries, NaturalsInduction, WellFoundedInduction, TLAPS

(* The first member of a set of positions. *)
LEMMA FirstExists ==
  ASSUME NEW S \in SUBSET Nat, S # {}
  PROVE  FirstOf(S) \in S /\ \A k \in S : FirstOf(S) <= k
<1> DEFINE R == {ss \in Nat \X Nat : ss[1] < ss[2]}
<1>1. IsWellFoundedOn(R, Nat)  BY NatLessThanWellFounded, Zenon DEF OpToRel
<1>2. PICK j \in S : \A k \in S : ~(<<k, j>> \in R)  BY <1>1, WFMin
<1>3. \A k \in S : j <= k
  <2> SUFFICES ASSUME NEW k \in S PROVE j <= k  OBVIOUS
  <2>1. ~(k < j)  BY <1>2
  <2> QED  BY <2>1
<1>4. j \in S /\ \A k \in S : j <= k  BY <1>2, <1>3
<1> QED  BY <1>4 DEF FirstOf

(* The last member of a bounded set of positions. *)
LEMMA LastExists ==
  ASSUME NEW n \in Nat, NEW S \in SUBSET (0..n), S # {}
  PROVE  LastOf(S) \in S /\ \A k \in S : k <= LastOf(S)
<1> DEFINE T == {n - k : k \in S}
<1>1. T \in SUBSET Nat /\ T # {}
  <2>1. \A k \in S : n - k \in Nat  OBVIOUS
  <2> QED  BY <2>1
<1>2. FirstOf(T) \in T /\ \A k \in T : FirstOf(T) <= k  BY <1>1, FirstExists
<1>3. PICK j \in S : FirstOf(T) = n - j  BY <1>2
<1>4. \A k \in S : k <= j
  <2> SUFFICES ASSUME NEW k \in S PROVE k <= j  OBVIOUS
  <2>1. n - k \in T  OBVIOUS
  <2>2. n - j <= n - k  BY <1>2, <1>3, <2>1
  <2> QED  BY <2>2
<1>5. j \in S /\ \A k \in S : k <= j  BY <1>3, <1>4
<1> QED  BY <1>5 DEF LastOf

(* An earlier position added to a set of positions. *)
LEMMA EarlierAdded ==
  ASSUME NEW n \in Nat, NEW S \in SUBSET (0..n), NEW i \in 0..n, \A k \in S : i < k
  PROVE  /\ FirstOf(S \cup {i}) = i
         /\ S = {} => LastOf(S \cup {i}) = i
         /\ S # {} => LastOf(S \cup {i}) = LastOf(S)
<1> DEFINE T == S \cup {i}
<1>1. T \in SUBSET Nat /\ T \in SUBSET (0..n) /\ T # {}  OBVIOUS
<1> HIDE DEF T
<1>2. FirstOf(T) \in T /\ \A k \in T : FirstOf(T) <= k  BY <1>1, FirstExists
<1>3. LastOf(T) \in T /\ \A k \in T : k <= LastOf(T)  BY <1>1, LastExists
<1> USE DEF T
<1>4. FirstOf(T) = i
  <2>1. FirstOf(T) <= i /\ (FirstOf(T) \in S \/ FirstOf(T) = i)  BY <1>2
  <2>2. ASSUME FirstOf(T) \in S PROVE FALSE
    <3>1. i < FirstOf(T) /\ FirstOf(T) \in 0..n  BY <2>2
    <3> QED  BY <2>1, <3>1
  <2> QED  BY <2>1, <2>2
<1>5. S = {} => LastOf(T) = i  BY <1>3
<1>6. ASSUME S # {} PROVE LastOf(T) = LastOf(S)
  <2>1. LastOf(S) \in S /\ \A k \in S : k <= LastOf(S)  BY <1>6, LastExists
  <2>2. i < LastOf(S) /\ LastOf(S) \in 0..n  BY <2>1
  <2>3. LastOf(S) <= LastOf(T)  BY <1>3, <2>1
  <2>4. LastOf(T) \in S  BY <1>3, <2>2, <2>3
  <2>5. LastOf(T) <= LastOf(S) /\ LastOf(T) \in 0..n  BY <2>1, <2>4
  <2> QED  BY <2>2, <2>3, <2>5
<1> QED  BY <1>4, <1>5, <1>6

(* A function on 0..n that is defined from its value before: there is one. *)
Stepwise(f, n, S, a, G) ==
  /\ f \in [0..n -> S]
  /\ \A q \in 0..n : f[q] = IF q = 0 THEN a ELSE G[<<q, f[q - 1]>>]

LEMMA RecursionExists ==
  ASSUME NEW n \in Nat, NEW S, NEW a \in S, NEW G \in [(1..n) \X S -> S]
  PROVE  \E f : Stepwise(f, n, S, a, G)
<1> DEFINE Is(f, m) == \A q \in 0..m : f[q] = IF q = 0 THEN a ELSE G[<<q, f[q - 1]>>]
           Without == {m \in 0..n : ~\E f \in [0..m -> S] : Is(f, m)}
<1>1. Without = {}
  <2> SUFFICES ASSUME Without # {} PROVE FALSE  OBVIOUS
  <2>1. PICK m \in Without : \A j \in Without : m <= j
    <3>1. Without \in SUBSET Nat  OBVIOUS
    <3> HIDE DEF Without
    <3> QED  BY <3>1, FirstExists
  <2>2. m # 0
    <3> DEFINE f == [q \in 0..0 |-> a]
    <3>1. Is(f, 0) /\ f \in [0..0 -> S]  OBVIOUS
    <3> QED  BY <3>1
  <2>3. m - 1 \in 0..n /\ m \in 1..n /\ m - 1 \notin Without
    <3>1. m \in 1..n  BY <2>1, <2>2
    <3>2. m - 1 \in 0..n /\ ~(m <= m - 1)  BY <3>1
    <3> HIDE DEF Without
    <3> QED  BY <2>1, <3>1, <3>2
  <2>4. PICK f \in [0..m - 1 -> S] : Is(f, m - 1)  BY <2>3
  <2> DEFINE v == G[<<m, f[m - 1]>>]
  <2>5. v \in S  BY <2>3, <2>4
  <2>6. PICK h : h = [q \in 0..m |-> IF q = m THEN v ELSE f[q]]  OBVIOUS
  <2>7. /\ h[m] = v
        /\ \A q \in 0..m : q # m => q \in 0..m - 1 /\ h[q] = f[q]
    BY <2>3, <2>6
  <2>8. h \in [0..m -> S]  BY <2>3, <2>4, <2>5, <2>6, <2>7
  <2>9. Is(h, m)
    <3> SUFFICES ASSUME NEW q \in 0..m
                 PROVE  h[q] = IF q = 0 THEN a ELSE G[<<q, h[q - 1]>>]
      OBVIOUS
    <3>1. CASE q = m
      <4>1. h[q - 1] = f[m - 1]
        <5>1. m - 1 \in 0..m /\ m - 1 # m  BY <2>3
        <5> QED  BY <2>7, <3>1, <5>1
      <4> QED  BY <2>2, <2>7, <3>1, <4>1
    <3>2. CASE q # m /\ q = 0  BY <2>4, <2>7, <3>2
    <3>3. CASE q # m /\ q # 0
      <4>1. q \in 0..m - 1 /\ q - 1 \in 0..m /\ q - 1 # m  BY <2>3, <3>3
      <4>2. h[q - 1] = f[q - 1] /\ h[q] = f[q]  BY <2>7, <3>3, <4>1
      <4>3. f[q] = G[<<q, f[q - 1]>>]  BY <2>4, <3>3, <4>1
      <4> QED  BY <3>3, <4>2, <4>3
    <3> QED  BY <3>1, <3>2, <3>3
  <2> QED  BY <2>1, <2>8, <2>9
<1>2. n \notin Without  BY <1>1
<1> QED  BY <1>2 DEF Stepwise

LEMMA ElementTyped ==
  ASSUME NEW S, NEW seq \in Seq(S), NEW i \in 1..Len(seq)
  PROVE  seq[i] \in S
OBVIOUS

(* A resource only ever adds definitions of its own. *)
LEMMA AppliedTyped ==
  ASSUME NEW I, NEW D, NEW ds \in [Kinds -> [I -> D \cup {Absent}]],
         NEW res \in Seq([kind : Kinds, id : I, def : D]),
         NEW i \in Nat \ {0}, NEW override
  PROVE  Applied(ds, res, i, override) \in [Kinds -> [I -> D \cup {Absent}]]
<1> DEFINE js(kind, id) == Defining(res, kind, id, i)
           taken(kind, id) == res[IF override THEN LastOf(js(kind, id))
                                  ELSE FirstOf(js(kind, id))].def
<1>1. ASSUME NEW kind \in Kinds, NEW id \in I, js(kind, id) # {}
      PROVE  taken(kind, id) \in D
  <2> DEFINE S == js(kind, id)
             j == IF override THEN LastOf(S) ELSE FirstOf(S)
  <2>1. S \in SUBSET (1..Len(res)) /\ S \in SUBSET (0..Len(res)) /\ S \in SUBSET Nat
    BY DEF Defining
  <2>2. Len(res) \in Nat /\ S # {}  BY <1>1
  <2> HIDE DEF S
  <2>3. FirstOf(S) \in S  BY <2>1, <2>2, FirstExists
  <2>4. LastOf(S) \in S  BY <2>1, <2>2, LastExists
  <2>5. j \in 1..Len(res)  BY <2>1, <2>3, <2>4
  <2> HIDE DEF j
  <2>6. res[j] \in [kind : Kinds, id : I, def : D]  BY <2>5, ElementTyped
  <2>7. res[j].def \in D  BY <2>6
  <2> QED  BY <2>7 DEF j, S
<1> HIDE DEF js, taken
<1>2. Applied(ds, res, i, override) =
        [kind \in Kinds |-> [id \in I |->
          IF js(kind, id) = {} \/ (~override /\ ds[kind][id] # Absent)
            THEN ds[kind][id] ELSE taken(kind, id)]]
  BY DEF Applied, js, taken
<1> QED  BY <1>1, <1>2
=============================================================================
