-------------------------- MODULE LocalizationProofs --------------------------
(* Theorems about the chain of bundles, how it is built and how a search   *)
(* goes along it, for any bundles, messages and loads, and any resources   *)
(* other goroutines add to them.                                           *)
EXTENDS Localization, EntriesProofs, SequenceTheorems

(* The chain is being built of, or consists of, well-formed bundles. *)
ChainInv ==
  /\ source \in [Locales -> [DOMAIN ResIds -> Loads]]
  /\ supported \in Seq(Locales)
  /\ chain \in Seq(Bundles)
  /\ res \in Nat \ {0}
  /\ bundle \in Bundles
  /\ call \in Calls
  /\ k \in Nat \ {0}
  /\ \E S : texts \in Seq(S)
  /\ pc \in {"new", "build", "idle", "search", "format", "done"}

(* The n-th part of the answer to a call, from one definition. *)
Part(asked, def, n) ==
  LET attr == Parts(asked, def)[n] IN [attr |-> attr, pattern |-> Pattern(def, attr)]

(* What the search knows: the bundles that have had what is asked for all  *)
(* along have it now, and none of them lies behind; a message it has found *)
(* is what was asked for; what is formatted so far is that message's.      *)
SearchInv ==
  pc \in {"search", "format", "done"} =>
    /\ always \subseteq Having(chain, call)
    /\ always \cap 1..k - 1 = {}
    /\ pc = "search" \/ k > Len(chain) => msg = Absent
    /\ pc = "search" => texts = << >>
    /\ pc = "format" => k <= Len(chain)
    /\ pc # "search" /\ k <= Len(chain) =>
         msg \in Defs /\ (call.op = "value" => Has(msg, call.attr))
    /\ \A n \in 1..Len(texts) :
         texts[n] = Part(call, msg, n)
    /\ pc = "done" /\ k <= Len(chain) => Len(texts) = Len(Parts(call, msg))

IInv == ChainInv /\ SearchInv

LEMMA LoadsTyped ==
  ASSUME NEW added \in Resources \cup (Loads \ {LoadError}), NEW b \in Bundles, NEW override
  PROVE  Applied(b, added, 1, override) \in Bundles
<1>1. added \in Seq([kind : Kinds, id : Ids, def : Defs])  BY LocalizationAssumption
<1>2. b \in [Kinds -> [Ids -> Defs \cup {Absent}]]  BY DEF Bundles
<1>3. 1 \in Nat \ {0}  OBVIOUS
<1> QED  BY <1>1, <1>2, <1>3, AppliedTyped DEF Bundles

LEMMA InitIInv == Init => IInv
<1> SUFFICES ASSUME Init PROVE IInv  OBVIOUS
<1>1. Empty \in Bundles  BY DEF Empty, Bundles
<1>2. \A S : << >> \in Seq(S)  OBVIOUS
<1>3. ChainInv  BY <1>1, <1>2 DEF Init, ChainInv
<1>4. SearchInv  BY DEF Init, SearchInv
<1> QED  BY <1>3, <1>4 DEF IInv

LEMMA NextChainInv == ChainInv /\ [Next]_vars => ChainInv'
<1> SUFFICES ASSUME ChainInv, [Next]_vars PROVE ChainInv'  OBVIOUS
<1> USE DEF ChainInv, building, calling
<1>1. CASE UNCHANGED vars  BY <1>1 DEF vars
<1>2. CASE Negotiate
  <2>1. supported' \in Seq(Locales)
    BY <1>2, LocalizationAssumption DEF Negotiate
  <2> QED  BY <1>2, <2>1 DEF Negotiate
<1>3. CASE LoadFails  BY <1>3 DEF LoadFails, AfterLoadError
<1>4. CASE LoadAndAdd
  <2>1. bundle' \in Bundles
    <3>1. /\ Len(chain) < Len(supported) /\ res <= Len(ResIds)
          /\ source[Locale][res] # LoadError
      BY <1>4 DEF LoadAndAdd, AtResource, AtLocale
    <3>2. Locale \in Locales
      <4>1. Len(chain) \in Nat /\ Len(supported) \in Nat  BY LenProperties
      <4>2. Len(chain) + 1 \in 1..Len(supported)  BY <3>1, <4>1
      <4> QED  BY <4>2, ElementTyped DEF Locale
    <3>3. res \in DOMAIN ResIds
      <4>1. Len(ResIds) \in Nat /\ DOMAIN ResIds = 1..Len(ResIds)
        BY LocalizationAssumption
      <4>2. res \in 1..Len(ResIds)  BY <3>1, <4>1
      <4> QED  BY <4>1, <4>2
    <3>4. source[Locale][res] \in Loads \ {LoadError}  BY <3>1, <3>2, <3>3
    <3>5. bundle' = Applied(bundle, source[Locale][res], 1, FALSE)
      BY <1>4 DEF LoadAndAdd
    <3> QED  BY <3>4, <3>5, LoadsTyped
  <2>2. res' = res + 1 /\ UNCHANGED <<source, supported, chain, call, k, texts, pc>>
    BY <1>4 DEF LoadAndAdd
  <2>3. res' \in Nat \ {0}  BY <2>2
  <2> QED  BY <2>1, <2>2, <2>3
<1>5. CASE NextLocale
  <2>1. Empty \in Bundles  BY DEF Empty, Bundles
  <2>2. Append(chain, bundle) \in Seq(Bundles)  BY AppendProperties
  <2> QED  BY <1>5, <2>1, <2>2 DEF NextLocale
<1>6. CASE Built  BY <1>6 DEF Built
<1>7. CASE Begin
  <2>1. \A S : << >> \in Seq(S)  OBVIOUS
  <2> QED  BY <1>7, <2>1 DEF Begin
<1>8. CASE TryNext  BY <1>8 DEF TryNext
<1>9. CASE Hit \/ Miss \/ Formatted \/ Return
  BY <1>9 DEF Hit, Miss, Formatted, Return
<1>10. CASE FormatPart
  <2> DEFINE part == [attr |-> Parts(call, Message)[Len(texts) + 1],
                      pattern |-> Pattern(Message, Parts(call, Message)[Len(texts) + 1])]
  <2>1. texts' = Append(texts, part)  BY <1>10 DEF FormatPart
  <2> HIDE DEF part
  <2>2. \E S : texts' \in Seq(S)
    <3>1. PICK S : texts \in Seq(S)  OBVIOUS
    <3>2. texts \in Seq(S \cup {part})  BY <3>1
    <3>3. texts' \in Seq(S \cup {part})  BY <2>1, <3>2, AppendProperties
    <3> QED  BY <3>3
  <2> QED  BY <1>10, <2>2 DEF FormatPart
<1>11. CASE AddResource
  <2>1. PICK j \in DOMAIN chain, added \in Resources, override \in Overriding :
          chain' = [chain EXCEPT ![j] = Applied(chain[j], added, 1, override)]
    BY <1>11 DEF AddResource
  <2>2. chain[j] \in Bundles  BY ElementOfSeq
  <2>3. Applied(chain[j], added, 1, override) \in Bundles  BY <2>2, LoadsTyped
  <2>4. chain' \in Seq(Bundles)  BY <2>1, <2>3, ExceptSeq
  <2> QED  BY <1>11, <2>4 DEF AddResource
<1> QED
  BY <1>1, <1>2, <1>3, <1>4, <1>5, <1>6, <1>7, <1>8, <1>9, <1>10, <1>11 DEF Next

LEMMA NextSearchInv == IInv /\ ChainInv' /\ [Next]_vars => SearchInv'
<1> SUFFICES ASSUME ChainInv, ChainInv', SearchInv, [Next]_vars PROVE SearchInv'
  BY DEF IInv
<1> USE DEF building, calling
<1>0. Len(chain) \in Nat /\ k \in Nat \ {0}  BY LenProperties DEF ChainInv
<1>1. CASE UNCHANGED vars
  BY <1>1 DEF vars, SearchInv, Having
<1>2. CASE Negotiate \/ LoadFails \/ LoadAndAdd \/ NextLocale \/ Built \/ Return
  <2>1. pc' \notin {"search", "format", "done"}
    BY <1>2 DEF Negotiate, LoadFails, LoadAndAdd, AtResource, NextLocale, AtLocale,
                Built, Return
  <2> QED  BY <2>1 DEF SearchInv
<1>3. CASE Begin
  <2>1. /\ pc' = "search" /\ k' = 1 /\ msg' = Absent /\ texts' = << >>
        /\ always' = Having(chain, call') /\ chain' = chain
    BY <1>3 DEF Begin
  <2>2. 1..k' - 1 = {} /\ 1..Len(texts') = {}  BY <2>1
  <2> QED  BY <2>1, <2>2 DEF SearchInv
<1>4. CASE TryNext
  <2>1. /\ pc = "search" /\ k <= Len(chain) /\ ~Hits /\ k' = k + 1
        /\ UNCHANGED <<call, msg, texts, always, chain, pc>>
    BY <1>4 DEF TryNext
  <2>2. always \subseteq Having(chain, call) /\ always \cap 1..k - 1 = {}
        /\ msg = Absent /\ texts = << >>
    BY <2>1 DEF SearchInv
  <2>3. k \notin Having(chain, call)
    BY <2>1 DEF Having, Hits, Found
  <2>4. 1..k' - 1 = 1..k - 1 \cup {k}  BY <1>0, <2>1
  <2>5. always \cap 1..k' - 1 = {}  BY <2>2, <2>3, <2>4
  <2>6. 1..Len(texts) = {}  BY <2>2
  <2> QED  BY <2>1, <2>2, <2>5, <2>6 DEF SearchInv
<1>5. CASE Hit
  <2>1. /\ pc = "search" /\ k <= Len(chain) /\ Hits /\ msg' = Found /\ pc' = "format"
        /\ UNCHANGED <<call, k, texts, always, chain>>
    BY <1>5 DEF Hit
  <2>2. Found \in Defs
    <3>1. chain[k] \in Bundles
      <4>1. k \in 1..Len(chain)  BY <1>0, <2>1
      <4> QED  BY <4>1, ElementTyped DEF ChainInv
    <3>2. call.id \in Ids  BY DEF ChainInv, Calls
    <3>3. Found \in Defs \cup {Absent}  BY <3>1, <3>2 DEF Found, Bundles, Kinds
    <3> QED  BY <2>1, <3>3 DEF Hits
  <2>3. call.op = "value" => Has(msg', call.attr)  BY <2>1 DEF Hits
  <2>4. texts = << >> /\ 1..Len(texts) = {}  BY <2>1 DEF SearchInv
  <2>5. ~(k > Len(chain))  BY <1>0, <2>1
  <2> QED  BY <2>1, <2>2, <2>3, <2>4, <2>5 DEF SearchInv
<1>6. CASE Miss
  <2>1. /\ pc = "search" /\ k > Len(chain) /\ pc' = "done"
        /\ UNCHANGED <<call, k, msg, texts, always, chain>>
    BY <1>6 DEF Miss
  <2>2. ~(k <= Len(chain))  BY <1>0, <2>1
  <2> QED  BY <2>1, <2>2 DEF SearchInv
<1>7. CASE FormatPart
  <2> DEFINE part(n) == Part(call, msg, n)
             next == Len(texts) + 1
  <2>1. /\ pc = "format" /\ texts' = Append(texts, part(next))
        /\ UNCHANGED <<call, k, msg, always, chain, pc>>
    BY <1>7 DEF FormatPart, Message, Part
  <2>2. \A n \in 1..Len(texts) : texts[n] = part(n)  BY <2>1 DEF SearchInv
  <2> HIDE DEF part
  <2>3. PICK S : texts \in Seq(S)  BY DEF ChainInv
  <2>4. texts \in Seq(S \cup {part(next)})  BY <2>3
  <2>5. /\ Len(texts') = Len(texts) + 1 /\ Len(texts) \in Nat
        /\ \A n \in 1..Len(texts) : texts'[n] = texts[n]
        /\ texts'[Len(texts) + 1] = part(next)
    BY <2>1, <2>4, AppendProperties, LenProperties
  <2>6. \A n \in 1..Len(texts') : texts'[n] = part(n)
    <3> SUFFICES ASSUME NEW n \in 1..Len(texts') PROVE texts'[n] = part(n)  OBVIOUS
    <3>1. n \in 1..Len(texts) \/ n = next  BY <2>5
    <3> QED  BY <2>2, <2>5, <3>1
  <2> USE DEF part
  <2>7. ~(k > Len(chain))  BY <1>0, <2>1 DEF SearchInv
  <2> QED  BY <2>1, <2>6, <2>7 DEF SearchInv
<1>8. CASE Formatted
  <2>1. /\ pc = "format" /\ pc' = "done" /\ Len(texts) = Len(Parts(call, msg))
        /\ UNCHANGED <<call, k, msg, texts, always, chain>>
    BY <1>8 DEF Formatted, Message
  <2>2. k <= Len(chain) /\ ~(k > Len(chain))  BY <1>0, <2>1 DEF SearchInv
  <2> QED  BY <2>1, <2>2 DEF SearchInv
<1>9. CASE AddResource
  <2>1. /\ always' = always \cap Having(chain', call)
        /\ UNCHANGED <<call, k, msg, texts, pc>>
    BY <1>9 DEF AddResource
  <2>2. Len(chain') = Len(chain)
    <3>1. PICK j \in DOMAIN chain, added \in Resources, override \in Overriding :
            chain' = [chain EXCEPT ![j] = Applied(@, added, 1, override)]
      BY <1>9 DEF AddResource
    <3>2. DOMAIN chain' = DOMAIN chain  BY <3>1
    <3> QED  BY <3>2, LenProperties DEF ChainInv
  <2>3. always' \subseteq Having(chain', call') /\ always' \subseteq always  BY <2>1
  <2> QED  BY <2>1, <2>2, <2>3 DEF SearchInv
<1> QED
  BY <1>1, <1>2, <1>3, <1>4, <1>5, <1>6, <1>7, <1>8, <1>9 DEF Next

THEOREM LocalizationInductive == Spec => []IInv
<1>1. IInv /\ [Next]_vars => IInv'  BY NextChainInv, NextSearchInv DEF IInv
<1> QED  BY InitIInv, <1>1, PTL DEF Spec

(* FormatValue and FormatMessage answer with the first bundle of the chain *)
(* that has what was asked, whatever other goroutines add and override     *)
(* during the search.                                                      *)
THEOREM LocalizationFirstBundleWins == Spec => []FirstBundleWins
<1>1. IInv => FirstBundleWins
  BY LocalizationAssumption DEF IInv, SearchInv, FirstBundleWins
<1> QED  BY <1>1, LocalizationInductive, PTL

(* FormatMessage returns the parts of one definition. *)
THEOREM LocalizationWholeMessage == Spec => []WholeMessage
<1>1. IInv => WholeMessage
  <2> SUFFICES ASSUME IInv, pc = "done", call.op = "message", k <= Len(chain)
               PROVE  \E def \in Defs :
                        /\ Len(texts) = Len(Parts(call, def))
                        /\ \A n \in DOMAIN texts : texts[n] = Part(call, def, n)
    BY DEF WholeMessage, Part
  <2>1. /\ msg \in Defs /\ Len(texts) = Len(Parts(call, msg))
        /\ \A n \in 1..Len(texts) : texts[n] = Part(call, msg, n)
    BY DEF IInv, SearchInv
  <2>2. DOMAIN texts = 1..Len(texts)  BY LenProperties DEF IInv, ChainInv
  <2> QED  BY <2>1, <2>2
<1> QED  BY <1>1, LocalizationInductive, PTL

(***************************************************************************)
(* How the chain is built, and what an answer is made of.                  *)
(***************************************************************************)
(* What the chain holds while it is being built: a bundle for every locale *)
(* behind, and of the locale it is at what its first resources make.       *)
BuildInv ==
  pc \in {"new", "build"} =>
    /\ \A n \in 1..Len(chain) : chain[n] = Loaded(supported[n])[Len(ResIds)]
    /\ bundle = IF Len(chain) < Len(supported) THEN Loaded(Locale)[res - 1] ELSE Empty
    /\ Len(chain) < Len(supported) \/ res = 1
    /\ {errs[n] : n \in 1..Len(errs)} =
         {at \in (1..Len(supported)) \X (1..Len(ResIds)) :
            /\ at[1] <= Len(chain) \/ (at[1] = Len(chain) + 1 /\ at[2] < res)
            /\ Failed(supported[at[1]], at[2])}

Answers == [attr : {""} \cup Range(AttrNames), pattern : Patterns]

TypeInv ==
  /\ Len(chain) <= Len(supported)
  /\ res \in 1..Len(ResIds) + 1
  /\ errs \in Seq((1..Len(supported)) \X (1..Len(ResIds)))
  /\ k <= Len(chain) + 1
  /\ msg \in Defs \cup {Absent}
  /\ texts \in Seq(Answers)
  /\ problems \in BOOLEAN
  /\ always \subseteq DOMAIN chain
  /\ pc = "new" => supported = << >> /\ chain = << >> /\ errs = << >>

LEMMA LoadedIs ==
  ASSUME source \in [Locales -> [DOMAIN ResIds -> Loads]], NEW l \in Locales
  PROVE  /\ Loaded(l)[0] = Empty
         /\ \A m \in 1..Len(ResIds) :
              Loaded(l)[m] = IF source[l][m] = LoadError THEN Loaded(l)[m - 1]
                             ELSE Applied(Loaded(l)[m - 1], source[l][m], 1, FALSE)
<1> DEFINE N == Len(ResIds)
           Step(m, b) == IF source[l][m] = LoadError THEN b
                         ELSE Applied(b, source[l][m], 1, FALSE)
           Is(f) == f = [m \in 0..N |-> IF m = 0 THEN Empty ELSE Step(m, f[m - 1])]
<1>1. N \in Nat /\ DOMAIN ResIds = 1..N  BY LocalizationAssumption
<1>2. Empty \in Bundles  BY DEF Empty, Bundles
<1>3. ASSUME NEW m \in 1..N, NEW b \in Bundles PROVE Step(m, b) \in Bundles
  <2>1. source[l][m] \in Loads  BY <1>1
  <2> QED  BY <2>1, LoadsTyped
<1>4. Loaded(l) = CHOOSE f : Is(f)  BY DEF Loaded
<1> HIDE DEF N, Step
<1>5. PICK G : G = [x \in (1..N) \X Bundles |-> Step(x[1], x[2])]  OBVIOUS
<1>6. /\ G \in [(1..N) \X Bundles -> Bundles]
      /\ \A m \in 1..N, b \in Bundles : G[<<m, b>>] = Step(m, b)
  BY <1>3, <1>5
<1>7. PICK f : Stepwise(f, N, Bundles, Empty, G)
  BY <1>1, <1>2, <1>6, RecursionExists
<1>8. Is(f)
  <2>1. \A m \in 0..N : m # 0 => m \in 1..N /\ f[m - 1] \in Bundles
    <3>1. \A m \in 0..N : m # 0 => m \in 1..N /\ m - 1 \in 0..N  BY <1>1
    <3> QED  BY <1>7, <3>1 DEF Stepwise
  <2>2. f = [m \in 0..N |-> f[m]]  BY <1>7 DEF Stepwise
  <2> QED  BY <1>6, <1>7, <2>1, <2>2 DEF Stepwise
<1>9. Is(Loaded(l))  BY <1>4, <1>8
<1>10. \A m \in 0..N : Loaded(l)[m] = IF m = 0 THEN Empty ELSE Step(m, Loaded(l)[m - 1])
  BY <1>9
<1>11. 0 \in 0..N /\ \A m \in 1..N : m \in 0..N /\ m # 0  BY <1>1
<1> QED  BY <1>10, <1>11 DEF Step, N

(* The parts of an answer are parts the message has. *)
LEMMA PartsTyped ==
  ASSUME NEW asked \in Calls, NEW def \in Defs, asked.op = "value" => Has(def, asked.attr)
  PROVE  Parts(asked, def) \in Seq({attr \in {""} \cup Range(AttrNames) : Has(def, attr)})
<1> DEFINE S == {attr \in {""} \cup Range(AttrNames) : Has(def, attr)}
           N == Len(AttrNames)
           With(some, attr) == IF Has(def, attr) THEN Append(some, attr) ELSE some
           Is(f) == f = [m \in 0..N |-> IF m = 0 THEN With(<< >>, "")
                                        ELSE With(f[m - 1], AttrNames[m])]
<1>1. CASE asked.op = "value"
  <2>1. Parts(asked, def) = <<asked.attr>>  BY <1>1 DEF Parts
  <2>2. asked.attr \in S  BY <1>1 DEF Calls
  <2> HIDE DEF S
  <2>3. <<asked.attr>> \in Seq(S)  BY <2>2
  <2> QED  BY <2>1, <2>3 DEF S
<1>2. CASE asked.op # "value"
  <2>1. N \in Nat /\ DOMAIN AttrNames = 1..N  BY LocalizationAssumption
  <2>2. ASSUME NEW some \in Seq(S), NEW attr \in {""} \cup Range(AttrNames)
        PROVE  With(some, attr) \in Seq(S)
    <3>1. CASE Has(def, attr)
      <4>1. attr \in S  BY <3>1
      <4> HIDE DEF S
      <4> QED  BY <3>1, <4>1, AppendProperties
    <3> QED  BY <3>1
  <2>3. Parts(asked, def) = (CHOOSE f : Is(f))[N]  BY <1>2 DEF Parts
  <2> HIDE DEF S, N, With
  <2>4. << >> \in Seq(S)  OBVIOUS
  <2>5. With(<< >>, "") \in Seq(S)  BY <2>2, <2>4
  <2>6. PICK G : G = [x \in (1..N) \X Seq(S) |-> With(x[2], AttrNames[x[1]])]  OBVIOUS
  <2>7. /\ G \in [(1..N) \X Seq(S) -> Seq(S)]
        /\ \A m \in 1..N, some \in Seq(S) : G[<<m, some>>] = With(some, AttrNames[m])
    <3>1. \A m \in 1..N : AttrNames[m] \in {""} \cup Range(AttrNames)  BY <2>1 DEF Range
    <3> QED  BY <2>2, <2>6, <3>1
  <2>8. PICK f : Stepwise(f, N, Seq(S), With(<< >>, ""), G)
    BY <2>1, <2>5, <2>7, RecursionExists
  <2>9. Is(f)
    <3>1. \A m \in 0..N : m # 0 => m \in 1..N /\ f[m - 1] \in Seq(S)
      <4>1. \A m \in 0..N : m # 0 => m \in 1..N /\ m - 1 \in 0..N  BY <2>1
      <4> QED  BY <2>8, <4>1 DEF Stepwise
    <3>2. f = [m \in 0..N |-> f[m]]  BY <2>8 DEF Stepwise
    <3> QED  BY <2>7, <2>8, <3>1, <3>2 DEF Stepwise
  <2>10. PICK h : h = (CHOOSE g : Is(g)) /\ Is(h)  BY <2>9
  <2>11. \A m \in 0..N : h[m] \in Seq(S)
    <3> DEFINE Bad == {m \in 0..N : h[m] \notin Seq(S)}
    <3> SUFFICES ASSUME Bad # {} PROVE FALSE  OBVIOUS
    <3>1. PICK m \in Bad : \A j \in Bad : m <= j
      <4>1. Bad \in SUBSET Nat  BY <2>1
      <4> HIDE DEF Bad
      <4> QED  BY <4>1, FirstExists
    <3>2. \A q \in 0..N : h[q] = IF q = 0 THEN With(<< >>, "")
                                 ELSE With(h[q - 1], AttrNames[q])
      BY <2>10
    <3>3. m # 0  BY <2>5, <3>1, <3>2
    <3>4. m \in 1..N /\ m - 1 \in 0..N /\ ~(m <= m - 1)  BY <2>1, <3>1, <3>3
    <3>5. h[m - 1] \in Seq(S)  BY <3>1, <3>4
    <3>6. AttrNames[m] \in {""} \cup Range(AttrNames)  BY <2>1, <3>4 DEF Range
    <3>7. h[m] \in Seq(S)  BY <2>2, <3>2, <3>3, <3>4, <3>5, <3>6
    <3> QED  BY <3>1, <3>7
  <2>12. N \in 0..N  BY <2>1
  <2> QED  BY <2>3, <2>10, <2>11, <2>12 DEF S
<1> QED  BY <1>1, <1>2

LEMMA LengthsTyped ==
  ASSUME ChainInv
  PROVE  /\ Len(chain) \in Nat /\ DOMAIN chain = 1..Len(chain)
         /\ Len(supported) \in Nat /\ DOMAIN supported = 1..Len(supported)
         /\ Len(ResIds) \in Nat /\ DOMAIN ResIds = 1..Len(ResIds)
BY LenProperties, LocalizationAssumption DEF ChainInv

(* Where NewFromLocales is, when it is at a resource. *)
LEMMA PositionTyped ==
  ASSUME ChainInv, AtLocale
  PROVE  /\ Len(chain) + 1 \in 1..Len(supported) /\ Locale \in Locales
         /\ AtResource => Position \in (1..Len(supported)) \X (1..Len(ResIds))
<1>1. Len(chain) + 1 \in 1..Len(supported)  BY LengthsTyped DEF AtLocale
<1>2. Locale \in Locales  BY <1>1, ElementTyped DEF Locale, ChainInv
<1>3. AtResource => res \in 1..Len(ResIds)  BY LengthsTyped DEF AtResource, ChainInv
<1> QED  BY <1>1, <1>2, <1>3 DEF Position

(* What is appended to a list of errors. *)
LEMMA ErrorAdded ==
  ASSUME NEW S, NEW s \in Seq(S), NEW e \in S
  PROVE  LET t == Append(s, e) IN
         /\ t \in Seq(S)
         /\ {t[n] : n \in 1..Len(t)} = {s[n] : n \in 1..Len(s)} \cup {e}
<1> DEFINE t == Append(s, e)
<1>1. /\ t \in Seq(S) /\ Len(s) \in Nat /\ Len(t) = Len(s) + 1
      /\ \A n \in 1..Len(s) : t[n] = s[n]
      /\ t[Len(s) + 1] = e
  BY AppendProperties, LenProperties
<1> HIDE DEF t
<1>2. 1..Len(t) = 1..Len(s) \cup {Len(s) + 1}  BY <1>1
<1>3. {t[n] : n \in 1..Len(t)} = {t[n] : n \in 1..Len(s)} \cup {t[Len(s) + 1]}
  BY <1>2
<1>4. {t[n] : n \in 1..Len(s)} = {s[n] : n \in 1..Len(s)}  BY <1>1
<1> QED  BY <1>1, <1>3, <1>4 DEF t

LEMMA NextTypeInv ==
  ASSUME IInv, TypeInv, Next
  PROVE  TypeInv'
<1> USE DEF building, calling
<1>0. /\ Len(chain) \in Nat /\ DOMAIN chain = 1..Len(chain) /\ Len(supported) \in Nat
      /\ Len(ResIds) \in Nat /\ DOMAIN ResIds = 1..Len(ResIds) /\ k \in Nat \ {0}
      /\ ChainInv /\ SearchInv /\ chain \in Seq(Bundles)
  BY LengthsTyped DEF IInv, ChainInv
<1>1. CASE Negotiate
  <2>1. /\ pc = "new" /\ chain = << >> /\ errs = << >>
        /\ UNCHANGED <<res, errs, chain, k, msg, texts, problems, always>>
        /\ pc' = "new" => supported' = supported
    BY <1>1 DEF Negotiate, TypeInv
  <2>2. Len(supported') \in Nat
    <3>1. ChainInv'  BY <1>0, NextChainInv
    <3> QED  BY <3>1, LenProperties DEF ChainInv
  <2>3. Len(chain') <= Len(supported')  BY <2>1, <2>2
  <2>4. errs' \in Seq((1..Len(supported')) \X (1..Len(ResIds)))  BY <2>1
  <2>5. pc' = "new" => supported' = << >>  BY <2>1 DEF TypeInv
  <2> QED  BY <2>1, <2>3, <2>4, <2>5 DEF TypeInv
<1>2. CASE LoadFails \/ LoadAndAdd
  <2>1. /\ AtLocale /\ AtResource /\ pc' = "build" /\ res' = res + 1
        /\ UNCHANGED <<supported, chain, k, msg, texts, problems, always>>
        /\ errs' = errs \/ errs' = Append(errs, Position)
    BY <1>2 DEF LoadFails, LoadAndAdd, AtResource, AtLocale, AfterLoadError
  <2>2. errs' \in Seq((1..Len(supported)) \X (1..Len(ResIds)))
    <3>1. Position \in (1..Len(supported)) \X (1..Len(ResIds))
      BY <1>0, <2>1, PositionTyped
    <3>2. errs \in Seq((1..Len(supported)) \X (1..Len(ResIds)))  BY DEF TypeInv
    <3> DEFINE S == (1..Len(supported)) \X (1..Len(ResIds))
    <3> HIDE DEF S
    <3>3. Position \in S /\ errs \in Seq(S)  BY <3>1, <3>2 DEF S
    <3>4. errs' \in Seq(S)  BY <2>1, <3>3, AppendProperties
    <3> QED  BY <3>4 DEF S
  <2>3. res' \in 1..Len(ResIds) + 1  BY <1>0, <2>1 DEF AtResource, TypeInv
  <2> QED  BY <2>1, <2>2, <2>3 DEF TypeInv
<1>3. CASE NextLocale
  <2>1. /\ AtLocale /\ chain' = Append(chain, bundle) /\ res' = 1 /\ pc' = "build"
        /\ UNCHANGED <<supported, errs, k, msg, texts, problems, always>>
    BY <1>3 DEF NextLocale, AtLocale
  <2>2. Len(chain') = Len(chain) + 1 /\ DOMAIN chain' = 1..Len(chain) + 1
    <3>1. bundle \in Bundles  BY <1>0 DEF ChainInv
    <3> QED  BY <1>0, <2>1, <3>1, AppendProperties
  <2>3. Len(chain) + 1 <= Len(supported) /\ 1..Len(chain) \subseteq 1..Len(chain) + 1
    BY <1>0, <2>1 DEF AtLocale
  <2>4. 1 \in 1..Len(ResIds) + 1  BY <1>0
  <2>5. k <= Len(chain) + 1 + 1  BY <1>0 DEF TypeInv
  <2> QED  BY <1>0, <2>1, <2>2, <2>3, <2>4, <2>5 DEF TypeInv
<1>4. CASE Built \/ Miss \/ Formatted \/ Return
  <2>1. UNCHANGED <<supported, res, errs, k, msg, texts, problems, always, chain>> /\ pc' # "new"
    BY <1>4 DEF Built, Miss, Formatted, Return
  <2> QED  BY <2>1 DEF TypeInv
<1>5. CASE Begin
  <2>1. /\ k' = 1 /\ msg' = Absent /\ texts' = << >> /\ problems' = FALSE
        /\ always' = Having(chain, call') /\ pc' = "search"
        /\ UNCHANGED <<supported, res, errs, chain>>
    BY <1>5 DEF Begin
  <2>2. always' \subseteq DOMAIN chain /\ << >> \in Seq(Answers)  BY <2>1 DEF Having
  <2>3. 1 <= Len(chain) + 1  BY <1>0
  <2> QED  BY <2>1, <2>2, <2>3 DEF TypeInv
<1>6. CASE TryNext
  <2>1. /\ k' = k + 1 /\ k <= Len(chain) /\ pc' # "new"
        /\ UNCHANGED <<supported, res, errs, msg, texts, problems, always, chain>>
    BY <1>6 DEF TryNext
  <2>2. k' <= Len(chain) + 1  BY <1>0, <2>1
  <2> QED  BY <2>1, <2>2 DEF TypeInv
<1>7. CASE Hit
  <2>1. /\ msg' = Found /\ k <= Len(chain) /\ pc' = "format"
        /\ UNCHANGED <<supported, res, errs, k, texts, problems, always, chain>>
    BY <1>7 DEF Hit
  <2>2. Found \in Defs \cup {Absent}
    <3>1. k \in 1..Len(chain)  BY <1>0, <2>1
    <3>2. chain[k] \in Bundles  BY <1>0, <3>1, ElementTyped
    <3>3. call.id \in Ids  BY <1>0 DEF ChainInv, Calls
    <3> QED  BY <3>2, <3>3 DEF Found, Bundles, Kinds
  <2> QED  BY <2>1, <2>2 DEF TypeInv
<1>8. CASE FormatPart
  <2> DEFINE part == Part(call, msg, Len(texts) + 1)
  <2>1. /\ pc = "format" /\ texts' = Append(texts, part) /\ pc' = "format"
        /\ Len(texts) < Len(Parts(call, msg)) /\ problems' \in {problems, TRUE}
        /\ UNCHANGED <<supported, res, errs, k, msg, always, chain>>
    BY <1>8 DEF FormatPart, Message, Part
  <2>2. /\ msg \in Defs /\ (call.op = "value" => Has(msg, call.attr)) /\ call \in Calls
        /\ texts \in Seq(Answers)
    BY <1>0, <2>1 DEF SearchInv, ChainInv, TypeInv
  <2>3. Parts(call, msg) \in Seq({attr \in {""} \cup Range(AttrNames) : Has(msg, attr)})
    BY <2>2, PartsTyped
  <2>4. PICK attr : /\ attr = Parts(call, msg)[Len(texts) + 1]
                    /\ attr \in {""} \cup Range(AttrNames) /\ Has(msg, attr)
    <3>1. Len(texts) \in Nat /\ Len(Parts(call, msg)) \in Nat
      BY <2>2, <2>3, LenProperties
    <3>2. Len(texts) + 1 \in 1..Len(Parts(call, msg))  BY <2>1, <3>1
    <3> HIDE DEF part
    <3>3. Parts(call, msg)[Len(texts) + 1] \in {attr \in {""} \cup Range(AttrNames) : Has(msg, attr)}
      BY <2>3, <3>2, ElementTyped
    <3> QED  BY <3>3
  <2>5. Pattern(msg, attr) \in Patterns
    <3>1. CASE attr = ""  BY <2>2, <3>1 DEF Pattern, Patterns
    <3>2. CASE attr # ""
      <4>1. msg.attrs[attr] \in Range(msg.attrs)  BY <2>4, <3>2 DEF Has, Range
      <4> QED  BY <2>2, <3>2, <4>1 DEF Pattern, Patterns
    <3> QED  BY <3>1, <3>2
  <2>6. part \in Answers  BY <2>4, <2>5 DEF Part, Answers
  <2> HIDE DEF part
  <2>7. texts' \in Seq(Answers)  BY <2>1, <2>2, <2>6, AppendProperties
  <2> QED  BY <2>1, <2>7 DEF TypeInv
<1>9. CASE AddResource
  <2>1. /\ always' = always \cap Having(chain', call) /\ pc' # "new"
        /\ UNCHANGED <<supported, res, errs, k, msg, texts, problems>>
    BY <1>9 DEF AddResource
  <2>2. Len(chain') = Len(chain) /\ DOMAIN chain' = DOMAIN chain
    <3>1. PICK j \in DOMAIN chain, added \in Resources, override \in Overriding :
            chain' = [chain EXCEPT ![j] = Applied(@, added, 1, override)]
      BY <1>9 DEF AddResource
    <3>2. DOMAIN chain' = DOMAIN chain  BY <3>1
    <3>3. ChainInv'  BY <1>0, NextChainInv DEF Next
    <3> QED  BY <1>0, <3>2, <3>3, LenProperties DEF ChainInv
  <2> QED  BY <2>1, <2>2 DEF TypeInv
<1> QED  BY <1>1, <1>2, <1>3, <1>4, <1>5, <1>6, <1>7, <1>8, <1>9 DEF Next

LEMMA NextBuildInv ==
  ASSUME IInv, TypeInv, BuildInv, Next
  PROVE  BuildInv'
<1> USE DEF building, calling
<1>0. /\ Len(chain) \in Nat /\ DOMAIN chain = 1..Len(chain) /\ Len(supported) \in Nat
      /\ Len(ResIds) \in Nat /\ DOMAIN ResIds = 1..Len(ResIds) /\ ChainInv
      /\ chain \in Seq(Bundles)
  BY LengthsTyped DEF IInv, ChainInv
<1> SUFFICES ASSUME pc' \in {"new", "build"} PROVE BuildInv'  BY DEF BuildInv
<1>s. source' = source /\ pc \in {"new", "build"}
  BY DEF Next, Negotiate, LoadFails, LoadAndAdd, NextLocale, AtResource, AtLocale, Built,
         Begin, TryNext, Hit, Miss, FormatPart, Formatted, Return, AddResource
<1>1. /\ \A n \in 1..Len(chain) : chain[n] = Loaded(supported[n])[Len(ResIds)]
      /\ bundle = IF Len(chain) < Len(supported) THEN Loaded(Locale)[res - 1] ELSE Empty
      /\ Len(chain) < Len(supported) \/ res = 1
      /\ {errs[n] : n \in 1..Len(errs)} =
           {at \in (1..Len(supported)) \X (1..Len(ResIds)) :
              /\ at[1] <= Len(chain) \/ (at[1] = Len(chain) + 1 /\ at[2] < res)
              /\ Failed(supported[at[1]], at[2])}
  BY <1>s DEF BuildInv
<1>2. /\ \A l : Loaded(l)' = Loaded(l)
      /\ \A l, n : Failed(l, n)' <=> Failed(l, n)
  BY <1>s DEF Loaded, Failed
<1>3. CASE Negotiate
  <2>1. /\ UNCHANGED <<res, bundle, errs, chain>> /\ chain = << >> /\ errs = << >> /\ res = 1
        /\ bundle = Empty
    <3>1. pc = "new" /\ UNCHANGED <<res, bundle, errs, chain>>  BY <1>3 DEF Negotiate
    <3>2. chain = << >> /\ errs = << >> /\ supported = << >>  BY <3>1 DEF TypeInv
    <3>3. ~(Len(chain) < Len(supported))  BY <3>2
    <3> QED  BY <1>1, <3>1, <3>2, <3>3
  <2>2. ChainInv'  BY <1>0, NextChainInv
  <2>3. Len(chain') < Len(supported') => bundle' = Loaded(Locale)'[res' - 1]
    <3> SUFFICES ASSUME Len(chain') < Len(supported')
                 PROVE  bundle' = Loaded(Locale)'[0]
      BY <2>1
    <3>1. supported' \in Seq(Locales) /\ Len(supported') \in Nat
      BY <2>2, LenProperties DEF ChainInv
    <3>2. Len(chain') = 0  BY <2>1
    <3>3. Len(chain') + 1 \in 1..Len(supported')  BY <3>1, <3>2
    <3>4. PICK l \in Locales : l = Locale'  BY <3>1, <3>3, ElementTyped DEF Locale
    <3>5. Loaded(l)[0] = Empty  BY <1>0, <3>4, LoadedIs DEF ChainInv
    <3>6. Loaded(Locale)' = Loaded(l)  BY <1>s, <3>4 DEF Loaded
    <3> QED  BY <2>1, <3>5, <3>6
  <2>4. 1..Len(chain') = {} /\ {errs'[n] : n \in 1..Len(errs')} = {}  BY <2>1
  <2>5. \A at \in (1..Len(supported')) \X (1..Len(ResIds)) :
          ~(at[1] <= Len(chain') \/ (at[1] = Len(chain') + 1 /\ at[2] < res'))
    <3>1. Len(chain') = 0 /\ res' = 1  BY <2>1
    <3> QED  BY <1>0, <3>1
  <2> QED  BY <2>1, <2>3, <2>4, <2>5 DEF BuildInv
<1>4. CASE LoadFails \/ LoadAndAdd
  <2> PICK l : l = Locale  OBVIOUS
  <2>1. /\ AtLocale /\ AtResource /\ res' = res + 1 /\ Locale' = Locale
        /\ UNCHANGED <<supported, chain>>
    BY <1>4 DEF LoadFails, LoadAndAdd, AtResource, AtLocale, AfterLoadError, Locale
  <2>2. l \in Locales /\ Position \in (1..Len(supported)) \X (1..Len(ResIds))
    BY <1>0, <2>1, PositionTyped
  <2>3. res \in 1..Len(ResIds) /\ Len(chain) < Len(supported)
    BY <1>0, <2>1 DEF AtResource, AtLocale, ChainInv
  <2>4. bundle = Loaded(l)[res - 1]  BY <1>1, <2>3
  <2>5. Loaded(l)[res] = IF source[l][res] = LoadError THEN Loaded(l)[res - 1]
                         ELSE Applied(Loaded(l)[res - 1], source[l][res], 1, FALSE)
    BY <1>0, <2>2, <2>3, LoadedIs DEF ChainInv
  <2>6. /\ bundle' = Loaded(l)[res]
        /\ errs' = IF Failed(l, res) THEN Append(errs, Position) ELSE errs
    <3>1. CASE LoadFails
      <4>1. /\ source[l][res] = LoadError /\ bundle' = bundle
            /\ errs' = Append(errs, Position)
        BY <3>1 DEF LoadFails
      <4> QED  BY <2>4, <2>5, <4>1 DEF Failed
    <3>2. CASE LoadAndAdd
      <4>1. /\ source[l][res] # LoadError
            /\ bundle' = Applied(bundle, source[l][res], 1, FALSE)
            /\ errs' = IF Rejected(bundle, source[l][res], 1, FALSE) = {} THEN errs
                       ELSE Append(errs, Position)
        BY <3>2 DEF LoadAndAdd
      <4> QED  BY <2>4, <2>5, <4>1 DEF Failed
    <3> QED  BY <1>4, <3>1, <3>2
  <2>7. {errs'[n] : n \in 1..Len(errs')} =
          {errs[n] : n \in 1..Len(errs)} \cup (IF Failed(l, res) THEN {Position} ELSE {})
    <3> DEFINE S == (1..Len(supported)) \X (1..Len(ResIds))
    <3> HIDE DEF S
    <3>1. Position \in S /\ errs \in Seq(S)  BY <2>2 DEF S, TypeInv
    <3>2. CASE Failed(l, res)
      <4> PICK p : p = Position  OBVIOUS
      <4>1. errs' = Append(errs, p) /\ p \in S  BY <2>6, <3>1, <3>2
      <4>2. {errs'[n] : n \in 1..Len(errs')} = {errs[n] : n \in 1..Len(errs)} \cup {p}
        BY <3>1, <4>1, ErrorAdded
      <4> QED  BY <3>2, <4>2
    <3>3. CASE ~Failed(l, res)
      <4>1. errs' = errs  BY <2>6, <3>3
      <4> QED  BY <3>3, <4>1
    <3> QED  BY <3>2, <3>3
  <2>8. \A at \in (1..Len(supported)) \X (1..Len(ResIds)) :
          /\ at[1] <= Len(chain) \/ (at[1] = Len(chain) + 1 /\ at[2] < res')
          /\ Failed(supported[at[1]], at[2])
        <=> \/ /\ at[1] <= Len(chain) \/ (at[1] = Len(chain) + 1 /\ at[2] < res)
               /\ Failed(supported[at[1]], at[2])
            \/ at = Position /\ Failed(l, res)
    <3> SUFFICES ASSUME NEW a \in 1..Len(supported), NEW b \in 1..Len(ResIds)
                 PROVE  (/\ a <= Len(chain) \/ (a = Len(chain) + 1 /\ b < res')
                         /\ Failed(supported[a], b))
                        <=> \/ /\ a <= Len(chain) \/ (a = Len(chain) + 1 /\ b < res)
                               /\ Failed(supported[a], b)
                            \/ <<a, b>> = Position /\ Failed(l, res)
      OBVIOUS
    <3>1. <<a, b>> = Position <=> a = Len(chain) + 1 /\ b = res  BY DEF Position
    <3>2. b < res' <=> b < res \/ b = res  BY <2>1, <2>3
    <3>3. a = Len(chain) + 1 => supported[a] = l  BY DEF Locale
    <3> QED  BY <3>1, <3>2, <3>3
  <2>9. {errs'[n] : n \in 1..Len(errs')} =
          {at \in (1..Len(supported)) \X (1..Len(ResIds)) :
             /\ at[1] <= Len(chain) \/ (at[1] = Len(chain) + 1 /\ at[2] < res')
             /\ Failed(supported[at[1]], at[2])}
    <3> DEFINE S == (1..Len(supported)) \X (1..Len(ResIds))
               before(at) == /\ at[1] <= Len(chain) \/ (at[1] = Len(chain) + 1 /\ at[2] < res)
                             /\ Failed(supported[at[1]], at[2])
               after(at) == /\ at[1] <= Len(chain) \/ (at[1] = Len(chain) + 1 /\ at[2] < res')
                            /\ Failed(supported[at[1]], at[2])
    <3>1. \A at \in S : after(at) <=> before(at) \/ (at = Position /\ Failed(l, res))  BY <2>8
    <3>2. {errs[n] : n \in 1..Len(errs)} = {at \in S : before(at)}  BY <1>1
    <3>3. Position \in S  BY <2>2
    <3> HIDE DEF S, before, after
    <3>4. {errs'[n] : n \in 1..Len(errs')} = {at \in S : after(at)}
      <4> PICK T : T = {errs'[n] : n \in 1..Len(errs')}  OBVIOUS
      <4>1. T = {at \in S : before(at)} \cup (IF Failed(l, res) THEN {Position} ELSE {})
        BY <2>7, <3>2
      <4>2. T = {at \in S : after(at)}  BY <3>1, <3>3, <4>1
      <4> QED  BY <4>2
    <3> QED  BY <3>4 DEF S, after
  <2>10. res' - 1 = res /\ Loaded(Locale)' = Loaded(l)
    <3>1. res' - 1 = res  BY <2>1, <2>3
    <3>2. Loaded(Locale)' = Loaded(l)  BY <1>s, <2>1 DEF Loaded
    <3> QED  BY <3>1, <3>2
  <2> QED  BY <1>1, <1>2, <2>1, <2>3, <2>6, <2>9, <2>10 DEF BuildInv
<1>5. CASE NextLocale
  <2> PICK l : l = Locale  OBVIOUS
  <2>1. /\ AtLocale /\ chain' = Append(chain, bundle) /\ bundle' = Empty /\ res' = 1
        /\ UNCHANGED <<supported, errs>>
    BY <1>5 DEF NextLocale
  <2>2. res = Len(ResIds) + 1  BY <1>0, <1>5 DEF NextLocale, TypeInv
  <2>3. bundle = Loaded(l)[Len(ResIds)]
    <3>1. Len(chain) < Len(supported) /\ res - 1 = Len(ResIds)
      BY <1>0, <2>1, <2>2 DEF AtLocale
    <3> QED  BY <1>1, <3>1
  <2>4. /\ Len(chain') = Len(chain) + 1
        /\ \A n \in 1..Len(chain) : chain'[n] = chain[n]
        /\ chain'[Len(chain) + 1] = bundle
    <3>1. bundle \in Bundles  BY <1>0 DEF ChainInv
    <3> QED  BY <1>0, <2>1, <3>1, AppendProperties
  <2>5. \A n \in 1..Len(chain') : chain'[n] = Loaded(supported[n])[Len(ResIds)]
    <3> SUFFICES ASSUME NEW n \in 1..Len(chain')
                 PROVE  chain'[n] = Loaded(supported[n])[Len(ResIds)]
      OBVIOUS
    <3>1. CASE n \in 1..Len(chain)  BY <1>1, <2>4, <3>1
    <3>2. CASE n = Len(chain) + 1  BY <2>3, <2>4, <3>2 DEF Locale
    <3> QED  BY <1>0, <2>4, <3>1, <3>2
  <2>6. Len(chain') < Len(supported) => bundle' = Loaded(Locale)'[res' - 1]
    <3> SUFFICES ASSUME Len(chain') < Len(supported) PROVE Empty = Loaded(Locale)'[0]
      BY <2>1
    <3>1. Len(chain') + 1 \in 1..Len(supported)  BY <1>0, <2>4
    <3>2. PICK m \in Locales : m = Locale'
      BY <1>0, <2>1, <3>1, ElementTyped DEF Locale, ChainInv
    <3>3. Loaded(m)[0] = Empty  BY <1>0, <3>2, LoadedIs DEF ChainInv
    <3>4. Loaded(Locale)' = Loaded(m)  BY <1>s, <3>2 DEF Loaded
    <3> QED  BY <3>3, <3>4
  <2>7. \A at \in (1..Len(supported)) \X (1..Len(ResIds)) :
          (at[1] <= Len(chain) \/ (at[1] = Len(chain) + 1 /\ at[2] < res))
          <=> (at[1] <= Len(chain') \/ (at[1] = Len(chain') + 1 /\ at[2] < res'))
    <3> SUFFICES ASSUME NEW a \in 1..Len(supported), NEW b \in 1..Len(ResIds)
                 PROVE  (a <= Len(chain) \/ (a = Len(chain) + 1 /\ b < res))
                        <=> (a <= Len(chain') \/ (a = Len(chain') + 1 /\ b < res'))
      OBVIOUS
    <3>1. b < res /\ ~(b < res')  BY <1>0, <2>1, <2>2
    <3>2. a <= Len(chain') <=> a <= Len(chain) \/ a = Len(chain) + 1  BY <1>0, <2>4
    <3> QED  BY <3>1, <3>2
  <2>8. {errs'[n] : n \in 1..Len(errs')} =
          {at \in (1..Len(supported)) \X (1..Len(ResIds)) :
             /\ at[1] <= Len(chain') \/ (at[1] = Len(chain') + 1 /\ at[2] < res')
             /\ Failed(supported[at[1]], at[2])}
    BY <1>1, <2>1, <2>7
  <2> QED  BY <1>2, <2>1, <2>5, <2>6, <2>8 DEF BuildInv
<1> QED
  <2>1. ~Built /\ ~Begin /\ ~TryNext /\ ~Hit /\ ~Miss /\ ~FormatPart /\ ~Formatted
          /\ ~Return /\ ~AddResource
    BY <1>s DEF Built, Begin, TryNext, Hit, Miss, FormatPart, Formatted, Return, AddResource
  <2> QED  BY <1>3, <1>4, <1>5, <2>1 DEF Next

LEMMA InitBuild == Init => TypeInv /\ BuildInv
<1> SUFFICES ASSUME Init PROVE TypeInv /\ BuildInv  OBVIOUS
<1> USE DEF Init
<1>1. IInv  BY InitIInv
<1>2. Len(ResIds) \in Nat /\ Len(chain) = 0 /\ Len(supported) = 0 /\ 1..0 = {} /\ Len(errs) = 0
  BY LocalizationAssumption
<1>3. TypeInv
  <2>1. errs \in Seq((1..Len(supported)) \X (1..Len(ResIds))) /\ texts \in Seq(Answers)
    OBVIOUS
  <2>2. res \in 1..Len(ResIds) + 1 /\ k <= Len(chain) + 1 /\ Len(chain) <= Len(supported)
    BY <1>2
  <2>3. always \subseteq DOMAIN chain /\ msg \in Defs \cup {Absent} /\ problems \in BOOLEAN
    OBVIOUS
  <2>4. pc = "new" => supported = << >> /\ chain = << >> /\ errs = << >>  OBVIOUS
  <2> HIDE DEF Init
  <2> QED  BY <2>1, <2>2, <2>3, <2>4 DEF TypeInv
<1>4. BuildInv
  <2>1. 1..Len(chain) = {} /\ 1..Len(supported) = {} /\ ~(Len(chain) < Len(supported))
        /\ 1..Len(errs) = {}
    BY <1>2
  <2> QED  BY <2>1 DEF BuildInv
<1> QED  BY <1>3, <1>4

(* NewFromLocales knows at every resource what it has loaded and what has  *)
(* failed, and what a search has written so far is typed.                  *)
THEOREM LocalizationBuilds == Spec => [](IInv /\ TypeInv /\ BuildInv)
<1>1. Init => IInv /\ TypeInv /\ BuildInv  BY InitIInv, InitBuild
<1>2. IInv /\ TypeInv /\ BuildInv /\ [Next]_vars => (IInv /\ TypeInv /\ BuildInv)'
  <2> SUFFICES ASSUME IInv, TypeInv, BuildInv, [Next]_vars
               PROVE  IInv' /\ TypeInv' /\ BuildInv'
    OBVIOUS
  <2>1. IInv'  BY NextChainInv, NextSearchInv DEF IInv
  <2>2. CASE Next  BY <2>1, <2>2, NextTypeInv, NextBuildInv
  <2>3. CASE UNCHANGED vars
    <3>1. /\ UNCHANGED <<source, supported, res, bundle, errs, k, msg, texts, problems, always>>
          /\ UNCHANGED <<chain, pc>>
      BY <2>3 DEF vars, building, calling
    <3>2. TypeInv'  BY <3>1 DEF TypeInv
    <3>3. BuildInv'
      <4>1. \A l : Loaded(l)' = Loaded(l)  BY <3>1 DEF Loaded
      <4>2. \A l, n : Failed(l, n)' <=> Failed(l, n)  BY <3>1, <4>1 DEF Failed
      <4>3. Loaded(Locale)' = Loaded(Locale)  BY <3>1 DEF Loaded, Locale
      <4> QED  BY <3>1, <4>1, <4>2, <4>3 DEF BuildInv
    <3> QED  BY <2>1, <3>2, <3>3
  <2> QED  BY <2>2, <2>3
<1> QED  BY <1>1, <1>2, PTL DEF Spec

(* The chain, the errors, the search and the answer stay well formed; in   *)
(* particular every part of an answer is a pattern of some definition.     *)
THEOREM LocalizationTypeCorrect == Spec => []TypeOK
<1>1. IInv /\ TypeInv => TypeOK
  <2> SUFFICES ASSUME IInv, TypeInv PROVE TypeOK  OBVIOUS
  <2>1. Len(chain) \in Nat /\ k \in 1..Len(chain) + 1
    BY LengthsTyped DEF IInv, ChainInv, TypeInv
  <2> QED  BY <2>1 DEF IInv, ChainInv, TypeInv, TypeOK, Answers
<1> QED  BY <1>1, LocalizationBuilds, PTL

(* NewFromLocales skips a failing resource and nothing else, reports all   *)
(* the failing ones and no other, and keeps the order of the locales.      *)
THEOREM LocalizationChainAsLoaded == Spec => []ChainAsLoaded
<1>1. IInv /\ TypeInv /\ BuildInv => ChainAsLoaded
  <2> SUFFICES ASSUME IInv, TypeInv, BuildInv, pc = "build" PROVE ChainAsLoaded
    BY DEF ChainAsLoaded
  <2>1. /\ DOMAIN chain = 1..Len(chain) /\ DOMAIN supported = 1..Len(supported)
        /\ DOMAIN ResIds = 1..Len(ResIds)
    BY LengthsTyped DEF IInv
  <2>2. DOMAIN errs = 1..Len(errs)  BY LenProperties DEF TypeInv
  <2> QED  BY <2>1, <2>2 DEF BuildInv, ChainAsLoaded
<1> QED  BY <1>1, LocalizationBuilds, PTL
=============================================================================
