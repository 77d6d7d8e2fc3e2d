-------------------------- MODULE NegotiationProofs --------------------------
(***************************************************************************)
(* Negotiation returns no locale twice, loses none and ranks them as the   *)
(* passes are meant to, for every list of requests, every list of          *)
(* available locales and every table of likely subtags.                    *)
(***************************************************************************)
EXTENDS Negotiation, NaturalsInduction, WellFoundedInduction, SequenceTheorems, TLAPS

(* Where the shared counters stand between the phases, and what parsing    *)
(* has put into the working set so far.                                    *)
PhaseInv ==
  /\ pc = "parse" =>
       /\ kept = 0 /\ supported = << >> /\ r = 1
       /\ \A n \in 1..Len(entries) : \E m \in 1..i - 1 :
            WellFormed(input.available[m]) /\ entries[n] = input.available[m]
       /\ \A m \in 1..i - 1 : WellFormed(input.available[m]) =>
            \E n \in 1..Len(entries) : entries[n] = input.available[m]
  /\ pc = "scan" => r <= Len(input.requested)
  /\ pc \in {"request", "default", "done"} => kept = 0 /\ i = 1

IInv == TypeOK /\ PhaseInv /\ NoLocaleTwice /\ NothingLost

LEMMA InputTyped ==
  ASSUME input \in Inputs
  PROVE  /\ input.requested \in Seq(Ids)
         /\ input.available \in Seq(Ids)
         /\ Len(input.requested) \in Nat
         /\ Len(input.available) \in Nat
BY NegotiationAssumption

(* Appending a new locale keeps the locales distinct. *)
LEMMA AppendDistinct ==
  ASSUME NEW S, NEW s \in Seq(S), NEW e \in S, e \notin Range(s),
         \A m, n \in DOMAIN s : s[m] = s[n] => m = n
  PROVE  LET t == Append(s, e) IN
         /\ t \in Seq(S)
         /\ Range(t) = Range(s) \cup {e}
         /\ \A m, n \in DOMAIN t : t[m] = t[n] => m = n
<1> DEFINE t == Append(s, e)
<1>1. /\ t \in Seq(S)
      /\ Len(s) \in Nat
      /\ DOMAIN s = 1..Len(s)
      /\ DOMAIN t = 1..Len(s) + 1
      /\ \A n \in 1..Len(s) : t[n] = s[n]
      /\ t[Len(s) + 1] = e
  BY AppendProperties, LenProperties
<1>2. \A n \in 1..Len(s) : s[n] # e  BY <1>1 DEF Range
<1>3. Range(t) = Range(s) \cup {e}  BY <1>1 DEF Range
<1>4. ASSUME NEW m \in DOMAIN t, NEW n \in DOMAIN t, t[m] = t[n] PROVE m = n
  <2>1. CASE m <= Len(s) /\ n <= Len(s)
    <3>1. m \in DOMAIN s /\ n \in DOMAIN s /\ s[m] = s[n]  BY <1>1, <1>4, <2>1
    <3> QED  BY <3>1
  <2>2. CASE m = Len(s) + 1 \/ n = Len(s) + 1
    BY <1>1, <1>2, <1>4, <2>2
  <2> QED  BY <1>1, <1>4, <2>1, <2>2
<1> HIDE DEF t
<1>5. t \in Seq(S) /\ Range(t) = Range(s) \cup {e}
      /\ \A m, n \in DOMAIN t : t[m] = t[n] => m = n
  BY <1>1, <1>3, <1>4
<1> QED  BY <1>5 DEF t

(* The in-place filter: writing entry i to the place after the kept ones   *)
(* moves it from those to come to those kept.                              *)
LEMMA KeepMoves ==
  ASSUME NEW s \in Seq(Ids), NEW c \in Nat, NEW j \in 1..Len(s), c < j
  PROVE  LET t == [s EXCEPT ![c + 1] = s[j]] IN
         /\ t \in Seq(Ids)
         /\ Len(t) = Len(s)
         /\ {t[n] : n \in 1..c + 1} = {s[n] : n \in 1..c} \cup {s[j]}
         /\ {t[n] : n \in j + 1..Len(t)} = {s[n] : n \in j + 1..Len(s)}
<1> DEFINE t == [s EXCEPT ![c + 1] = s[j]]
<1>1. Len(s) \in Nat /\ s[j] \in Ids /\ c + 1 \in 1..Len(s)
  BY LenProperties, ElementOfSeq
<1>2. /\ t \in Seq(Ids)
      /\ Len(t) = Len(s)
      /\ \A n \in 1..Len(s) : t[n] = IF n = c + 1 THEN s[j] ELSE s[n]
  BY <1>1, ExceptSeq
<1> HIDE DEF t
<1>3. {t[n] : n \in 1..c + 1} = {s[n] : n \in 1..c} \cup {s[j]}
  <2>1. \A n \in 1..c : t[n] = s[n]  BY <1>1, <1>2
  <2>2. t[c + 1] = s[j]  BY <1>1, <1>2
  <2>3. 1..c + 1 = (1..c) \cup {c + 1}  OBVIOUS
  <2> QED  BY <2>1, <2>2, <2>3
<1>4. {t[n] : n \in j + 1..Len(t)} = {s[n] : n \in j + 1..Len(s)}
  <2>1. \A n \in j + 1..Len(s) : t[n] = s[n]  BY <1>1, <1>2
  <2> QED  BY <1>2, <2>1
<1> QED  BY <1>2, <1>3, <1>4 DEF t

LEMMA InitIInv == Init => IInv
<1> SUFFICES ASSUME Init PROVE IInv  OBVIOUS
<1>1. input \in Inputs  BY DEF Init
<1>2. /\ entries \in Seq(Ids) /\ Len(entries) = 0
      /\ supported \in Seq(Ids \cup Defaults) /\ Len(supported) = 0
      /\ DOMAIN supported = 1..0
  <2>1. << >> \in Seq(Ids) /\ << >> \in Seq(Ids \cup Defaults)  OBVIOUS
  <2>2. Len(<< >>) = 0 /\ DOMAIN << >> = 1..0  BY <2>1, EmptySeq, LenProperties
  <2> QED  BY <2>1, <2>2 DEF Init
<1>3. TypeOK
  <2>1. Len(input.available) \in Nat /\ Len(input.requested) \in Nat
    BY <1>1, InputTyped
  <2>2. i = 1 /\ r = 1 /\ kept = 0 /\ pass = 1 /\ pc = "parse"
    BY DEF Init
  <2>3. /\ i \in 1..Len(input.available) + 1
        /\ r \in 1..Len(input.requested) + 1
        /\ kept \in 0..i - 1
        /\ pass \in 1..6
    BY <2>1, <2>2
  <2>4. matched \in BOOLEAN /\ failed \in BOOLEAN  BY DEF Init
  <2> QED  BY <1>1, <1>2, <2>2, <2>3, <2>4 DEF TypeOK
<1>4. PhaseInv
  <2>1. i = 1 /\ r = 1 /\ kept = 0 /\ pc = "parse" /\ supported = << >>  BY DEF Init
  <2> QED  BY <1>2, <2>1 DEF PhaseInv
<1>5. NoLocaleTwice  BY <1>2 DEF NoLocaleTwice
<1>6. NothingLost  BY DEF Init, NothingLost
<1> QED  BY <1>3, <1>4, <1>5, <1>6 DEF IInv

LEMMA NextIInv == IInv /\ [Next]_vars => IInv'
<1> SUFFICES ASSUME IInv, [Next]_vars PROVE IInv'  OBVIOUS
<1> USE DEF IInv
<1>0. /\ input \in Inputs
      /\ Len(input.requested) \in Nat /\ Len(input.available) \in Nat
      /\ input.available \in Seq(Ids)
      /\ entries \in Seq(Ids) /\ Len(entries) \in Nat
      /\ supported \in Seq(Ids \cup Defaults)
  BY InputTyped, LenProperties DEF TypeOK
<1>1. CASE UNCHANGED vars
  BY <1>1 DEF TypeOK, PhaseInv, NoLocaleTwice, NothingLost, Usable, vars, scan
<1>2. ASSUME ParseAvailable PROVE IInv'
  <2> DEFINE id == input.available[i]
  <2>1. i \in 1..Len(input.available) /\ id \in Ids
    BY <1>0, <1>2, ElementOfSeq DEF ParseAvailable, TypeOK
  <2>2. /\ UNCHANGED <<input, supported, kept, matched, r, pass, pc, failed>>
        /\ i' = i + 1
        /\ pc = "parse"
        /\ entries' = IF WellFormed(id) THEN Append(entries, id) ELSE entries
    BY <1>2 DEF ParseAvailable
  <2>3. /\ Append(entries, id) \in Seq(Ids)
        /\ Len(Append(entries, id)) = Len(entries) + 1
        /\ \A n \in 1..Len(entries) : Append(entries, id)[n] = entries[n]
        /\ Append(entries, id)[Len(entries) + 1] = id
    BY <1>0, <2>1, AppendProperties
  <2>4. entries' \in Seq(Ids)  BY <1>0, <2>2, <2>3
  <2> HIDE DEF id
  <2>5. TypeOK'  BY <2>1, <2>2, <2>4 DEF TypeOK
  <2>6. PhaseInv'
    <3>1. ASSUME NEW n \in 1..Len(entries') PROVE
            \E m \in 1..i : WellFormed(input.available[m]) /\ entries'[n] = input.available[m]
      <4>1. CASE n \in 1..Len(entries)
        <5>1. entries'[n] = entries[n]  BY <2>2, <2>3, <4>1
        <5>2. PICK m \in 1..i - 1 :
                WellFormed(input.available[m]) /\ entries[n] = input.available[m]
          BY <2>2, <4>1 DEF PhaseInv
        <5>3. m \in 1..i  BY <2>1
        <5> QED  BY <5>1, <5>2, <5>3
      <4>2. CASE n \notin 1..Len(entries)
        <5>1. WellFormed(id) /\ n = Len(entries) + 1  BY <1>0, <2>2, <2>3, <3>1, <4>2
        <5>2. entries'[n] = id  BY <2>2, <2>3, <5>1
        <5> QED  BY <2>1, <5>1, <5>2 DEF id
      <4> QED  BY <4>1, <4>2
    <3>2. ASSUME NEW m \in 1..i, WellFormed(input.available[m])
          PROVE  \E n \in 1..Len(entries') : entries'[n] = input.available[m]
      <4>1. CASE m = i
        <5>1. entries' = Append(entries, id)  BY <2>2, <3>2, <4>1 DEF id
        <5>2. Len(entries) + 1 \in 1..Len(entries')  BY <1>0, <2>3, <5>1
        <5>3. entries'[Len(entries) + 1] = input.available[m]
          BY <2>3, <4>1, <5>1 DEF id
        <5> QED  BY <5>2, <5>3
      <4>2. CASE m # i
        <5>1. m \in 1..i - 1  BY <2>1, <4>2
        <5>2. PICK n \in 1..Len(entries) : entries[n] = input.available[m]
          BY <2>2, <3>2, <5>1 DEF PhaseInv
        <5>3. n \in 1..Len(entries') /\ entries'[n] = entries[n]  BY <1>0, <2>2, <2>3
        <5> QED  BY <5>2, <5>3
      <4> QED  BY <4>1, <4>2
    <3>3. 1..i' - 1 = 1..i  BY <2>1, <2>2
    <3>4. kept' = 0 /\ supported' = << >> /\ r' = 1 /\ pc' = "parse"
      BY <2>2 DEF PhaseInv
    <3>5. input' = input  BY <2>2
    <3> QED  BY <3>1, <3>2, <3>3, <3>4, <3>5 DEF PhaseInv, WellFormed
  <2>7. NoLocaleTwice' /\ NothingLost'  BY <2>2 DEF NoLocaleTwice, NothingLost
  <2> QED  BY <2>5, <2>6, <2>7
<1>3. ASSUME AllParsed PROVE IInv'
  <2>1. /\ UNCHANGED <<input, supported, entries, kept, matched, r, pass, failed>>
        /\ i' = 1 /\ pc = "parse" /\ pc' = "request" /\ i > Len(input.available)
    BY <1>3 DEF AllParsed
  <2>2. TypeOK'  BY <1>0, <2>1 DEF TypeOK, PhaseInv
  <2>3. PhaseInv'  BY <2>1 DEF PhaseInv
  <2>4. NoLocaleTwice'  BY <2>1 DEF NoLocaleTwice
  <2>5. NothingLost'
    <3>1. i - 1 = Len(input.available) /\ kept = 0 /\ supported = << >>
      BY <1>0, <2>1 DEF TypeOK, PhaseInv
    <3>2. Range(supported) = {}  BY <3>1, EmptySeq, LenProperties DEF Range
    <3>3. DOMAIN input.available = 1..Len(input.available)  BY <1>0, LenProperties
    <3>4. Usable = {entries[n] : n \in 1..Len(entries)}
      <4>1. /\ \A n \in 1..Len(entries) : \E m \in DOMAIN input.available :
                 WellFormed(input.available[m]) /\ entries[n] = input.available[m]
            /\ \A m \in DOMAIN input.available : WellFormed(input.available[m]) =>
                 \E n \in 1..Len(entries) : entries[n] = input.available[m]
        BY <2>1, <3>1, <3>3 DEF PhaseInv
      <4>2. ASSUME NEW x \in Usable PROVE \E n \in 1..Len(entries) : entries[n] = x
        <5>1. PICK m \in DOMAIN input.available : input.available[m] = x
          BY DEF Usable, Range
        <5> QED  BY <4>1, <5>1 DEF Usable
      <4>3. ASSUME NEW n \in 1..Len(entries) PROVE entries[n] \in Usable
        BY <4>1 DEF Usable, Range
      <4> QED  BY <4>2, <4>3
    <3>5. {entries[n] : n \in 1..kept} = {}  BY <3>1
    <3> QED  BY <2>1, <3>1, <3>2, <3>4, <3>5 DEF NothingLost, Usable
  <2> QED  BY <2>2, <2>3, <2>4, <2>5
<1>4. ASSUME SkipMalformed \/ StartRequest \/ NoMoreRequests PROVE IInv'
  <2>1. /\ UNCHANGED <<input, supported, entries, kept, i, matched, failed>>
        /\ pc = "request"
    BY <1>4 DEF SkipMalformed, StartRequest, NoMoreRequests, scan
  <2>2. /\ pc' \in {"request", "scan", "default"}
        /\ pass' \in 1..6
        /\ r' \in 1..Len(input.requested) + 1
        /\ pc' = "scan" => r' <= Len(input.requested)
    BY <1>0, <1>4 DEF SkipMalformed, StartRequest, NoMoreRequests, TypeOK
  <2>3. TypeOK'  BY <2>1, <2>2 DEF TypeOK
  <2>4. PhaseInv'  BY <2>1, <2>2 DEF PhaseInv
  <2>5. NoLocaleTwice'  BY <2>1 DEF NoLocaleTwice
  <2>6. NothingLost'  BY <2>1, <2>2 DEF NothingLost, Usable
  <2> QED  BY <2>3, <2>4, <2>5, <2>6
<1>5. ASSUME Take PROVE IInv'
  <2> DEFINE key == entries[i]
  <2>1. /\ UNCHANGED <<input, entries, kept, r, pass, pc, failed>>
        /\ pc = "scan" /\ i <= Len(entries) /\ key \notin Range(supported)
        /\ supported' = Append(supported, key)
        /\ matched' = TRUE /\ i' = i + 1
    BY <1>5 DEF Take, Accepts
  <2>2. i \in 1..Len(entries) /\ key \in Ids
    BY <1>0, <2>1, ElementOfSeq DEF TypeOK
  <2>3. /\ supported' \in Seq(Ids \cup Defaults)
        /\ Range(supported') = Range(supported) \cup {key}
        /\ NoLocaleTwice'
    <3>1. key \in Ids \cup Defaults  BY <2>2
    <3> HIDE DEF key
    <3> QED  BY <1>0, <2>1, <3>1, AppendDistinct DEF NoLocaleTwice
  <2>4. TypeOK'  BY <1>0, <2>1, <2>2, <2>3 DEF TypeOK
  <2>5. PhaseInv'  BY <2>1 DEF PhaseInv
  <2>6. NothingLost'
    <3>1. i..Len(entries) = {i} \cup (i + 1..Len(entries))  BY <1>0, <2>2
    <3>2. {entries[n] : n \in i..Len(entries)}
            = {key} \cup {entries[n] : n \in i + 1..Len(entries)}
      BY <3>1
    <3> QED  BY <2>1, <2>3, <3>2 DEF NothingLost, Usable
  <2> QED  BY <2>3, <2>4, <2>5, <2>6
<1>6. ASSUME Keep PROVE IInv'
  <2>1. /\ UNCHANGED <<input, supported, matched, r, pass, pc, failed>>
        /\ pc = "scan" /\ i <= Len(entries)
        /\ entries' = [entries EXCEPT ![kept + 1] = entries[i]]
        /\ kept' = kept + 1 /\ i' = i + 1
    BY <1>6 DEF Keep, KeptAt
  <2>2. kept \in Nat /\ i \in 1..Len(entries) /\ kept < i
    BY <1>0, <2>1 DEF TypeOK
  <2>3. /\ entries' \in Seq(Ids)
        /\ Len(entries') = Len(entries)
        /\ {entries'[n] : n \in 1..kept + 1} = {entries[n] : n \in 1..kept} \cup {entries[i]}
        /\ {entries'[n] : n \in i + 1..Len(entries')}
              = {entries[n] : n \in i + 1..Len(entries)}
    BY <1>0, <2>1, <2>2, KeepMoves
  <2>4. TypeOK'  BY <1>0, <2>1, <2>2, <2>3 DEF TypeOK
  <2>5. PhaseInv'  BY <2>1 DEF PhaseInv
  <2>6. NoLocaleTwice'  BY <2>1 DEF NoLocaleTwice
  <2>7. NothingLost'
    <3>1. i..Len(entries) = {i} \cup (i + 1..Len(entries))  BY <1>0, <2>2
    <3>2. {entries[n] : n \in i..Len(entries)}
            = {entries[i]} \cup {entries[n] : n \in i + 1..Len(entries)}
      BY <3>1
    <3> QED  BY <2>1, <2>3, <3>2 DEF NothingLost, Usable
  <2> QED  BY <2>4, <2>5, <2>6, <2>7
<1>7. ASSUME NextPass \/ NextRequest \/ StopLookup PROVE IInv'
  <2>1. /\ UNCHANGED <<input, supported, failed>>
        /\ pc = "scan" /\ i > Len(entries)
        /\ entries' = SubSeq(entries, 1, kept)
        /\ kept' = 0 /\ i' = 1 /\ matched' = FALSE
    BY <1>7 DEF NextPass, NextRequest, StopLookup, EndPass, FreshKept
  <2>2. kept \in 0..Len(entries) /\ i = Len(entries) + 1
    BY <1>0, <2>1 DEF TypeOK
  <2>3. /\ entries' \in Seq(Ids)
        /\ Len(entries') = kept
        /\ \A n \in 1..kept : entries'[n] = entries[n]
    <3>1. \A n \in 1..kept : entries[n] \in Ids  BY <1>0, <2>2, ElementOfSeq
    <3> QED  BY <2>1, <2>2, <3>1, SubSeqProperties
  <2>4. /\ pc' \in {"scan", "request", "default"}
        /\ pass' \in 1..6
        /\ r' \in 1..Len(input.requested) + 1
        /\ pc' = "scan" => r' <= Len(input.requested)
    <3>1. CASE NextPass
      BY <1>0, <2>1, <3>1 DEF NextPass, GoesOn, PassAfter, TypeOK, PhaseInv
    <3>2. CASE NextRequest \/ StopLookup
      BY <1>0, <2>1, <3>2 DEF NextRequest, StopLookup, TypeOK, PhaseInv
    <3> QED  BY <1>7, <3>1, <3>2
  <2>5. TypeOK'
    <3>1. i' \in 1..Len(entries') + 1 /\ kept' \in 0..i' - 1  BY <2>1, <2>2, <2>3
    <3> QED  BY <2>1, <2>3, <2>4, <3>1 DEF TypeOK
  <2>6. PhaseInv'  BY <2>1, <2>4 DEF PhaseInv
  <2>7. NoLocaleTwice'  BY <2>1 DEF NoLocaleTwice
  <2>8. NothingLost'
    <3>1. {entries[n] : n \in i..Len(entries)} = {}  BY <1>0, <2>2
    <3>2. {entries[n] : n \in 1..kept} = {entries'[n] : n \in 1..Len(entries')}
      BY <2>3
    <3>3. {entries'[n] : n \in 1..kept'} = {}  BY <2>1
    <3> QED  BY <2>1, <2>4, <3>1, <3>2, <3>3 DEF NothingLost, Usable
  <2> QED  BY <2>5, <2>6, <2>7, <2>8
<1>8. ASSUME ApplyDefault PROVE IInv'
  <2>1. PICK default \in Defaults :
          IF input.strategy = "lookup" /\ default = NoDefault
            THEN failed' = TRUE /\ supported' = << >>
            ELSE /\ failed' = FALSE
                 /\ supported' = IF Needs(default) THEN Append(supported, default)
                                 ELSE supported
    BY <1>8 DEF ApplyDefault
  <2>2. UNCHANGED <<input, entries, kept, i, matched, r, pass>> /\ pc = "default" /\ pc' = "done"
    BY <1>8 DEF ApplyDefault, scan
  <2>3. CASE supported' = supported \/ supported' = << >>
    <3>1. << >> \in Seq(Ids \cup Defaults) /\ DOMAIN << >> = 1..0
      BY EmptySeq, LenProperties
    <3>2. supported' \in Seq(Ids \cup Defaults) /\ NoLocaleTwice'
      <4>1. CASE supported' = supported  BY <1>0, <4>1 DEF NoLocaleTwice
      <4>2. CASE supported' = << >>
        <5>1. DOMAIN supported' = {}  BY <3>1, <4>2
        <5> QED  BY <3>1, <4>2, <5>1 DEF NoLocaleTwice
      <4> QED  BY <2>3, <4>1, <4>2
    <3>3. TypeOK'  BY <2>1, <2>2, <3>2 DEF TypeOK
    <3> QED  BY <2>2, <3>2, <3>3 DEF PhaseInv, NothingLost
  <2>4. CASE Needs(default) /\ supported' = Append(supported, default)
    <3>1. default \notin Range(supported)
      <4>1. CASE supported = << >>
        BY <4>1, EmptySeq, LenProperties DEF Range
      <4> QED  BY <2>4, <4>1 DEF Needs
    <3>2. supported' \in Seq(Ids \cup Defaults) /\ NoLocaleTwice'
      BY <1>0, <2>4, <3>1, AppendDistinct DEF NoLocaleTwice
    <3>3. TypeOK'  BY <2>1, <2>2, <3>2 DEF TypeOK
    <3> QED  BY <2>2, <3>2, <3>3 DEF PhaseInv, NothingLost
  <2> QED  BY <2>1, <2>3, <2>4
<1> QED
  BY <1>1, <1>2, <1>3, <1>4, <1>5, <1>6, <1>7, <1>8 DEF Next

THEOREM NegotiationInductive == Spec => []IInv
BY InitIInv, NextIInv, PTL DEF Spec

(* The working set, the result and the counters stay well formed. *)
THEOREM NegotiationTypeCorrect == Spec => []TypeOK
BY NegotiationInductive, PTL DEF IInv

(* NegotiateLanguages never returns a locale twice, although the caller    *)
(* may list one twice, and although the default is added at the end.       *)
THEOREM NegotiationIsDistinct == Spec => []NoLocaleTwice
BY NegotiationInductive, PTL DEF IInv

(* The in-place filter of runPass neither loses nor invents a locale.      *)
THEOREM NegotiationLosesNothing == Spec => []NothingLost
BY NegotiationInductive, PTL DEF IInv

(***************************************************************************)
(* How the result is ranked.                                               *)
(***************************************************************************)
(* Where the passes still look, and the available locales they look for.   *)
Live    == IF pc = "parse" THEN 1..Len(entries)
           ELSE (1..kept) \cup (i..Len(entries))
Parsed  == IF pc = "parse" THEN 1..i - 1 ELSE 1..Len(input.available)
Untaken == Usable \ Range(supported)

(* The working set keeps what is not taken, in the order of the caller's   *)
(* list: g gives the place its entries come from.                          *)
Ordered(g) ==
  /\ \A n \in 1..Len(entries) : entries[n] = input.available[g[n]]
  /\ \A m, n \in Live : m < n => g[m] < g[n]
  /\ \A m \in Parsed :
       WellFormed(input.available[m]) /\ input.available[m] \notin Range(supported) =>
         \E n \in Live : g[n] = m

OrderInv == pc # "done" => \E g \in [1..Len(entries) -> Parsed] : Ordered(g)

(* The locale of every pass, and the passes that are behind. *)
Base(id)      == NewLocale(LowerCase(id))
Maximal(id)   == AddLikelySubtags(Base(id))
NoVariant(id) == AnyVariant(Maximal(id))
Respelt(id)   == AddLikelySubtags(AnyRegion(NoVariant(id)))
LocaleIn(id, n) ==
  CASE n \in {1, 2} -> Base(id)
    [] n = 3 -> Maximal(id)
    [] n = 4 -> NoVariant(id)
    [] n = 5 -> Respelt(id)
    [] n = 6 -> AnyRegion(Respelt(id))

Seeking == input.strategy = "filtering" \/ ~matched

PassInv ==
  IF pc # "scan" THEN ~matched
  ELSE
    /\ WellFormed(Request) /\ locale = LocaleIn(Request, pass)
    /\ Seeking => \A b \in Untaken :
         /\ \A n \in 1..pass - 1 : ~HitsAt(Request, b, n)
         /\ HitsAt(Request, b, pass) => b \notin {entries[n] : n \in 1..kept}

(* No request before q is served by a locale that is left. *)
Exhausted(q) == \A b \in Untaken, k \in 1..q - 1 : ~Serves(k, b)

FilterInv ==
  input.strategy = "filtering" /\ pc # "done" =>
    /\ Exhausted(r)
    /\ Range(supported) \subseteq Wanted
    /\ \A m, n \in DOMAIN supported : m < n => Better(supported[m], supported[n])
    /\ \A s \in Range(supported), b \in Untaken : b \in Wanted => Better(s, b)
    /\ pc = "default" => r = Len(input.requested) + 1

MatchInv ==
  input.strategy = "matching" /\ pc # "done" =>
    /\ supported = BestAfter[IF pc = "scan" /\ matched THEN r ELSE r - 1]
    /\ pc = "default" => r = Len(input.requested) + 1

LookupInv ==
  input.strategy = "lookup" /\ pc # "done" =>
    IF supported = << >>
      THEN /\ Exhausted(r)
           /\ pc = "scan" => ~matched
           /\ pc = "default" => r = Len(input.requested) + 1
      ELSE /\ pc \in {"scan", "default"}
           /\ pc = "scan" => matched
           /\ Len(supported) = 1
           /\ supported[1] \in Wanted
           /\ \A key \in Wanted \ {supported[1]} : Better(supported[1], key)

RankInv == OrderInv /\ PassInv /\ FilterInv /\ MatchInv /\ LookupInv

LEMMA LeastExists ==
  ASSUME NEW S \in SUBSET Nat, S # {}
  PROVE  Least(S) \in S /\ \A k \in S : Least(S) <= k
<1> DEFINE R == {ss \in Nat \X Nat : ss[1] < ss[2]}
<1>1. IsWellFoundedOn(R, Nat)  BY NatLessThanWellFounded, Zenon DEF OpToRel
<1>2. PICK j \in S : \A k \in S : ~(<<k, j>> \in R)  BY <1>1, WFMin
<1>3. \A k \in S : j <= k
  <2> SUFFICES ASSUME NEW k \in S PROVE j <= k  OBVIOUS
  <2>1. ~(k < j)  BY <1>2
  <2> QED  BY <2>1
<1>4. j \in S /\ \A k \in S : j <= k  BY <1>2, <1>3
<1> QED  BY <1>4 DEF Least

(* What clearing a subtag and adding the likely ones makes of a locale. *)
LEMMA LocaleFields ==
  ASSUME NEW l, IsLocale(l)
  PROVE  /\ IsLocale(AnyVariant(l)) /\ IsLocale(AnyRegion(l))
         /\ IsLocale(AddLikelySubtags(l))
         /\ AnyRegion(l) = [lang |-> l.lang, script |-> l.script,
                            region |-> "", variant |-> l.variant]
<1>0. PICK a, b, c, d : l = [lang |-> a, script |-> b, region |-> c, variant |-> d]
  BY DEF IsLocale
<1>w. ASSUME NEW x
      PROVE  /\ [l EXCEPT !.variant = x] = [lang |-> a, script |-> b, region |-> c, variant |-> x]
             /\ [l EXCEPT !.region = x] = [lang |-> a, script |-> b, region |-> x, variant |-> d]
  BY <1>0
<1>v. l.lang = a /\ l.script = b /\ l.region = c /\ l.variant = d  BY <1>0
<1>1. /\ AnyVariant(l) = [lang |-> l.lang, script |-> l.script,
                          region |-> l.region, variant |-> ""]
      /\ AnyRegion(l) = [lang |-> l.lang, script |-> l.script,
                         region |-> "", variant |-> l.variant]
      /\ \A x : [l EXCEPT !.region = x] =
                  [lang |-> l.lang, script |-> l.script, region |-> x, variant |-> l.variant]
  BY <1>v, <1>w DEF AnyVariant, AnyRegion
<1>2. IsLocale(AnyVariant(l)) /\ IsLocale(AnyRegion(l))  BY <1>1 DEF IsLocale
<1>3. IsLocale(AddLikelySubtags(l))
  <2>1. CASE l \in DOMAIN Likely
    BY <2>1, NegotiationAssumption DEF AddLikelySubtags
  <2>2. CASE l \notin DOMAIN Likely /\ l.lang \in DOMAIN OwnRegion
    <3>1. AddLikelySubtags(l) = [l EXCEPT !.region = OwnRegion[l.lang]]
      BY <2>2 DEF AddLikelySubtags
    <3> QED  BY <1>1, <3>1 DEF IsLocale
  <2>3. CASE l \notin DOMAIN Likely /\ l.lang \notin DOMAIN OwnRegion
    BY <2>3 DEF AddLikelySubtags
  <2> QED  BY <2>1, <2>2, <2>3
<1> QED  BY <1>1, <1>2, <1>3

LEMMA PassLocales ==
  ASSUME NEW id
  PROVE  /\ IsLocale(Base(id)) /\ IsLocale(Maximal(id)) /\ IsLocale(NoVariant(id))
         /\ IsLocale(Respelt(id))
<1>1. IsLocale(Base(id))  BY DEF Base, NewLocale, IsLocale
<1>2. IsLocale(Maximal(id))  BY <1>1, LocaleFields DEF Maximal
<1>3. IsLocale(NoVariant(id))  BY <1>2, LocaleFields DEF NoVariant
<1>4. IsLocale(AnyRegion(NoVariant(id)))  BY <1>3, LocaleFields
<1> QED  BY <1>1, <1>2, <1>3, <1>4, LocaleFields DEF Respelt

LEMMA HitsAre ==
  ASSUME NEW id, NEW key
  PROVE  /\ HitsAt(id, key, 1) <=> Exact(id, key)
         /\ HitsAt(id, key, 2) <=> AvailableAsRange(key, Base(id))
         /\ HitsAt(id, key, 3) <=> AvailableAsRange(key, Maximal(id))
         /\ HitsAt(id, key, 4) <=> BothAsRanges(key, NoVariant(id))
         /\ HitsAt(id, key, 5) <=> AvailableAsRange(key, Respelt(id))
         /\ HitsAt(id, key, 6) <=> BothAsRanges(key, AnyRegion(Respelt(id)))
BY DEF HitsAt, Base, Maximal, NoVariant, Respelt

(* The predicate a pass is run with is the one of its number. *)
LEMMA PredIs ==
  ASSUME pass \in 1..6, locale = LocaleIn(Request, pass), NEW key
  PROVE  Pred(key) <=> HitsAt(Request, key, pass)
<1>1. pass = 1 \/ pass = 2 \/ pass = 3 \/ pass = 4 \/ pass = 5 \/ pass = 6  OBVIOUS
<1>2. CASE pass = 1  BY <1>2, HitsAre DEF Pred
<1>3. CASE pass = 2  BY <1>3, HitsAre DEF Pred, LocaleIn
<1>4. CASE pass = 3  BY <1>4, HitsAre DEF Pred, LocaleIn
<1>5. CASE pass = 4  BY <1>5, HitsAre DEF Pred, LocaleIn
<1>6. CASE pass = 5  BY <1>6, HitsAre DEF Pred, LocaleIn
<1>7. CASE pass = 6  BY <1>7, HitsAre DEF Pred, LocaleIn
<1> QED  BY <1>1, <1>2, <1>3, <1>4, <1>5, <1>6, <1>7

(* A pass that is left out would not have found anything new. *)
LEMMA NextLocale ==
  ASSUME NEW id, NEW n \in 1..5
  PROVE  LET l == LocaleIn(id, n)
             p == PassAfter(n, l) IN
         /\ p \in n + 1..6
         /\ LocaleFor(p, l) = LocaleIn(id, p)
         /\ \A m \in n + 1..p - 1 : \A key : HitsAt(id, key, m) => HitsAt(id, key, n)
<1> DEFINE l == LocaleIn(id, n)
<1>1. CASE n \in {1, 3, 5}
  <2>1. PassAfter(n, l) = n + 1 /\ n + 1 \in {2, 4, 6}  BY <1>1 DEF PassAfter
  <2>2. LocaleFor(n + 1, l) = LocaleIn(id, n + 1)
    BY <1>1 DEF LocaleFor, LocaleIn, Maximal, NoVariant, Respelt
  <2>3. n + 1..n + 1 - 1 = {}  OBVIOUS
  <2> QED  BY <2>1, <2>2, <2>3
<1>2. CASE n = 2
  <2>1. l = Base(id)  BY <1>2 DEF LocaleIn
  <2>2. CASE Expands(l)
    <3>1. PassAfter(n, l) = 3  BY <1>2, <2>2 DEF PassAfter
    <3>2. LocaleFor(3, l) = LocaleIn(id, 3)  BY <2>1 DEF LocaleFor, LocaleIn, Maximal
    <3>3. 2 + 1..3 - 1 = {} /\ 3 \in 2 + 1..6  OBVIOUS
    <3> QED  BY <1>2, <3>1, <3>2, <3>3
  <2>3. CASE ~Expands(l)
    <3>1. PassAfter(n, l) = 4  BY <1>2, <2>3 DEF PassAfter
    <3>2. Maximal(id) = Base(id)  BY <2>1, <2>3 DEF Maximal, AddLikelySubtags, Expands
    <3>3. LocaleFor(4, l) = LocaleIn(id, 4)  BY <2>1, <3>2 DEF LocaleFor, LocaleIn, NoVariant
    <3>4. 2 + 1..4 - 1 = {3} /\ 4 \in 2 + 1..6  OBVIOUS
    <3>5. \A key : HitsAt(id, key, 3) => HitsAt(id, key, 2)  BY <3>2, HitsAre
    <3> QED  BY <1>2, <3>1, <3>3, <3>4, <3>5
  <2> QED  BY <2>2, <2>3
<1>3. CASE n = 4
  <2> DEFINE w == AnyRegion(NoVariant(id))
  <2>1. l = NoVariant(id) /\ AnyRegion(l) = w  BY <1>3 DEF LocaleIn
  <2>2. CASE Expands(w)
    <3>1. PassAfter(n, l) = 5  BY <1>3, <2>1, <2>2 DEF PassAfter
    <3>2. LocaleFor(5, l) = LocaleIn(id, 5)  BY <2>1 DEF LocaleFor, LocaleIn, Respelt
    <3>3. 4 + 1..5 - 1 = {} /\ 5 \in 4 + 1..6  OBVIOUS
    <3> QED  BY <1>3, <3>1, <3>2, <3>3
  <2>3. CASE ~Expands(w)
    <3>1. PassAfter(n, l) = 6  BY <1>3, <2>1, <2>3 DEF PassAfter
    <3>2. Respelt(id) = w  BY <2>3 DEF Respelt, AddLikelySubtags, Expands
    <3>3. AnyRegion(w) = w  BY PassLocales, LocaleFields
    <3>4. LocaleFor(6, l) = LocaleIn(id, 6)  BY <2>1, <3>2, <3>3 DEF LocaleFor, LocaleIn
    <3>5. 4 + 1..6 - 1 = {5} /\ 6 \in 4 + 1..6  OBVIOUS
    <3>6. \A key : HitsAt(id, key, 5) => HitsAt(id, key, 4)
      <4> SUFFICES ASSUME NEW key, AvailableAsRange(key, w)
                   PROVE  BothAsRanges(key, NoVariant(id))
        BY <3>2, HitsAre
      <4>1. w = [lang |-> NoVariant(id).lang, script |-> NoVariant(id).script,
                 region |-> "", variant |-> NoVariant(id).variant]
        BY PassLocales, LocaleFields
      <4> HIDE DEF w
      <4> QED  BY <4>1 DEF AvailableAsRange, BothAsRanges, Matches, FieldMatches
    <3> QED  BY <1>3, <3>1, <3>4, <3>5, <3>6
  <2> QED  BY <2>2, <2>3
<1> QED  BY <1>1, <1>2, <1>3

(* The call does not change while it is served. *)
LEMMA Fixed ==
  ASSUME input' = input
  PROVE  /\ Usable' = Usable /\ Wanted' = Wanted
         /\ \A key : Place(key)' = Place(key)
         /\ \A q, key : Serves(q, key)' <=> Serves(q, key)
         /\ \A a, b : Better(a, b)' <=> Better(a, b)
         /\ BestAfter' = BestAfter
<1>1. Usable' = Usable  BY DEF Usable
<1>2. \A key : Place(key)' = Place(key)  BY DEF Place
<1>3. \A q, key : Serves(q, key)' <=> Serves(q, key)  BY DEF Serves
<1>4. Wanted' = Wanted  BY <1>1 DEF Wanted, Serves
<1>5. \A a, b : Better(a, b)' <=> Better(a, b)
  BY DEF Better, FirstFor, BetterFor, PassOf, Serves, Place
<1>6. BestAfter' = BestAfter
  BY DEF BestAfter, BestLeft, Usable, BetterFor, PassOf, Serves, Place
<1> QED  BY <1>1, <1>2, <1>3, <1>4, <1>5, <1>6

LEMMA LeastIs ==
  ASSUME NEW S \in SUBSET Nat, NEW n \in S, \A k \in S : n <= k
  PROVE  Least(S) = n
<1>1. Least(S) \in S /\ \A k \in S : Least(S) <= k  BY LeastExists
<1>2. Least(S) <= n /\ n <= Least(S)  BY <1>1
<1>3. Least(S) \in Nat /\ n \in Nat  BY <1>1
<1> QED  BY <1>2, <1>3

(* Serving the requests one after the other is a function of their number. *)
LEMMA BestAfterIs ==
  ASSUME Len(input.requested) \in Nat
  PROVE  /\ BestAfter[0] = << >>
         /\ \A q \in 1..Len(input.requested) :
              BestAfter[q] = IF WellFormed(input.requested[q])
                               THEN BestLeft(q, BestAfter[q - 1]) ELSE BestAfter[q - 1]
<1> DEFINE n == Len(input.requested)
           Served(q, t) == IF WellFormed(input.requested[q]) THEN BestLeft(q, t) ELSE t
           Is(f, m) == f = [q \in 0..m |-> IF q = 0 THEN << >> ELSE Served(q, f[q - 1])]
           Without == {m \in Nat : ~\E f : Is(f, m)}
<1> HIDE DEF Served
<1>1. Without = {}
  <2> SUFFICES ASSUME Without # {} PROVE FALSE  OBVIOUS
  <2>1. PICK m \in Without : \A k \in Without : m <= k
    <3> HIDE DEF Without
    <3>1. Without \in SUBSET Nat  BY DEF Without
    <3> QED  BY <3>1, LeastExists
  <2>2. m # 0
    <3> DEFINE f == [q \in 0..0 |-> << >>]
    <3>1. Is(f, 0)  OBVIOUS
    <3> QED  BY <3>1
  <2>3. m - 1 \in Nat /\ m - 1 \notin Without
    <3>1. m \in Nat  BY <2>1
    <3>2. m - 1 \in Nat /\ ~(m <= m - 1)  BY <2>2, <3>1
    <3> HIDE DEF Without
    <3> QED  BY <2>1, <3>2
  <2>4. PICK f : Is(f, m - 1)  BY <2>3
  <2> DEFINE h == [q \in 0..m |-> IF q = m THEN Served(m, f[m - 1]) ELSE f[q]]
  <2>5. h[m - 1] = f[m - 1] /\ h[m] = Served(m, f[m - 1])  BY <2>3
  <2>6. \A q \in 0..m : q # m => q \in 0..m - 1 /\ h[q] = f[q]  BY <2>3
  <2>7. \A q \in 0..m - 1 : f[q] = IF q = 0 THEN << >> ELSE Served(q, f[q - 1])
    BY <2>4
  <2>8. \A q \in 0..m : h[q] = IF q = 0 THEN << >> ELSE Served(q, h[q - 1])
    <3> SUFFICES ASSUME NEW q \in 0..m
                 PROVE  h[q] = IF q = 0 THEN << >> ELSE Served(q, h[q - 1])
      OBVIOUS
    <3>1. CASE q = m  BY <2>2, <2>5, <3>1
    <3>2. CASE q # m /\ q = 0  BY <2>6, <2>7, <3>2
    <3>3. CASE q # m /\ q # 0
      <4>1. q - 1 \in 0..m - 1 /\ q - 1 # m /\ q - 1 \in 0..m  BY <2>3, <3>3
      <4>2. h[q - 1] = f[q - 1] /\ h[q] = f[q]  BY <2>6, <3>3, <4>1
      <4>3. f[q] = Served(q, f[q - 1])  BY <2>6, <2>7, <3>3
      <4> QED  BY <3>3, <4>2, <4>3
    <3> QED  BY <3>1, <3>2, <3>3
  <2>9. h = [q \in 0..m |-> h[q]]  OBVIOUS
  <2> HIDE DEF h
  <2>10. Is(h, m)  BY <2>8, <2>9
  <2> QED  BY <2>1, <2>10
<1>2. \E f : Is(f, n)  BY <1>1
<1>3. BestAfter = CHOOSE f : Is(f, n)  BY DEF BestAfter, Served
<1>4. Is(BestAfter, n)  BY <1>2, <1>3
<1> HIDE DEF n
<1>5. n \in Nat  BY DEF n
<1>6. \A q \in 0..n : BestAfter[q] = IF q = 0 THEN << >> ELSE Served(q, BestAfter[q - 1])
  BY <1>4
<1> QED  BY <1>5, <1>6 DEF Served, n

LEMMA PlaceIs ==
  ASSUME input \in Inputs, NEW n \in 1..Len(input.available)
  PROVE  LET m == Place(input.available[n]) IN
         /\ m \in 1..Len(input.available) /\ m <= n
         /\ input.available[m] = input.available[n]
<1> DEFINE S == {k \in DOMAIN input.available : input.available[k] = input.available[n]}
<1>1. DOMAIN input.available = 1..Len(input.available) /\ Len(input.available) \in Nat
  BY InputTyped, LenProperties
<1>2. S \in SUBSET Nat /\ n \in S  BY <1>1
<1>3. Place(input.available[n]) = Least(S)  BY DEF Place
<1> HIDE DEF S
<1>4. Least(S) \in S /\ Least(S) <= n  BY <1>2, LeastExists
<1> USE DEF S
<1> QED  BY <1>1, <1>3, <1>4

(* A request serves a key at the first pass that hits it. *)
LEMMA PassIs ==
  ASSUME NEW q, NEW key, NEW n \in 1..6,
         \A m \in 1..n - 1 : ~HitsAt(input.requested[q], key, m)
  PROVE  /\ HitsAt(input.requested[q], key, n) => PassOf(q, key) = n
         /\ Serves(q, key) =>
              /\ PassOf(q, key) \in n..6
              /\ HitsAt(input.requested[q], key, PassOf(q, key))
<1> DEFINE S == {m \in 1..6 : HitsAt(input.requested[q], key, m)}
<1>1. S \in SUBSET Nat /\ \A m \in S : m \in n..6 /\ HitsAt(input.requested[q], key, m)
  <2> SUFFICES ASSUME NEW m \in S PROVE n <= m  OBVIOUS
  <2>1. m \notin 1..n - 1 /\ m \in 1..6  OBVIOUS
  <2> QED  BY <2>1
<1>2. PassOf(q, key) = Least(S)  BY DEF PassOf
<1>3. HitsAt(input.requested[q], key, n) => n \in S  OBVIOUS
<1>4. Serves(q, key) => S # {}  BY DEF Serves
<1> HIDE DEF S
<1>5. ASSUME n \in S PROVE Least(S) = n
  <2>1. \A m \in S : n <= m  BY <1>1
  <2> QED  BY <1>1, <1>5, <2>1, LeastIs
<1>6. S # {} => Least(S) \in S  BY <1>1, LeastExists
<1> QED  BY <1>1, <1>2, <1>3, <1>4, <1>5, <1>6

(* The first request that serves a key. *)
LEMMA FirstIs ==
  ASSUME input \in Inputs, NEW q \in 1..Len(input.requested), NEW key \in Usable,
         \A k \in 1..q - 1 : ~Serves(k, key)
  PROVE  /\ Serves(q, key) => key \in Wanted /\ FirstFor(key) = q
         /\ key \in Wanted => /\ FirstFor(key) \in q..Len(input.requested)
                              /\ Serves(FirstFor(key), key)
<1> DEFINE S == {k \in DOMAIN input.requested : Serves(k, key)}
<1>1. DOMAIN input.requested = 1..Len(input.requested) /\ Len(input.requested) \in Nat
  BY InputTyped, LenProperties
<1>2. S \in SUBSET Nat /\ \A k \in S : k \in q..Len(input.requested) /\ Serves(k, key)
  <2> SUFFICES ASSUME NEW k \in S PROVE k \in 1..Len(input.requested) /\ q <= k
    BY <1>1
  <2>1. k \notin 1..q - 1 /\ k \in 1..Len(input.requested)  BY <1>1
  <2> QED  BY <1>1, <2>1
<1>3. FirstFor(key) = Least(S)  BY DEF FirstFor
<1>4. Serves(q, key) => q \in S /\ key \in Wanted  BY <1>1 DEF Wanted
<1>5. key \in Wanted => S # {}  BY DEF Wanted
<1> HIDE DEF S
<1>6. ASSUME q \in S PROVE Least(S) = q
  <2>1. \A m \in S : q <= m  BY <1>1, <1>2
  <2> QED  BY <1>2, <1>6, <2>1, LeastIs
<1>7. S # {} => Least(S) \in S  BY <1>2, LeastExists
<1> QED  BY <1>2, <1>3, <1>4, <1>5, <1>6, <1>7

(* What a pass takes is the best of all that is left. *)
LEMMA TakenIsBest ==
  ASSUME IInv, OrderInv, PassInv, Seeking, pc = "scan", i <= Len(entries),
         entries[i] \notin Range(supported), Pred(entries[i])
  PROVE  /\ entries[i] \in Untaken /\ r \in 1..Len(input.requested)
         /\ Serves(r, entries[i])
         /\ \A b \in Untaken \ {entries[i]} : Serves(r, b) => BetterFor(r, entries[i], b)
<1> DEFINE key == entries[i]
<1>1. /\ i \in 1..Len(entries) /\ Len(entries) \in Nat /\ kept \in 0..i - 1 /\ pass \in 1..6
      /\ r \in 1..Len(input.requested) /\ input \in Inputs
  BY LenProperties, InputTyped DEF IInv, TypeOK, PhaseInv
<1>2. key \in Untaken  BY <1>1 DEF IInv, NothingLost, Untaken
<1>3. /\ WellFormed(Request) /\ locale = LocaleIn(Request, pass)
      /\ \A b \in Untaken : /\ \A n \in 1..pass - 1 : ~HitsAt(Request, b, n)
                            /\ HitsAt(Request, b, pass) => b \notin {entries[n] : n \in 1..kept}
  BY DEF PassInv
<1>4. HitsAt(Request, key, pass)  BY <1>1, <1>3, PredIs
<1>5. Serves(r, key) /\ PassOf(r, key) = pass
  BY <1>1, <1>2, <1>3, <1>4, PassIs DEF Serves, Request
<1>6. ASSUME NEW b \in Untaken \ {key}, Serves(r, b)  PROVE BetterFor(r, key, b)
  <2>1. PassOf(r, b) \in pass..6 /\ HitsAt(Request, b, PassOf(r, b))
    BY <1>1, <1>3, <1>6, PassIs DEF Request
  <2>2. CASE PassOf(r, b) # pass  BY <1>1, <1>5, <2>1, <2>2 DEF BetterFor
  <2>3. CASE PassOf(r, b) = pass
    <3>1. b \notin {entries[n] : n \in 1..kept}  BY <1>3, <1>6, <2>1, <2>3
    <3>2. Parsed = 1..Len(input.available) /\ Live = (1..kept) \cup (i..Len(entries))
      BY DEF Parsed, Live
    <3>3. PICK g \in [1..Len(entries) -> 1..Len(input.available)] : Ordered(g)
      BY <3>2 DEF OrderInv
    <3>4. g[i] \in 1..Len(input.available) /\ input.available[g[i]] = key
      BY <1>1, <3>3 DEF Ordered
    <3>5. Place(key) <= g[i] /\ Place(key) \in 1..Len(input.available)
      <4>1. Place(input.available[g[i]]) <= g[i]
              /\ Place(input.available[g[i]]) \in 1..Len(input.available)
        BY <1>1, <3>4, PlaceIs
      <4> QED  BY <3>4, <4>1
    <3>6. PICK n \in 1..Len(input.available) : input.available[n] = b
      <4>1. b \in Range(input.available)  BY <1>6 DEF Untaken, Usable
      <4>2. DOMAIN input.available = 1..Len(input.available)
        BY <1>1, InputTyped, LenProperties
      <4> QED  BY <4>1, <4>2 DEF Range
    <3>7. Place(b) \in 1..Len(input.available) /\ input.available[Place(b)] = b
      <4>1. LET m == Place(input.available[n]) IN
            m \in 1..Len(input.available) /\ input.available[m] = input.available[n]
        BY <1>1, <3>6, PlaceIs
      <4> QED  BY <3>6, <4>1
    <3>8. WellFormed(b) /\ b \notin Range(supported)  BY <1>6 DEF Untaken, Usable
    <3>9. PICK m \in Live : g[m] = Place(b)
      BY <3>2, <3>3, <3>7, <3>8 DEF Ordered
    <3>10. entries[m] = b /\ m \in 1..Len(entries)
      <4>1. m \in 1..Len(entries)  BY <1>1, <3>2, <3>9
      <4>2. entries[m] = input.available[g[m]]  BY <3>3, <4>1 DEF Ordered
      <4> QED  BY <3>7, <3>9, <4>1, <4>2
    <3>11. m \notin 1..kept /\ m # i  BY <1>6, <3>1, <3>10
    <3>12. m \in i + 1..Len(entries) /\ i \in Live /\ i < m
      BY <1>1, <3>2, <3>9, <3>10, <3>11
    <3>13. g[i] < g[m]  BY <3>3, <3>9, <3>12 DEF Ordered
    <3>14. Place(key) < Place(b)  BY <3>4, <3>5, <3>7, <3>9, <3>13
    <3> QED  BY <1>5, <2>3, <3>14 DEF BetterFor
  <2> QED  BY <2>2, <2>3
<1> QED  BY <1>1, <1>2, <1>5, <1>6

(* So it ranks before all that is left to take. *)
LEMMA TakenRanks ==
  ASSUME IInv, OrderInv, PassInv, Seeking, pc = "scan", i <= Len(entries),
         entries[i] \notin Range(supported), Pred(entries[i]), Exhausted(r)
  PROVE  /\ entries[i] \in Untaken /\ entries[i] \in Wanted
         /\ \A b \in Untaken \ {entries[i]} : b \in Wanted => Better(entries[i], b)
<1> DEFINE key == entries[i]
<1>1. /\ key \in Untaken /\ r \in 1..Len(input.requested) /\ Serves(r, key)
      /\ \A b \in Untaken \ {key} : Serves(r, b) => BetterFor(r, key, b)
  BY TakenIsBest
<1>2. input \in Inputs /\ r \in Nat  BY <1>1 DEF IInv, TypeOK
<1>3. \A b \in Untaken : b \in Usable /\ \A k \in 1..r - 1 : ~Serves(k, b)
  BY DEF Exhausted, Untaken
<1>4. key \in Wanted /\ FirstFor(key) = r  BY <1>1, <1>2, <1>3, FirstIs
<1>5. ASSUME NEW b \in Untaken \ {key}, b \in Wanted  PROVE Better(key, b)
  <2>1. FirstFor(b) \in r..Len(input.requested) /\ Serves(FirstFor(b), b)
    BY <1>1, <1>2, <1>3, <1>5, FirstIs
  <2>2. CASE FirstFor(b) = r  BY <1>1, <1>4, <1>5, <2>1, <2>2 DEF Better
  <2>3. CASE FirstFor(b) # r  BY <1>2, <1>4, <2>1, <2>3 DEF Better
  <2> QED  BY <2>2, <2>3
<1> QED  BY <1>1, <1>4, <1>5

(* At the end of a pass, nothing it looked for is left. *)
LEMMA PassIsComplete ==
  ASSUME IInv, PassInv, Seeking, pc = "scan", i > Len(entries)
  PROVE  \A b \in Untaken, n \in 1..pass : ~HitsAt(Request, b, n)
<1>1. /\ i = Len(entries) + 1 /\ Len(entries) \in Nat /\ pass \in 1..6
      /\ \A b \in Untaken : b \in {entries[n] : n \in 1..kept}
  <2>1. i = Len(entries) + 1 /\ Len(entries) \in Nat /\ pass \in 1..6
    BY LenProperties DEF IInv, TypeOK
  <2>2. {entries[n] : n \in i..Len(entries)} = {}  BY <2>1
  <2>3. Usable = Range(supported) \cup {entries[n] : n \in 1..kept}
    BY <2>2 DEF IInv, NothingLost
  <2> QED  BY <2>1, <2>3 DEF Untaken
<1>2. \A b \in Untaken : /\ \A n \in 1..pass - 1 : ~HitsAt(Request, b, n)
                         /\ ~HitsAt(Request, b, pass)
  BY <1>1 DEF PassInv
<1>3. \A n \in 1..pass : n \in 1..pass - 1 \/ n = pass  BY <1>1
<1> QED  BY <1>2, <1>3

(* After the last pass the request serves nothing that is left. *)
LEMMA LastPass ==
  ASSUME IInv, PassInv, Seeking, pc = "scan", i > Len(entries), ~GoesOn
  PROVE  \A b \in Untaken : ~Serves(r, b)
<1>1. pass = 6  BY DEF GoesOn, Seeking, IInv, TypeOK
<1>2. \A b \in Untaken, n \in 1..6 : ~HitsAt(Request, b, n)  BY <1>1, PassIsComplete
<1> QED  BY <1>2 DEF Serves, Request

(***************************************************************************)
(* The invariant is inductive.                                             *)
(***************************************************************************)
LEMMA NextOrder ==
  ASSUME IInv, OrderInv, Next
  PROVE  OrderInv'
<1>0. /\ input \in Inputs /\ Len(input.available) \in Nat /\ Len(entries) \in Nat
      /\ i \in Nat /\ kept \in Nat /\ supported \in Seq(Ids \cup Defaults)
      /\ input.available \in Seq(Ids) /\ entries \in Seq(Ids)
      /\ DOMAIN entries = 1..Len(entries)
  BY InputTyped, LenProperties DEF IInv, TypeOK
<1>1. CASE ParseAvailable
  <2>1. /\ pc = "parse" /\ i \in 1..Len(input.available) /\ UNCHANGED <<input, supported, pc>>
        /\ i' = i + 1
        /\ entries' = IF WellFormed(input.available[i])
                        THEN Append(entries, input.available[i]) ELSE entries
    BY <1>0, <1>1 DEF ParseAvailable, IInv, TypeOK
  <2>2. PICK g \in [1..Len(entries) -> 1..i - 1] : Ordered(g)
    BY <2>1 DEF OrderInv, Parsed
  <2>3. /\ Live = 1..Len(entries) /\ Live' = 1..Len(entries')
        /\ Parsed = 1..i - 1 /\ Parsed' = 1..i
    BY <1>0, <2>1 DEF Live, Parsed
  <2>4. CASE ~WellFormed(input.available[i])
    <3>1. entries' = entries /\ g \in [1..Len(entries) -> 1..i]
      BY <1>0, <2>1, <2>2, <2>4
    <3>2. \A m \in 1..i : m \in 1..i - 1 \/ m = i  BY <1>0
    <3>3. Ordered(g)'
      BY <2>1, <2>2, <2>3, <2>4, <3>1, <3>2 DEF Ordered, WellFormed
    <3> QED  BY <2>3, <3>1, <3>3 DEF OrderInv
  <2>5. CASE WellFormed(input.available[i])
    <3> DEFINE n == Len(entries)
    <3>1. entries' = Append(entries, input.available[i])  BY <2>1, <2>5
    <3>2. input.available[i] \in Ids  BY <1>0, <2>1, ElementOfSeq
    <3>3. /\ Len(entries') = n + 1
          /\ \A m \in 1..n : entries'[m] = entries[m]
          /\ entries'[n + 1] = input.available[i]
      BY <1>0, <3>1, <3>2, AppendProperties
    <3> HIDE DEF n
    <3>n. n \in Nat /\ n = Len(entries)  BY <1>0 DEF n
    <3>h. PICK h : h = [m \in 1..n + 1 |-> IF m = n + 1 THEN i ELSE g[m]]  OBVIOUS
    <3>4. /\ \A m \in 1..n : m \in 1..n + 1 /\ h[m] = g[m] /\ g[m] \in 1..i - 1
          /\ h[n + 1] = i
          /\ \A m \in 1..n + 1 : m \in 1..n \/ m = n + 1
      BY <2>2, <3>h, <3>n
    <3>5. h \in [1..n + 1 -> 1..i]  BY <1>0, <2>1, <3>h, <3>n, <3>4
    <3>6. \A m \in 1..n + 1 : entries'[m] = input.available[h[m]]
      <4>1. \A m \in 1..n : entries[m] = input.available[g[m]]  BY <2>2, <3>n DEF Ordered
      <4> QED  BY <3>3, <3>4, <4>1
    <3>7. \A l, m \in 1..n + 1 : l < m => h[l] < h[m]
      <4> SUFFICES ASSUME NEW l \in 1..n + 1, NEW m \in 1..n + 1, l < m PROVE h[l] < h[m]
        OBVIOUS
      <4>1. l \in 1..n  BY <3>n
      <4>2. CASE m \in 1..n
        <5>1. g[l] < g[m]  BY <2>2, <2>3, <3>n, <4>1, <4>2 DEF Ordered
        <5> QED  BY <3>4, <4>1, <4>2, <5>1
      <4>3. CASE m = n + 1
        <5>1. h[l] \in 1..i - 1 /\ h[m] = i  BY <3>4, <4>1, <4>3
        <5> QED  BY <1>0, <5>1
      <4> QED  BY <3>4, <4>2, <4>3
    <3>8. \A m \in 1..i :
            WellFormed(input.available[m]) /\ input.available[m] \notin Range(supported)
              => \E k \in 1..n + 1 : h[k] = m
      <4> SUFFICES ASSUME NEW m \in 1..i, WellFormed(input.available[m]),
                          input.available[m] \notin Range(supported)
                   PROVE  \E k \in 1..n + 1 : h[k] = m
        OBVIOUS
      <4>1. CASE m = i  BY <3>4, <3>n, <4>1
      <4>2. CASE m # i
        <5>1. m \in 1..i - 1  BY <1>0, <4>2
        <5>2. PICK k \in 1..n : g[k] = m  BY <2>2, <2>3, <3>n, <5>1 DEF Ordered
        <5> QED  BY <3>4, <5>2
      <4> QED  BY <4>1, <4>2
    <3>9. Ordered(h)'
      BY <2>1, <2>3, <3>3, <3>n, <3>6, <3>7, <3>8 DEF Ordered, WellFormed
    <3> QED  BY <2>3, <3>3, <3>n, <3>5, <3>9 DEF OrderInv
  <2> QED  BY <2>4, <2>5
<1>2. CASE AllParsed \/ SkipMalformed \/ StartRequest \/ NoMoreRequests
  <2>1. /\ UNCHANGED <<input, supported, entries, kept>> /\ pc' # "parse" /\ pc # "done"
    BY <1>2 DEF AllParsed, SkipMalformed, StartRequest, NoMoreRequests, scan
  <2>2. Live' = Live /\ Parsed' = Parsed
    <3>1. CASE AllParsed
      <4>1. i = Len(input.available) + 1 /\ kept = 0 /\ i' = 1 /\ pc = "parse"
        BY <1>0, <3>1 DEF AllParsed, IInv, TypeOK, PhaseInv
      <4>2. 1..0 = {} /\ i - 1 = Len(input.available)  BY <1>0, <4>1
      <4> QED  BY <2>1, <4>1, <4>2 DEF Live, Parsed
    <3>2. CASE SkipMalformed \/ StartRequest \/ NoMoreRequests
      BY <2>1, <3>2 DEF SkipMalformed, StartRequest, NoMoreRequests, scan, Live, Parsed
    <3> QED  BY <1>2, <3>1, <3>2
  <2>3. PICK g \in [1..Len(entries) -> Parsed] : Ordered(g)  BY <2>1 DEF OrderInv
  <2>4. Ordered(g)'  BY <2>1, <2>2, <2>3 DEF Ordered, WellFormed
  <2> QED  BY <2>1, <2>2, <2>3, <2>4 DEF OrderInv
<1>3. CASE Take
  <2>1. /\ UNCHANGED <<input, entries, kept, pc>> /\ pc = "scan" /\ i \in 1..Len(entries)
        /\ i' = i + 1
    BY <1>0, <1>3 DEF Take, IInv, TypeOK
  <2>2. Range(supported') = Range(supported) \cup {entries[i]}
    <3>1. entries[i] \in Ids \cup Defaults  BY <1>0, <2>1, ElementOfSeq
    <3>2. supported' = Append(supported, entries[i]) /\ entries[i] \notin Range(supported)
      BY <1>3 DEF Take, Accepts
    <3> HIDE <1>3
    <3> QED  BY <1>0, <3>1, <3>2, AppendDistinct DEF IInv, NoLocaleTwice
  <2>3. /\ Parsed = 1..Len(input.available) /\ Parsed' = Parsed
        /\ Live = (1..kept) \cup (i..Len(entries))
        /\ Live' = (1..kept) \cup (i + 1..Len(entries))
    BY <2>1 DEF Parsed, Live
  <2>4. PICK g \in [1..Len(entries) -> Parsed] : Ordered(g)  BY <2>1 DEF OrderInv
  <2>5. Live' \subseteq Live /\ \A n \in Live : n # i => n \in Live'  BY <1>0, <2>1, <2>3
  <2>6. \A m \in Parsed :
          WellFormed(input.available[m]) /\ input.available[m] \notin Range(supported') =>
            \E n \in Live' : g[n] = m
    <3> SUFFICES ASSUME NEW m \in Parsed, WellFormed(input.available[m]),
                        input.available[m] \notin Range(supported')
                 PROVE  \E n \in Live' : g[n] = m
      OBVIOUS
    <3>1. input.available[m] \notin Range(supported) /\ input.available[m] # entries[i]
      BY <2>2
    <3>2. PICK n \in Live : g[n] = m  BY <2>4, <3>1 DEF Ordered
    <3>3. entries[i] = input.available[g[i]]  BY <2>1, <2>4 DEF Ordered
    <3> QED  BY <2>5, <3>1, <3>2, <3>3
  <2>7. Ordered(g)'
    BY <2>1, <2>3, <2>4, <2>5, <2>6 DEF Ordered, WellFormed
  <2> QED  BY <2>1, <2>3, <2>4, <2>7 DEF OrderInv
<1>4. CASE Keep
  <2>1. /\ UNCHANGED <<input, supported, pc>> /\ pc = "scan" /\ i \in 1..Len(entries)
        /\ i' = i + 1 /\ kept' = kept + 1 /\ kept \in 0..i - 1
        /\ entries' = [entries EXCEPT ![kept + 1] = entries[i]]
    BY <1>0, <1>4 DEF Keep, KeptAt, IInv, TypeOK
  <2>2. PICK g \in [1..Len(entries) -> Parsed] : Ordered(g)  BY <2>1 DEF OrderInv
  <2> DEFINE n == Len(entries)
  <2>h. PICK h : h = [g EXCEPT ![kept + 1] = g[i]]  OBVIOUS
  <2>3. kept + 1 \in 1..n /\ kept + 1 <= i /\ n \in Nat /\ n = Len(entries)  BY <1>0, <2>1
  <2>4. Len(entries') = n
    BY <1>0, <2>1, <2>3, KeepMoves DEF IInv, TypeOK
  <2> HIDE DEF n
  <2>5. /\ Live = (1..kept) \cup (i..n)
        /\ Live' = (1..kept + 1) \cup (i + 1..n)
        /\ Parsed' = Parsed
    BY <2>1, <2>3, <2>4 DEF Live, Parsed
  <2>6. \A m \in 1..n : entries'[m] = (IF m = kept + 1 THEN entries[i] ELSE entries[m])
    BY <1>0, <2>1, <2>3
  <2>7. /\ h \in [1..n -> Parsed]
        /\ \A m \in 1..n : h[m] = IF m = kept + 1 THEN g[i] ELSE g[m]
    BY <2>1, <2>2, <2>3, <2>h
  <2>8. \A m \in 1..n : entries'[m] = input.available[h[m]]
    BY <2>1, <2>2, <2>3, <2>6, <2>7 DEF Ordered
  <2>9. \A l, m \in Live' : l < m => h[l] < h[m]
    <3> SUFFICES ASSUME NEW l \in Live', NEW m \in Live', l < m PROVE h[l] < h[m]
      OBVIOUS
    <3> DEFINE old(x) == IF x = kept + 1 THEN i ELSE x
    <3>1. old(l) \in Live /\ old(m) \in Live /\ old(l) < old(m)
      <4>1. \A x \in Live' : x \in 1..kept \/ x = kept + 1 \/ x \in i + 1..n
        BY <1>0, <2>5
      <4>2. \A x \in Live' : old(x) \in Live
        BY <1>0, <2>1, <2>3, <2>5, <4>1
      <4>3. CASE l \in 1..kept  BY <1>0, <2>1, <2>3, <4>1, <4>2, <4>3
      <4>4. CASE l = kept + 1  BY <1>0, <2>1, <2>3, <4>1, <4>2, <4>4
      <4>5. CASE l \in i + 1..n  BY <1>0, <2>1, <2>3, <4>1, <4>2, <4>5
      <4> QED  BY <4>1, <4>3, <4>4, <4>5
    <3>2. h[l] = g[old(l)] /\ h[m] = g[old(m)]
      <4>1. l \in 1..n /\ m \in 1..n  BY <1>0, <2>1, <2>3, <2>5
      <4> QED  BY <2>7, <4>1
    <3> HIDE DEF old
    <3>3. g[old(l)] < g[old(m)]  BY <2>2, <3>1 DEF Ordered
    <3> QED  BY <3>2, <3>3
  <2>10. \A m \in Parsed :
           WellFormed(input.available[m]) /\ input.available[m] \notin Range(supported) =>
             \E k \in Live' : h[k] = m
    <3> SUFFICES ASSUME NEW m \in Parsed, WellFormed(input.available[m]),
                        input.available[m] \notin Range(supported)
                 PROVE  \E k \in Live' : h[k] = m
      OBVIOUS
    <3>1. PICK k \in Live : g[k] = m  BY <2>2 DEF Ordered
    <3>2. CASE k = i
      <4>1. kept + 1 \in Live' /\ h[kept + 1] = g[i]  BY <1>0, <2>3, <2>5, <2>7
      <4> QED  BY <3>1, <3>2, <4>1
    <3>3. CASE k # i
      <4>1. k \in Live' /\ k \in 1..n /\ k # kept + 1
        BY <1>0, <2>1, <2>3, <2>5, <3>1, <3>3
      <4> QED  BY <2>7, <3>1, <4>1
    <3> QED  BY <3>2, <3>3
  <2>11. Ordered(h)'
    BY <2>1, <2>4, <2>5, <2>8, <2>9, <2>10 DEF Ordered, WellFormed
  <2> QED  BY <2>4, <2>5, <2>7, <2>11 DEF OrderInv
<1>5. CASE NextPass \/ NextRequest \/ StopLookup
  <2>1. /\ UNCHANGED <<input, supported>> /\ pc = "scan" /\ i = Len(entries) + 1
        /\ entries' = SubSeq(entries, 1, kept) /\ kept' = 0 /\ i' = 1
        /\ kept \in 0..Len(entries) /\ pc' # "parse"
    <3>1. EndPass /\ pc' # "parse"
      BY <1>5 DEF NextPass, NextRequest, StopLookup, EndPass
    <3>2. pc = "scan" /\ i > Len(entries)  BY <3>1 DEF EndPass
    <3>3. i = Len(entries) + 1 /\ kept \in 0..Len(entries)
      BY <1>0, <3>2 DEF IInv, TypeOK
    <3> QED  BY <3>1, <3>3 DEF EndPass, FreshKept
  <2>2. /\ Len(entries') = kept
        /\ \A n \in 1..kept : entries'[n] = entries[n]
    <3>1. \A n \in 1..kept : entries[n] \in Ids  BY <1>0, <2>1, ElementOfSeq
    <3> QED  BY <1>0, <2>1, <3>1, SubSeqProperties
  <2>3. PICK g \in [1..Len(entries) -> Parsed] : Ordered(g)  BY <2>1 DEF OrderInv
  <2>4. /\ Live = 1..kept /\ Live' = 1..kept /\ Parsed' = Parsed
        /\ 1..kept \subseteq 1..Len(entries)
    <3>1. i..Len(entries) = {} /\ 1..0 = {} /\ 1..kept \subseteq 1..Len(entries)
      BY <1>0, <2>1
    <3> QED  BY <2>1, <2>2, <3>1 DEF Live, Parsed
  <2>h. PICK h : h = [n \in 1..kept |-> g[n]]  OBVIOUS
  <2>5. h \in [1..kept -> Parsed] /\ \A n \in 1..kept : h[n] = g[n]
    BY <2>3, <2>4, <2>h
  <2>6. Ordered(h)'
    <3>1. \A n \in 1..kept : entries'[n] = input.available[h[n]]
      BY <2>2, <2>3, <2>4, <2>5 DEF Ordered
    <3>2. \A l, m \in 1..kept : l < m => h[l] < h[m]
      BY <2>3, <2>4, <2>5 DEF Ordered
    <3>3. \A m \in Parsed :
            WellFormed(input.available[m]) /\ input.available[m] \notin Range(supported) =>
              \E n \in 1..kept : h[n] = m
      <4>1. \A m \in Parsed :
              WellFormed(input.available[m]) /\ input.available[m] \notin Range(supported) =>
                \E n \in 1..kept : g[n] = m
        BY <2>3, <2>4 DEF Ordered
      <4> QED  BY <2>5, <4>1
    <3> QED  BY <2>1, <2>2, <2>4, <3>1, <3>2, <3>3 DEF Ordered, WellFormed
  <2> QED  BY <2>2, <2>4, <2>5, <2>6 DEF OrderInv
<1>6. CASE ApplyDefault  BY <1>6 DEF ApplyDefault, OrderInv
<1> QED  BY <1>1, <1>2, <1>3, <1>4, <1>5, <1>6 DEF Next

LEMMA NextPassInv ==
  ASSUME IInv, PassInv, Next
  PROVE  PassInv'
<1>0. /\ Len(entries) \in Nat /\ i \in Nat /\ i >= 1 /\ kept \in Nat /\ pass \in 1..6
      /\ entries \in Seq(Ids)
  BY LenProperties DEF IInv, TypeOK
<1>1. CASE \/ ParseAvailable \/ AllParsed \/ SkipMalformed \/ NextRequest
           \/ StopLookup \/ NoMoreRequests \/ ApplyDefault
  BY <1>1 DEF ParseAvailable, AllParsed, SkipMalformed, NextRequest, StopLookup,
              NoMoreRequests, ApplyDefault, EndPass, scan, PassInv
<1>2. CASE StartRequest
  <2>1. /\ pc' = "scan" /\ kept' = 0 /\ pass' = 1 /\ Request' = Request
        /\ WellFormed(Request) /\ locale' = Base(Request) /\ UNCHANGED <<input, r>>
    BY <1>2 DEF StartRequest, scan, IInv, PhaseInv, Base, Request
  <2>2. 1..0 = {} /\ 1..1 - 1 = {}  OBVIOUS
  <2>3. WellFormed(Request)' /\ locale' = LocaleIn(Request, pass)'
    <3>1. WellFormed(Request)'  BY <2>1 DEF WellFormed, Request
    <3>2. LocaleIn(Request, pass)' = LocaleIn(Request, 1)  BY <2>1 DEF LocaleIn, Request
    <3>3. LocaleIn(Request, 1) = Base(Request)  BY DEF LocaleIn
    <3> QED  BY <2>1, <3>1, <3>2, <3>3
  <2> QED  BY <2>1, <2>2, <2>3 DEF PassInv
<1>3. CASE Take
  <2>1. /\ UNCHANGED <<input, r, pass, locale, pc, entries, kept>> /\ pc = "scan"
        /\ i \in 1..Len(entries) /\ entries[i] \notin Range(supported)
        /\ supported' = Append(supported, entries[i]) /\ matched' = TRUE
    BY <1>0, <1>3 DEF Take, Accepts
  <2>2. Range(supported') = Range(supported) \cup {entries[i]}
    <3>1. entries[i] \in Ids \cup Defaults /\ supported \in Seq(Ids \cup Defaults)
      BY <1>0, <2>1, ElementOfSeq DEF IInv, TypeOK
    <3> HIDE <1>3
    <3> QED  BY <2>1, <3>1, AppendDistinct DEF IInv, NoLocaleTwice
  <2>3. Untaken' \subseteq Untaken  BY <2>1, <2>2 DEF Untaken, Usable
  <2>4. Seeking' => Seeking  BY <2>1 DEF Seeking
  <2> QED  BY <2>1, <2>3, <2>4 DEF PassInv, Request, LocaleIn
<1>4. CASE Keep
  <2>1. /\ UNCHANGED <<input, supported, r, pass, locale, pc, matched>> /\ pc = "scan"
        /\ i \in 1..Len(entries) /\ ~Accepts(entries[i]) /\ kept' = kept + 1
        /\ entries' = [entries EXCEPT ![kept + 1] = entries[i]]
    BY <1>0, <1>4 DEF Keep, KeptAt
  <2>2. {entries'[n] : n \in 1..kept + 1} = {entries[n] : n \in 1..kept} \cup {entries[i]}
    <3>1. kept < i  BY <2>1 DEF IInv, TypeOK
    <3> QED  BY <1>0, <2>1, <3>1, KeepMoves
  <2>3. Untaken' = Untaken  BY <2>1 DEF Untaken, Usable
  <2>4. Seeking /\ entries[i] \in Untaken => ~HitsAt(Request, entries[i], pass)
    <3>1. locale = LocaleIn(Request, pass)  BY <2>1 DEF PassInv
    <3>2. Pred(entries[i]) <=> HitsAt(Request, entries[i], pass)  BY <1>0, <3>1, PredIs
    <3> QED  BY <2>1, <3>2 DEF Accepts, Seeking, Untaken
  <2>5. Seeking' = Seeking /\ Request' = Request  BY <2>1 DEF Seeking, Request
  <2> QED  BY <2>1, <2>2, <2>3, <2>4, <2>5 DEF PassInv, LocaleIn
<1>5. CASE NextPass
  <2>1. /\ UNCHANGED <<input, supported, r, pc>> /\ pc = "scan" /\ i > Len(entries)
        /\ kept' = 0 /\ Seeking /\ pass \in 1..5
        /\ pass' = PassAfter(pass, locale)
        /\ locale' = LocaleFor(PassAfter(pass, locale), locale)
    BY <1>0, <1>5 DEF NextPass, EndPass, FreshKept, GoesOn, Seeking
  <2>2. PICK n \in 1..5 : n = pass  BY <2>1
  <2>3. WellFormed(Request) /\ locale = LocaleIn(Request, n)  BY <2>1, <2>2 DEF PassInv
  <2>4. PICK p \in n + 1..6 : p = PassAfter(n, locale)  BY <2>3, NextLocale
  <2>5. /\ locale' = LocaleIn(Request, p)
        /\ \A m \in n + 1..p - 1 : \A key : HitsAt(Request, key, m) => HitsAt(Request, key, n)
    BY <2>1, <2>2, <2>3, <2>4, NextLocale
  <2>6. Request' = Request /\ Untaken' = Untaken  BY <2>1 DEF Request, Untaken, Usable
  <2>7. \A b \in Untaken, m \in 1..n : ~HitsAt(Request, b, m)
    BY <2>1, <2>2, PassIsComplete
  <2>8. \A b \in Untaken, m \in 1..p - 1 : ~HitsAt(Request, b, m)
    <3>1. \A m \in 1..p - 1 : m \in 1..n \/ m \in n + 1..p - 1  BY <2>2, <2>4
    <3>2. n \in 1..n  BY <2>2
    <3> QED  BY <2>5, <2>7, <3>1, <3>2
  <2>9. 1..0 = {}  OBVIOUS
  <2>10. WellFormed(Request)' /\ locale' = LocaleIn(Request, pass)'
    BY <2>1, <2>2, <2>3, <2>4, <2>5, <2>6 DEF WellFormed, LocaleIn
  <2> QED  BY <2>1, <2>2, <2>4, <2>6, <2>8, <2>9, <2>10 DEF PassInv
<1> QED  BY <1>1, <1>2, <1>3, <1>4, <1>5 DEF Next

(* Nothing moves when the same result is left to serve the same requests. *)
LEMMA SameRanks ==
  ASSUME UNCHANGED <<input, supported>>
  PROVE  /\ Untaken' = Untaken /\ Wanted' = Wanted
         /\ \A q : Exhausted(q)' <=> Exhausted(q)
         /\ \A a, b : Better(a, b)' <=> Better(a, b)
         /\ BestAfter' = BestAfter
<1>1. Untaken' = Untaken  BY DEF Untaken, Usable
<1>2. \A q : Exhausted(q)' <=> Exhausted(q)  BY <1>1, Fixed DEF Exhausted
<1> QED  BY <1>1, <1>2, Fixed

LEMMA ExhaustedNext ==
  ASSUME NEW q \in Nat, Exhausted(q), \A b \in Untaken : ~Serves(q, b)
  PROVE  Exhausted(q + 1)
<1>1. \A k \in 1..q + 1 - 1 : k \in 1..q - 1 \/ k = q  OBVIOUS
<1> QED  BY <1>1 DEF Exhausted

(* What every step that goes on to another request leaves behind. *)
LEMMA RequestEnds ==
  ASSUME IInv, PassInv, Exhausted(r),
         SkipMalformed \/ (NextRequest /\ Seeking)
  PROVE  /\ r \in Nat /\ r' = r + 1 /\ UNCHANGED <<input, supported>> /\ pc' = "request"
         /\ Exhausted(r') /\ ~matched'
<1>1. /\ r \in Nat /\ r' = r + 1 /\ UNCHANGED <<input, supported>> /\ pc' = "request"
      /\ ~matched'
  BY DEF SkipMalformed, NextRequest, EndPass, scan, IInv, TypeOK, PassInv
<1>2. \A b \in Untaken : ~Serves(r, b)
  <2>1. CASE SkipMalformed
    BY <2>1 DEF SkipMalformed, Serves, Request
  <2>2. CASE NextRequest /\ Seeking
    <3>1. pc = "scan" /\ i > Len(entries) /\ ~GoesOn
      BY <2>2 DEF NextRequest, EndPass
    <3> QED  BY <2>2, <3>1, LastPass
  <2> QED  BY <2>1, <2>2
<1> QED  BY <1>1, <1>2, ExhaustedNext

LEMMA NoRequestLeft ==
  ASSUME IInv, NoMoreRequests
  PROVE  r = Len(input.requested) + 1
<1>1. input \in Inputs  BY DEF IInv, TypeOK
<1>2. Len(input.requested) \in Nat  BY <1>1, InputTyped
<1> QED  BY <1>2 DEF NoMoreRequests, IInv, TypeOK

LEMMA TakeChanges ==
  ASSUME IInv, OrderInv, PassInv, Take
  PROVE  /\ UNCHANGED <<input, r, pc>> /\ pc = "scan" /\ matched' = TRUE /\ Seeking
         /\ i <= Len(entries) /\ entries[i] \notin Range(supported) /\ Pred(entries[i])
         /\ entries[i] \in Ids \cup Defaults /\ supported \in Seq(Ids \cup Defaults)
         /\ supported' = Append(supported, entries[i])
         /\ Range(supported') = Range(supported) \cup {entries[i]}
         /\ Untaken' = Untaken \ {entries[i]}
<1>1. /\ UNCHANGED <<input, r, pc>> /\ pc = "scan" /\ matched' = TRUE /\ Seeking
      /\ i <= Len(entries) /\ entries[i] \notin Range(supported) /\ Pred(entries[i])
      /\ supported' = Append(supported, entries[i])
  BY DEF Take, Accepts, Seeking
<1>2. entries[i] \in Ids \cup Defaults /\ supported \in Seq(Ids \cup Defaults)
  <2>1. i \in 1..Len(entries) /\ entries \in Seq(Ids)  BY <1>1 DEF IInv, TypeOK
  <2>2. supported \in Seq(Ids \cup Defaults)  BY DEF IInv, TypeOK
  <2> QED  BY <2>1, <2>2, ElementOfSeq
<1>3. Range(supported') = Range(supported) \cup {entries[i]}
  <2> DEFINE key == entries[i]
  <2>1. key \in Ids \cup Defaults /\ key \notin Range(supported) /\ supported' = Append(supported, key)
    BY <1>1, <1>2
  <2> HIDE DEF key
  <2>2. Range(supported') = Range(supported) \cup {key}
    BY <1>2, <2>1, AppendDistinct DEF IInv, NoLocaleTwice
  <2> QED  BY <2>2 DEF key
<1>4. Untaken' = Untaken \ {entries[i]}  BY <1>1, <1>3 DEF Untaken, Usable
<1> QED  BY <1>1, <1>2, <1>3, <1>4

LEMMA NextFilter ==
  ASSUME IInv, OrderInv, PassInv, FilterInv, Next
  PROVE  FilterInv'
<1> SUFFICES ASSUME input'.strategy = "filtering", pc' # "done" PROVE FilterInv'
  BY DEF FilterInv
<1>0. /\ input' = input /\ pc # "done" /\ input.strategy = "filtering" /\ Seeking
      /\ r \in Nat /\ supported \in Seq(Ids \cup Defaults) /\ ~ApplyDefault
  BY DEF Next, ParseAvailable, AllParsed, SkipMalformed, StartRequest, Take, Keep, NextPass,
         NextRequest, StopLookup, EndPass, NoMoreRequests, ApplyDefault, Seeking, IInv, TypeOK
<1>1. /\ Exhausted(r)
      /\ Range(supported) \subseteq Wanted
      /\ \A m, n \in DOMAIN supported : m < n => Better(supported[m], supported[n])
      /\ \A s \in Range(supported), b \in Untaken : b \in Wanted => Better(s, b)
  BY <1>0 DEF FilterInv
<1>2. CASE Take
  <2> DEFINE key == entries[i]
  <2>1. /\ UNCHANGED <<input, r, pc>> /\ pc = "scan"
        /\ key \in Ids \cup Defaults /\ supported' = Append(supported, key)
        /\ Range(supported') = Range(supported) \cup {key}
        /\ Untaken' = Untaken \ {key}
    BY <1>2, TakeChanges
  <2>2. /\ key \in Untaken /\ key \in Wanted
        /\ \A b \in Untaken \ {key} : b \in Wanted => Better(key, b)
    BY <1>1, <1>2, TakeChanges, TakenRanks
  <2> HIDE DEF key
  <2>3. /\ DOMAIN supported = 1..Len(supported) /\ Len(supported) \in Nat
        /\ DOMAIN supported' = 1..Len(supported) + 1
        /\ \A n \in 1..Len(supported) : supported'[n] = supported[n]
        /\ supported'[Len(supported) + 1] = key
    BY <1>0, <2>1, AppendProperties, LenProperties
  <2>4. Exhausted(r)'  BY <1>1, <2>1, Fixed DEF Exhausted
  <2>5. Range(supported') \subseteq Wanted'  BY <1>1, <2>1, <2>2, Fixed
  <2>6. \A m, n \in DOMAIN supported' : m < n => Better(supported'[m], supported'[n])
    <3> SUFFICES ASSUME NEW m \in 1..Len(supported) + 1, NEW n \in 1..Len(supported) + 1, m < n
                 PROVE  Better(supported'[m], supported'[n])
      BY <2>3
    <3>1. m \in 1..Len(supported)  BY <2>3
    <3>2. CASE n \in 1..Len(supported)  BY <1>1, <2>3, <3>1, <3>2
    <3>3. CASE n = Len(supported) + 1
      <4>1. supported[m] \in Range(supported)  BY <2>3, <3>1 DEF Range
      <4> QED  BY <1>1, <2>2, <2>3, <3>1, <3>3, <4>1
    <3> QED  BY <2>3, <3>2, <3>3
  <2>7. \A s \in Range(supported'), b \in Untaken' : b \in Wanted => Better(s, b)
    BY <1>1, <2>1, <2>2
  <2>8. /\ \A m, n \in DOMAIN supported' : m < n => Better(supported[m], supported[n])'
        /\ \A s \in Range(supported'), b \in Untaken' : b \in Wanted' => Better(s, b)'
    BY <2>1, <2>6, <2>7, Fixed
  <2> QED  BY <1>0, <2>1, <2>4, <2>5, <2>8 DEF FilterInv
<1>3. CASE ~Take
  <2>1. /\ UNCHANGED <<input, supported>>
        /\ Exhausted(r')
        /\ pc' = "default" => r' = Len(input.requested) + 1
    <3>1. CASE SkipMalformed \/ NextRequest
      BY <1>0, <1>1, <3>1, RequestEnds
    <3>2. CASE ParseAvailable \/ AllParsed \/ StartRequest \/ Keep \/ NextPass
      BY <1>1, <3>2 DEF ParseAvailable, AllParsed, StartRequest, Keep, NextPass, EndPass, scan
    <3>3. CASE NoMoreRequests
      <4>1. r = Len(input.requested) + 1
        BY <3>3, NoRequestLeft
      <4> QED  BY <1>1, <3>3, <4>1 DEF NoMoreRequests
    <3>4. ~StopLookup  BY <1>0 DEF StopLookup
    <3> QED  BY <1>0, <1>3, <3>1, <3>2, <3>3, <3>4 DEF Next
  <2>2. Exhausted(r)'
    <3>1. PICK q : q = r'  OBVIOUS
    <3>2. Exhausted(q)'  BY <2>1, <3>1, SameRanks
    <3> QED  BY <3>1, <3>2 DEF Exhausted
  <2>3. /\ Range(supported') \subseteq Wanted'
        /\ \A m, n \in DOMAIN supported' : m < n => Better(supported[m], supported[n])'
        /\ \A s \in Range(supported'), b \in Untaken' : b \in Wanted' => Better(s, b)'
    BY <1>1, <2>1, SameRanks
  <2> QED  BY <2>1, <2>2, <2>3 DEF FilterInv
<1> QED  BY <1>2, <1>3

LEMMA NextLookup ==
  ASSUME IInv, OrderInv, PassInv, LookupInv, Next
  PROVE  LookupInv'
<1> SUFFICES ASSUME input'.strategy = "lookup", pc' # "done" PROVE LookupInv'
  BY DEF LookupInv
<1>0. /\ input' = input /\ pc # "done" /\ input.strategy = "lookup" /\ r \in Nat
      /\ ~ApplyDefault
  BY DEF Next, ParseAvailable, AllParsed, SkipMalformed, StartRequest, Take, Keep, NextPass,
         NextRequest, StopLookup, EndPass, NoMoreRequests, ApplyDefault, IInv, TypeOK
<1>1. CASE supported # << >>
  <2>1. /\ pc \in {"scan", "default"} /\ (pc = "scan" => matched)
        /\ Len(supported) = 1 /\ supported[1] \in Wanted
        /\ \A key \in Wanted \ {supported[1]} : Better(supported[1], key)
    BY <1>0, <1>1 DEF LookupInv
  <2>2. /\ UNCHANGED <<input, supported>> /\ pc' \in {"scan", "default"}
        /\ pc' = "scan" => matched'
    <3>1. ~ParseAvailable /\ ~AllParsed /\ ~SkipMalformed /\ ~StartRequest /\ ~NoMoreRequests
      <4>1. pc # "parse" /\ pc # "request"  BY <2>1
      <4> QED  BY <4>1, Zenon
               DEF ParseAvailable, AllParsed, SkipMalformed, StartRequest, NoMoreRequests
    <3>2. ~Take  BY <1>0, <2>1 DEF Take, Accepts
    <3>3. CASE Keep  BY <2>1, <3>3 DEF Keep
    <3>4. ~NextPass  BY <1>0, <2>1 DEF NextPass, GoesOn, EndPass
    <3>5. ~NextRequest  BY <1>0, <2>1 DEF NextRequest, EndPass
    <3>6. CASE StopLookup  BY <3>6 DEF StopLookup, EndPass
    <3> QED  BY <1>0, <3>1, <3>2, <3>3, <3>4, <3>5, <3>6 DEF Next
  <2>3. /\ supported'[1] \in Wanted'
        /\ \A key \in Wanted' \ {supported'[1]} : Better(supported[1], key)'
    BY <2>1, <2>2, SameRanks
  <2> QED  BY <1>1, <2>1, <2>2, <2>3 DEF LookupInv
<1>2. CASE supported = << >>
  <2>1. Exhausted(r) /\ (pc = "scan" => ~matched)  BY <1>0, <1>2 DEF LookupInv
  <2>2. ~matched /\ Seeking  BY <2>1 DEF PassInv, Seeking
  <2>3. CASE Take
    <3> DEFINE key == entries[i]
    <3>1. /\ UNCHANGED <<input, r, pc>> /\ pc = "scan" /\ matched' = TRUE
          /\ key \in Ids \cup Defaults /\ supported' = Append(supported, key)
      BY <2>3, TakeChanges
    <3>2. /\ key \in Wanted
          /\ \A b \in Untaken \ {key} : b \in Wanted => Better(key, b)
      BY <2>1, <2>3, TakeChanges, TakenRanks
    <3> HIDE DEF key
    <3>3. Untaken = Usable
      <4>1. Range(supported) = {}  BY <1>2 DEF Range
      <4> QED  BY <4>1 DEF Untaken
    <3>4. supported' = <<key>>  BY <1>2, <3>1
    <3>5. Len(supported') = 1 /\ supported'[1] = key /\ supported' # << >>  BY <3>4
    <3>6. \A b \in Wanted \ {key} : Better(key, b)  BY <3>2, <3>3 DEF Wanted
    <3>7. /\ supported'[1] \in Wanted'
          /\ \A b \in Wanted' \ {supported'[1]} : Better(supported'[1], b)
      BY <3>1, <3>2, <3>5, <3>6, Fixed
    <3>8. \A b \in Wanted' \ {supported'[1]} : Better(supported[1], b)'
      BY <3>1, <3>7, Fixed
    <3> QED  BY <3>1, <3>5, <3>7, <3>8 DEF LookupInv
  <2>4. CASE ~Take
    <3>1. /\ UNCHANGED supported /\ Exhausted(r') /\ (pc' = "scan" => ~matched')
          /\ pc' = "default" => r' = Len(input.requested) + 1
      <4>1. CASE SkipMalformed \/ NextRequest
        BY <2>1, <2>2, <4>1, RequestEnds
      <4>2. CASE ParseAvailable \/ AllParsed \/ StartRequest \/ Keep \/ NextPass
        BY <2>1, <2>2, <4>2
        DEF ParseAvailable, AllParsed, StartRequest, Keep, NextPass, EndPass, scan
      <4>3. CASE NoMoreRequests
        BY <2>1, <4>3, NoRequestLeft DEF NoMoreRequests
      <4>4. ~StopLookup  BY <2>2 DEF StopLookup
      <4> QED  BY <1>0, <2>4, <4>1, <4>2, <4>3, <4>4 DEF Next
    <3>2. Exhausted(r)'
      <4>1. PICK q : q = r'  OBVIOUS
      <4>2. Exhausted(q)'  BY <1>0, <3>1, <4>1, SameRanks
      <4> QED  BY <4>1, <4>2 DEF Exhausted
    <3> QED  BY <1>0, <1>2, <3>1, <3>2 DEF LookupInv
  <2> QED  BY <2>3, <2>4
<1> QED  BY <1>1, <1>2

(* No two keys are each better than the other. *)
LEMMA BestIsOne ==
  ASSUME input \in Inputs, NEW q, NEW a \in Usable, NEW b \in Usable,
         Serves(q, a), Serves(q, b), BetterFor(q, a, b), BetterFor(q, b, a)
  PROVE  FALSE
<1>1. ASSUME NEW c \in Usable PROVE Place(c) \in Nat
  <2>1. DOMAIN input.available = 1..Len(input.available)
    BY InputTyped, LenProperties
  <2>2. PICK n \in 1..Len(input.available) : input.available[n] = c
    BY <2>1 DEF Usable, Range
  <2>3. Place(input.available[n]) \in 1..Len(input.available)  BY PlaceIs
  <2> QED  BY <2>2, <2>3
<1>2. Place(a) \in Nat /\ Place(b) \in Nat  BY <1>1
<1>3. ASSUME NEW c, Serves(q, c) PROVE PassOf(q, c) \in Nat
  <2>1. 1 \in 1..6 /\ 1..1 - 1 = {}  OBVIOUS
  <2>2. PassOf(q, c) \in 1..6  BY <1>3, <2>1, PassIs
  <2> QED  BY <2>2
<1>4. PassOf(q, a) \in Nat /\ PassOf(q, b) \in Nat  BY <1>3
<1> QED  BY <1>2, <1>4 DEF BetterFor

LEMMA MatchedTyped ==
  ASSUME IInv, Next
  PROVE  matched \in BOOLEAN /\ matched' \in BOOLEAN
<1>1. IInv'  BY NextIInv
<1> QED  BY <1>1 DEF IInv, TypeOK

LEMMA NextMatch ==
  ASSUME IInv, OrderInv, PassInv, MatchInv, Next
  PROVE  MatchInv'
<1> SUFFICES ASSUME input'.strategy = "matching", pc' # "done" PROVE MatchInv'
  BY DEF MatchInv
<1>0. /\ input' = input /\ pc # "done" /\ input.strategy = "matching" /\ ~ApplyDefault
      /\ input \in Inputs /\ (Seeking <=> ~matched)
  BY DEF Next, ParseAvailable, AllParsed, SkipMalformed, StartRequest, Take, Keep, NextPass,
         NextRequest, StopLookup, EndPass, NoMoreRequests, ApplyDefault, IInv, TypeOK, Seeking
<1>1. /\ Len(input.requested) \in Nat /\ r \in 1..Len(input.requested) + 1
      /\ pc # "scan" => ~matched
      /\ pc = "scan" => r <= Len(input.requested) /\ WellFormed(Request)
      /\ supported = BestAfter[IF matched THEN r ELSE r - 1]
  BY <1>0, InputTyped DEF IInv, TypeOK, PhaseInv, PassInv, MatchInv
<1>2. /\ BestAfter' = BestAfter
      /\ \A q \in 1..Len(input.requested) :
           BestAfter[q] = IF WellFormed(input.requested[q])
                            THEN BestLeft(q, BestAfter[q - 1]) ELSE BestAfter[q - 1]
  BY <1>0, <1>1, Fixed, BestAfterIs
<1>3. CASE Take
  <2> DEFINE key == entries[i]
             left == {k \in Untaken : Serves(r, k)}
  <2>1. /\ UNCHANGED <<input, r, pc>> /\ pc = "scan" /\ matched' = TRUE /\ Seeking
        /\ supported' = Append(supported, key)
    BY <1>3, TakeChanges
  <2>2. /\ key \in Untaken /\ Serves(r, key)
        /\ \A b \in Untaken \ {key} : Serves(r, b) => BetterFor(r, key, b)
    BY <1>3, TakeChanges, TakenIsBest
  <2> HIDE DEF key
  <2>3. key \in left /\ \A b \in left \ {key} : BetterFor(r, key, b)  BY <2>2
  <2>4. ASSUME NEW a \in left, a # key PROVE ~BetterFor(r, a, key)
    <3>1. BetterFor(r, key, a)  BY <2>3, <2>4
    <3>2. a \in Usable /\ key \in Usable  BY <2>2, <2>4 DEF Untaken
    <3> QED  BY <1>0, <2>2, <2>4, <3>1, <3>2, BestIsOne
  <2>5. left = {k \in Usable \ Range(supported) : Serves(r, k)}  BY DEF Untaken
  <2> HIDE DEF left
  <2>6. (CHOOSE a \in left : \A b \in left \ {a} : BetterFor(r, a, b)) = key
    BY <2>3, <2>4
  <2>7. BestLeft(r, supported) = Append(supported, key)
    BY <2>3, <2>5, <2>6 DEF BestLeft
  <2>8. supported' = BestAfter[r]
    <3>1. ~matched /\ r \in 1..Len(input.requested) /\ WellFormed(input.requested[r])
      BY <1>0, <1>1, <2>1 DEF Request
    <3>2. supported = BestAfter[r - 1]  BY <1>1, <3>1
    <3>3. BestAfter[r] = BestLeft(r, BestAfter[r - 1])  BY <1>2, <3>1
    <3> QED  BY <2>1, <2>7, <3>2, <3>3
  <2> QED  BY <1>2, <2>1, <2>8 DEF MatchInv
<1>4. CASE SkipMalformed \/ NextRequest
  <2>1. UNCHANGED supported /\ r' = r + 1 /\ pc' = "request" /\ ~matched'
    BY <1>1, <1>4 DEF SkipMalformed, NextRequest, EndPass, scan
  <2>2. supported = BestAfter[r]
    <3>1. CASE SkipMalformed
      BY <1>1, <1>2, <3>1 DEF SkipMalformed, Request
    <3>2. CASE NextRequest /\ matched  BY <1>1, <3>2
    <3>3. CASE NextRequest /\ ~matched
      <4>1. pc = "scan" /\ i > Len(entries) /\ ~GoesOn  BY <3>3 DEF NextRequest, EndPass
      <4>2. \A b \in Untaken : ~Serves(r, b)  BY <1>0, <3>3, <4>1, LastPass
      <4>3. BestLeft(r, supported) = supported  BY <4>2 DEF BestLeft, Untaken
      <4> QED  BY <1>1, <1>2, <3>3, <4>1, <4>3 DEF Request
    <3> QED  BY <1>4, <3>1, <3>2, <3>3
  <2>3. r' - 1 = r  BY <1>1, <2>1
  <2> QED  BY <1>2, <2>1, <2>2, <2>3 DEF MatchInv
<1>5. CASE ParseAvailable \/ AllParsed \/ StartRequest \/ Keep \/ NextPass
  <2>1. /\ UNCHANGED <<supported, r>> /\ matched' = matched /\ pc' # "default"
        /\ pc' # "scan" => ~matched'
    <3>1. CASE ParseAvailable \/ AllParsed \/ StartRequest
      BY <1>1, <3>1 DEF ParseAvailable, AllParsed, StartRequest, scan
    <3>2. CASE Keep  BY <1>1, <3>2 DEF Keep
    <3>3. CASE NextPass
      <4>1. ~matched /\ ~matched' /\ pc = "scan"
        BY <1>0, <1>1, <3>3, MatchedTyped DEF NextPass, GoesOn, EndPass
      <4> QED  BY <1>1, <3>3, <4>1, MatchedTyped DEF NextPass, EndPass
    <3> QED  BY <1>5, <3>1, <3>2, <3>3
  <2> QED  BY <1>1, <1>2, <2>1 DEF MatchInv
<1>6. CASE NoMoreRequests
  <2>1. UNCHANGED <<supported, r>> /\ pc = "request" /\ pc' = "default"
    BY <1>6 DEF NoMoreRequests, scan
  <2>2. r = Len(input.requested) + 1  BY <1>6, NoRequestLeft
  <2> QED  BY <1>0, <1>1, <1>2, <2>1, <2>2 DEF MatchInv
<1>7. ~StopLookup  BY <1>0 DEF StopLookup
<1> QED  BY <1>0, <1>3, <1>4, <1>5, <1>6, <1>7 DEF Next

LEMMA InitRank == Init => RankInv
<1> SUFFICES ASSUME Init PROVE RankInv  OBVIOUS
<1>1. /\ input \in Inputs /\ Len(input.requested) \in Nat /\ Len(input.available) \in Nat
      /\ pc = "parse" /\ i = 1 /\ r = 1 /\ ~matched /\ supported = << >> /\ entries = << >>
  BY InputTyped DEF Init
<1>2. 1..1 - 1 = {} /\ Len(entries) = 0 /\ 1..0 = {} /\ DOMAIN supported = {}
  BY <1>1
<1>3. Exhausted(r) /\ Range(supported) = {}
  BY <1>1, <1>2 DEF Exhausted, Range
<1>4. OrderInv
  <2>1. Parsed = {} /\ Live = {}  BY <1>1, <1>2 DEF Parsed, Live
  <2>2. PICK g : g = [x \in {} |-> x]  OBVIOUS
  <2>3. Ordered(g)  BY <1>2, <2>1 DEF Ordered
  <2> QED  BY <1>2, <2>1, <2>2, <2>3 DEF OrderInv
<1>5. PassInv  BY <1>1 DEF PassInv
<1>6. FilterInv  BY <1>1, <1>2, <1>3 DEF FilterInv
<1>7. MatchInv
  <2>1. BestAfter[0] = << >>  BY <1>1, BestAfterIs
  <2> QED  BY <1>1, <2>1 DEF MatchInv
<1>8. LookupInv  BY <1>1, <1>3 DEF LookupInv
<1> QED  BY <1>4, <1>5, <1>6, <1>7, <1>8 DEF RankInv

LEMMA NextRank ==
  ASSUME IInv, RankInv, [Next]_vars
  PROVE  RankInv'
<1>1. CASE Next
  BY <1>1, NextOrder, NextPassInv, NextFilter, NextMatch, NextLookup DEF RankInv
<1>2. CASE UNCHANGED vars
  <2>1. UNCHANGED <<input, supported, entries, kept, i, matched, r, locale, pass, pc, failed>>
    BY <1>2 DEF vars, scan
  <2>2. /\ Untaken' = Untaken /\ Wanted' = Wanted /\ BestAfter' = BestAfter
        /\ \A q : Exhausted(q)' <=> Exhausted(q)
        /\ \A a, b : Better(a, b)' <=> Better(a, b)
    BY <2>1, SameRanks
  <2>3. OrderInv'
    <3> SUFFICES ASSUME pc # "done" PROVE OrderInv'  BY <2>1 DEF OrderInv
    <3>1. PICK g \in [1..Len(entries) -> Parsed] : Ordered(g)  BY DEF RankInv, OrderInv
    <3>2. Live' = Live /\ Parsed' = Parsed  BY <2>1 DEF Live, Parsed
    <3>3. Ordered(g)'  BY <2>1, <3>1, <3>2 DEF Ordered, WellFormed
    <3> QED  BY <2>1, <3>1, <3>2, <3>3 DEF OrderInv
  <2>4. PassInv'
    BY <2>1, <2>2 DEF RankInv, PassInv, Seeking, Request, LocaleIn, WellFormed
  <2>5. Exhausted(r)' <=> Exhausted(r)  BY <2>1, <2>2 DEF Exhausted, Serves
  <2>6. FilterInv'  BY <2>1, <2>2, <2>5 DEF RankInv, FilterInv
  <2>7. MatchInv'  BY <2>1, <2>2 DEF RankInv, MatchInv
  <2>8. LookupInv'  BY <2>1, <2>2, <2>5 DEF RankInv, LookupInv
  <2> QED  BY <2>3, <2>4, <2>6, <2>7, <2>8 DEF RankInv
<1> QED  BY <1>1, <1>2

(* The order of the working set, what the passes have ruled out, and what  *)
(* each strategy has taken are known at every step of every call.          *)
THEOREM NegotiationRanks == Spec => [](IInv /\ RankInv)
<1>1. Init => IInv /\ RankInv  BY InitIInv, InitRank
<1>2. IInv /\ RankInv /\ [Next]_vars => (IInv /\ RankInv)'  BY NextIInv, NextRank
<1> QED  BY <1>1, <1>2, PTL DEF Spec

(* Filtering returns every locale some request matches, and no other, in   *)
(* the order of the requests, of the passes and of the available locales.  *)
THEOREM FilteringRanks == Spec => []FilteringIsRanked
<1>1. IInv /\ RankInv => FilteringIsRanked
  <2> SUFFICES ASSUME IInv, RankInv, Negotiated, input.strategy = "filtering"
               PROVE  FilteringIsRanked
    BY DEF FilteringIsRanked
  <2>1. FilterInv /\ pc = "default"  BY DEF RankInv, Negotiated
  <2>2. Exhausted(Len(input.requested) + 1)  BY <2>1 DEF FilterInv
  <2>3. \A b \in Untaken : b \notin Wanted
    <3>1. DOMAIN input.requested = 1..Len(input.requested) /\ Len(input.requested) \in Nat
      BY InputTyped, LenProperties DEF IInv, TypeOK
    <3>2. 1..Len(input.requested) + 1 - 1 = 1..Len(input.requested)  BY <3>1
    <3> QED  BY <2>2, <3>1, <3>2 DEF Exhausted, Wanted
  <2>4. Range(supported) = Wanted
    BY <2>1, <2>3 DEF FilterInv, Untaken, Wanted
  <2> QED  BY <2>1, <2>4 DEF FilterInv, FilteringIsRanked
<1> QED  BY <1>1, NegotiationRanks, PTL

(* Matching serves the requests one after the other, each with the best    *)
(* locale left, whatever passes are run or left out on the way.            *)
THEOREM MatchingGreedy == Spec => []MatchingIsGreedy
<1>1. IInv /\ RankInv => MatchingIsGreedy
  <2> SUFFICES ASSUME IInv, RankInv, Negotiated, input.strategy = "matching"
               PROVE  MatchingIsGreedy
    BY DEF MatchingIsGreedy
  <2>1. supported = BestAfter[r - 1] /\ r = Len(input.requested) + 1
    BY DEF RankInv, MatchInv, Negotiated
  <2>2. Len(input.requested) \in Nat  BY InputTyped DEF IInv, TypeOK
  <2> QED  BY <2>1, <2>2 DEF MatchingIsGreedy
<1> QED  BY <1>1, NegotiationRanks, PTL

(* Lookup stops at the locale that ranks before all others, or finds that  *)
(* no request matches anything.                                            *)
THEOREM LookupFirst == Spec => []LookupIsFirst
<1>1. IInv /\ RankInv => LookupIsFirst
  <2> SUFFICES ASSUME IInv, RankInv, Negotiated, input.strategy = "lookup"
               PROVE  LookupIsFirst
    BY DEF LookupIsFirst
  <2>1. LookupInv /\ pc = "default"  BY DEF RankInv, Negotiated
  <2>2. CASE supported # << >>
    BY <2>1, <2>2 DEF LookupInv, LookupIsFirst
  <2>3. CASE supported = << >>
    <3>1. Exhausted(Len(input.requested) + 1)  BY <2>1, <2>3 DEF LookupInv
    <3>2. DOMAIN input.requested = 1..Len(input.requested) /\ Len(input.requested) \in Nat
      BY InputTyped, LenProperties DEF IInv, TypeOK
    <3>3. 1..Len(input.requested) + 1 - 1 = 1..Len(input.requested)  BY <3>2
    <3>4. Range(supported) = {}  BY <2>3 DEF Range
    <3>5. Wanted = {}  BY <3>1, <3>2, <3>3, <3>4 DEF Exhausted, Wanted, Untaken
    <3> QED  BY <2>3, <3>5 DEF LookupIsFirst
  <2> QED  BY <2>2, <2>3
<1> QED  BY <1>1, NegotiationRanks, PTL
=============================================================================
