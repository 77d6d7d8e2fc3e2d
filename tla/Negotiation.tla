----------------------------- MODULE Negotiation -----------------------------
(***************************************************************************)
(* Language negotiation (langneg): NegotiateLanguages and filterMatches.   *)
(* For each requested locale, in order, up to six passes scan the          *)
(* available locales that no earlier pass took; each pass widens the       *)
(* match.  A pass filters the working set in place: kept entries are       *)
(* written over the front of the array it is still reading.                *)
(*                                                                         *)
(* A locale id is the record of the fields localeRe finds in it ("" where  *)
(* there is none; no lang: the id is malformed) and how it is written:     *)
(* caps for capitals, sep for its separator.                               *)
(***************************************************************************)
EXTENDS Integers, Sequences, Functions

CONSTANTS Ids,         \* the locale ids that occur
          Inputs,      \* the calls: [requested, available, strategy]
          Defaults,    \* and their defaultLocale
          NoDefault,   \* the empty defaultLocale
          Likely,      \* likelySubtagsMin: locale -> locale
          OwnRegion    \* regionMatchingLangs: language -> its region

Strategies == {"filtering", "matching", "lookup"}

IsLocale(l) == l = [lang |-> l.lang, script |-> l.script,
                    region |-> l.region, variant |-> l.variant]

ASSUME NegotiationAssumption ==
  /\ Inputs \subseteq
       [requested : Seq(Ids), available : Seq(Ids), strategy : Strategies]
  /\ Defaults \subseteq Ids \cup {NoDefault}
  /\ NoDefault \notin Ids
  /\ \A l \in DOMAIN Likely : IsLocale(Likely[l])

VARIABLES input,       \* the call
          supported,   \* the keys taken so far; supportedSet is their set
          entries,     \* availableMap, as runPass finds it and overwrites it
          kept,        \* runPass: length of kept
          i,           \* the entry the parsing or runPass is at
          matched,     \* runPass: matched
          r,           \* the requested locale being served
          locale,      \* requestedLocale, as the passes mutate it
          pass,        \* which pass runs
          pc, failed   \* where the call is; ErrLookupNeedsDefault
scan == <<entries, kept, i, matched>>
vars == <<input, supported, scan, r, locale, pass, pc, failed>>

(***************************************************************************)
(* Locales (locale.go).  Only the script's first letter is normalised, so  *)
(* an id in capitals keeps those of its script and its variant.            *)
(***************************************************************************)
WellFormed(id) == id.lang # ""
LowerCase(id) == [id EXCEPT !.caps = FALSE]

Written(field, caps) == IF caps /\ field # "" THEN "^" \o field ELSE field

NewLocale(id) ==
  [lang |-> id.lang, script |-> Written(id.script, id.caps),
   region |-> id.region, variant |-> Written(id.variant, id.caps)]

FieldMatches(a, b, aRange, bRange) ==
  a = b \/ (aRange /\ a = "") \/ (bRange /\ b = "")

Matches(a, b, aRange, bRange) ==
  \A f \in {"lang", "script", "region", "variant"} :
    FieldMatches(a[f], b[f], aRange, bRange)

Expands(l) == l \in DOMAIN Likely \/ l.lang \in DOMAIN OwnRegion

AddLikelySubtags(l) ==
  IF l \in DOMAIN Likely THEN Likely[l]
  ELSE IF l.lang \in DOMAIN OwnRegion THEN [l EXCEPT !.region = OwnRegion[l.lang]]
  ELSE l

AnyVariant(l) == [l EXCEPT !.variant = ""]
AnyRegion(l)  == [l EXCEPT !.region = ""]

(***************************************************************************)
(* The passes for one requested locale (matches.go).                       *)
(***************************************************************************)
Exact(id, key) == LowerCase(id) = LowerCase(key)
AvailableAsRange(key, l) == Matches(NewLocale(key), l, TRUE, FALSE)
BothAsRanges(key, l)     == Matches(NewLocale(key), l, TRUE, TRUE)

Request == input.requested[r]

Pred(key) ==
  CASE pass = 1           -> Exact(Request, key)
    [] pass \in {2, 3, 5} -> AvailableAsRange(key, locale)
    [] pass \in {4, 6}    -> BothAsRanges(key, locale)

(* Passes 3 and 5 run only when likely subtags are known. *)
PassAfter(n, l) ==
  IF (n = 2 /\ ~Expands(l)) \/ (n = 4 /\ ~Expands(AnyRegion(l))) THEN n + 2 ELSE n + 1

LocaleKeptVariant(n, l) ==                      \* fault: variant not cleared
  CASE n = 3 -> AddLikelySubtags(l)
    [] n = 5 -> AddLikelySubtags(AnyRegion(l))
    [] n = 6 -> AnyRegion(l)
    [] OTHER -> l
LocaleFor(n, l) ==
  CASE n = 3 -> AddLikelySubtags(l)
    [] n = 4 -> AnyVariant(l)
    [] n = 5 -> AddLikelySubtags(AnyRegion(l))
    [] n = 6 -> AnyRegion(l)
    [] OTHER -> l

-----------------------------------------------------------------------------
Init ==
  /\ input \in Inputs
  /\ supported = << >>
  /\ entries = << >>
  /\ kept = 0
  /\ i = 1
  /\ matched = FALSE
  /\ r = 1
  /\ locale = [lang |-> "", script |-> "", region |-> "", variant |-> ""]
  /\ pass = 1
  /\ pc = "parse"
  /\ failed = FALSE

(* Malformed available ids are dropped before the first request. *)
ParseAvailable ==
  /\ pc = "parse"
  /\ i <= Len(input.available)
  /\ entries' = IF WellFormed(input.available[i])
                  THEN Append(entries, input.available[i]) ELSE entries
  /\ i' = i + 1
  /\ UNCHANGED <<input, supported, kept, matched, r, locale, pass, pc, failed>>

AllParsed ==
  /\ pc = "parse"
  /\ i > Len(input.available)
  /\ i' = 1
  /\ pc' = "request"
  /\ UNCHANGED <<input, supported, entries, kept, matched, r, locale, pass, failed>>

SkipMalformed ==
  /\ pc = "request"
  /\ r <= Len(input.requested)
  /\ ~WellFormed(Request)
  /\ r' = r + 1
  /\ UNCHANGED <<input, supported, scan, locale, pass, pc, failed>>

StartRequest ==
  /\ pc = "request"
  /\ r <= Len(input.requested)
  /\ WellFormed(Request)
  /\ locale' = NewLocale(LowerCase(Request))
  /\ pass' = 1
  /\ pc' = "scan"
  /\ UNCHANGED <<input, supported, scan, r, failed>>

HitAgain(key) ==                                \* fault: no look at supportedSet
  (input.strategy = "filtering" \/ ~matched) /\ Pred(key)
EveryHit(key) == key \notin Range(supported) /\ Pred(key)    \* fault: strategy ignored
Accepts(key) ==
  /\ input.strategy = "filtering" \/ ~matched
  /\ key \notin Range(supported)
  /\ Pred(key)

Take ==
  /\ pc = "scan"
  /\ i <= Len(entries)
  /\ Accepts(entries[i])
  /\ supported' = Append(supported, entries[i])
  /\ matched' = TRUE
  /\ i' = i + 1
  /\ UNCHANGED <<input, entries, kept, r, locale, pass, pc, failed>>

KeptInFront(k) == 1                             \* fault: written over the first
KeptAt(k) == k + 1

Keep ==
  /\ pc = "scan"
  /\ i <= Len(entries)
  /\ ~Accepts(entries[i])
  /\ entries' = [entries EXCEPT ![KeptAt(kept)] = entries[i]]
  /\ kept' = kept + 1
  /\ i' = i + 1
  /\ UNCHANGED <<input, supported, matched, r, locale, pass, pc, failed>>

StaleKept == kept                               \* fault: kept not started anew
FreshKept == 0

EndPass ==
  /\ pc = "scan"
  /\ i > Len(entries)
  /\ entries' = SubSeq(entries, 1, kept)
  /\ kept' = FreshKept
  /\ i' = 1
  /\ matched' = FALSE
  /\ UNCHANGED <<input, supported, failed>>

GoesOnAfterHit == pass < 6                      \* fault: Lookup/Matching ignored
GoesOn == pass < 6 /\ (input.strategy = "filtering" \/ ~matched)

NextPass ==
  /\ EndPass
  /\ GoesOn
  /\ pass' = PassAfter(pass, locale)
  /\ locale' = LocaleFor(PassAfter(pass, locale), locale)
  /\ UNCHANGED <<r, pc>>

NextRequest ==
  /\ EndPass
  /\ ~GoesOn
  /\ ~(input.strategy = "lookup" /\ matched)
  /\ r' = r + 1
  /\ pc' = "request"
  /\ UNCHANGED <<locale, pass>>

StopLookup ==
  /\ EndPass
  /\ ~GoesOn
  /\ input.strategy = "lookup" /\ matched
  /\ pc' = "default"
  /\ UNCHANGED <<r, locale, pass>>

NoMoreRequests ==
  /\ pc = "request"
  /\ r > Len(input.requested)
  /\ pc' = "default"
  /\ UNCHANGED <<input, supported, scan, r, locale, pass, failed>>

(* NegotiateLanguages: the default is the last resort. *)
Needs(default) ==
  IF input.strategy = "lookup" THEN supported = << >>
  ELSE default # NoDefault /\ default \notin Range(supported)

ApplyDefault ==
  /\ pc = "default"
  /\ \E default \in Defaults :
       IF input.strategy = "lookup" /\ default = NoDefault
         THEN /\ failed' = TRUE
              /\ supported' = << >>
         ELSE /\ failed' = FALSE
              /\ supported' = IF Needs(default) THEN Append(supported, default)
                              ELSE supported
  /\ pc' = "done"
  /\ UNCHANGED <<input, scan, r, locale, pass>>

Next ==
  \/ ParseAvailable \/ AllParsed \/ SkipMalformed \/ StartRequest
  \/ Take \/ Keep \/ NextPass \/ NextRequest \/ StopLookup
  \/ NoMoreRequests \/ ApplyDefault

Spec == Init /\ [][Next]_vars

-----------------------------------------------------------------------------
(* The passes as one function of the request: the least pass, if any, at   *)
(* which key is a match for the requested id, whatever else is available.  *)
(* This is the order the numbered comments of matches.go describe.         *)
HitsAt(id, key, n) ==
  LET base == NewLocale(LowerCase(id))
      max  == AddLikelySubtags(base)
      re   == AddLikelySubtags(AnyRegion(AnyVariant(max))) IN
  CASE n = 1 -> Exact(id, key)
    [] n = 2 -> AvailableAsRange(key, base)
    [] n = 3 -> AvailableAsRange(key, max)
    [] n = 4 -> BothAsRanges(key, AnyVariant(max))
    [] n = 5 -> AvailableAsRange(key, re)
    [] n = 6 -> BothAsRanges(key, AnyRegion(re))

Usable == {id \in Range(input.available) : WellFormed(id)}

(* Where a key ranks: the first request it matches, the pass, its place.   *)
Least(S) == CHOOSE x \in S : \A y \in S : x <= y
Place(key) == Least({n \in DOMAIN input.available : input.available[n] = key})

Serves(q, key) ==
  WellFormed(input.requested[q]) /\ \E n \in 1..6 : HitsAt(input.requested[q], key, n)
PassOf(q, key) == Least({n \in 1..6 : HitsAt(input.requested[q], key, n)})

BetterFor(q, a, b) ==
  \/ PassOf(q, a) < PassOf(q, b)
  \/ PassOf(q, a) = PassOf(q, b) /\ Place(a) < Place(b)

Wanted == {key \in Usable : \E q \in DOMAIN input.requested : Serves(q, key)}
FirstFor(key) == Least({q \in DOMAIN input.requested : Serves(q, key)})

Better(a, b) ==
  \/ FirstFor(a) < FirstFor(b)
  \/ FirstFor(a) = FirstFor(b) /\ BetterFor(FirstFor(a), a, b)

(* What Matching has after q requests: for each, the best key left.        *)
BestLeft(q, taken) ==
  LET left == {key \in Usable \ Range(taken) : Serves(q, key)} IN
  IF left = {} THEN taken
  ELSE Append(taken, CHOOSE a \in left : \A b \in left \ {a} : BetterFor(q, a, b))

BestAfter ==
  LET best[q \in 0..Len(input.requested)] ==
        IF q = 0 THEN << >>
        ELSE IF WellFormed(input.requested[q]) THEN BestLeft(q, best[q - 1])
        ELSE best[q - 1]
  IN  best

Negotiated == pc = "default"

TypeOK ==
  /\ input \in Inputs
  /\ supported \in Seq(Ids \cup Defaults)
  /\ entries \in Seq(Ids)
  /\ i \in 1..(IF pc = "parse" THEN Len(input.available) ELSE Len(entries)) + 1
  /\ kept \in 0..i - 1
  /\ matched \in BOOLEAN
  /\ r \in 1..Len(input.requested) + 1
  /\ pass \in 1..6
  /\ pc \in {"parse", "request", "scan", "default", "done"}
  /\ failed \in BOOLEAN

(* No locale is returned twice, although the caller may list it twice, the *)
(* same entry is scanned by up to six passes for every request, and the    *)
(* default may be among the matches.                                       *)
NoLocaleTwice == \A m, n \in DOMAIN supported : supported[m] = supported[n] => m = n

(* The in-place filter of runPass loses no entry and invents none: at any  *)
(* moment a well-formed available locale has been taken, or is in the part *)
(* already kept or in the part still to be read.                           *)
NothingLost ==
  pc \in {"request", "scan", "default"} =>
    LET inFront == {entries[n] : n \in 1..kept}
        toCome  == {entries[n] : n \in i..Len(entries)} IN
    /\ Usable = Range(supported) \cup inFront \cup toCome
    /\ pc # "scan" => kept = 0 /\ i = 1

(* Filtering returns exactly the locales that match some request, all      *)
(* those of an earlier request first, the closer match before the wider,   *)
(* the available order between equals (langneg_test.go, "all-first").      *)
FilteringIsRanked ==
  Negotiated /\ input.strategy = "filtering" =>
    /\ Range(supported) = Wanted
    /\ \A m, n \in DOMAIN supported : m < n => Better(supported[m], supported[n])

(* Matching returns for every request in turn the single best locale that  *)
(* no earlier request has taken.                                           *)
MatchingIsGreedy ==
  Negotiated /\ input.strategy = "matching" =>
    supported = BestAfter[Len(input.requested)]

(* Lookup returns the one locale the other strategies put first.           *)
LookupIsFirst ==
  Negotiated /\ input.strategy = "lookup" =>
    IF Wanted = {} THEN supported = << >>
    ELSE /\ Len(supported) = 1
         /\ supported[1] \in Wanted
         /\ \A key \in Wanted \ {supported[1]} : Better(supported[1], key)
=============================================================================
