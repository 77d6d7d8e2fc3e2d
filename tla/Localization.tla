----------------------------- MODULE Localization -----------------------------
(***************************************************************************)
(* The chain of bundles (localization): NewFromLocales loads resources     *)
(* into one bundle per negotiated locale, some of which fail; afterwards   *)
(* FormatValue and FormatMessage search the chain in order, while other    *)
(* goroutines add resources to its bundles.  A bundle is the atomic store  *)
(* of BundleStore; what a pattern resolves to is the business of Resolver, *)
(* here it either has problems or not.                                     *)
(***************************************************************************)
EXTENDS Entries, Functions

CONSTANTS
  Locales,
  Negotiations,   \* what NegotiateLanguages may answer: Seq(Locales) or Refused
  Refused,
  ResIds,         \* Config.Resources: a sequence of resource ids
  Loads,          \* what Config.Loader may answer: resources or LoadError
  LoadError,
  Ids,            \* message names, dots excluded
  Defs,           \* parsed messages: [value, attrs]
  NoPattern,      \* the nil Pattern
  AttrNames,      \* attribute names: a sequence in sorted order
  Resources,      \* what other goroutines add later
  Overriding      \* whether they add with AddResourceOverriding

ASSUME LocalizationAssumption ==
  /\ Refused \notin Seq(Locales)
  /\ Negotiations \subseteq Seq(Locales) \cup {Refused}
  /\ Absent \notin Defs
  /\ Len(ResIds) \in Nat /\ DOMAIN ResIds = 1..Len(ResIds)
  /\ Len(AttrNames) \in Nat /\ DOMAIN AttrNames = 1..Len(AttrNames)
  /\ \A res \in Resources \cup (Loads \ {LoadError}) :
       res \in Seq([kind : Kinds, id : Ids, def : Defs])

VARIABLES
  source,      \* what Loader answers for each locale and resource id
  supported,   \* the negotiated locales
  chain,       \* Localization.bundles
  res,         \* NewFromLocales: the next resource of the bundle it is at
  bundle,      \* NewFromLocales: that bundle
  errs,        \* NewFromLocales: errs, as <<locale, resource>> positions
  call,        \* [op, id, attr]: FormatValue("id.attr"), or FormatMessage(id)
  k,           \* the bundle of the chain the search is at
  msg,         \* the message it found
  texts,       \* the parts formatted so far, as [attr, pattern]
  problems,    \* whether FormatPattern reported any
  always,      \* history: the bundles that had what the call asks for, at every
               \* moment since it began
  pc
building == <<source, supported, res, bundle, errs>>
calling  == <<call, k, msg, texts, problems, always>>
vars == <<building, calling, chain, pc>>

Calls ==
  [op : {"value"}, id : Ids, attr : {""} \cup Range(AttrNames)]
    \cup [op : {"message"}, id : Ids, attr : {""}]

Empty == [kind \in Kinds |-> [id \in Ids |-> Absent]]

Init ==
  /\ source \in [Locales -> [DOMAIN ResIds -> Loads]]
  /\ supported = << >>
  /\ chain = << >>
  /\ res = 1
  /\ bundle = Empty
  /\ errs = << >>
  /\ call \in Calls
  /\ k = 1
  /\ msg = Absent
  /\ texts = << >>
  /\ problems = FALSE
  /\ always = {}
  /\ pc = "new"

(***************************************************************************)
(* NewFromLocales                                                          *)
(***************************************************************************)
(* A negotiation error is fatal: there is no Localization to use. *)
Negotiate ==
  /\ pc = "new"
  /\ \E answer \in Negotiations :
       IF answer = Refused
         THEN UNCHANGED <<supported, pc>>
         ELSE supported' = answer /\ pc' = "build"
  /\ UNCHANGED <<source, res, bundle, errs, calling, chain>>

AtLocale == pc = "build" /\ Len(chain) < Len(supported)
Locale == supported[Len(chain) + 1]
AtResource == AtLocale /\ res <= Len(ResIds)
FinishedPosition == <<Len(chain), res>>         \* fault: off by one
Position == <<Len(chain) + 1, res>>

GiveUpBundle == Len(ResIds) + 1                 \* fault: break, not continue
AfterLoadError == res + 1

LoadFails ==
  /\ AtResource
  /\ source[Locale][res] = LoadError
  /\ errs' = Append(errs, Position)
  /\ res' = AfterLoadError
  /\ UNCHANGED <<source, supported, bundle, calling, chain, pc>>

LoadAndAdd ==
  /\ AtResource
  /\ source[Locale][res] # LoadError
  /\ bundle' = Applied(bundle, source[Locale][res], 1, FALSE)
  /\ errs' = IF Rejected(bundle, source[Locale][res], 1, FALSE) = {} THEN errs
             ELSE Append(errs, Position)
  /\ res' = res + 1
  /\ UNCHANGED <<source, supported, calling, chain, pc>>

NextLocale ==
  /\ AtLocale
  /\ res > Len(ResIds)
  /\ chain' = Append(chain, bundle)
  /\ bundle' = Empty
  /\ res' = 1
  /\ UNCHANGED <<source, supported, errs, calling, pc>>

Built ==
  /\ pc = "build"
  /\ Len(chain) = Len(supported)
  /\ pc' = "idle"
  /\ UNCHANGED <<building, calling, chain>>

(***************************************************************************)
(* FormatValue, FormatMessage                                              *)
(***************************************************************************)
Pattern(def, attr) == IF attr = "" THEN def.value ELSE def.attrs[attr]
Has(def, attr) == IF attr = "" THEN def.value # NoPattern ELSE attr \in DOMAIN def.attrs

(* The bundles that have what a call asks for. *)
Having(bundles, asked) ==
  {j \in DOMAIN bundles :
     LET def == bundles[j]["message"][asked.id] IN
     def # Absent /\ (asked.op = "value" => Has(def, asked.attr))}

Begin ==
  /\ pc = "idle"
  /\ call' \in Calls
  /\ k' = 1
  /\ msg' = Absent
  /\ texts' = << >>
  /\ problems' = FALSE
  /\ always' = Having(chain, call')
  /\ pc' = "search"
  /\ UNCHANGED <<building, chain>>

Found == chain[k]["message"][call.id]

HitsNoValue ==                                  \* fault: no test for a nil value
  Found # Absent /\ (call.op = "value" /\ call.attr # "" => Has(Found, call.attr))
Hits == Found # Absent /\ (call.op = "value" => Has(Found, call.attr))

TryNext ==
  /\ pc = "search"
  /\ k <= Len(chain)
  /\ ~Hits
  /\ k' = k + 1
  /\ UNCHANGED <<building, call, msg, texts, problems, always, chain, pc>>

Hit ==
  /\ pc = "search"
  /\ k <= Len(chain)
  /\ Hits
  /\ msg' = Found
  /\ pc' = "format"
  /\ UNCHANGED <<building, call, k, texts, problems, always, chain>>

(* NotFoundError, with the id as the text. *)
Miss ==
  /\ pc = "search"
  /\ k > Len(chain)
  /\ pc' = "done"
  /\ UNCHANGED <<building, calling, chain>>

(* The parts to format: the one asked for, or the value if there is one    *)
(* and then the attributes by name.                                        *)
Parts(asked, def) ==
  IF asked.op = "value" THEN <<asked.attr>>
  ELSE LET With(some, attr) == IF Has(def, attr) THEN Append(some, attr) ELSE some
           upTo[n \in 0..Len(AttrNames)] ==
             IF n = 0 THEN With(<< >>, "") ELSE With(upTo[n - 1], AttrNames[n])
       IN  upTo[Len(AttrNames)]

LookedUpAgain ==                                \* fault: FormatMessage looks up again
  IF call.op = "message" THEN chain[k]["message"][call.id] ELSE msg
Message == msg

FormatPart ==
  /\ pc = "format"
  /\ Len(texts) < Len(Parts(call, Message))
  /\ LET attr == Parts(call, Message)[Len(texts) + 1] IN
       texts' = Append(texts, [attr |-> attr, pattern |-> Pattern(Message, attr)])
  /\ problems' \in {problems, TRUE}
  /\ UNCHANGED <<building, call, k, msg, always, chain, pc>>

Formatted ==
  /\ pc = "format"
  /\ Len(texts) = Len(Parts(call, Message))
  /\ pc' = "done"
  /\ UNCHANGED <<building, calling, chain>>

Return ==
  /\ pc = "done"
  /\ pc' = "idle"
  /\ UNCHANGED <<building, calling, chain>>

(* Another goroutine adds to a bundle it got from Bundles(). *)
AddResource ==
  /\ pc \notin {"new", "build"}
  /\ \E j \in DOMAIN chain, added \in Resources, override \in Overriding :
       chain' = [chain EXCEPT ![j] = Applied(@, added, 1, override)]
  /\ always' = always \cap Having(chain', call)
  /\ UNCHANGED <<building, call, k, msg, texts, problems, pc>>

Next ==
  \/ Negotiate \/ LoadFails \/ LoadAndAdd \/ NextLocale \/ Built
  \/ Begin \/ TryNext \/ Hit \/ Miss \/ FormatPart \/ Formatted \/ Return
  \/ AddResource

Spec == Init /\ [][Next]_vars

-----------------------------------------------------------------------------
Bundles == [Kinds -> [Ids -> Defs \cup {Absent}]]

Patterns == {def.value : def \in Defs} \cup UNION {Range(def.attrs) : def \in Defs}

TypeOK ==
  /\ source \in [Locales -> [DOMAIN ResIds -> Loads]]
  /\ supported \in Seq(Locales)
  /\ chain \in Seq(Bundles)
  /\ Len(chain) <= Len(supported)
  /\ res \in 1..Len(ResIds) + 1
  /\ bundle \in Bundles
  /\ errs \in Seq((1..Len(supported)) \X (1..Len(ResIds)))
  /\ call \in Calls
  /\ k \in 1..Len(chain) + 1
  /\ msg \in Defs \cup {Absent}
  /\ texts \in Seq([attr : {""} \cup Range(AttrNames), pattern : Patterns])
  /\ problems \in BOOLEAN
  /\ always \subseteq DOMAIN chain
  /\ pc \in {"new", "build", "idle", "search", "format", "done"}

(* The bundle of one locale after each of its resources, were they added    *)
(* with AddResource one after the other and the failing ones left out.     *)
Loaded(locale) ==
  LET after[m \in 0..Len(ResIds)] ==
        IF m = 0 THEN Empty
        ELSE IF source[locale][m] = LoadError THEN after[m - 1]
        ELSE Applied(after[m - 1], source[locale][m], 1, FALSE)
  IN  after

Failed(locale, n) ==
  \/ source[locale][n] = LoadError
  \/ Rejected(Loaded(locale)[n - 1], source[locale][n], 1, FALSE) # {}

(* A failing resource is skipped and nothing else: the chain has a bundle  *)
(* for each negotiated locale in order, with all the resources that could  *)
(* be loaded, and the errors are those of exactly the failing ones.        *)
ChainAsLoaded ==
  pc = "build" =>
    /\ \A n \in DOMAIN chain : chain[n] = Loaded(supported[n])[Len(ResIds)]
    /\ {errs[n] : n \in DOMAIN errs} =
         {at \in (DOMAIN supported) \X (DOMAIN ResIds) :
            /\ at[1] <= Len(chain) \/ (at[1] = Len(chain) + 1 /\ at[2] < res)
            /\ Failed(supported[at[1]], at[2])}

(* The answer is that of the first bundle in the chain that has what was   *)
(* asked, whatever others add and override during the search: a bundle     *)
(* that had it throughout the call is never passed, the definition used    *)
(* has it, and an id is not found only if no bundle had it throughout.     *)
FirstBundleWins ==
  pc = "done" =>
    /\ always \cap 1..k - 1 = {}
    /\ k <= Len(chain) => msg # Absent /\ (call.op = "value" => Has(msg, call.attr))
    /\ k > Len(chain) => msg = Absent

(* FormatMessage returns one definition's value and all of its attributes, *)
(* never parts of two, although the message is overridden in between.      *)
WholeMessage ==
  pc = "done" /\ call.op = "message" /\ k <= Len(chain) =>
    \E def \in Defs :
      /\ Len(texts) = Len(Parts(call, def))
      /\ \A n \in DOMAIN texts :
           LET attr == Parts(call, def)[n] IN
           texts[n] = [attr |-> attr, pattern |-> Pattern(def, attr)]
=============================================================================
