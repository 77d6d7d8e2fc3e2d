# A TLA+ verification of gofluent

gofluent is a Go port of Project Fluent: it parses translation files (FTL),
keeps the parsed messages of one locale in a `Bundle`, formats them with a
fault-tolerant resolver, negotiates locales and falls back along a chain of
bundles. This directory holds TLA+ models of that code, the TLC configurations
that check them on small instances, and proofs about them for TLAPS.
`PROJECT.json` maps every definition to the lines it models and lists the runs,
the hazards they are aimed at, the findings and the theorems.

Run a check with `tlc -config MCBundle.cfg MCBundle`, a proof with
`tlapm BundleProofs.tla`.

## Inventory

| Component (source) | State it keeps | Operations | What is hard | What makes it correct |
| --- | --- | --- | --- | --- |
| Bundle store (`bundle.go`) | `messages`, `terms`, an RWMutex | `Message`, `lookupTerm`, `AddResource`, `AddResourceOverriding` | many goroutines; a resource is added entry by entry; ids repeated within one resource | race freedom, atomic visibility of a resource, first/last definition wins, exact override errors, no starvation |
| Resolver (`resolver.go`, `scope.go`, `bundle.go` `FormatPattern`) | one `Scope` per call: errors, arguments, dirty set, term parameters, placeable count | resolve a pattern, seven kinds of expression, abort on the limit | the bundle changes between lookups; cycles; nested terms share one `params` field; user code fails or panics | exact cycle detection, bounded expansion and recursion, no parameter leaks, no fallback without an error, isolation marks closed, only faults escape, termination |
| Values, builtins (`value.go`, `builtins.go`, `format.go`) | option bags, a deferred option error | `Format`, `NUMBER`, `DATETIME`, option merging | deferred errors reported once; formatter panics | no option error lost or doubled |
| CLDR adapters (`format_cldr.go`) | none | copy options to `gocldr` | nothing stateful | – |
| Runtime parser (`resource.go`) | cursor, depth | entries with recovery, patterns, placeables, variants, dedentation | recovery must progress; depth bound; indentation at boundaries | agreement with the syntax parser, depth bounded |
| Language negotiation (`langneg/`) | working set of available locales | `NegotiateLanguages`, `AcceptedLanguages` | six passes that share and shrink a set, likely subtags, three strategies | no locale twice, priority order, strategies agree where they must |
| Localization (`localization/`) | ordered chain of bundles | `NewFromLocales`, `FormatValue`, `FormatMessage` | partial load failures; fallback over bundles that change | first bundle that has the message wins, errors and chain agree |
| Syntax parser and stream (`syntax/parser.go`, `stream.go`) | cursor, peek offset, held-back comment | full AST with comments and junk | comment attachment, junk boundaries, CRLF | every entry and comment kept once, an error costs one entry, progress |
| Serializer (`syntax/serializer.go`) | output state | AST to FTL | indentation of multi-line patterns, level by level | parsing the output gives the AST back |
| AST, JSON, visitor (`syntax/ast`, `visitor.go`) | the tree | encode, walk, transform | the children of each type of node are named in two places | transforming reaches what walking reaches |
| Conformance runner (`internal/conformance`) | – | tests | – | – |

How they interact: `NewResource` (runtime parser) produces a `Resource`;
`AddResource` puts its entries into a `Bundle`; `FormatPattern` takes a pattern
the caller got from `Message` and runs the resolver, which calls back into the
bundle (lookups), into builtins and custom functions, and into the injected
formatters. `localization` builds bundles through a loader and searches them in
order; `langneg` gives the order. The `syntax` parser, serializer and visitor are
a separate tool chain over a full AST. Only `Bundle` is shared between
goroutines: the lock is held per map operation, never across a resolution, so
one `FormatPattern` call may see several states of the bundle.

## Modules

| Module | Models | Checked by |
| --- | --- | --- |
| `Entries` | a resource and what adding it promises, as one function of the two maps (`Applied`, `Rejected`) | used by all below |
| `BundleStore` | the abstract bundle: every call takes effect at one instant | as the property `ImplementsStore` |
| `Bundle` | `bundle.go`: maps, `sync.RWMutex`, the steps of lookups and of `addResource` | `MCBundle`, `BundleProofs` |
| `Values` | `value.go`, `matchSelector`, `NUMBER`, `DATETIME` | through `Resolver` |
| `Resolver` | `FormatPattern` and the resolver, beside goroutines that add resources | `MCResolver`, `ResolverProofs` |
| `Negotiation` | `langneg/langneg.go`, `matches.go`, `locale.go`: the passes over the shrinking working set | `MCNegotiation`, `NegotiationProofs` |
| `Localization` | `localization/localization.go`: building the chain, searching it | `MCLocalization`, `LocalizationProofs` |
| `Stream` | `syntax/stream.go`: the source and the cursor's movements over it | through the parsers, `StreamProofs` |
| `SyntaxGrammar` | `syntax/parser.go` below the entry loop: comments, messages, patterns, expressions | through `SyntaxParser` |
| `SyntaxParser` | `Parse` and `ParseEntry`: the entry loop, recovery, the held-back comment | `MCToolchain`, `SyntaxParserProofs` |
| `Serializer` | `syntax/serializer.go` | `MCToolchain` |
| `Visitor` | `syntax/visitor.go`: the slots of each type of node, one call of `Walk` and of `Transform` | `MCToolchain`, `VisitorProofs` |
| `Traversal` | the recursion of `Walk` and `Transform` over a tree | `MCToolchain` |
| `RuntimeParser` | `resource.go`: `NewResource` and everything below it | `MCToolchain` |
| `TwoParses` | `ParseEntry` and then `Parse` on the same source | `MCToolchain`, `SyntaxParserProofs` |
| `Toolchain` | the composition: parse, serialize and parse again, beside the runtime parser | `MCToolchain` |
| `MCBundle`, `MCResolver`, `MCNegotiation`, `MCLocalization`, `MCToolchain` | small instances | |
| `BundleProofs` | type correctness, race freedom, absence of deadlock and the override rule of `Bundle`, and that it implements `BundleStore` | `tlapm` |
| `EntriesProofs` | lemmas about `Applied`, first and last positions, and functions defined by recursion | `tlapm` |
| `ResolverProofs`, `NegotiationProofs`, `LocalizationProofs`, `SyntaxParserProofs` | theorems about these modules | `tlapm` |
| `StreamProofs` | lemmas about the cursor's movements | `tlapm` |
| `VisitorProofs` | what `Transform` leaves of a tree, and lemmas about `FlattenSeq` | `tlapm` |

### Bundle

A goroutine is idle or inside one call; `pc` says where. The two maps are one
function `defs[kind][id]`, since `addResource` treats them alike. The mutex is
external and modelled as Go documents it: `Announce` takes the writers' mutex and
makes later `RLock`s park, `Lock` waits for the readers inside, `Unlock` lets the
parked readers in before another writer. `AddEntry` is one turn of the loop over
`res.entries`: reject (the exists check) or write. Errors are the positions of the
rejected entries; the code appends one error per rejected entry in that order.

`BundleStore` states the promise with no loop and no lock. The refinement mapping
(end of `Bundle`) lets an addition take effect when it gets the lock: from then on
the abstract maps already contain the entries still to come (`defsView`), and the
abstract errors those still to be rejected (`errsView`). A lookup takes effect when
it reads the map.

The other models rely on this refinement: in `Resolver` and `Localization` a lookup
and an addition are single steps.

### Resolver

The recursive functions become a machine. `ctl` is what happens next: evaluate an
expression, resolve a pattern, hand a value to the innermost call, continue the
innermost call, or the outcome. `stack` holds the Go calls that are still open:

| frame | Go call |
| --- | --- |
| `complex` | `resolveComplexPattern`, in its loop at element `i`, with the text built so far |
| `args` | `resolveArguments` for a term or function call; `p` is the pattern looked up before the arguments |
| `term` | `withTermParams`, while the term's pattern is resolved |
| `selector`, `variants` | `resolveSelectExpression`, before and inside its loop |

The remaining variables are the fields of `Scope`. Between any two steps
`AddResource` may change the bundle. User code is a choice among the outcomes in
the constant `Outcomes`: it works, returns an error or nil (functions), panics with
an ordinary value (`"panic"`) or with a `runtime.Error` (`"fault"`). A runtime fault
and an unguarded panic end in `Panic`, the limit ends in the recover of
`formatPattern` (`TooManyPlaceables`).

Abstractions: text is a sequence of tokens; a fallback `{name}` keeps only the kind
of thing that was missing (`{???}` is `null`, `cyclic` or `limit` by its cause);
a number has a value, whether an option error is pending, and whether all options
given to it were valid; literals evaluate in one step, so named arguments and
variant keys, which the grammar restricts to literals, are values. Patterns are
identified by their name, as the code identifies them by the address of their
first element (`patternKey`); an empty pattern has no identity. `NUMBER` and
`DATETIME` take one integer option each, valid or not: `NUMBER` defers the error to
the place the number is used, `DATETIME` fails at once, as it does for a number that
is no time (`MaxTimeValue` stands for `maxTimeValueMillis`). Options that cannot fail
are data no property tells apart. A custom function answers one of its arguments or a
value of its own, from the constant `Results`; that these contain no fallback, close their
isolation marks and carry no option error is part of the same hypotheses as for the
caller's arguments (see Proofs). Fallbacks and option errors are compared by count, not paired.

### Negotiation

`filterMatches` serves the requested locales in order. For each it scans the available
locales up to six times, each time with a wider match: exact, available as a range, with
likely subtags, without the variant, with likely subtags after dropping the region, and
without the region. `runPass` filters its working set in place; `entries` is that array,
`i` the position it reads, `kept` the length of the part already rewritten. `Take`
and `Keep` are the two outcomes of one turn, `EndPass` cuts the array and starts the
next pass. The passes assign to one variable `locale`, so pass *n* sees what the
earlier ones left in it; `PassAfter` and `LocaleFor` give the next pass and what it
matches (passes 3 and 5 are skipped without likely subtags). `ApplyDefault` is the end
of `NegotiateLanguages`.

A locale id is the record of the fields that the regular expression finds, with its
capitals and separator, which is what the comparison of ids and the keys of
`supportedSet` tell apart. `NewLocale` keeps what the code keeps: region and language are
normalised, of the script only the first letter, the variant not at all. The two tables
of likely subtags are constants.

The three ranking properties compare this with a definition that has no working set and
no mutable locale: `HitsAt` says at which pass an id matches, `Better` orders by
request, pass and place, and each strategy is a choice in that order.

### Localization

`NewFromLocales` makes one bundle per negotiated locale and loads every resource into
it; what the loader answers is chosen once for each locale and resource (`source`), and
negotiation answers a member of a constant set or refuses. `FormatValue` and
`FormatMessage` are one search: the bundle they are at (`k`), the message found
(`msg`), the parts formatted from it (`texts`). Between the steps other goroutines add to
bundles of the chain, which `Bundles()` hands out, with or without overriding. What a
pattern resolves to belongs to `Resolver`; here a part either has problems or not.
`always` is a history variable: the bundles that have had what the call asks for at
every moment since it began.

### Parsers, serializer and visitor

A source is a sequence of characters, a position a number from 1 to one past its
end. The recursive descent below the entry loop has no state beyond the cursor, so it
is written as operators that take a position and answer where the cursor ends, with
the node or the code of the error (`Ok`, `Err`; `Then` is the early return on an
error). `ps.depth` and `p.depth` are a parameter `d`, since their deferred decrements
make them depend on the open calls only. `Stream` has the cursor's movements; CRLF reads as
LF through `Char`, and `Unit` is the raw character, which the code uses in a few places.

What has state is the entry loop, the machine of `SyntaxParser`: `index` is the cursor,
`read` the entry just read, `lastComment` the comment held back, `body` the entries.
One iteration of `Parse` is `GetEntryOrJunk`, then `HoldBack` or `AddEntry`;
`ParseEntry` is `GetEntryOrJunk`, then `SkipComment` or `ReturnEntry`. The entry loop
takes the grammar of an entry as a parameter, `EntryAt`, with a contract
(`SyntaxParserAssumption`): it goes forward, stays within the source, starts only at a
letter, a dash or a hash (a comment exactly at a hash), and answers a node that spans what
it took and has no comment yet. For the model checker `EntryAt` is `SyntaxGrammar!GetEntry`,
and TLC checks the contract at every position of every source; the theorems hold for
any grammar that keeps it.

`TwoParses` puts the two entry points together: when `ParseEntry` has answered, the same
source is parsed whole (`ParseWhole`). `Toolchain` composes the other parts: when `Parse`
is done, its tree is serialized and parsed again (`Reparse`, with and without the junk). `NewResource` is an operator on the
source, compared with the tree through `EntryAsRuntime`, which builds what the runtime
keeps of an entry: no comments, a map of attributes in which the last of a name wins,
no nested placeables, and texts that may stay apart.

Abstractions: letters and digits are those that occur in the sources; tabs, which
only the runtime parser takes for white space, do not. Positions count characters where
the code counts UTF-16 units. Literals keep their written form. An error keeps its code,
not its wording.

The visitor's code names the children of each type of node twice, in `children` and in
`transformChildren`; so does the model, in the tables `Slots` and `Rewritten`. A slot is
a field that holds a node or nil, or several nodes (`Many`). A visitor is the set of node
types it turns away (`Walk`) or removes (`Transform`), and does not look at spans.
`WalkNode` and `TransformNode` are one call of `Walk` and of `Transform`, given the
answers for the children; `Traversal` has the recursion that gives them, so the theorem
and the runs are about the same definitions.

## Runs

| Run | Asks | Instance and why it is enough |
| --- | --- | --- |
| `bundle` | is the maps' access race free, does nothing get replaced without overriding, is every behaviour one of the atomic store, does whoever waits wait for somebody who does not (`WaitsBehindHolder`), and does every call return although all keep calling? | three goroutines (two writers and a reader, or two readers and a writer, meet, and two can alternate against the third), one name used by both kinds, three resources: empty, one message, and one with a repeated id and a term |
| `resolver_refs` | cycles, parameters, limit, isolation, error reporting, whether every step counts (`EveryStepCounts`) and whether formatting ends, while entries are rewritten for ever | ten patterns, with a term that has no value, six resources added at any moment with and without overriding, `MaxPlaceables` 6: the deepest chain of distinct patterns and the limit are both reached |
| `resolver_user_code` | the same for failing functions, formatters, plural rules, transform and custom values; are deferred option errors neither lost (`OptionErrorsReported`) nor reported twice (`OptionErrorsOnce`)? | seven patterns, arguments of every kind of value, every outcome of every extension point, functions that pass on an argument or make a text, a number or a custom value |
| `valueless_term`, `nested_number`, `unguarded_panic`, `no_match` | the documented behaviour the code does not have (see Findings) | the smallest program of each kind |
| `negotiation` | do the passes over the shrinking set give what ranking the locales by request, pass and place gives? is nothing lost or repeated? | up to two requests (the second meets what the first left) and three available ids (one to keep before, between and after those taken), from two families: every way an id can stand to `en` and `en-US` (equal, wider, narrower, other region, other variant, other spelling, malformed, repeated), and one in which dropping the region changes the likely script |
| `toolchain` | does the tree account for the whole source, are comments where they belong, what does an error cost, does a tree survive serialization, do the two parsers agree, does `Transform` reach what `Walk` reaches? | every arrangement of up to three to five pieces, in eight families: lines (entries, attributes, comments, junk, open placeables), comments, indentation, placeables, expressions, strings, select expressions after each kind of selector, and call arguments. Three lines are an entry, what interrupts it and what follows; four comment lines hold one back, break it off and attach it; five indent pieces are two continuation lines with a blank one between. Most arrangements are errors, at every place one can occur |
| `crlf_comment`, `select_nesting` | two more behaviours the code does not have (see Findings) | comments with CRLF line ends; select expressions in each other's variants, up to four deep |
| `localization` | which bundles do failing loads leave, and which one answers while others are overridden? | two locales and two resources (the second follows a failure, the last ends a bundle), one name, definitions with a value, with attributes only and with both |

`MaxPlaceables` and the parsers' `MaxDepth` (2) are 100 in the code; nothing but a comparison depends on their values.
`Depth` and `Size`, which bound the cost of an expression, are computed from each program.
No counter is cut off: all state spaces are finite as they stand.

### Fairness

`Bundle`: each goroutine inside a call keeps being scheduled (`WF` on its steps, by
the Go scheduler). For `Announce`, which competes for the writers' mutex, strong
fairness: `sync.Mutex` hands over to the longest waiter after one millisecond of
starvation. No goroutine is obliged to call. `Resolver`: the formatting goroutine
keeps being scheduled; nobody is obliged to call or to add, and additions may go on
for ever. The toolchain is sequential and states no fairness: that a parse ends is
`Advances` (each turn of the loop takes something from the source) together with the
absence of any other loop in the machine.

## Proofs

Every theorem holds for all values of the constants under the module's named
assumptions. These say what belongs to which set, and a few facts about the data that
TLC evaluates in every run: in `Values`, that the rendered fallbacks differ from each
other, from the isolation marks and from the other tokens; in `Negotiation`, that the
table of likely subtags answers locales, which are records of four fields (`IsLocale`);
in `SyntaxParser`, the contract of the grammar. Where a theorem needs more, that is a
hypothesis in its statement.

**Bundle** (`BundleProofs`): `BundleTypeCorrect`, `BundleRaceFree`, `BundleNoDeadlock`,
`BundleKeepsDefinitions`. `NoDataRace` is not inductive: that a reader may enter says
nothing about where the writer is. The inductive invariant `IInv` adds `MutexInv`, which
ties the mutex's fields to the goroutines' positions (the writer is whoever is between
announcing and unlocking, the readers are those between `RLock` and `RUnlock`, somebody
parks only behind a writer), and `CallInv`, which ties each position to the kind of
call, so that the parameters an action reads exist. `KeepsDefinitions` follows from the
same invariant: only `AddEntry` changes the maps, its goroutine is the writer, and
`Reject` was false. `BundleNoDeadlock` follows as well: whoever waits, parked or draining
or for the writers' mutex, waits for a goroutine that is inside the lock or next, and
that waits for nobody. It is the safety part of `EveryCallReturns`; what is left of that
property is fairness.

**Bundle implements BundleStore** (`BundleProofs`): `BundleImplementsStore`, safety
part of the refinement, since neither specification states fairness. The abstract
addition happens when the lock is taken, although the loop has not begun. So the loop
must be shown to do what it promised: `AppliedTurn` and `RejectedTurn` say that what
remains after one turn, applied to the maps as that turn left them, is what remained
before it. From there every `AddEntry` leaves `defsView` and `errsView` as they were.
`StartInv` says that an addition that is not yet in its loop starts at the first entry
with no errors. `Applied` is defined by the first or last position that defines a
name; that a non-empty set of positions has one is `FirstExists` and `LastExists` in
`EntriesProofs`, from the well-foundedness of the naturals.

**Negotiation** (`NegotiationProofs`): `NegotiationTypeCorrect`, `NegotiationIsDistinct`,
`NegotiationLosesNothing`. The two properties need each other's ground: that the loop
writes behind its reading position (`kept <= i - 1`, in `TypeOK`) makes `NothingLost`
inductive, and `PhaseInv` says what the scan variables are between two scans.
`FilteringRanks`, `MatchingGreedy` and `LookupFirst` compare the passes with the ranking,
which has neither a working set nor a mutable locale. Their invariant `RankInv` has a part
for each of the ways they could differ. `OrderInv`: the working set keeps the order of the
available list. `PassInv`: what `locale` holds in pass *n* is what the definition matches
at that pass, and as long as the request is not served, whatever is still in the working
set was matched by no earlier pass;
when likely subtags are missing and two passes are left out, the lemma `NextLocale` shows
that these would have found nothing new. `FilterInv`, `MatchInv`, `LookupInv`: what each
strategy has taken so far is what the ranking gives up to this request and pass. The
greedy choice is a recursive function over the requests (`BestAfter`); that there is a
function with that recursion is proved with a least counterexample, since the library's
theorem on recursion takes an operator as a parameter.

**Localization** (`LocalizationProofs`): `LocalizationTypeCorrect`,
`LocalizationChainAsLoaded`, `LocalizationFirstBundleWins`, `LocalizationWholeMessage`.
`BuildInv` says that the bundle under construction holds what the resources tried so far
leave (`Loaded`, a recursive function over them, which exists by `RecursionExists` of
`EntriesProofs`) and that the
errors name exactly what has failed up to this locale and resource. `SearchInv` says that
a bundle already passed is not in `always` and that the parts formatted so far belong to
`msg`; `ChainInv` that `chain` and `texts` are sequences, which other goroutines'
additions keep. The parts of a message are a function by recursion over the attributes,
because the prover has no definition of `SelectSeq`.

**Resolver** (`ResolverProofs`): `ResolverTypeCorrect`, `ResolverDirty`,
`ResolverExpansion`, `ResolverParams`, `ResolverLimitIsFatal`, `ResolverPanics`,
`ResolverIsolation`, `ResolverFallbacks`, `ResolverOptions`, `ResolverOptionsOnce`,
`ResolverProgress`, for any patterns, expressions, entries, additions of other goroutines
and behaviour of user code. The ground of all is `CallInv`: types, an empty stack between two calls, and
`placeables <= MaxPlaceables` while one runs. Each kind of open call is typed by the
expressions it is made for (`Frames`), without which an action's access to `e.sel` or
`e.named` would be out of reach. Most steps neither enter nor leave a pattern or a
term; `SteadySteps` and `CallsKept` say once that these leave the `complex` and `term`
calls as they were, so that the invariants about them only have to follow
`ResolveComplex`, `FinishPattern`, `EnterTerm` and `LeaveTerm`. `DirtyIsActive` needs
its second half to be inductive: since no pattern is open twice, removing its key
removes no other call's. `ExpansionBound` is not inductive: `DepthInv` says that the
open patterns exceed the counted placeables only while the innermost one is in its
loop, between two placeables. `LimitIsFatal` rests on `WithinTheLimit`: no other step
reports a limit error, and none happens after the call is over. `ResolverPanics` assumes
that the text transform and custom values do not panic (`Guarded`), and without that it
is false (third finding). `ResolverIsolation` assumes that the literals of the program,
the caller's arguments and the values custom functions make close the marks they open
themselves (`TextsIsolate`): the
resolver copies them as they are. `IsolationInv` says of each open pattern that its
text, as a prefix of what it will be, never closes more marks than it opened, and that
it has none open in its loop and one open while it awaits the value of an isolated
placeable (`OpensAfter`, `Level`), and of each open call that the arguments collected so
far are such values. The steps that write are instances of one lemma on concatenation,
`OpensConcat`, from counts adding up over it (`CountConcat`).
`ResolverFallbacks` and `ResolverOptions` compare how often something was written with
how often it was reported. A value in flight may be written once, dropped or selected
on, and a text may hold several fallbacks, so what is owed is a sum over the open calls.
The invariant (`Backed`) says that there is a certificate: one number for each open
call, such that the numbers go up from the outermost call inwards, each step by at least
what that call holds (its text so far, or the heaviest of its collected arguments, since
a call answers with one of them at most), and end below the number of errors. A step
then only has to account for the innermost call (`Accounted`, `Holds`); no sum is
computed. The hypotheses are about what the resolver only copies: `NotGiven` says that
the program's literals, the caller's arguments and custom functions' values do not
contain the tokens that are counted, `OptionsGiven` that they contain no number with a pending error. `NumbersOnce`
excludes a NUMBER whose argument is the result of another NUMBER or of a custom
function, the second finding.
`ResolverOptionsOnce` is the other direction: `Carriers` are the places where a pending
error is held (the value at hand, collected arguments, the selector being compared), and
with the reports already made they grow only when NUMBER makes one. Each step moves at
most what it takes away (`CarriersShrink`, and one lemma per kind of step): what a function returns replaces
the arguments it was given, and a selector is cleared as it is reported. The hypothesis
`NumbersFresh` says that no number is given with a pending error, which Go enforces, for
the field is not exported. `MCResolver` has TLC evaluate these hypotheses on the
programs of the passing runs that check the properties.
`ResolverProgress` is the safety part of `AlwaysReturns`, by a measure: `WorkLeft` is the
cost of what `ctl` is about to do plus what each open call still needs, and every step of
the formatting goroutine takes one of at most `MaxPlaceables + 1` placeables or makes
`WorkLeft`, a natural number, less. Whatever a pattern evaluates is a placeable that is
counted first, so the measure need not follow references into other patterns, and cycles and
other goroutines' additions do not disturb it; expressions are finite by `FiniteAssumption` (`Depth` and `Size`, which
`MCResolver` computes from the programs). Only that enabled steps are taken, which is
fairness, is left to TLC.

**Syntax parser** (`SyntaxParserProofs`): `Typed`, `GoesForward`, `Whole`,
`CommentsBelong`, `ErrorsStayLocal`, `SameEntry`, for any sources and any grammar of an
entry that keeps the contract. `StreamProofs` has what the cursor's
movements promise: they go forward within the source, over blanks only, and
`SkipToNextEntryStart`, although it goes back first, ends behind where the entry began.
`NodesInv` types the nodes the loop handles. `NothingLost` is not inductive, for the
spans alone do not say that what is read next comes behind them: `LoopInv` keeps
`Accounts(SoFar, source, index)`, that the nodes so far, the held-back comment and the
entry just read included, are in order, end before the cursor and leave only blanks
uncovered. `Whole` has the hypothesis `CommentsWhole`: two comments of one kind never
follow each other directly, since the parser would have read them as one. The loop
relies on it when it overwrites `lastComment`. TLC evaluates it on the sources of
`toolchain`, where it holds; with CRLF line ends it fails, which is the fifth finding.
`CommentsBelong` needs no such hypothesis, nor does `SameEntry`. `AttachInv` says that a
comment held back is directly above the cursor, and that a comment in the body is not
directly above what follows it or is followed by something that takes none; that the node
just read ends where the cursor's line began is what connects the two.
`ErrorsStayLocal` has the hypothesis `LinesWhole` about the grammar: no line that an entry
reads to its end, before it fails further on, is an entry itself. This concerns only the
lines before the last line end that recovery goes back to; for those behind it the theorem
shows that recovery stops at the first that could be an entry (`SkippedLines`), which needs
that an entry is never read from a line end (`JunkInv`, `BlankBlockStops`). TLC evaluates
`LinesWhole` at every position of every source of `toolchain`.
`SameEntry` compares two runs of the machine: `ParseEntry` skips comments in a loop of its
own, `Parse` holds them back, adds them or attaches them. `Reached` is the least set of
places that one comes to past comments only; both loops stay in it (`Passing`), and it has
one place at which there is no comment (`OneStop`).

**Visitor** (`VisitorProofs`): `TransformedWalk`, for trees of any shape and height and
any set of types turned away: walking what `Transform` leaves of a node visits what a walk
that turns the same types away visits of the node. The theorem is about any functions that
satisfy the equations of `Walk` and `Transform` on the nodes of a tree; a tree is a set of
nodes that are `Shaped` (their slots are there, and a node says its type where several
can be) with a height that decreases into the slots. TLC evaluates the shape on every
tree the parser makes of the sources (`WellShaped`). The proof is an induction on the
height, by a least counterexample. `SlotsAgree` compares the two tables of slots; `HeldAfter` and
`ChildrenAfter` say that what is left in a slot, and of a node's children, are the answers
for the children that are not removed, in their order and with their types. For that, an
answer must still say the type its node said (`AnswerKeeps`). Both functions collect lists of lists, so the proof
rests on facts about `FlattenSeq` (`FlattenConcat`, `ChainedFlatten`, `MappedFlatten`), from
its value being the last one of a recursion (`FlattenIs`).

Only model-checked:

- liveness (`EveryCallReturns`, `AlwaysReturns`), out of the prover's reach;
- `RoundTrip` and `ParsersAgree` of the tool chain: they are about what the grammar and the
  serializer compute on trees of any depth. These are recursive operators, which the
  prover does not support, and the properties would need induction over trees.
- `TransformIsWalk` as it stands: it names the recursive operators of `Traversal`.
  `TransformedWalk` proves what it says from their equations.

## Findings

Six places where the code does not do what it should, or what a document of the
repository says; each has a run that shows it.

1. `valueless_term`: `{-t}` for a term that has only attributes renders `{???}`
   with no error (`resolver.go:369`), against `doc.go:36` (property `NoValueReported`).
2. `nested_number`: `NUMBER(NUMBER($x, digits: "a"), digits: 1)` drops the inner
   option error (`builtins.go:183`), against `builtins.go:83`. `DATETIME` of such a number
   drops it likewise.
3. `unguarded_panic`: an ordinary panic of the text transform or of a custom
   `Value.Format` leaves `FormatPattern`, against `ARCHITECTURE.md:26` and
   `CHANGELOG.md:14`.
4. `no_match`: a selector that matches no variant is not a range error
   (`resolver.go:300`), against `ARCHITECTURE.md:77`.
5. `crlf_comment`: with CRLF line ends an empty comment line ends the comment
   (`syntax/stream.go:289` reads the raw character), and `Parse` overwrites the first
   half with the second (`syntax/parser.go:69`): part of the source is in no node. With
   LF the same lines are one comment (`stream.go:8`: CRLF is normalized to LF).
6. `select_nesting`: the depth is counted down before a select expression's variants are
   parsed (`syntax/parser.go:761`, `resource.go:377`), so select expressions in variants
   nest without a bound, against `CHANGELOG.md:20`.

A stale comment, without a run: `langneg/locale.go:18-21` says the input has been
lower-cased. Only requested ids are; `CHANGELOG.md:117` and
`TestNegotiateVariantCasePreserved` describe what the code does, and so does the model.

## Not modelled

`NewBundle`'s options are the constants of the models. Formatting of numbers, dates
and plural categories is external (`gocldr`). The default CLDR date formatter, which is
also the fallback of the guard in `DateTime.Format`, is assumed not to panic. The
*Number a custom function retains and shares between goroutines is outside the model,
which has one formatting goroutine (its scope is its own; bundles are read only
through the lookups). `AcceptedLanguages` parses a header and sorts it by quality, in
one pass without state; the file-system loader is pure I/O; `Localization.Bundles` and the
accessors read fields. Of the AST, the JSON form and the decoding of escapes and number
literals are conversions of one node at a time, without ordering or state to get wrong, and
`format.go` and `format_cldr.go` declare options and copy them. Of the visitor, spans
and transformers that put another node in a node's place are left out. The
conformance runner is a test.

## Plan

1. (done) `Entries`, `BundleStore`, `Bundle`; `Values`, `Resolver`; `Negotiation`,
   `Localization`; the parsers, the serializer and the visitor.
2. (done) Proofs of the bundle's type correctness, race freedom, override rule and
   refinement, and of every invariant and action property of `Resolver`, `Negotiation`,
   `Localization` and `SyntaxParser` that a passing run checks; the safety parts of both
   liveness properties; the visitor's theorem.
3. Left to prove: the sequential core of the serializer's and the parsers' agreement, on a
   grammar written with recursive functions instead of recursive operators.
4. `AcceptedLanguages`, and transformers that replace nodes.
