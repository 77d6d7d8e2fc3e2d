------------------------------- MODULE Resolver -------------------------------
(***************************************************************************)
(* One goroutine formats patterns (Bundle.FormatPattern, resolver.go)      *)
(* while others add resources to the same bundle.  The recursive resolver  *)
(* is a machine: ctl is what it is about to do, stack the calls it is in,  *)
(* and the other variables are the fields of its Scope.  Between any two   *)
(* steps the bundle may change; a lookup is one atomic step (Bundle        *)
(* implements BundleStore).                                                *)
(*                                                                         *)
(* User code the resolver calls (functions, formatters, plural rules, the  *)
(* text transform, a Value's own Format) may return, fail, panic with an   *)
(* ordinary value ("panic") or with a runtime.Error ("fault").             *)
(***************************************************************************)
EXTENDS Entries, Values, FiniteSets

CONSTANTS
  Ids,            \* message and term names
  Patterns,       \* parsed patterns; their identity is that of patternKey
  Body,           \* pattern -> [t : "text"] or [t : "complex", elems : Seq(Element)]
  NoPattern,      \* a nil Pattern
  Exprs,          \* the expressions that occur in Body
  Defs,           \* parsed messages and terms: [value, attrs]
  InitialDefs,    \* the bundle when formatting starts
  Resources,      \* what other goroutines add
  Overriding,     \* whether they add with AddResourceOverriding
  TopPatterns,    \* what FormatPattern is called with
  ArgSets,        \* and its arguments
  Functions,      \* custom functions in the bundle
  Outcomes,       \* what user code may do, by extension point
  Results,        \* values custom functions make, besides passing on an argument
  UseIsolating,   \* Bundle.useIsolating
  MaxPlaceables,
  NoParams,       \* a nil Scope.params
  Depth,          \* expression -> how deep its operands nest
  Size            \* what bounds the depth and the length of everything parsed

Text == [t |-> "text"]
IsComplex(p) == p # NoPattern /\ Body[p].t = "complex"
Elems(p) == Body[p].elems

Of(types) == {e \in Exprs : e.t \in types}     \* expressions of some types

ASSUME ResolverAssumption ==
  /\ NoPattern \notin Patterns
  /\ MaxPlaceables \in Nat
  /\ UseIsolating \in BOOLEAN
  /\ TopPatterns \subseteq Patterns \cup {NoPattern}
  /\ \A p \in Patterns :
       \/ Body[p] = Text
       \/ Body[p].t = "complex" /\ Elems(p) \in Seq(Exprs \cup {Text})

(* What the parser makes of expressions and entries. *)
ASSUME ProgramAssumption ==
  /\ \A e \in Exprs :
       e.t \in {"literal", "variable", "message", "term", "function", "select"}
  /\ \A e \in Of({"literal"}) : e.v \in Values
  /\ \A e \in Of({"message", "term"}) : e.name \in Ids
  /\ \A e \in Of({"term", "function"}) :
       e.pos \in Seq(Exprs) /\ \A n \in DOMAIN e.named : e.named[n] \in Values
  /\ \A e \in Of({"select"}) :
       /\ e.sel \in Exprs
       /\ e.variants \in Seq([key : Values, p : Patterns])
       /\ e.star \in DOMAIN e.variants
  /\ \A def \in Defs :
       /\ def.value \in Patterns \cup {NoPattern}
       /\ \A attr \in DOMAIN def.attrs : def.attrs[attr] \in Patterns
  /\ InitialDefs \subseteq [Kinds -> [Ids -> Defs \cup {Absent}]]
  /\ Resources \subseteq Seq([kind : Kinds, id : Ids, def : Defs])
  /\ \A given \in ArgSets : \A n \in DOMAIN given : given[n] \in Values \cup {Unsupported}
  /\ Outcomes.transform \subseteq {"ok", "panic", "fault"}
  /\ Results \subseteq Values

(* What the parser makes is finite: patterns, argument lists and selects   *)
(* have an end, and the operands of an expression nest less deep.          *)
ASSUME FiniteAssumption ==
  /\ Size \in Nat
  /\ Depth \in [Exprs -> 1..Size]
  /\ \A p \in Patterns : IsComplex(p) => Len(Elems(p)) <= Size
  /\ \A e \in Of({"term", "function"}) :
       /\ Len(e.pos) <= Size
       /\ \A i \in DOMAIN e.pos : Depth[e.pos[i]] < Depth[e]
  /\ \A e \in Of({"select"}) : Len(e.variants) <= Size /\ Depth[e.sel] < Depth[e]

VARIABLES defs,         \* Bundle.messages, Bundle.terms
          ctl,          \* what happens next
          stack,        \* the resolver's calls, innermost last
          errs,         \* Scope.errs
          args,         \* Scope.args
          dirty,        \* Scope.dirty
          params,       \* Scope.params
          placeables    \* Scope.placeables
scope == <<errs, args, dirty, params, placeables>>
vars  == <<defs, ctl, stack, scope>>

(* ctl: evaluate an expression, resolve a pattern, hand a value to the     *)
(* innermost call, go on with the innermost call, and how the call ended.  *)
Idle       == [m |-> "idle"]
Eval(e)    == [m |-> "eval", e |-> e]
Resolve(p) == [m |-> "resolve", p |-> p]
Give(v)    == [m |-> "give", v |-> v]
Continue   == [m |-> "continue"]
Done(out)  == [m |-> "done", out |-> out]
Panic(why) == [m |-> "panic", why |-> why]

Running == ctl.m \in {"eval", "resolve", "give", "continue"}

ComplexFrame(p)  == [f |-> "complex", p |-> p, i |-> 1, out |-> << >>]
ArgsFrame(e, p)  == [f |-> "args", e |-> e, p |-> p, vals |-> << >>]
TermFrame(e)     == [f |-> "term", e |-> e]
SelectorFrame(e) == [f |-> "selector", e |-> e]
VariantFrame(e, v) == [f |-> "variants", e |-> e, sel |-> v, i |-> 1]

Top       == stack[Len(stack)]
Pop       == SubSeq(stack, 1, Len(stack) - 1)
Push(fr)  == Append(stack, fr)
ToTop(fr) == [stack EXCEPT ![Len(stack)] = fr]
In(f)     == stack # << >> /\ Top.f = f

Report(err) == errs' = Append(errs, err)
MissedSilently(err, missing) ==                 \* fault: no reportError
  /\ UNCHANGED errs
  /\ ctl' = Give(None(missing))
Missed(err, missing) ==
  /\ Report(err)
  /\ ctl' = Give(None(missing))

-----------------------------------------------------------------------------
Init ==
  /\ defs \in InitialDefs
  /\ ctl = Idle
  /\ stack = << >>
  /\ errs = << >>
  /\ args \in ArgSets
  /\ dirty = {}
  /\ params = NoParams
  /\ placeables = 0

(* Another goroutine adds a resource. *)
AddResource ==
  /\ \E res \in Resources, override \in Overriding :
       defs' = Applied(defs, res, 1, override)
  /\ UNCHANGED <<ctl, stack, scope>>

(***************************************************************************)
(* FormatPattern                                                           *)
(***************************************************************************)
NewScope(reported) ==
  /\ errs' = reported
  /\ args' \in ArgSets
  /\ dirty' = {}
  /\ params' = NoParams
  /\ placeables' = 0

(* A text pattern needs no scope; the transform is not guarded. *)
FormatText ==
  /\ ctl = Idle
  /\ \E p \in TopPatterns \ {NoPattern}, o \in Outcomes.transform :
       /\ ~IsComplex(p)
       /\ ctl' = IF o = "ok" THEN Done(<<"text">>) ELSE Panic(o)
  /\ NewScope(<< >>)
  /\ UNCHANGED <<defs, stack>>

FormatNil ==
  /\ ctl = Idle
  /\ NoPattern \in TopPatterns
  /\ NewScope(<<"type">>)
  /\ ctl' = Done(Rendered(None("null")))
  /\ UNCHANGED <<defs, stack>>

FormatComplex ==
  /\ ctl = Idle
  /\ \E p \in TopPatterns : IsComplex(p) /\ ctl' = Resolve(p)
  /\ NewScope(<< >>)
  /\ UNCHANGED <<defs, stack>>

(* The value of the whole pattern, rendered (it is a String). *)
Finish ==
  /\ ctl.m = "give"
  /\ stack = << >>
  /\ ctl' = Done(Rendered(ctl.v))
  /\ UNCHANGED <<defs, stack, scope>>

(* The caller has the result (or recovers the panic); the scope is gone. *)
Return ==
  /\ ctl.m \in {"done", "panic"}
  /\ ctl' = Idle
  /\ stack' = << >>
  /\ errs' = << >>
  /\ dirty' = {}
  /\ params' = NoParams
  /\ placeables' = 0
  /\ UNCHANGED <<defs, args>>

(***************************************************************************)
(* resolvePattern, resolveComplexPattern                                   *)
(***************************************************************************)
ResolveNil ==
  /\ ctl = Resolve(NoPattern)
  /\ ctl' = Give(None("null"))
  /\ UNCHANGED <<defs, stack, scope>>

ResolveText ==
  /\ ctl.m = "resolve"
  /\ ctl.p # NoPattern
  /\ ~IsComplex(ctl.p)
  /\ \E o \in Outcomes.transform :
       ctl' = IF o = "ok" THEN Give(Str(<<"text">>)) ELSE Panic(o)
  /\ UNCHANGED <<defs, stack, scope>>

ResolveCyclic ==
  /\ ctl.m = "resolve"
  /\ IsComplex(ctl.p)
  /\ ctl.p \in dirty
  /\ Missed("cyclic", "cyclic")
  /\ UNCHANGED <<defs, stack, args, dirty, params, placeables>>

(* An empty pattern has no key, so it is never marked. *)
Key(p) == IF Elems(p) = << >> THEN {} ELSE {p}

ResolveComplex ==
  /\ ctl.m = "resolve"
  /\ IsComplex(ctl.p)
  /\ ctl.p \notin dirty
  /\ dirty' = dirty \cup Key(ctl.p)
  /\ stack' = Push(ComplexFrame(ctl.p))
  /\ ctl' = Continue
  /\ UNCHANGED <<defs, errs, args, params, placeables>>

AtElement == ctl = Continue /\ In("complex") /\ Top.i <= Len(Elems(Top.p))

AppendText ==
  /\ AtElement
  /\ Elems(Top.p)[Top.i] = Text
  /\ \E o \in Outcomes.transform :
       IF o = "ok"
         THEN /\ stack' = ToTop([Top EXCEPT !.i = @ + 1, !.out = Append(@, "text")])
              /\ UNCHANGED ctl
         ELSE /\ ctl' = Panic(o)
              /\ UNCHANGED stack
  /\ UNCHANGED <<defs, scope>>

Isolated(p) == UseIsolating /\ Len(Elems(p)) > 1

AtPlaceable == AtElement /\ Elems(Top.p)[Top.i] # Text

Uncounted == placeables                         \* fault: placeables++ lost
Counted == placeables + 1

OverLimitLate == placeables > MaxPlaceables     \* fault: compared before ++
OverLimit == placeables + 1 > MaxPlaceables

ExpandPlaceable ==
  /\ AtPlaceable
  /\ ~OverLimit
  /\ placeables' = Counted
  /\ stack' = IF Isolated(Top.p) THEN ToTop([Top EXCEPT !.out = Append(@, FSI)])
              ELSE stack
  /\ ctl' = Eval(Elems(Top.p)[Top.i])
  /\ UNCHANGED <<defs, errs, args, dirty, params>>

(* panic(fluentPanic): the deferred recover of formatPattern reports the   *)
(* error and answers {???}; everything resolved so far is dropped.         *)
SkipPlaceable ==                                \* fault: reports and goes on
  /\ AtPlaceable
  /\ OverLimit
  /\ placeables' = Counted
  /\ Report("limit")
  /\ stack' = ToTop([Top EXCEPT !.i = @ + 1])
  /\ UNCHANGED <<defs, ctl, args, dirty, params>>
TooManyPlaceables ==
  /\ AtPlaceable
  /\ OverLimit
  /\ placeables' = Counted
  /\ Report("limit")
  /\ ctl' = Done(Rendered(None("limit")))
  /\ stack' = << >>
  /\ UNCHANGED <<defs, args, dirty, params>>

(* The placeable's value arrives: Value.Format, and the closing mark.  A   *)
(* number or date formatter is guarded (guardExtension), a caller's own    *)
(* Value is not.                                                           *)
NeverRecovered(o, v) == o # "ok"                \* fault: no guardExtension
Unrecovered(o, v) == o = "fault" \/ (o = "panic" /\ v.k = "custom")

CloseUnlessNone(v) ==                           \* fault: early way out
  IF Isolated(Top.p) /\ v.k # "none" THEN <<PDI>> ELSE << >>
Close(v) == IF Isolated(Top.p) THEN <<PDI>> ELSE << >>

Formatting(v) ==
  CASE UsesFormatter(v)  -> Outcomes.formatter
    [] v.k = "custom"    -> Outcomes.custom
    [] OTHER             -> {"ok"}

HasOptErr(v) == v.k = "number" /\ v.optErr

WritePlaceable ==
  /\ ctl.m = "give"
  /\ In("complex")
  /\ \E o \in Formatting(ctl.v) :
       IF Unrecovered(o, ctl.v)
         THEN /\ ctl' = Panic(o)
              /\ UNCHANGED <<stack, errs>>
         ELSE /\ stack' = ToTop([Top EXCEPT !.i = @ + 1,
                                 !.out = @ \o Rendered(ctl.v) \o Close(ctl.v)])
              /\ \/ o = "panic" /\ Report("extension")
                 \/ o = "ok" /\ HasOptErr(ctl.v) /\ Report("option")
                 \/ o = "ok" /\ ~HasOptErr(ctl.v) /\ UNCHANGED errs
              /\ ctl' = Continue
  /\ UNCHANGED <<defs, args, dirty, params, placeables>>

KeepMark(p) == dirty                            \* fault: no delete
Unmark(p) == dirty \ Key(p)

FinishPattern ==
  /\ ctl = Continue
  /\ In("complex")
  /\ Top.i > Len(Elems(Top.p))
  /\ dirty' = Unmark(Top.p)
  /\ stack' = Pop
  /\ ctl' = Give(Str(Top.out))
  /\ UNCHANGED <<defs, errs, args, params, placeables>>

(***************************************************************************)
(* resolveExpression                                                       *)
(***************************************************************************)
At(type) == ctl.m = "eval" /\ ctl.e.t = type

EvalLiteral ==
  /\ At("literal")
  /\ ctl' = Give(ctl.e.v)
  /\ UNCHANGED <<defs, stack, scope>>

(* Inside a term its parameters replace the arguments altogether. *)
EvalParameter ==
  /\ At("variable")
  /\ params # NoParams
  /\ ctl' = Give(IF ctl.e.name \in DOMAIN params THEN params[ctl.e.name]
                 ELSE None("param"))
  /\ UNCHANGED <<defs, stack, scope>>

EvalArgument ==
  /\ At("variable")
  /\ params = NoParams
  /\ \/ /\ ctl.e.name \notin DOMAIN args
        /\ Missed("reference", "variable")
     \/ /\ ctl.e.name \in DOMAIN args
        /\ args[ctl.e.name] = Unsupported
        /\ Missed("type", "variable")
     \/ /\ ctl.e.name \in DOMAIN args
        /\ args[ctl.e.name] # Unsupported
        /\ ctl' = Give(args[ctl.e.name])
        /\ UNCHANGED errs
  /\ UNCHANGED <<defs, stack, args, dirty, params, placeables>>

(* The pattern a message or term reference names, if there is one: that of *)
(* an attribute, or the value ("" is no attribute).                        *)
Named(def, attr) == IF attr = "" THEN def.value ELSE def.attrs[attr]

EvalMessage ==
  /\ At("message")
  /\ LET def == defs["message"][ctl.e.name]
         attr == ctl.e.attr IN
     IF def = Absent \/ (attr # "" /\ attr \notin DOMAIN def.attrs)
        \/ (attr = "" /\ def.value = NoPattern)
       THEN Missed("reference", "message")
       ELSE ctl' = Resolve(Named(def, attr)) /\ UNCHANGED errs
  /\ UNCHANGED <<defs, stack, args, dirty, params, placeables>>

EvalTerm ==
  /\ At("term")
  /\ LET def == defs["term"][ctl.e.name]
         attr == ctl.e.attr IN
     IF def = Absent \/ (attr # "" /\ attr \notin DOMAIN def.attrs)
       THEN /\ Missed("reference", "term")
            /\ UNCHANGED stack
       ELSE /\ stack' = Push(ArgsFrame(ctl.e, Named(def, attr)))
            /\ ctl' = Continue
            /\ UNCHANGED errs
  /\ UNCHANGED <<defs, args, dirty, params, placeables>>

EvalFunction ==
  /\ At("function")
  /\ IF ctl.e.name \in Functions \cup {"NUMBER", "DATETIME"}
       THEN /\ stack' = Push(ArgsFrame(ctl.e, NoPattern))
            /\ ctl' = Continue
            /\ UNCHANGED errs
       ELSE /\ Missed("reference", "function")
            /\ UNCHANGED stack
  /\ UNCHANGED <<defs, args, dirty, params, placeables>>

(***************************************************************************)
(* resolveArguments, then the call                                         *)
(***************************************************************************)
ArgumentsLeft == Len(Top.vals) < Len(Top.e.pos)

EvalPositional ==
  /\ ctl = Continue
  /\ In("args")
  /\ ArgumentsLeft
  /\ ctl' = Eval(Top.e.pos[Len(Top.vals) + 1])
  /\ UNCHANGED <<defs, stack, scope>>

TakePositional ==
  /\ ctl.m = "give"
  /\ In("args")
  /\ stack' = ToTop([Top EXCEPT !.vals = Append(@, ctl.v)])
  /\ ctl' = Continue
  /\ UNCHANGED <<defs, scope>>

Calling(type) == ctl = Continue /\ In("args") /\ ~ArgumentsLeft /\ Top.e.t = type

(* withTermParams: the named arguments, which are literals, become the     *)
(* parameters; afterwards they are cleared, not restored.                  *)
EnterTerm ==
  /\ Calling("term")
  /\ params' = Top.e.named
  /\ stack' = ToTop(TermFrame(Top.e))
  /\ ctl' = Resolve(Top.p)
  /\ UNCHANGED <<defs, errs, args, dirty, placeables>>

ParamsKept == params                            \* fault: not cleared
ParamsAfterTerm == NoParams

LeaveTerm ==
  /\ ctl.m = "give"
  /\ In("term")
  /\ params' = ParamsAfterTerm
  /\ stack' = Pop
  /\ UNCHANGED <<defs, ctl, errs, args, dirty, placeables>>

(* Functions given to NewBundle replace builtins of the same name. *)
Builtin(name) == Top.e.name = name /\ name \notin Functions
Answer(result) ==
  IF result.ok THEN ctl' = Give(result.v) /\ UNCHANGED errs
  ELSE Missed(result.err, "function")

CallNUMBER ==
  /\ Calling("function")
  /\ Builtin("NUMBER")
  /\ Answer(NumberResult(Top.vals, Top.e.named))
  /\ stack' = Pop
  /\ UNCHANGED <<defs, args, dirty, params, placeables>>

CallDATETIME ==
  /\ Calling("function")
  /\ Builtin("DATETIME")
  /\ Answer(DateTimeResult(Top.vals, Top.e.named))
  /\ stack' = Pop
  /\ UNCHANGED <<defs, args, dirty, params, placeables>>

(* A custom function returns a value of its own or one of its arguments,   *)
(* returns an error, returns nil, or panics (callFunction).                *)
NilResult == Missed("type", "function")

Swallowed == ctl' = Give(None("function")) /\ UNCHANGED errs  \* fault: error lost
Failed == Missed("extension", "function")

CallFunction ==
  /\ Calling("function")
  /\ Top.e.name \in Functions
  /\ \E o \in Outcomes.function :
       \/ /\ o = "ok"
          /\ \E v \in Results \cup {Top.vals[j] : j \in DOMAIN Top.vals} :
               ctl' = Give(v)
          /\ UNCHANGED errs
       \/ o \in {"error", "panic"} /\ Failed
       \/ o = "nil" /\ NilResult
       \/ o = "fault" /\ ctl' = Panic(o) /\ UNCHANGED errs
  /\ stack' = Pop
  /\ UNCHANGED <<defs, args, dirty, params, placeables>>

(***************************************************************************)
(* resolveSelectExpression                                                 *)
(***************************************************************************)
EvalSelect ==
  /\ At("select")
  /\ stack' = Push(SelectorFrame(ctl.e))
  /\ ctl' = Eval(ctl.e.sel)
  /\ UNCHANGED <<defs, scope>>

Default(e) == e.variants[e.star].p

LateIgnored(v) == FALSE                         \* fault: only Format reports
Late(v) == HasOptErr(v)

NotCleared(v) == v                              \* fault: reported, still pending
Cleared(v) == [v EXCEPT !.optErr = FALSE]

TakeSelector ==
  /\ ctl.m = "give"
  /\ In("selector")
  /\ LET v == ctl.v IN
     /\ IF Late(v) THEN Report("option") ELSE UNCHANGED errs
     /\ IF v.k = "none"
          THEN stack' = Pop /\ ctl' = Resolve(Default(Top.e))
          ELSE /\ stack' = ToTop(VariantFrame(Top.e,
                             IF Late(v) THEN Cleared(v) ELSE v))
               /\ ctl' = Continue
  /\ UNCHANGED <<defs, args, dirty, params, placeables>>

AtVariant == ctl = Continue /\ In("variants")
VariantKey == Top.e.variants[Top.i].key

(* One turn of the loop; the plural rules are guarded. *)
SameVariant == Top.i                            \* fault: the loop stands still
NextVariant == Top.i + 1

TryVariant ==
  /\ AtVariant
  /\ Top.i <= Len(Top.e.variants)
  /\ \E o \in IF AsksPluralRules(Top.sel, VariantKey) THEN Outcomes.plural ELSE {""} :
       IF o = "fault"
         THEN ctl' = Panic(o) /\ UNCHANGED <<stack, errs>>
         ELSE /\ IF Matches(Top.sel, VariantKey, IF o = "panic" THEN "" ELSE o)
                    THEN /\ ctl' = Resolve(Top.e.variants[Top.i].p)
                         /\ stack' = Pop
                    ELSE /\ stack' = ToTop([Top EXCEPT !.i = NextVariant])
                         /\ UNCHANGED ctl
              /\ IF o = "panic" THEN Report("extension") ELSE UNCHANGED errs
  /\ UNCHANGED <<defs, args, dirty, params, placeables>>

NoVariantMatched ==
  /\ AtVariant
  /\ Top.i > Len(Top.e.variants)
  /\ ctl' = Resolve(Default(Top.e))
  /\ stack' = Pop
  /\ UNCHANGED <<defs, scope>>

-----------------------------------------------------------------------------
Call == FormatText \/ FormatNil \/ FormatComplex

Work ==
  \/ Finish \/ Return
  \/ ResolveNil \/ ResolveText \/ ResolveCyclic \/ ResolveComplex
  \/ AppendText \/ ExpandPlaceable \/ TooManyPlaceables \/ WritePlaceable
  \/ FinishPattern
  \/ EvalLiteral \/ EvalParameter \/ EvalArgument \/ EvalMessage
  \/ EvalTerm \/ EvalFunction \/ EvalPositional \/ TakePositional
  \/ EnterTerm \/ LeaveTerm \/ CallNUMBER \/ CallDATETIME \/ CallFunction
  \/ EvalSelect \/ TakeSelector \/ TryVariant \/ NoVariantMatched

Next == Call \/ Work \/ AddResource

Spec == Init /\ [][Next]_vars

(* A goroutine that formats keeps running, whatever the others add; nobody *)
(* has to call or to add.                                                  *)
FairSpec == Spec /\ WF_vars(Work)

-----------------------------------------------------------------------------
Frames ==
  [f : {"complex"}, p : {q \in Patterns : IsComplex(q)}, i : Nat \ {0}, out : Seq(Tokens)]
    \cup [f : {"args"}, e : Of({"term", "function"}), p : Patterns \cup {NoPattern},
          vals : Seq(Values)]
    \cup [f : {"term"}, e : Of({"term"})]
    \cup [f : {"selector"}, e : Of({"select"})]
    \cup [f : {"variants"}, e : Of({"select"}), sel : Values, i : Nat \ {0}]

Controls ==
  {Idle, Continue} \cup [m : {"eval"}, e : Exprs]
    \cup [m : {"resolve"}, p : Patterns \cup {NoPattern}]
    \cup [m : {"give"}, v : Values]
    \cup [m : {"done"}, out : Seq(Tokens)]
    \cup [m : {"panic"}, why : {"panic", "fault"}]

Errors == {"reference", "type", "range", "cyclic", "limit", "option", "extension"}

TypeOK ==
  /\ defs \in [Kinds -> [Ids -> Defs \cup {Absent}]]
  /\ ctl \in Controls
  /\ stack \in Seq(Frames)
  /\ errs \in Seq(Errors)
  /\ args \in ArgSets
  /\ dirty \subseteq Patterns
  /\ params = NoParams \/ params \in {e.named : e \in Of({"term"})}
  /\ placeables \in 0..MaxPlaceables + 1

Calls(f) == {k \in DOMAIN stack : stack[k].f = f}
Count(s, x) == Cardinality({i \in DOMAIN s : s[i] \in x})

(* Cycle detection is exact: the dirty set holds the patterns that are     *)
(* being resolved and no others, and none is being resolved twice.  A key  *)
(* left behind would turn a later, legal use of the pattern into a cyclic  *)
(* reference; a key removed early would let the recursion through.         *)
DirtyIsActive ==
  Running =>
    /\ dirty = UNION {Key(stack[k].p) : k \in Calls("complex")}
    /\ \A j, k \in Calls("complex") :
         stack[j].p = stack[k].p /\ Elems(stack[j].p) # << >> => j = k

(* MaxPlaceables bounds the recursion even when other goroutines keep      *)
(* replacing the messages being formatted by new ones, which the dirty set *)
(* cannot recognise: a pattern is entered from a placeable of another.     *)
ExpansionBound ==
  Running => /\ placeables <= MaxPlaceables
             /\ Cardinality(Calls("complex")) <= placeables + 1

(* A variable never resolves to a parameter of some other term's call: the *)
(* parameters in force are those of the innermost term being resolved, or  *)
(* they are none (after an embedded term, or outside any).                 *)
ParamsOfInnermostTerm ==
  Running /\ params # NoParams =>
    \E k \in Calls("term") :
      /\ params = stack[k].e.named
      /\ \A j \in Calls("term") : j <= k

(* Exceeding the limit is fatal and final: the error is the last one, the  *)
(* result is exactly {???}, and within the limit there is no such error.   *)
LimitIsFatal ==
  ("limit" \in {errs[i] : i \in DOMAIN errs} \/ placeables > MaxPlaceables) =>
    /\ ctl = Done(<<Fallback("limit")>>)
    /\ placeables = MaxPlaceables + 1
    /\ errs[Len(errs)] = "limit"
    /\ Count(errs, {"limit"}) = 1

(* In whatever way a resolution goes wrong inside a placeable, the result  *)
(* has every isolation mark closed, in order.                              *)
Isolates(out) ==
  /\ \A n \in 0..Len(out) :
       Count(SubSeq(out, 1, n), {PDI}) <= Count(SubSeq(out, 1, n), {FSI})
  /\ Count(out, {PDI}) = Count(out, {FSI})

IsolationBalanced ==
  /\ ctl.m = "done" => Isolates(ctl.out)
  /\ ctl.m = "give" /\ ctl.v.k = "string" => Isolates(ctl.v.out)

(* The fallbacks the caller sees never outnumber the errors it gets        *)
(* (doc.go, FormatPattern), but for a term's undefined parameter and a     *)
(* term that has no value.                                                 *)
Reported(fallbacks) ==
  ctl.m = "done" => Count(ctl.out, {Fallback(m) : m \in fallbacks}) <= Len(errs)

FallbacksReported == Reported(Missing \ {"param", "null"})

(* Every problem is reported (doc.go), a term without a value included.    *)
NoValueReported == Reported(Missing \ {"param"})

(* No invalid NUMBER() option is lost: numbers rendered with one never     *)
(* outnumber the option errors, and one that only selects a variant has    *)
(* its error too.                                                          *)
OptionErrorsReported ==
  /\ ctl.m = "done" => Count(ctl.out, {"badnumber"}) <= Count(errs, {"option"})
  /\ \A k \in Calls("variants") :
       stack[k].sel.k = "number" /\ ~stack[k].sel.valid => Count(errs, {"option"}) > 0

(* The numbers in flight that carry an option error still to be reported:  *)
(* the value at hand, arguments already taken, what a select compares.     *)
Carriers ==
  {<<0, 0>> : c \in {x \in {ctl} : x.m = "give" /\ HasOptErr(x.v)}}
    \cup {<<k, 0>> : k \in {n \in Calls("variants") : HasOptErr(stack[n].sel)}}
    \cup UNION {{<<k, j>> : j \in {i \in DOMAIN stack[k].vals : HasOptErr(stack[k].vals[i])}} :
                  k \in Calls("args")}

(* An option error is reported at most once (reportOptErr reports it and   *)
(* clears it): it is in one number until a report takes it out, is never   *)
(* copied on the way through arguments, functions and selectors, and only  *)
(* NUMBER() makes a new one.                                               *)
OptErrs == Count(errs, {"option"}) + Cardinality(Carriers)

OptionErrorsOnce ==
  [][Running => OptErrs' <= OptErrs + IF CallNUMBER THEN 1 ELSE 0]_vars

(* Only a genuine runtime fault in user code escapes FormatPattern.        *)
OnlyFaultsEscape == ctl.m = "panic" => ctl.why = "fault"

(* A selector that matches no variant is a range error (ARCHITECTURE.md).  *)
NoMatchIsReported == [][NoVariantMatched => Len(errs') > Len(errs)]_vars

(* FormatPattern always comes back, cyclic references and concurrent       *)
(* overriding included.                                                    *)
AlwaysReturns == Running ~> ctl.m \in {"done", "panic"}

(* Why it does.  Between two placeables there is only so much work left:   *)
(* that of what ctl is about to do and of the calls around it, each of     *)
(* which has so many turns of its loop left once it has its value.         *)
ResolveCost == Size + 3

Cost[n \in 0..Size] ==                  \* of evaluating an expression of depth n
  IF n = 0 THEN 0 ELSE (Size + 1) * (Cost[n - 1] + 1) + Size + ResolveCost + 2

Left(s, i) == IF i <= Len(s) THEN Len(s) + 1 - i ELSE 0

(* What a call has left to do k elements or arguments further on. *)
Needs(fr, k) ==
  CASE fr.f = "complex"  -> Left(Elems(fr.p), fr.i + k) + 2
    [] fr.f = "args"     -> Left(fr.e.pos, Len(fr.vals) + 1 + k) * (Cost[Depth[fr.e] - 1] + 1)
                              + ResolveCost + 2
    [] fr.f = "term"     -> 1
    [] fr.f = "selector" -> Size + ResolveCost + 1
    [] fr.f = "variants" -> Left(fr.e.variants, fr.i) + ResolveCost + 1

Waiting(st) ==                          \* calls that wait for a value
  LET sum[k \in 0..Len(st)] == IF k = 0 THEN 0 ELSE sum[k - 1] + Needs(st[k], 1)
  IN  sum[Len(st)]

WorkLeft ==
  CASE ctl.m = "eval"     -> Cost[Depth[ctl.e]] + Waiting(stack)
    [] ctl.m = "resolve"  -> ResolveCost + Waiting(stack)
    [] ctl.m = "give"     -> 1 + Waiting(stack)
    [] ctl.m = "continue" -> Needs(Top, 0) + Waiting(Pop)
    [] OTHER              -> 0

(* Every step of the resolver counts a placeable, of which there are at    *)
(* most MaxPlaceables + 1, or leaves less work: whatever the patterns      *)
(* refer to, user code does and other goroutines add meanwhile, there is   *)
(* no cycle of calls that resolves no placeable and no loop that stands    *)
(* still, so a call is over after finitely many steps.                     *)
EveryStepCounts ==
  [][Running => \/ UNCHANGED <<ctl, stack, scope>>
                \/ placeables' > placeables
                \/ placeables' = placeables /\ WorkLeft' \in 0..WorkLeft - 1]_vars
-----------------------------------------------------------------------------
(* What the program, its caller and their code must be like for some of    *)
(* the properties above to hold.                                           *)

(* The text transform and a caller's own Value are not guarded: they do    *)
(* not panic with an ordinary value (the run unguarded_panic shows what    *)
(* happens when they do).                                                  *)
Guarded == "panic" \notin Outcomes.transform \cup Outcomes.custom

(* The texts of the program, of its caller and of custom functions close   *)
(* the marks they open.                                                    *)
IsoValue(v) == v.k = "string" => Isolates(v.out)

TextsIsolate ==
  /\ \A e \in Of({"literal"}) : IsoValue(e.v)
  /\ \A e \in Of({"term"}) : \A n \in DOMAIN e.named : IsoValue(e.named[n])
  /\ \A given \in ArgSets : \A n \in DOMAIN given : IsoValue(given[n])
  /\ \A v \in Results : IsoValue(v)

(* How many of the tokens X a value brings with it. *)
Weight(v, X) ==
  CASE v.k = "string" -> Count(v.out, X)
    [] v.k = "none" /\ Fallback(v.missing) \in X -> 1
    [] OTHER -> 0

(* Neither the program nor the caller's arguments nor what custom          *)
(* functions make contain the tokens X.                                    *)
NotGiven(X) ==
  /\ \A e \in Of({"literal"}) : Weight(e.v, X) = 0
  /\ \A e \in Of({"term"}) : \A n \in DOMAIN e.named : Weight(e.named[n], X) = 0
  /\ \A given \in ArgSets : \A n \in DOMAIN given : Weight(given[n], X) = 0
  /\ \A v \in Results : Weight(v, X) = 0

(* Fallbacks but for those of undefined parameters and absent values. *)
Fallbacks == {Fallback(m) : m \in Missing \ {"param", "null"}}

(* No number is given with its option error already lost. *)
Faultless(v) == v.k = "number" => v.valid

OptionsGiven ==
  /\ \A e \in Of({"literal"}) : Faultless(e.v)
  /\ \A e \in Of({"term"}) : \A n \in DOMAIN e.named : Faultless(e.named[n])
  /\ \A given \in ArgSets : \A n \in DOMAIN given :
       given[n] # Unsupported => Faultless(given[n])
  /\ \A v \in Results : Faultless(v)

(* No number is given with an option error to report: the field is not     *)
(* exported, so only NUMBER() sets it.                                     *)
NumbersFresh ==
  /\ \A e \in Of({"literal"}) : ~HasOptErr(e.v)
  /\ \A e \in Of({"term"}) : \A n \in DOMAIN e.named : ~HasOptErr(e.named[n])
  /\ \A given \in ArgSets : \A n \in DOMAIN given : ~HasOptErr(given[n])
  /\ \A v \in Results : ~HasOptErr(v)

(* The program calls NUMBER() with no number that NUMBER() or a custom     *)
(* function returned (the run nested_number shows what happens when it     *)
(* does).                                                                  *)
Direct(e) == e.t = "function" => e.name = "DATETIME" /\ "DATETIME" \notin Functions
NumbersOnce ==
  \A e \in Of({"function"}) : e.name = "NUMBER" /\ e.pos # << >> => Direct(e.pos[1])
=============================================================================
