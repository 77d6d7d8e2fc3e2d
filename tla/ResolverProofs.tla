--------------------------- MODULE ResolverProofs ---------------------------
(* Theorems about the resolver, for any patterns, expressions and entries, *)
(* any resources other goroutines add, and any behaviour of user code.     *)
EXTENDS Resolver, EntriesProofs, SequenceTheorems, FiniteSetTheorems, FunctionTheorems

(* Between two calls nothing is left of the last one, and while one runs   *)
(* it is within the limit.                                                 *)
CallInv ==
  /\ TypeOK
  /\ ctl = Idle => stack = << >>
  /\ Running => placeables <= MaxPlaceables

-----------------------------------------------------------------------------
(* The stack *)
LEMMA PushIs ==
  ASSUME NEW S, NEW st \in Seq(S), NEW fr \in S
  PROVE  /\ Append(st, fr) \in Seq(S)
         /\ Len(st) \in Nat /\ DOMAIN st = 1..Len(st)
         /\ DOMAIN Append(st, fr) = 1..Len(st) + 1
         /\ \A n \in DOMAIN st : Append(st, fr)[n] = st[n]
         /\ Append(st, fr)[Len(st) + 1] = fr
OBVIOUS

LEMMA PopIs ==
  ASSUME NEW S, NEW st \in Seq(S), st # << >>
  PROVE  /\ SubSeq(st, 1, Len(st) - 1) \in Seq(S)
         /\ Len(st) \in Nat \ {0} /\ DOMAIN st = 1..Len(st)
         /\ DOMAIN SubSeq(st, 1, Len(st) - 1) = 1..Len(st) - 1
         /\ \A n \in 1..Len(st) - 1 : SubSeq(st, 1, Len(st) - 1)[n] = st[n]
         /\ st[Len(st)] \in S
<1>1. Len(st) \in Nat \ {0} /\ DOMAIN st = 1..Len(st)  BY EmptySeq, LenProperties
<1>2. st[Len(st)] \in S  BY <1>1, ElementOfSeq
<1>3. \A i \in 1..Len(st) - 1 : st[i] \in S  BY <1>1, ElementOfSeq
<1>4. /\ SubSeq(st, 1, Len(st) - 1) \in Seq(S)
      /\ Len(SubSeq(st, 1, Len(st) - 1)) = Len(st) - 1
      /\ \A i \in 1..Len(st) - 1 : SubSeq(st, 1, Len(st) - 1)[i] = st[i]
  <2> DEFINE n == Len(st) - 1
  <2>1. n \in Nat  BY <1>1
  <2>2. \A i \in 1..n : st[i] \in S  BY <1>3
  <2> HIDE DEF n
  <2>3. /\ SubSeq(st, 1, n) \in Seq(S)
        /\ Len(SubSeq(st, 1, n)) = IF 1 <= n THEN n - 1 + 1 ELSE 0
        /\ \A i \in 1..n - 1 + 1 : SubSeq(st, 1, n)[i] = st[1 + i - 1]
    BY <2>1, <2>2, SubSeqProperties
  <2>4. /\ SubSeq(st, 1, n) \in Seq(S)
        /\ Len(SubSeq(st, 1, n)) = n
        /\ \A i \in 1..n : SubSeq(st, 1, n)[i] = st[i]
    BY <2>1, <2>3
  <2> QED  BY <2>4 DEF n
<1> QED  BY <1>1, <1>2, <1>4, LenProperties

LEMMA ReplaceIs ==
  ASSUME NEW S, NEW st \in Seq(S), st # << >>, NEW fr \in S
  PROVE  /\ [st EXCEPT ![Len(st)] = fr] \in Seq(S)
         /\ Len(st) \in Nat \ {0} /\ DOMAIN st = 1..Len(st)
         /\ DOMAIN [st EXCEPT ![Len(st)] = fr] = 1..Len(st)
         /\ \A n \in 1..Len(st) - 1 : [st EXCEPT ![Len(st)] = fr][n] = st[n]
         /\ [st EXCEPT ![Len(st)] = fr][Len(st)] = fr
         /\ st[Len(st)] \in S
<1>1. Len(st) \in Nat \ {0} /\ DOMAIN st = 1..Len(st)  BY EmptySeq, LenProperties
<1>2. Len(st) \in 1..Len(st)  BY <1>1
<1>3. [st EXCEPT ![Len(st)] = fr] \in Seq(S)  BY <1>2, ExceptSeq
<1>4. st[Len(st)] \in S  BY <1>2, ElementOfSeq
<1> DEFINE new == [st EXCEPT ![Len(st)] = fr]
<1>5. DOMAIN new = 1..Len(st)  BY <1>1
<1>6. new[Len(st)] = fr  BY <1>1, <1>2
<1>7. ASSUME NEW n \in 1..Len(st) - 1 PROVE new[n] = st[n]
  <2>1. \A k \in Nat : \A j \in 1..k - 1 : j \in 1..k /\ j # k  OBVIOUS
  <2>2. n \in 1..Len(st) /\ n # Len(st)  BY <1>1, <2>1
  <2> QED  BY <1>1, <2>2
<1> QED  BY <1>1, <1>3, <1>4, <1>5, <1>6, <1>7

-----------------------------------------------------------------------------
(* Values and frames *)
LEMMA ValuesTyped ==
  /\ \A out \in Seq(Tokens) : Str(out) \in Values
  /\ \A m \in Missing : None(m) \in Values
  /\ \A n \in Int, o, v \in BOOLEAN : Num(n, o, v) \in Values
  /\ \A n \in Int : DateTime(n) \in Values
  /\ \A v \in Values :
       /\ v # Unsupported
       /\ v.k \in {"string", "none", "number", "datetime", "custom"}
       /\ v.k = "string" => v.out \in Seq(Tokens)
       /\ v.k = "none" => v.missing \in Missing
       /\ v.k = "number" => v.n \in Int /\ v.optErr \in BOOLEAN /\ v.valid \in BOOLEAN
       /\ v.k = "datetime" => v.n \in Int
BY DEF Values, Str, None, Num, DateTime, Custom, Unsupported

LEMMA TokensTyped ==
  /\ \A m \in Missing : Fallback(m) \in Tokens
  /\ {FSI, PDI, "text", "number", "badnumber", "datetime", "custom"} \subseteq Tokens
BY DEF Tokens

LEMMA RenderedTyped ==
  ASSUME NEW v \in Values
  PROVE  Rendered(v) \in Seq(Tokens)
<1>1. \A t \in Tokens : <<t>> \in Seq(Tokens)  OBVIOUS
<1> QED  BY <1>1, ValuesTyped, TokensTyped DEF Rendered

LEMMA FramesTyped ==
  \A fr \in Frames :
    /\ fr.f \in {"complex", "args", "term", "selector", "variants"}
    /\ fr.f = "complex" => /\ fr.p \in Patterns /\ IsComplex(fr.p)
                           /\ fr.i \in Nat \ {0} /\ fr.out \in Seq(Tokens)
    /\ fr.f = "args" => /\ fr.e \in Of({"term", "function"})
                        /\ fr.p \in Patterns \cup {NoPattern}
                        /\ fr.vals \in Seq(Values)
    /\ fr.f = "term" => fr.e \in Of({"term"})
    /\ fr.f = "selector" => fr.e \in Of({"select"})
    /\ fr.f = "variants" => fr.e \in Of({"select"}) /\ fr.sel \in Values /\ fr.i \in Nat \ {0}
BY DEF Frames

LEMMA FrameChanged ==
  ASSUME NEW fr \in Frames
  PROVE  /\ fr.f = "complex" =>
              \A out \in Seq(Tokens), i \in Nat \ {0} :
                /\ [fr EXCEPT !.out = out] \in Frames
                /\ [fr EXCEPT !.i = i, !.out = out] \in Frames
         /\ fr.f = "args" => \A vals \in Seq(Values) : [fr EXCEPT !.vals = vals] \in Frames
         /\ fr.f = "variants" => \A i \in Nat \ {0} : [fr EXCEPT !.i = i] \in Frames
<1>1. ASSUME fr.f = "complex", NEW out \in Seq(Tokens), NEW i \in Nat \ {0}
      PROVE  /\ [fr EXCEPT !.out = out] \in Frames
             /\ [fr EXCEPT !.i = i, !.out = out] \in Frames
  <2> DEFINE F == [f : {"complex"}, p : {q \in Patterns : IsComplex(q)},
                   i : Nat \ {0}, out : Seq(Tokens)]
  <2>1. fr \in F  BY <1>1 DEF Frames
  <2>2. [fr EXCEPT !.out = out] \in F /\ [fr EXCEPT !.i = i, !.out = out] \in F  BY <2>1
  <2> QED  BY <2>2 DEF Frames
<1>2. ASSUME fr.f = "args", NEW vals \in Seq(Values)
      PROVE  [fr EXCEPT !.vals = vals] \in Frames
  <2> DEFINE F == [f : {"args"}, e : Of({"term", "function"}),
                   p : Patterns \cup {NoPattern}, vals : Seq(Values)]
  <2>1. fr \in F  BY <1>2 DEF Frames
  <2>2. [fr EXCEPT !.vals = vals] \in F  BY <2>1
  <2> QED  BY <2>2 DEF Frames
<1>3. ASSUME fr.f = "variants", NEW i \in Nat \ {0}
      PROVE  [fr EXCEPT !.i = i] \in Frames
  <2> DEFINE F == [f : {"variants"}, e : Of({"select"}), sel : Values, i : Nat \ {0}]
  <2>1. fr \in F  BY <1>3 DEF Frames
  <2>2. [fr EXCEPT !.i = i] \in F  BY <2>1
  <2> QED  BY <2>2 DEF Frames
<1> QED  BY <1>1, <1>2, <1>3

LEMMA TopIs ==
  ASSUME TypeOK, stack # << >>
  PROVE  Top \in Frames
BY PopIs DEF TypeOK, Top


LEMMA ControlsTyped ==
  /\ Idle \in Controls /\ Continue \in Controls
  /\ \A e \in Exprs : Eval(e) \in Controls
  /\ \A p \in Patterns \cup {NoPattern} : Resolve(p) \in Controls
  /\ \A v \in Values : Give(v) \in Controls
  /\ \A out \in Seq(Tokens) : Done(out) \in Controls
  /\ \A o \in {"panic", "fault"} : Panic(o) \in Controls
  /\ \A c \in Controls :
       /\ c.m = "eval" => c.e \in Exprs
       /\ c.m = "resolve" => c.p \in Patterns \cup {NoPattern}
       /\ c.m = "give" => c.v \in Values
       /\ c.m = "done" => c.out \in Seq(Tokens)
BY DEF Controls, Idle, Continue, Eval, Resolve, Give, Done, Panic

LEMMA ModesAre ==
  /\ Idle.m = "idle" /\ Continue.m = "continue"
  /\ \A x : /\ Eval(x).m = "eval" /\ Resolve(x).m = "resolve" /\ Give(x).m = "give"
           /\ Done(x).m = "done" /\ Panic(x).m = "panic"
           /\ Resolve(x).p = x
BY DEF Idle, Continue, Eval, Resolve, Give, Done, Panic

LEMMA FramesAre ==
  /\ \A p \in Patterns : IsComplex(p) => ComplexFrame(p) \in Frames
  /\ \A e \in Of({"term", "function"}), p \in Patterns \cup {NoPattern} :
       ArgsFrame(e, p) \in Frames
  /\ \A e \in Of({"term"}) : TermFrame(e) \in Frames
  /\ \A e \in Of({"select"}) : SelectorFrame(e) \in Frames
  /\ \A e \in Of({"select"}), v \in Values : VariantFrame(e, v) \in Frames
<1>1. << >> \in Seq(Tokens) /\ << >> \in Seq(Values) /\ 1 \in Nat \ {0}  OBVIOUS
<1> QED  BY <1>1 DEF Frames, ComplexFrame, ArgsFrame, TermFrame, SelectorFrame, VariantFrame

LEMMA MissedTyped ==
  ASSUME TypeOK, NEW err \in Errors, NEW missing \in Missing, Missed(err, missing)
  PROVE  errs' \in Seq(Errors) /\ ctl' \in Controls /\ ctl'.m = "give"
BY ControlsTyped, ModesAre, ValuesTyped DEF TypeOK, Missed, Report

LEMMA ReportTyped ==
  ASSUME TypeOK, NEW err \in Errors, Report(err)
  PROVE  errs' \in Seq(Errors)
BY DEF TypeOK, Report

(* The pattern an entry's value or attribute names. *)
LEMMA NamedTyped ==
  ASSUME TypeOK, NEW kind \in Kinds, NEW id \in Ids, defs[kind][id] # Absent, NEW attr,
         attr # "" => attr \in DOMAIN defs[kind][id].attrs
  PROVE  Named(defs[kind][id], attr) \in Patterns \cup {NoPattern}
<1>1. defs[kind][id] \in Defs  BY DEF TypeOK
<1> QED  BY <1>1, ProgramAssumption DEF Named

LEMMA NumberTyped ==
  ASSUME NEW vals \in Seq(Values), NEW named
  PROVE  LET r == NumberResult(vals, named) IN
         IF r.ok THEN r.v \in Values ELSE r.err \in {"type"}
<1> DEFINE v == vals[1]
           valid == ValidOptions(named)
<1>1. valid \in BOOLEAN  BY DEF ValidOptions, IntOption
<1>4. \A a, b \in BOOLEAN : (~a) \in BOOLEAN /\ (a /\ b) \in BOOLEAN  OBVIOUS
<1>2. CASE vals = << >>  BY <1>2 DEF NumberResult, Fails
<1>3. CASE vals # << >>
  <2>1. v \in Values
    <3>1. 1 \in 1..Len(vals)  BY <1>3
    <3> QED  BY <3>1, ElementOfSeq
  <2>2. CASE v.k = "none"  BY <1>3, <2>1, <2>2 DEF NumberResult, Made
  <2>3. CASE v.k = "number"
    <3>1. NumberResult(vals, named) = Made(Num(v.n, ~valid, valid /\ v.valid))
      BY <1>3, <2>3 DEF NumberResult
    <3>2. v.n \in Int /\ v.valid \in BOOLEAN  BY <2>1, <2>3, ValuesTyped
    <3> HIDE DEF valid, v
    <3>3. (~valid) \in BOOLEAN /\ (valid /\ v.valid) \in BOOLEAN  BY <1>1, <1>4, <3>2, Zenon
    <3>4. Num(v.n, ~valid, valid /\ v.valid) \in Values  BY <3>2, <3>3, ValuesTyped, Zenon
    <3> QED  BY <3>1, <3>4 DEF Made
  <2>4. CASE v.k = "datetime"
    <3>1. NumberResult(vals, named) = Made(Num(v.n, ~valid, valid))
      BY <1>3, <2>4 DEF NumberResult
    <3>2. v.n \in Int  BY <2>1, <2>4, ValuesTyped
    <3> HIDE DEF valid, v
    <3>3. (~valid) \in BOOLEAN  BY <1>1, <1>4, Zenon
    <3>4. Num(v.n, ~valid, valid) \in Values  BY <1>1, <3>2, <3>3, ValuesTyped, Zenon
    <3> QED  BY <3>1, <3>4 DEF Made
  <2>5. CASE v.k \notin {"none", "number", "datetime"}
    BY <1>3, <2>5 DEF NumberResult, Fails
  <2> QED  BY <2>2, <2>3, <2>4, <2>5
<1> QED  BY <1>2, <1>3

LEMMA DateTimeTyped ==
  ASSUME NEW vals \in Seq(Values), NEW named
  PROVE  LET r == DateTimeResult(vals, named) IN
         IF r.ok THEN r.v \in Values ELSE r.err \in {"type", "range"}
<1> DEFINE v == vals[1]
<1>1. CASE vals = << >>  BY <1>1 DEF DateTimeResult, Fails
<1>2. CASE vals # << >>
  <2>1. v \in Values
    <3>1. 1 \in 1..Len(vals)  BY <1>2
    <3> QED  BY <3>1, ElementOfSeq
  <2>2. CASE v.k = "none"  BY <1>2, <2>1, <2>2 DEF DateTimeResult, Made
  <2>3. CASE v.k \in {"datetime", "number"}
    <3>1. DateTime(v.n) \in Values  BY <2>1, <2>3, ValuesTyped
    <3>2. DateTimeResult(vals, named) =
            IF (v.k = "number" => IsTime(v.n)) /\ ValidTimeOptions(named)
              THEN Made(DateTime(v.n)) ELSE Fails("range")
      BY <1>2, <2>3 DEF DateTimeResult
    <3> QED  BY <3>1, <3>2 DEF Made, Fails
  <2>4. CASE v.k \notin {"none", "datetime", "number"}
    BY <1>2, <2>4 DEF DateTimeResult, Fails
  <2> QED  BY <2>2, <2>3, <2>4
<1> QED  BY <1>1, <1>2

-----------------------------------------------------------------------------
LEMMA InitCall == Init => CallInv
<1> SUFFICES ASSUME Init PROVE CallInv  OBVIOUS
<1>1. << >> \in Seq(Frames) /\ << >> \in Seq(Errors)  OBVIOUS
<1>2. defs \in [Kinds -> [Ids -> Defs \cup {Absent}]]  BY ProgramAssumption DEF Init
<1>3. 0 \in 0..MaxPlaceables + 1  BY ResolverAssumption
<1> QED  BY <1>1, <1>2, <1>3, ControlsTyped, ModesAre DEF Init, CallInv, TypeOK, Running

LEMMA OthersAdd == CallInv /\ AddResource => CallInv'
<1> SUFFICES ASSUME CallInv, AddResource PROVE CallInv'  OBVIOUS
<1>1. PICK res \in Resources, override \in Overriding : defs' = Applied(defs, res, 1, override)
  BY DEF AddResource
<1>2. defs' \in [Kinds -> [Ids -> Defs \cup {Absent}]]
  <2>1. res \in Seq([kind : Kinds, id : Ids, def : Defs])  BY ProgramAssumption
  <2>2. defs \in [Kinds -> [Ids -> Defs \cup {Absent}]]  BY DEF CallInv, TypeOK
  <2>3. 1 \in Nat \ {0}  OBVIOUS
  <2> QED  BY <1>1, <2>1, <2>2, <2>3, AppliedTyped
<1>3. UNCHANGED <<ctl, stack, errs, args, dirty, params, placeables>>
  BY DEF AddResource, scope
<1> QED  BY <1>2, <1>3 DEF CallInv, TypeOK, Running

(* FormatPattern, its return, and patterns without placeables. *)
LEMMA CallsTyped == CallInv /\ (Call \/ Finish \/ Return) => CallInv'
<1> SUFFICES ASSUME CallInv, Call \/ Finish \/ Return PROVE CallInv'  OBVIOUS
<1> USE DEF CallInv, TypeOK, Running
<1>1. << >> \in Seq(Frames) /\ << >> \in Seq(Errors) /\ {} \subseteq Patterns  OBVIOUS
<1>2. 0 \in 0..MaxPlaceables + 1 /\ 0 <= MaxPlaceables  BY ResolverAssumption
<1>3. ASSUME NEW reported \in Seq(Errors), NewScope(reported)
      PROVE  /\ errs' \in Seq(Errors) /\ args' \in ArgSets /\ dirty' \subseteq Patterns
             /\ params' = NoParams /\ placeables' = 0
  BY <1>3 DEF NewScope
<1>4. CASE FormatText
  <2>1. ctl' \in Controls /\ ctl'.m \in {"done", "panic"}
    <3>1. <<"text">> \in Seq(Tokens)  BY TokensTyped
    <3>2. PICK o \in Outcomes.transform :
            ctl' = IF o = "ok" THEN Done(<<"text">>) ELSE Panic(o)
      BY <1>4 DEF FormatText
    <3>3. o \in {"ok", "panic", "fault"}  BY ProgramAssumption
    <3> QED  BY <3>1, <3>2, <3>3, ControlsTyped, ModesAre
  <2> QED  BY <1>1, <1>2, <1>3, <1>4, <2>1, ModesAre DEF FormatText
<1>5. CASE FormatNil
  <2>1. ctl' \in Controls /\ ctl'.m = "done"
    <3>1. Rendered(None("null")) \in Seq(Tokens)
      BY ValuesTyped, RenderedTyped DEF Missing
    <3> QED  BY <1>5, <3>1, ControlsTyped, ModesAre DEF FormatNil
  <2>2. <<"type">> \in Seq(Errors)  BY DEF Errors
  <2> QED  BY <1>2, <1>3, <1>5, <2>1, <2>2, ModesAre DEF FormatNil
<1>6. CASE FormatComplex
  <2>1. ctl' \in Controls /\ ctl'.m = "resolve"
    BY <1>6, ResolverAssumption, ControlsTyped, ModesAre DEF FormatComplex
  <2> QED  BY <1>1, <1>2, <1>3, <1>6, <2>1, ModesAre DEF FormatComplex
<1>7. CASE Finish
  <2>1. ctl' \in Controls /\ ctl'.m = "done"
    <3>1. ctl.v \in Values  BY <1>7, ControlsTyped DEF Finish
    <3> QED  BY <1>7, <3>1, RenderedTyped, ControlsTyped, ModesAre DEF Finish
  <2> QED  BY <1>7, <2>1, ModesAre DEF Finish, scope
<1>8. CASE Return
  BY <1>1, <1>2, <1>8, ControlsTyped, ModesAre DEF Return
<1> QED  BY <1>4, <1>5, <1>6, <1>7, <1>8 DEF Call

(* resolvePattern and the loop over a pattern's elements. *)
LEMMA PatternsTyped ==
  ASSUME CallInv,
         \/ ResolveNil \/ ResolveText \/ ResolveCyclic \/ ResolveComplex
         \/ AppendText \/ ExpandPlaceable \/ TooManyPlaceables \/ WritePlaceable
         \/ FinishPattern
  PROVE  CallInv'
<1> USE DEF CallInv, TypeOK, Running
<1>1. /\ stack \in Seq(Frames) /\ errs \in Seq(Errors) /\ ctl \in Controls
      /\ placeables \in 0..MaxPlaceables + 1 /\ MaxPlaceables \in Nat
  BY ResolverAssumption
<1>2. CASE ResolveNil
  <2>1. ctl' \in Controls /\ ctl'.m = "give" /\ ctl.m = "resolve"
    BY <1>2, ControlsTyped, ModesAre, ValuesTyped DEF ResolveNil, Missing
  <2> QED  BY <1>1, <1>2, <2>1, ModesAre DEF ResolveNil, scope
<1>3. CASE ResolveText
  <2>1. ctl' \in Controls /\ ctl'.m \in {"give", "panic"}
    <3>1. <<"text">> \in Seq(Tokens)  BY TokensTyped
    <3>2. PICK o \in Outcomes.transform :
            ctl' = IF o = "ok" THEN Give(Str(<<"text">>)) ELSE Panic(o)
      BY <1>3 DEF ResolveText
    <3>3. o \in {"ok", "panic", "fault"}  BY ProgramAssumption
    <3> QED  BY <3>1, <3>2, <3>3, ValuesTyped, ControlsTyped, ModesAre
  <2> QED  BY <1>1, <1>3, <2>1, ModesAre DEF ResolveText, scope
<1>4. CASE ResolveCyclic
  <2>1. errs' \in Seq(Errors) /\ ctl' \in Controls /\ ctl'.m = "give"
    BY <1>4, MissedTyped DEF ResolveCyclic, Errors, Missing
  <2> QED  BY <1>1, <1>4, <2>1, ModesAre DEF ResolveCyclic
<1>5. CASE ResolveComplex
  <2>1. ctl.p \in Patterns /\ IsComplex(ctl.p)
    BY <1>1, <1>5, ControlsTyped DEF ResolveComplex, IsComplex
  <2>2. stack' \in Seq(Frames)
    <3>1. ComplexFrame(ctl.p) \in Frames  BY <2>1, FramesAre
    <3> QED  BY <1>1, <1>5, <3>1, PushIs DEF ResolveComplex, Push
  <2>3. dirty' \subseteq Patterns  BY <1>5, <2>1 DEF ResolveComplex, Key
  <2> QED  BY <1>1, <1>5, <2>2, <2>3, ControlsTyped, ModesAre DEF ResolveComplex
<1>6. CASE AppendText
  <2>1. stack # << >> /\ Top.f = "complex" /\ Top \in Frames
    BY <1>6, TopIs DEF AppendText, AtElement, In
  <2>2. PICK o \in Outcomes.transform :
          IF o = "ok"
            THEN /\ stack' = ToTop([Top EXCEPT !.i = @ + 1, !.out = Append(@, "text")])
                 /\ UNCHANGED ctl
            ELSE /\ ctl' = Panic(o)
                 /\ UNCHANGED stack
    BY <1>6 DEF AppendText
  <2>3. o \in {"ok", "panic", "fault"}  BY ProgramAssumption
  <2>4. [Top EXCEPT !.i = @ + 1, !.out = Append(@, "text")] \in Frames
    <3>1. Append(Top.out, "text") \in Seq(Tokens) /\ Top.i + 1 \in Nat \ {0}
      BY <2>1, FramesTyped, TokensTyped
    <3> QED  BY <2>1, <3>1, FrameChanged
  <2>5. stack' \in Seq(Frames)  BY <1>1, <2>1, <2>2, <2>4, ReplaceIs DEF ToTop
  <2>6. ctl' \in Controls /\ (ctl'.m = "panic" \/ UNCHANGED ctl) /\ ctl = Continue
    BY <1>1, <1>6, <2>2, <2>3, ControlsTyped, ModesAre DEF AppendText, AtElement
  <2> QED  BY <1>1, <1>6, <2>5, <2>6, ModesAre DEF AppendText, scope
<1>7. CASE ExpandPlaceable
  <2>1. stack # << >> /\ Top.f = "complex" /\ Top \in Frames /\ ctl = Continue
    BY <1>7, TopIs DEF ExpandPlaceable, AtPlaceable, AtElement, In
  <2>2. /\ Top.p \in Patterns /\ IsComplex(Top.p) /\ Top.i \in Nat \ {0}
        /\ Top.i <= Len(Elems(Top.p)) /\ Elems(Top.p)[Top.i] # Text
    BY <1>7, <2>1, FramesTyped DEF ExpandPlaceable, AtPlaceable, AtElement
  <2>3. Elems(Top.p)[Top.i] \in Exprs
    <3>1. Elems(Top.p) \in Seq(Exprs \cup {Text})
      BY <2>2, ResolverAssumption DEF IsComplex, Text
    <3>2. Top.i \in 1..Len(Elems(Top.p))  BY <2>2, <3>1
    <3> QED  BY <2>2, <3>1, <3>2, ElementOfSeq
  <2>4. stack' \in Seq(Frames)
    <3>1. [Top EXCEPT !.out = Append(@, FSI)] \in Frames
      <4>1. Append(Top.out, FSI) \in Seq(Tokens)  BY <2>1, FramesTyped, TokensTyped
      <4>2. 1 \in Nat \ {0}  OBVIOUS
      <4> QED  BY <2>1, <4>1, <4>2, FrameChanged
    <3>2. ToTop([Top EXCEPT !.out = Append(@, FSI)]) \in Seq(Frames)
      BY <1>1, <2>1, <3>1, ReplaceIs DEF ToTop
    <3> QED  BY <1>1, <1>7, <3>2 DEF ExpandPlaceable
  <2>5. ctl' \in Controls /\ ctl'.m = "eval"
    BY <1>7, <2>3, ControlsTyped, ModesAre DEF ExpandPlaceable
  <2>6. placeables' \in 0..MaxPlaceables + 1 /\ placeables' <= MaxPlaceables
    BY <1>1, <1>7 DEF ExpandPlaceable, OverLimit, Counted
  <2> QED  BY <1>1, <1>7, <2>4, <2>5, <2>6, ModesAre DEF ExpandPlaceable
<1>8. CASE TooManyPlaceables
  <2>1. ctl' \in Controls /\ ctl'.m = "done"
    <3>1. Rendered(None("limit")) \in Seq(Tokens)
      BY ValuesTyped, RenderedTyped DEF Missing
    <3> QED  BY <1>8, <3>1, ControlsTyped, ModesAre DEF TooManyPlaceables
  <2>2. errs' \in Seq(Errors)  BY <1>8, ReportTyped DEF TooManyPlaceables, Errors
  <2>3. placeables' \in 0..MaxPlaceables + 1
    BY <1>1, <1>8, ModesAre DEF TooManyPlaceables, AtPlaceable, AtElement, Counted
  <2>4. << >> \in Seq(Frames)  OBVIOUS
  <2> QED  BY <1>1, <1>8, <2>1, <2>2, <2>3, <2>4, ModesAre DEF TooManyPlaceables
<1>9. CASE WritePlaceable
  <2>1. stack # << >> /\ Top.f = "complex" /\ Top \in Frames
    BY <1>9, TopIs DEF WritePlaceable, In
  <2>2. ctl.v \in Values /\ ctl.m = "give"
    BY <1>1, <1>9, ControlsTyped DEF WritePlaceable
  <2>3. PICK o \in Formatting(ctl.v) :
          IF Unrecovered(o, ctl.v)
            THEN ctl' = Panic(o) /\ UNCHANGED <<stack, errs>>
            ELSE /\ stack' = ToTop([Top EXCEPT !.i = @ + 1,
                                   !.out = @ \o Rendered(ctl.v) \o Close(ctl.v)])
                 /\ \/ o = "panic" /\ Report("extension")
                    \/ o = "ok" /\ HasOptErr(ctl.v) /\ Report("option")
                    \/ o = "ok" /\ ~HasOptErr(ctl.v) /\ UNCHANGED errs
                 /\ ctl' = Continue
    BY <1>9 DEF WritePlaceable
  <2>4. /\ ctl' \in Controls /\ ctl'.m \in {"panic", "continue"}
        /\ stack' \in Seq(Frames) /\ errs' \in Seq(Errors)
    <3>1. CASE Unrecovered(o, ctl.v)
      BY <1>1, <2>3, <3>1, ControlsTyped, ModesAre DEF Unrecovered
    <3>2. CASE ~Unrecovered(o, ctl.v)
      <4>1. Rendered(ctl.v) \in Seq(Tokens)  BY <2>2, RenderedTyped
      <4>2. Close(ctl.v) \in Seq(Tokens)
        <5>1. << >> \in Seq(Tokens) /\ <<PDI>> \in Seq(Tokens)  BY TokensTyped
        <5> QED  BY <5>1 DEF Close
      <4> DEFINE out == Top.out \o Rendered(ctl.v) \o Close(ctl.v)
      <4>3. out \in Seq(Tokens)
        <5>1. Top.out \in Seq(Tokens)  BY <2>1, FramesTyped
        <5> QED  BY <4>1, <4>2, <5>1, ConcatProperties
      <4> HIDE DEF out
      <4>4. [Top EXCEPT !.i = @ + 1, !.out = out] \in Frames
        <5>1. Top.i + 1 \in Nat \ {0}  BY <2>1, FramesTyped
        <5> QED  BY <2>1, <4>3, <5>1, FrameChanged
      <4>5. stack' = ToTop([Top EXCEPT !.i = @ + 1, !.out = out])
        BY <2>3, <3>2 DEF out
      <4>6. stack' \in Seq(Frames)  BY <1>1, <2>1, <4>4, <4>5, ReplaceIs DEF ToTop
      <4>7. errs' \in Seq(Errors)  BY <1>1, <2>3, <3>2, ReportTyped DEF Errors
      <4>8. ctl' = Continue  BY <2>3, <3>2
      <4> QED  BY <4>6, <4>7, <4>8, ControlsTyped, ModesAre
    <3> QED  BY <3>1, <3>2
  <2> QED  BY <1>1, <1>9, <2>2, <2>4, ModesAre DEF WritePlaceable
<1>10. CASE FinishPattern
  <2>1. stack # << >> /\ Top.f = "complex" /\ Top \in Frames /\ ctl = Continue
    BY <1>10, TopIs DEF FinishPattern, In
  <2>2. stack' \in Seq(Frames)  BY <1>1, <1>10, <2>1, PopIs DEF FinishPattern, Pop
  <2>3. ctl' \in Controls /\ ctl'.m = "give"
    BY <1>10, <2>1, FramesTyped, ValuesTyped, ControlsTyped, ModesAre DEF FinishPattern
  <2>4. dirty' \subseteq Patterns  BY <1>10 DEF FinishPattern, Unmark
  <2> QED  BY <1>1, <1>10, <2>1, <2>2, <2>3, <2>4, ModesAre DEF FinishPattern
<1> QED  BY <1>2, <1>3, <1>4, <1>5, <1>6, <1>7, <1>8, <1>9, <1>10

(* resolveExpression. *)
LEMMA ExpressionsTyped ==
  ASSUME CallInv,
         \/ EvalLiteral \/ EvalParameter \/ EvalArgument \/ EvalMessage
         \/ EvalTerm \/ EvalFunction \/ EvalSelect
  PROVE  CallInv'
<1> USE DEF CallInv, TypeOK, Running
<1>1. /\ stack \in Seq(Frames) /\ errs \in Seq(Errors) /\ ctl \in Controls
      /\ placeables \in 0..MaxPlaceables + 1 /\ MaxPlaceables \in Nat
  BY ResolverAssumption
<1>2. ctl.m = "eval" /\ ctl.e \in Exprs /\ placeables <= MaxPlaceables
  BY <1>1, ControlsTyped DEF EvalLiteral, EvalParameter, EvalArgument, EvalMessage,
     EvalTerm, EvalFunction, EvalSelect, At
<1>3. CASE EvalLiteral
  <2>1. ctl.e.v \in Values  BY <1>2, <1>3, ProgramAssumption DEF EvalLiteral, At, Of
  <2>2. ctl' \in Controls /\ ctl'.m = "give"
    BY <1>3, <2>1, ControlsTyped, ModesAre DEF EvalLiteral
  <2> QED  BY <1>1, <1>2, <1>3, <2>2, ModesAre DEF EvalLiteral, scope
<1>4. CASE EvalParameter
  <2>1. ctl.e.name \in DOMAIN params => params[ctl.e.name] \in Values
    BY <1>4, ProgramAssumption DEF EvalParameter, Of
  <2>2. ctl' \in Controls /\ ctl'.m = "give"
    BY <1>4, <2>1, ValuesTyped, ControlsTyped, ModesAre DEF EvalParameter, Missing
  <2> QED  BY <1>1, <1>2, <1>4, <2>2, ModesAre DEF EvalParameter, scope
<1>5. CASE EvalArgument
  <2>1. ctl' \in Controls /\ ctl'.m = "give" /\ errs' \in Seq(Errors)
    <3>1. CASE Missed("reference", "variable") \/ Missed("type", "variable")
      BY <1>5, <3>1, MissedTyped DEF Errors, Missing
    <3>2. CASE /\ ctl.e.name \in DOMAIN args /\ args[ctl.e.name] # Unsupported
               /\ ctl' = Give(args[ctl.e.name]) /\ UNCHANGED errs
      <4>1. args[ctl.e.name] \in Values  BY <3>2, ProgramAssumption
      <4> QED  BY <1>1, <3>2, <4>1, ControlsTyped, ModesAre
    <3> QED  BY <1>5, <3>1, <3>2 DEF EvalArgument
  <2> QED  BY <1>1, <1>2, <1>5, <2>1, ModesAre DEF EvalArgument
<1>6. CASE EvalMessage
  <2> DEFINE def == defs["message"][ctl.e.name]
             attr == ctl.e.attr
  <2>1. ctl.e.name \in Ids /\ "message" \in Kinds
    BY <1>2, <1>6, ProgramAssumption DEF EvalMessage, At, Of, Kinds
  <2>2. ctl' \in Controls /\ ctl'.m \in {"give", "resolve"} /\ errs' \in Seq(Errors)
    <3>1. CASE Missed("reference", "message")
      BY <3>1, MissedTyped DEF Errors, Missing
    <3>2. CASE /\ def # Absent /\ (attr # "" => attr \in DOMAIN def.attrs)
               /\ ctl' = Resolve(Named(def, attr)) /\ UNCHANGED errs
      <4>1. Named(def, attr) \in Patterns \cup {NoPattern}  BY <2>1, <3>2, NamedTyped
      <4> QED  BY <1>1, <3>2, <4>1, ControlsTyped, ModesAre
    <3> QED  BY <1>6, <3>1, <3>2 DEF EvalMessage
  <2> QED  BY <1>1, <1>2, <1>6, <2>2, ModesAre DEF EvalMessage
<1>7. CASE EvalTerm
  <2> DEFINE def == defs["term"][ctl.e.name]
             attr == ctl.e.attr
  <2>1. ctl.e.name \in Ids /\ "term" \in Kinds /\ ctl.e \in Of({"term", "function"})
    BY <1>2, <1>7, ProgramAssumption DEF EvalTerm, At, Of, Kinds
  <2>2. /\ ctl' \in Controls /\ ctl'.m \in {"give", "continue"} /\ errs' \in Seq(Errors)
        /\ stack' \in Seq(Frames)
    <3>1. CASE Missed("reference", "term") /\ UNCHANGED stack
      BY <1>1, <3>1, MissedTyped DEF Errors, Missing
    <3>2. CASE /\ def # Absent /\ (attr # "" => attr \in DOMAIN def.attrs)
               /\ stack' = Push(ArgsFrame(ctl.e, Named(def, attr)))
               /\ ctl' = Continue /\ UNCHANGED errs
      <4>1. Named(def, attr) \in Patterns \cup {NoPattern}  BY <2>1, <3>2, NamedTyped
      <4>2. ArgsFrame(ctl.e, Named(def, attr)) \in Frames  BY <2>1, <4>1, FramesAre
      <4>3. stack' \in Seq(Frames)  BY <1>1, <3>2, <4>2, PushIs DEF Push
      <4> QED  BY <1>1, <3>2, <4>3, ControlsTyped, ModesAre
    <3> QED  BY <1>7, <3>1, <3>2 DEF EvalTerm
  <2> QED  BY <1>1, <1>2, <1>7, <2>2, ModesAre DEF EvalTerm
<1>8. CASE EvalFunction
  <2>1. /\ ctl' \in Controls /\ ctl'.m \in {"give", "continue"} /\ errs' \in Seq(Errors)
        /\ stack' \in Seq(Frames)
    <3>1. CASE Missed("reference", "function") /\ UNCHANGED stack
      BY <1>1, <3>1, MissedTyped DEF Errors, Missing
    <3>2. CASE /\ stack' = Push(ArgsFrame(ctl.e, NoPattern))
               /\ ctl' = Continue /\ UNCHANGED errs
      <4>1. ctl.e \in Of({"term", "function"})  BY <1>2, <1>8 DEF EvalFunction, At, Of
      <4>2. ArgsFrame(ctl.e, NoPattern) \in Frames  BY <4>1, FramesAre
      <4>3. stack' \in Seq(Frames)  BY <1>1, <3>2, <4>2, PushIs DEF Push
      <4> QED  BY <1>1, <3>2, <4>3, ControlsTyped, ModesAre
    <3> QED  BY <1>8, <3>1, <3>2 DEF EvalFunction
  <2> QED  BY <1>1, <1>2, <1>8, <2>1, ModesAre DEF EvalFunction
<1>9. CASE EvalSelect
  <2>1. ctl.e \in Of({"select"})  BY <1>2, <1>9 DEF EvalSelect, At, Of
  <2>2. ctl' \in Controls /\ ctl'.m = "eval"
    BY <1>9, <2>1, ProgramAssumption, ControlsTyped, ModesAre DEF EvalSelect
  <2>3. stack' \in Seq(Frames)
    <3>1. SelectorFrame(ctl.e) \in Frames  BY <2>1, FramesAre
    <3> QED  BY <1>1, <1>9, <3>1, PushIs DEF EvalSelect, Push
  <2> QED  BY <1>1, <1>2, <1>9, <2>2, <2>3, ModesAre DEF EvalSelect, scope
<1> QED  BY <1>3, <1>4, <1>5, <1>6, <1>7, <1>8, <1>9

(* resolveArguments, and the calls. *)
LEMMA ArgumentsTyped ==
  ASSUME CallInv,
         \/ EvalPositional \/ TakePositional \/ EnterTerm \/ LeaveTerm
         \/ CallNUMBER \/ CallDATETIME \/ CallFunction
  PROVE  CallInv'
<1> USE DEF CallInv, TypeOK, Running
<1>1. /\ stack \in Seq(Frames) /\ errs \in Seq(Errors) /\ ctl \in Controls
      /\ placeables \in 0..MaxPlaceables + 1 /\ MaxPlaceables \in Nat
  BY ResolverAssumption
<1>2. /\ stack # << >> /\ Top \in Frames /\ ctl.m \in {"continue", "give"}
      /\ placeables <= MaxPlaceables
  BY TopIs, ModesAre DEF EvalPositional, TakePositional, EnterTerm, LeaveTerm,
     CallNUMBER, CallDATETIME, CallFunction, Calling, In
<1>3. Top.f = "args" => /\ Top.e \in Of({"term", "function"}) /\ Top.vals \in Seq(Values)
                        /\ Top.p \in Patterns \cup {NoPattern}
                        /\ Top.e.pos \in Seq(Exprs)
  BY <1>2, FramesTyped, ProgramAssumption
<1>4. Pop \in Seq(Frames)  BY <1>1, <1>2, PopIs DEF Pop
<1>5. CASE EvalPositional
  <2>1. Top.e.pos[Len(Top.vals) + 1] \in Exprs
    <3>1. Len(Top.vals) + 1 \in 1..Len(Top.e.pos)
      BY <1>3, <1>5 DEF EvalPositional, In, ArgumentsLeft
    <3> QED  BY <1>3, <1>5, <3>1, ElementOfSeq DEF EvalPositional, In
  <2>2. ctl' \in Controls /\ ctl'.m = "eval"
    BY <1>5, <2>1, ControlsTyped, ModesAre DEF EvalPositional
  <2> QED  BY <1>1, <1>2, <1>5, <2>2, ModesAre DEF EvalPositional, scope
<1>6. CASE TakePositional
  <2>1. ctl.v \in Values /\ Top.f = "args"
    BY <1>1, <1>6, ControlsTyped DEF TakePositional, In
  <2>2. [Top EXCEPT !.vals = Append(@, ctl.v)] \in Frames
    <3>1. Append(Top.vals, ctl.v) \in Seq(Values)  BY <1>3, <2>1
    <3> QED  BY <1>2, <2>1, <3>1, FrameChanged
  <2>3. stack' \in Seq(Frames)  BY <1>1, <1>2, <1>6, <2>2, ReplaceIs DEF TakePositional, ToTop
  <2> QED  BY <1>1, <1>2, <1>6, <2>3, ControlsTyped, ModesAre DEF TakePositional, scope
<1>7. CASE EnterTerm
  <2>1. Top.f = "args" /\ Top.e.t = "term"  BY <1>7 DEF EnterTerm, Calling, In
  <2>2. Top.e \in Of({"term"})  BY <1>3, <2>1 DEF Of
  <2>3. TermFrame(Top.e) \in Frames  BY <2>2, FramesAre
  <2>4. stack' \in Seq(Frames)  BY <1>1, <1>2, <1>7, <2>3, ReplaceIs DEF EnterTerm, ToTop
  <2>5. ctl' \in Controls /\ ctl'.m = "resolve"
    BY <1>3, <1>7, <2>1, ControlsTyped, ModesAre DEF EnterTerm
  <2>6. params' \in {e.named : e \in Of({"term"})}  BY <1>7, <2>2 DEF EnterTerm
  <2> QED  BY <1>1, <1>2, <1>7, <2>4, <2>5, <2>6, ModesAre DEF EnterTerm
<1>8. CASE LeaveTerm
  BY <1>1, <1>2, <1>4, <1>8, ModesAre DEF LeaveTerm, ParamsAfterTerm
<1>9. CASE CallNUMBER
  <2> DEFINE r == NumberResult(Top.vals, Top.e.named)
  <2>1. Top.vals \in Seq(Values)  BY <1>3, <1>9 DEF CallNUMBER, Calling, In
  <2>2. IF r.ok THEN r.v \in Values ELSE r.err \in {"type"}  BY <2>1, NumberTyped
  <2>3. Answer(r)  BY <1>9 DEF CallNUMBER
  <2> HIDE DEF r
  <2>4. ctl' \in Controls /\ ctl'.m = "give" /\ errs' \in Seq(Errors)
    <3>1. CASE r.ok  BY <1>1, <2>2, <2>3, <3>1, ControlsTyped, ModesAre DEF Answer
    <3>2. CASE ~r.ok
      <4>1. r.err \in Errors /\ "function" \in Missing  BY <2>2, <3>2 DEF Errors, Missing
      <4>2. Missed(r.err, "function")  BY <2>3, <3>2 DEF Answer
      <4> QED  BY <4>1, <4>2, MissedTyped
    <3> QED  BY <3>1, <3>2
  <2> QED  BY <1>1, <1>2, <1>4, <1>9, <2>4, ModesAre DEF CallNUMBER
<1>10. CASE CallDATETIME
  <2> DEFINE r == DateTimeResult(Top.vals, Top.e.named)
  <2>1. Top.vals \in Seq(Values)  BY <1>3, <1>10 DEF CallDATETIME, Calling, In
  <2>2. IF r.ok THEN r.v \in Values ELSE r.err \in {"type", "range"}
    BY <2>1, DateTimeTyped
  <2>3. Answer(r)  BY <1>10 DEF CallDATETIME
  <2> HIDE DEF r
  <2>4. ctl' \in Controls /\ ctl'.m = "give" /\ errs' \in Seq(Errors)
    <3>1. CASE r.ok  BY <1>1, <2>2, <2>3, <3>1, ControlsTyped, ModesAre DEF Answer
    <3>2. CASE ~r.ok
      <4>1. r.err \in Errors /\ "function" \in Missing  BY <2>2, <3>2 DEF Errors, Missing
      <4>2. Missed(r.err, "function")  BY <2>3, <3>2 DEF Answer
      <4> QED  BY <4>1, <4>2, MissedTyped
    <3> QED  BY <3>1, <3>2
  <2> QED  BY <1>1, <1>2, <1>4, <1>10, <2>4, ModesAre DEF CallDATETIME
<1>11. CASE CallFunction
  <2>1. Top.vals \in Seq(Values)  BY <1>3, <1>11 DEF CallFunction, Calling, In
  <2>2. \A v \in Results \cup {Top.vals[j] : j \in DOMAIN Top.vals} : v \in Values
    <3>1. \A j \in DOMAIN Top.vals : Top.vals[j] \in Values
      BY <2>1, LenProperties, ElementOfSeq
    <3> QED  BY <3>1, ProgramAssumption
  <2>3. ctl' \in Controls /\ ctl'.m \in {"give", "panic"} /\ errs' \in Seq(Errors)
    <3>1. CASE (\E v \in Results \cup {Top.vals[j] : j \in DOMAIN Top.vals} :
                  ctl' = Give(v)) /\ UNCHANGED errs
      BY <1>1, <2>2, <3>1, ControlsTyped, ModesAre
    <3>2. CASE Missed("extension", "function") \/ Missed("type", "function")
      BY <3>2, MissedTyped DEF Errors, Missing
    <3>3. CASE ctl' = Panic("fault") /\ UNCHANGED errs
      BY <1>1, <3>3, ControlsTyped, ModesAre
    <3> QED  BY <1>11, <3>1, <3>2, <3>3 DEF CallFunction, Failed, NilResult
  <2> QED  BY <1>1, <1>2, <1>4, <1>11, <2>3, ModesAre DEF CallFunction
<1> QED  BY <1>5, <1>6, <1>7, <1>8, <1>9, <1>10, <1>11

(* resolveSelectExpression. *)
LEMMA SelectsTyped ==
  ASSUME CallInv, TakeSelector \/ TryVariant \/ NoVariantMatched
  PROVE  CallInv'
<1> USE DEF CallInv, TypeOK, Running
<1>1. /\ stack \in Seq(Frames) /\ errs \in Seq(Errors) /\ ctl \in Controls
      /\ placeables \in 0..MaxPlaceables + 1 /\ MaxPlaceables \in Nat
  BY ResolverAssumption
<1>2. /\ stack # << >> /\ Top \in Frames /\ ctl.m \in {"continue", "give"}
      /\ Top.f \in {"selector", "variants"}
      /\ placeables <= MaxPlaceables
  BY TopIs, ModesAre DEF TakeSelector, TryVariant, NoVariantMatched, AtVariant, In
<1>3. /\ Top.e \in Of({"select"})
      /\ Top.e.variants \in Seq([key : Values, p : Patterns])
      /\ Top.e.star \in DOMAIN Top.e.variants
  BY <1>2, FramesTyped, ProgramAssumption
<1>4. Pop \in Seq(Frames)  BY <1>1, <1>2, PopIs DEF Pop
<1>5. ASSUME NEW n \in DOMAIN Top.e.variants PROVE Top.e.variants[n].p \in Patterns
  <2>1. Top.e.variants[n] \in [key : Values, p : Patterns]
    BY <1>3, LenProperties, ElementOfSeq
  <2> QED  BY <2>1
<1>6. Default(Top.e) \in Patterns  BY <1>3, <1>5 DEF Default
<1>7. CASE TakeSelector
  <2> DEFINE v == ctl.v
             checked == IF Late(v) THEN Cleared(v) ELSE v
  <2>1. v \in Values  BY <1>1, <1>7, ControlsTyped DEF TakeSelector
  <2>2. errs' \in Seq(Errors)
    BY <1>1, <1>7, ReportTyped DEF TakeSelector, Errors
  <2>3. checked \in Values
    <3>1. CASE Late(v)
      <4> DEFINE V == [k : {"number"}, n : Int, optErr : BOOLEAN, valid : BOOLEAN]
      <4>1. v.k = "number"  BY <3>1 DEF Late, HasOptErr
      <4>2. v \in V  BY <2>1, <4>1 DEF Values, Custom
      <4>3. Cleared(v) \in V  BY <4>2 DEF Cleared
      <4>4. Cleared(v) \in Values  BY <4>3 DEF Values
      <4> QED  BY <3>1, <4>4
    <3>2. CASE ~Late(v)  BY <2>1, <3>2
    <3> QED  BY <3>1, <3>2
  <2>4. VariantFrame(Top.e, checked) \in Frames  BY <1>3, <2>3, FramesAre
  <2> HIDE DEF checked
  <2>5. \/ stack' = Pop /\ ctl' = Resolve(Default(Top.e))
        \/ stack' = ToTop(VariantFrame(Top.e, checked)) /\ ctl' = Continue
    BY <1>7 DEF TakeSelector, checked
  <2>6. stack' \in Seq(Frames)  BY <1>1, <1>2, <1>4, <2>4, <2>5, ReplaceIs DEF ToTop
  <2>7. ctl' \in Controls /\ ctl'.m \in {"resolve", "continue"}
    BY <1>6, <2>5, ControlsTyped, ModesAre
  <2> QED  BY <1>1, <1>2, <1>7, <2>2, <2>6, <2>7, ModesAre DEF TakeSelector
<1>8. CASE TryVariant
  <2>1. Top.f = "variants" /\ Top.i \in Nat \ {0} /\ Top.i <= Len(Top.e.variants)
    BY <1>2, <1>8, FramesTyped DEF TryVariant, AtVariant, In
  <2>2. Top.i \in DOMAIN Top.e.variants  BY <1>3, <2>1, LenProperties
  <2>3. [Top EXCEPT !.i = NextVariant] \in Frames
    <3>1. NextVariant \in Nat \ {0}  BY <2>1 DEF NextVariant
    <3> QED  BY <1>2, <2>1, <3>1, FrameChanged
  <2>4. \/ ctl' = Panic("fault") /\ UNCHANGED <<stack, errs>>
        \/ /\ \/ ctl' = Resolve(Top.e.variants[Top.i].p) /\ stack' = Pop
              \/ stack' = ToTop([Top EXCEPT !.i = NextVariant]) /\ UNCHANGED ctl
           /\ Report("extension") \/ UNCHANGED errs
    BY <1>8 DEF TryVariant
  <2>9. ToTop([Top EXCEPT !.i = NextVariant]) \in Seq(Frames)
    BY <1>1, <1>2, <2>3, ReplaceIs DEF ToTop
  <2>5. stack' \in Seq(Frames)
    <3> HIDE DEF CallInv, TypeOK, Running
    <3> QED  BY <1>1, <1>4, <2>4, <2>9
  <2>6. errs' \in Seq(Errors)  BY <1>1, <2>4, ReportTyped DEF Errors
  <2>7. ctl' \in Controls /\ (ctl'.m \in {"panic", "resolve"} \/ UNCHANGED ctl)
    BY <1>1, <1>5, <2>2, <2>4, ControlsTyped, ModesAre
  <2>8. ctl' # Idle
    BY <1>2, <2>7, ModesAre
  <2> QED  BY <1>1, <1>2, <1>8, <2>5, <2>6, <2>7, <2>8 DEF TryVariant
<1>9. CASE NoVariantMatched
  <2>1. ctl' \in Controls /\ ctl'.m = "resolve"
    BY <1>6, <1>9, ControlsTyped, ModesAre DEF NoVariantMatched
  <2> QED  BY <1>1, <1>2, <1>4, <1>9, <2>1, ModesAre DEF NoVariantMatched, scope
<1> QED  BY <1>7, <1>8, <1>9

LEMMA NextCall == CallInv /\ [Next]_vars => CallInv'
<1> SUFFICES ASSUME CallInv, [Next]_vars PROVE CallInv'  OBVIOUS
<1>1. CASE UNCHANGED vars  BY <1>1 DEF vars, scope, CallInv, TypeOK, Running
<1>2. CASE Call \/ Finish \/ Return  BY <1>2, CallsTyped
<1>3. CASE Work  BY <1>3, CallsTyped, PatternsTyped, ExpressionsTyped, ArgumentsTyped,
                    SelectsTyped DEF Work
<1>4. CASE AddResource  BY <1>4, OthersAdd
<1> QED  BY <1>1, <1>2, <1>3, <1>4 DEF Next

(* The resolver's calls and the fields of its scope stay well formed,      *)
(* whatever other goroutines add and user code does.                       *)
THEOREM ResolverTypeCorrect == Spec => []TypeOK
<1>1. CallInv => TypeOK  BY DEF CallInv
<1> QED  BY InitCall, NextCall, <1>1, PTL DEF Spec

-----------------------------------------------------------------------------
(* The placeable limit.  Every step but the one that exceeds it reports    *)
(* other errors only, and none happens once the call is over.              *)
Within ==
  \/ Finish
  \/ ResolveNil \/ ResolveText \/ ResolveCyclic \/ ResolveComplex
  \/ AppendText \/ ExpandPlaceable \/ WritePlaceable \/ FinishPattern
  \/ EvalLiteral \/ EvalParameter \/ EvalArgument \/ EvalMessage
  \/ EvalTerm \/ EvalFunction \/ EvalPositional \/ TakePositional
  \/ EnterTerm \/ LeaveTerm \/ CallNUMBER \/ CallDATETIME \/ CallFunction
  \/ EvalSelect \/ TakeSelector \/ TryVariant \/ NoVariantMatched

LEMMA WithinTheLimit ==
  ASSUME CallInv, Within
  PROVE  /\ ctl.m \in {"eval", "resolve", "give", "continue"}
         /\ placeables \in Nat /\ placeables <= MaxPlaceables
         /\ placeables' \in Nat /\ placeables' <= MaxPlaceables
         /\ \/ UNCHANGED errs
            \/ \E err \in Errors \ {"limit"} : errs' = Append(errs, err)
<1> DEFINE Grows == \/ UNCHANGED errs
                    \/ \E err \in Errors \ {"limit"} : errs' = Append(errs, err)
           Working == ctl.m \in {"eval", "resolve", "give", "continue"}
<1>1. {"reference", "type", "range", "cyclic", "option", "extension"}
        \subseteq Errors \ {"limit"}
  BY DEF Errors
<1>2. \A err \in Errors \ {"limit"} : Report(err) => Grows  BY DEF Report
<1>3. placeables \in Nat /\ MaxPlaceables \in Nat
  BY ResolverAssumption DEF CallInv, TypeOK
<1>4. \A err \in Errors \ {"limit"} : \A missing : Missed(err, missing) => Grows
  BY <1>2 DEF Missed
<1>5. CASE Finish \/ ResolveNil \/ ResolveText \/ ResolveComplex \/ FinishPattern \/ AppendText
  BY <1>3, <1>5, ModesAre
     DEF Finish, ResolveNil, ResolveText, ResolveComplex, FinishPattern, AppendText,
         AtElement, scope, CallInv, Running
<1>6. CASE ResolveCyclic \/ WritePlaceable
  <2>1. Working /\ UNCHANGED placeables  BY <1>6 DEF ResolveCyclic, WritePlaceable
  <2>2. Grows
    <3>1. CASE ResolveCyclic  BY <1>1, <1>4, <3>1 DEF ResolveCyclic
    <3>2. CASE WritePlaceable
      <4>1. Report("extension") \/ Report("option") \/ UNCHANGED errs
        BY <3>2 DEF WritePlaceable
      <4> QED  BY <1>1, <1>2, <4>1
    <3> QED  BY <1>6, <3>1, <3>2
  <2> QED  BY <1>3, <2>1, <2>2 DEF CallInv, Running
<1>7. CASE ExpandPlaceable
  BY <1>3, <1>7, ModesAre
     DEF ExpandPlaceable, AtPlaceable, AtElement, OverLimit, Counted, CallInv, Running
<1>8. CASE EvalLiteral \/ EvalParameter \/ EvalPositional \/ TakePositional \/ EnterTerm
           \/ LeaveTerm \/ EvalSelect \/ NoVariantMatched
  BY <1>3, <1>8, ModesAre
     DEF EvalLiteral, EvalParameter, EvalPositional, TakePositional, EnterTerm, LeaveTerm,
         EvalSelect, NoVariantMatched, At, Calling, AtVariant, scope, CallInv, Running
<1>9. CASE EvalArgument \/ EvalMessage \/ EvalTerm \/ EvalFunction
  <2>1. Working /\ UNCHANGED placeables
    BY <1>9 DEF EvalArgument, EvalMessage, EvalTerm, EvalFunction, At
  <2>2. \/ Missed("reference", "variable") \/ Missed("type", "variable")
        \/ Missed("reference", "message") \/ Missed("reference", "term")
        \/ Missed("reference", "function") \/ UNCHANGED errs
    BY <1>9 DEF EvalArgument, EvalMessage, EvalTerm, EvalFunction
  <2>3. Grows  BY <1>1, <1>4, <2>2
  <2> QED  BY <1>3, <2>1, <2>3 DEF CallInv, Running
<1>10. CASE CallNUMBER \/ CallDATETIME \/ CallFunction
  <2>1. Working /\ In("args") /\ UNCHANGED placeables
    BY <1>10, ModesAre DEF CallNUMBER, CallDATETIME, CallFunction, Calling
  <2>2. Top.vals \in Seq(Values)
    BY <2>1, TopIs, FramesTyped DEF In, CallInv
  <2>3. Grows
    <3>1. CASE CallNUMBER
      BY <1>1, <1>4, <2>2, <3>1, NumberTyped DEF CallNUMBER, Answer
    <3>2. CASE CallDATETIME
      BY <1>1, <1>4, <2>2, <3>2, DateTimeTyped DEF CallDATETIME, Answer
    <3>3. CASE CallFunction
      BY <1>1, <1>4, <3>3 DEF CallFunction, Failed, NilResult
    <3> QED  BY <1>10, <3>1, <3>2, <3>3
  <2> QED  BY <1>3, <2>1, <2>3 DEF CallInv, Running
<1>11. CASE TakeSelector \/ TryVariant
  <2>1. Working /\ UNCHANGED placeables
    BY <1>11, ModesAre DEF TakeSelector, TryVariant, AtVariant
  <2>2. Report("option") \/ Report("extension") \/ UNCHANGED errs
    BY <1>11 DEF TakeSelector, TryVariant
  <2>3. Grows  BY <1>1, <1>2, <2>2
  <2> QED  BY <1>3, <2>1, <2>3 DEF CallInv, Running
<1> QED  BY <1>5, <1>6, <1>7, <1>8, <1>9, <1>10, <1>11 DEF Within

LEMMA ErrorAppended ==
  ASSUME NEW st \in Seq(Errors), NEW err \in Errors,
         "limit" \notin {st[i] : i \in DOMAIN st}
  PROVE  /\ err # "limit" =>
              "limit" \notin {Append(st, err)[i] : i \in DOMAIN Append(st, err)}
         /\ err = "limit" => /\ Append(st, err)[Len(Append(st, err))] = "limit"
                             /\ Count(Append(st, err), {"limit"}) = 1
<1>1. Append(st, err) \in Seq(Errors) /\ Len(Append(st, err)) = Len(st) + 1  OBVIOUS
<1>2. ASSUME err = "limit" PROVE Count(Append(st, err), {"limit"}) = 1
  <2>1. {i \in DOMAIN Append(st, err) : Append(st, err)[i] \in {"limit"}} = {Len(st) + 1}
    BY <1>2, PushIs
  <2> QED  BY <2>1, FS_Singleton DEF Count
<1> QED  BY <1>1, <1>2, PushIs

LEMMA NextLimit == CallInv /\ LimitIsFatal /\ [Next]_vars => LimitIsFatal'
<1> SUFFICES ASSUME CallInv, LimitIsFatal, [Next]_vars PROVE LimitIsFatal'  OBVIOUS
<1> DEFINE Exceeded == "limit" \in {errs[i] : i \in DOMAIN errs}
<1>1. errs \in Seq(Errors) /\ placeables \in Nat /\ MaxPlaceables \in Nat
  BY ResolverAssumption DEF CallInv, TypeOK
<1>2. ASSUME ctl.m # "done" PROVE ~Exceeded /\ placeables <= MaxPlaceables
  BY <1>1, <1>2, ModesAre DEF LimitIsFatal
<1>3. CASE UNCHANGED vars \/ AddResource
  BY <1>3 DEF vars, scope, AddResource, LimitIsFatal
<1>4. CASE Call
  <2>1. \/ errs' = << >> \/ errs' = <<"type">>
    BY <1>4 DEF Call, FormatText, FormatNil, FormatComplex, NewScope
  <2>2. placeables' = 0
    BY <1>4 DEF Call, FormatText, FormatNil, FormatComplex, NewScope
  <2> QED  BY <1>1, <2>1, <2>2 DEF LimitIsFatal
<1>5. CASE Return
  <2>1. errs' = << >> /\ placeables' = 0  BY <1>5 DEF Return
  <2> QED  BY <1>1, <2>1 DEF LimitIsFatal
<1>6. CASE Within
  <2>1. ~Exceeded  BY <1>2, <1>6, WithinTheLimit
  <2>2. ~Exceeded'
    <3>1. CASE UNCHANGED errs  BY <2>1, <3>1
    <3>2. CASE \E err \in Errors \ {"limit"} : errs' = Append(errs, err)
      BY <1>1, <2>1, <3>2, ErrorAppended
    <3> QED  BY <1>6, <3>1, <3>2, WithinTheLimit
  <2>3. ~(placeables' > MaxPlaceables)  BY <1>1, <1>6, WithinTheLimit
  <2> QED  BY <2>2, <2>3 DEF LimitIsFatal
<1>7. CASE TooManyPlaceables
  <2>1. ~Exceeded /\ placeables <= MaxPlaceables
    BY <1>2, <1>7, ModesAre DEF TooManyPlaceables, AtPlaceable, AtElement
  <2>2. errs' = Append(errs, "limit") /\ "limit" \in Errors
    BY <1>7 DEF TooManyPlaceables, Report, Errors
  <2>3. errs'[Len(errs')] = "limit" /\ Count(errs', {"limit"}) = 1
    BY <1>1, <2>1, <2>2, ErrorAppended
  <2>4. placeables' = MaxPlaceables + 1
    BY <1>1, <1>7, <2>1 DEF TooManyPlaceables, OverLimit, Counted
  <2>5. ctl' = Done(<<Fallback("limit")>>)
    BY <1>7 DEF TooManyPlaceables, Rendered, None
  <2>6. Count(errs, {"limit"})' = Count(errs', {"limit"})  BY DEF Count
  <2> QED  BY <2>3, <2>4, <2>5, <2>6 DEF LimitIsFatal
<1> QED  BY <1>3, <1>4, <1>5, <1>6, <1>7 DEF Next, Work, Within

(* Exceeding MaxPlaceables ends the call with {???} and one error, the     *)
(* last: formatPattern's deferred recover, whatever was being resolved.    *)
THEOREM ResolverLimitIsFatal == Spec => []LimitIsFatal
<1>1. Init => LimitIsFatal  BY ResolverAssumption DEF Init, LimitIsFatal
<1> QED  BY InitCall, NextCall, NextLimit, <1>1, PTL DEF Spec

-----------------------------------------------------------------------------
(* The calls in progress.  Elsewhere is what a step does to the stack that *)
(* neither enters nor leaves a pattern or a term.                          *)
Plain == {"args", "selector", "variants"}

Elsewhere ==
  \/ UNCHANGED stack
  \/ \E fr \in Frames : fr.f \in Plain /\ stack' = Push(fr)
  \/ stack # << >> /\ Top.f \in Plain /\ stack' = Pop
  \/ /\ stack # << >> /\ Top.f \in Plain
     /\ \E fr \in Frames : fr.f \in Plain /\ stack' = ToTop(fr)
  \/ /\ stack # << >> /\ Top.f = "complex"
     /\ \E fr \in Frames : fr.f = "complex" /\ fr.p = Top.p /\ stack' = ToTop(fr)

(* The calls of a kind are the same ones after such a step. *)
LEMMA CallsKept ==
  ASSUME CallInv, Elsewhere
  PROVE  /\ Calls("complex")' = Calls("complex")
         /\ \A k \in Calls("complex") : stack'[k].p = stack[k].p
         /\ Calls("term")' = Calls("term")
         /\ \A k \in Calls("term") : stack'[k] = stack[k]
<1>1. stack \in Seq(Frames)  BY DEF CallInv, TypeOK
<1>2. CASE UNCHANGED stack  BY <1>2 DEF Calls
<1>3. CASE \E fr \in Frames : fr.f \in Plain /\ stack' = Push(fr)
  <2>1. PICK fr \in Frames : fr.f \in Plain /\ stack' = Push(fr)  BY <1>3
  <2>2. fr.f # "complex" /\ fr.f # "term"  BY <2>1 DEF Plain
  <2>3. /\ Len(stack) \in Nat /\ DOMAIN stack = 1..Len(stack)
        /\ DOMAIN stack' = 1..Len(stack) + 1
        /\ \A n \in DOMAIN stack : stack'[n] = stack[n]
        /\ stack'[Len(stack) + 1] = fr
    BY <1>1, <2>1, PushIs DEF Push
  <2>4. DOMAIN stack' = DOMAIN stack \cup {Len(stack) + 1}  BY <2>3
  <2> QED  BY <2>2, <2>3, <2>4 DEF Calls
<1>4. CASE stack # << >> /\ Top.f \in Plain /\ stack' = Pop
  <2>1. Top.f # "complex" /\ Top.f # "term"  BY <1>4 DEF Plain
  <2>2. /\ Len(stack) \in Nat \ {0} /\ DOMAIN stack = 1..Len(stack)
        /\ DOMAIN stack' = 1..Len(stack) - 1
        /\ \A n \in 1..Len(stack) - 1 : stack'[n] = stack[n]
    BY <1>1, <1>4, PopIs DEF Pop
  <2>3. DOMAIN stack = DOMAIN stack' \cup {Len(stack)}  BY <2>2
  <2> QED  BY <2>1, <2>2, <2>3 DEF Calls, Top
<1>5. ASSUME stack # << >>, NEW fr \in Frames, stack' = ToTop(fr),
             \/ Top.f \in Plain /\ fr.f \in Plain
             \/ Top.f = "complex" /\ fr.f = "complex" /\ fr.p = Top.p
      PROVE  /\ Calls("complex")' = Calls("complex")
             /\ \A k \in Calls("complex") : stack'[k].p = stack[k].p
             /\ Calls("term")' = Calls("term")
             /\ \A k \in Calls("term") : stack'[k] = stack[k]
  <2>1. /\ Len(stack) \in Nat \ {0} /\ DOMAIN stack = 1..Len(stack)
        /\ DOMAIN stack' = 1..Len(stack)
        /\ \A n \in 1..Len(stack) - 1 : stack'[n] = stack[n]
        /\ stack'[Len(stack)] = fr
    BY <1>1, <1>5, ReplaceIs DEF ToTop
  <2>2. DOMAIN stack = (1..Len(stack) - 1) \cup {Len(stack)}  BY <2>1
  <2>3. Top.f # "term" /\ fr.f # "term" /\ (Top.f = "complex" <=> fr.f = "complex")
    BY <1>5 DEF Plain
  <2>4. fr.f = "complex" => fr.p = Top.p  BY <1>5 DEF Plain
  <2> QED  BY <2>1, <2>2, <2>3, <2>4 DEF Calls, Top
<1> QED  BY <1>2, <1>3, <1>4, <1>5 DEF Elsewhere

Steady ==
  \/ Finish \/ ResolveNil \/ ResolveText \/ ResolveCyclic
  \/ AppendText \/ ExpandPlaceable \/ WritePlaceable
  \/ EvalLiteral \/ EvalParameter \/ EvalArgument \/ EvalMessage
  \/ EvalTerm \/ EvalFunction \/ EvalPositional \/ TakePositional
  \/ CallNUMBER \/ CallDATETIME \/ CallFunction
  \/ EvalSelect \/ TakeSelector \/ TryVariant \/ NoVariantMatched

LEMMA SteadySteps ==
  ASSUME CallInv, CallInv', Steady
  PROVE  Elsewhere /\ UNCHANGED <<dirty, params>>
<1>1. \A S, st, fr : st \in Seq(S) /\ st # << >> /\ [st EXCEPT ![Len(st)] = fr] \in Seq(S)
        => fr \in S
  <2> SUFFICES ASSUME NEW S, NEW st \in Seq(S), NEW fr, st # << >>,
                      [st EXCEPT ![Len(st)] = fr] \in Seq(S)
               PROVE  fr \in S
    OBVIOUS
  <2>1. Len(st) \in DOMAIN st  BY PopIs
  <2>2. [st EXCEPT ![Len(st)] = fr][Len(st)] = fr  BY <2>1
  <2>3. Len(st) \in DOMAIN [st EXCEPT ![Len(st)] = fr]  BY <2>1
  <2>4. \A t \in Seq(S) : \A i \in DOMAIN t : t[i] \in S  BY LenProperties, ElementOfSeq
  <2> QED  BY <2>2, <2>3, <2>4
<1>2. stack \in Seq(Frames) /\ stack' \in Seq(Frames)  BY DEF CallInv, TypeOK
<1>3. \A fr : stack # << >> /\ stack' = ToTop(fr) => fr \in Frames
  BY <1>1, <1>2 DEF ToTop
<1>4. CASE Finish \/ ResolveNil \/ ResolveText \/ ResolveCyclic \/ EvalLiteral \/ EvalParameter
           \/ EvalArgument \/ EvalMessage \/ EvalPositional
  BY <1>4 DEF Finish, ResolveNil, ResolveText, ResolveCyclic, EvalLiteral, EvalParameter,
              EvalArgument, EvalMessage, EvalPositional, scope, Elsewhere
<1>5. CASE AppendText \/ ExpandPlaceable \/ WritePlaceable
  <2>1. In("complex")  BY <1>5 DEF AppendText, ExpandPlaceable, AtPlaceable, AtElement,
                                   WritePlaceable
  <2>2. Top \in Frames /\ stack # << >> /\ Top.f = "complex"
    BY <2>1, TopIs DEF In, CallInv
  <2>3. \A i, out : /\ [Top EXCEPT !.out = out].f = Top.f
                    /\ [Top EXCEPT !.out = out].p = Top.p
                    /\ [Top EXCEPT !.i = i, !.out = out].f = Top.f
                    /\ [Top EXCEPT !.i = i, !.out = out].p = Top.p
    <3> DEFINE F == [f : {"complex"}, p : {q \in Patterns : IsComplex(q)},
                     i : Nat \ {0}, out : Seq(Tokens)]
    <3>1. Top \in F  BY <2>2 DEF Frames
    <3> HIDE DEF Top
    <3>2. DOMAIN Top = {"f", "p", "i", "out"}  BY <3>1
    <3> QED  BY <3>2
  <2>4. \/ UNCHANGED stack
        \/ \E i, out : \/ stack' = ToTop([Top EXCEPT !.out = out])
                       \/ stack' = ToTop([Top EXCEPT !.i = i, !.out = out])
    BY <1>5 DEF AppendText, ExpandPlaceable, WritePlaceable
  <2>5. Elsewhere  BY <1>3, <2>2, <2>3, <2>4 DEF Elsewhere
  <2> QED  BY <1>5, <2>5 DEF AppendText, ExpandPlaceable, WritePlaceable, scope
<1>6. CASE EvalTerm \/ EvalFunction \/ EvalSelect
  <2>1. \/ UNCHANGED stack
        \/ \E e, p : stack' = Push(ArgsFrame(e, p))
        \/ \E e : stack' = Push(SelectorFrame(e))
    BY <1>6 DEF EvalTerm, EvalFunction, EvalSelect
  <2>2. \A fr : stack' = Push(fr) => fr \in Frames
    <3> SUFFICES ASSUME NEW fr, stack' = Append(stack, fr) PROVE fr \in Frames
      BY DEF Push
    <3>1. Len(stack) + 1 \in DOMAIN stack' /\ stack'[Len(stack) + 1] = fr  BY <1>2
    <3> QED  BY <1>2, <3>1, LenProperties, ElementOfSeq
  <2>3. \A e, p : ArgsFrame(e, p).f \in Plain /\ SelectorFrame(e).f \in Plain
    BY DEF ArgsFrame, SelectorFrame, Plain
  <2>4. Elsewhere  BY <2>1, <2>2, <2>3 DEF Elsewhere
  <2> QED  BY <1>6, <2>4 DEF EvalTerm, EvalFunction, EvalSelect, scope
<1>7. CASE CallNUMBER \/ CallDATETIME \/ CallFunction
  <2>1. In("args") /\ stack' = Pop
    BY <1>7 DEF CallNUMBER, CallDATETIME, CallFunction, Calling
  <2> QED  BY <1>7, <2>1 DEF CallNUMBER, CallDATETIME, CallFunction, In, Elsewhere, Plain
<1>8. CASE TakePositional
  <2> DEFINE fr == [Top EXCEPT !.vals = Append(@, ctl.v)]
  <2>1. Top \in Frames /\ stack # << >> /\ Top.f = "args" /\ stack' = ToTop(fr)
    BY <1>8, TopIs DEF TakePositional, In, CallInv
  <2>2. fr.f = "args"
    <3> DEFINE F == [f : {"args"}, e : Of({"term", "function"}),
                     p : Patterns \cup {NoPattern}, vals : Seq(Values)]
    <3>1. Top \in F  BY <2>1 DEF Frames
    <3> HIDE DEF Top
    <3> QED  BY <2>1, <3>1
  <2>3. fr \in Frames  BY <1>3, <2>1
  <2> HIDE DEF fr
  <2>4. Elsewhere  BY <2>1, <2>2, <2>3 DEF Elsewhere, Plain
  <2> QED  BY <1>8, <2>4 DEF TakePositional, scope
<1>9. CASE TakeSelector
  <2>1. stack # << >> /\ Top.f = "selector"  BY <1>9 DEF TakeSelector, In
  <2>2. stack' = Pop \/ \E e, v : stack' = ToTop(VariantFrame(e, v))
    BY <1>9 DEF TakeSelector
  <2>3. \A e, v : VariantFrame(e, v).f \in Plain  BY DEF VariantFrame, Plain
  <2>4. Elsewhere  BY <1>3, <2>1, <2>2, <2>3 DEF Elsewhere, Plain
  <2> QED  BY <1>9, <2>4 DEF TakeSelector
<1>10. CASE TryVariant \/ NoVariantMatched
  <2>1. Top \in Frames /\ stack # << >> /\ Top.f = "variants"
    BY <1>10, TopIs DEF TryVariant, NoVariantMatched, AtVariant, In, CallInv
  <2>2. UNCHANGED stack \/ stack' = Pop \/ stack' = ToTop([Top EXCEPT !.i = NextVariant])
    BY <1>10 DEF TryVariant, NoVariantMatched
  <2>3. [Top EXCEPT !.i = NextVariant].f = "variants"
    <3> DEFINE F == [f : {"variants"}, e : Of({"select"}), sel : Values, i : Nat \ {0}]
    <3>1. Top \in F  BY <2>1 DEF Frames
    <3> HIDE DEF Top
    <3> QED  BY <2>1, <3>1
  <2>4. Elsewhere  BY <1>3, <2>1, <2>2, <2>3 DEF Elsewhere, Plain
  <2> QED  BY <1>10, <2>4 DEF TryVariant, NoVariantMatched, scope
<1> QED  BY <1>4, <1>5, <1>6, <1>7, <1>8, <1>9, <1>10 DEF Steady

(* Entering and leaving a pattern or a term. *)
LEMMA CallsEntered ==
  ASSUME CallInv, NEW fr \in Frames, stack' = Push(fr)
  PROVE  LET top == Len(stack) + 1 IN
         /\ top \notin DOMAIN stack /\ stack'[top] = fr /\ top \in Nat
         /\ \A k \in DOMAIN stack : stack'[k] = stack[k] /\ k < top
         /\ \A f : Calls(f)' = Calls(f) \cup (IF fr.f = f THEN {top} ELSE {})
<1>1. stack \in Seq(Frames)  BY DEF CallInv, TypeOK
<1>2. /\ Len(stack) \in Nat /\ DOMAIN stack = 1..Len(stack)
      /\ DOMAIN stack' = 1..Len(stack) + 1
      /\ \A n \in DOMAIN stack : stack'[n] = stack[n]
      /\ stack'[Len(stack) + 1] = fr
  BY <1>1, PushIs DEF Push
<1>3. DOMAIN stack' = DOMAIN stack \cup {Len(stack) + 1}  BY <1>2
<1> QED  BY <1>2, <1>3 DEF Calls

LEMMA CallsLeft ==
  ASSUME CallInv, stack # << >>, stack' = Pop
  PROVE  LET top == Len(stack) IN
         /\ top \in DOMAIN stack /\ top \in Nat
         /\ \A k \in DOMAIN stack : k <= top /\ (k # top => stack'[k] = stack[k])
         /\ \A f : Calls(f)' = Calls(f) \ {top}
<1>1. stack \in Seq(Frames)  BY DEF CallInv, TypeOK
<1>2. /\ Len(stack) \in Nat \ {0} /\ DOMAIN stack = 1..Len(stack)
      /\ DOMAIN stack' = 1..Len(stack) - 1
      /\ \A n \in 1..Len(stack) - 1 : stack'[n] = stack[n]
  BY <1>1, PopIs DEF Pop
<1>3. /\ DOMAIN stack = DOMAIN stack' \cup {Len(stack)} /\ Len(stack) \notin DOMAIN stack'
  BY <1>2
<1>4. \A k \in DOMAIN stack : k <= Len(stack) /\ (k # Len(stack) => stack'[k] = stack[k])
  BY <1>2, <1>3
<1> QED  BY <1>2, <1>3, <1>4 DEF Calls

LEMMA TermEntered ==
  ASSUME CallInv, EnterTerm
  PROVE  LET top == Len(stack) IN
         /\ top \in Nat /\ \A k \in DOMAIN stack : k <= top
         /\ stack'[top].e.named = params'
         /\ Calls("term")' = Calls("term") \cup {top}
         /\ Calls("complex")' = Calls("complex")
         /\ \A k \in Calls("complex") : stack'[k] = stack[k]
<1>1. stack \in Seq(Frames)  BY DEF CallInv, TypeOK
<1>2. /\ stack # << >> /\ Top.f = "args" /\ Top.e.t = "term"
      /\ params' = Top.e.named /\ stack' = ToTop(TermFrame(Top.e))
  BY DEF EnterTerm, Calling, In
<1>3. TermFrame(Top.e) \in Frames
  <2>1. Top.e \in Of({"term", "function"})  BY <1>2, TopIs, FramesTyped DEF CallInv
  <2> QED  BY <1>2, <2>1, FramesAre DEF Of
<1>4. /\ Len(stack) \in Nat \ {0} /\ DOMAIN stack = 1..Len(stack)
      /\ DOMAIN stack' = 1..Len(stack)
      /\ \A n \in 1..Len(stack) - 1 : stack'[n] = stack[n]
      /\ stack'[Len(stack)] = TermFrame(Top.e)
  BY <1>1, <1>2, <1>3, ReplaceIs DEF ToTop
<1>5. DOMAIN stack = (1..Len(stack) - 1) \cup {Len(stack)}  BY <1>4
<1>6. TermFrame(Top.e).f = "term" /\ TermFrame(Top.e).e.named = Top.e.named
  BY DEF TermFrame
<1>7. \A k \in DOMAIN stack : k <= Len(stack)  BY <1>4
<1> HIDE DEF CallInv
<1> QED  BY <1>2, <1>4, <1>5, <1>6, <1>7 DEF Calls, Top

-----------------------------------------------------------------------------
(* The parameters of a term *)
LEMMA NextParams ==
  CallInv /\ CallInv' /\ ParamsOfInnermostTerm /\ [Next]_vars => ParamsOfInnermostTerm'
<1> SUFFICES ASSUME CallInv, CallInv', ParamsOfInnermostTerm, [Next]_vars
             PROVE  ParamsOfInnermostTerm'
  OBVIOUS
<1>1. CASE UNCHANGED vars \/ AddResource
  BY <1>1 DEF vars, scope, AddResource, ParamsOfInnermostTerm, Running, Calls
<1>2. CASE Call \/ Return \/ TooManyPlaceables
  <2>1. CASE Call
    <3>1. params' = NoParams
      BY <2>1 DEF Call, FormatText, FormatNil, FormatComplex, NewScope
    <3> QED  BY <3>1 DEF ParamsOfInnermostTerm
  <2>2. CASE Return \/ TooManyPlaceables
    <3>1. ~Running'
      BY <2>2, ModesAre DEF Return, TooManyPlaceables, Running
    <3> QED  BY <3>1 DEF ParamsOfInnermostTerm
  <2> QED  BY <1>2, <2>1, <2>2
<1>3. CASE Steady
  <2>1. Running  BY <1>3, WithinTheLimit DEF Steady, Within, Running
  <2>2. UNCHANGED params /\ Calls("term")' = Calls("term")
        /\ \A k \in Calls("term") : stack'[k] = stack[k]
    BY <1>3, SteadySteps, CallsKept
  <2> QED  BY <2>1, <2>2 DEF ParamsOfInnermostTerm
<1>4. CASE ResolveComplex
  <2>1. Running /\ UNCHANGED params  BY <1>4 DEF ResolveComplex, Running
  <2>2. ComplexFrame(ctl.p) \in Frames /\ ComplexFrame(ctl.p).f = "complex"
        /\ stack' = Push(ComplexFrame(ctl.p))
    BY <1>4, FramesAre, ControlsTyped
       DEF ResolveComplex, CallInv, TypeOK, IsComplex, ComplexFrame
  <2>3. Calls("term")' = Calls("term") /\ \A k \in Calls("term") : stack'[k] = stack[k]
    BY <2>2, CallsEntered DEF Calls
  <2> QED  BY <2>1, <2>3 DEF ParamsOfInnermostTerm
<1>5. CASE FinishPattern
  <2>1. Running /\ UNCHANGED params  BY <1>5, ModesAre DEF FinishPattern, Running
  <2>2. stack # << >> /\ Top.f = "complex" /\ stack' = Pop  BY <1>5 DEF FinishPattern, In
  <2>3. Len(stack) \notin Calls("term")  BY <2>2 DEF Calls, Top
  <2>4. Calls("term")' = Calls("term") /\ \A k \in Calls("term") : stack'[k] = stack[k]
    BY <2>2, <2>3, CallsLeft DEF Calls
  <2> QED  BY <2>1, <2>4 DEF ParamsOfInnermostTerm
<1>6. CASE EnterTerm
  <2>1. Len(stack) \in Calls("term")' /\ stack'[Len(stack)].e.named = params'
    BY <1>6, TermEntered
  <2>2. \A j \in Calls("term")' : j <= Len(stack)
    BY <1>6, TermEntered DEF Calls
  <2> QED  BY <2>1, <2>2 DEF ParamsOfInnermostTerm
<1>7. CASE LeaveTerm
  <2>1. params' = NoParams  BY <1>7 DEF LeaveTerm, ParamsAfterTerm
  <2> QED  BY <2>1 DEF ParamsOfInnermostTerm
<1> QED  BY <1>1, <1>2, <1>3, <1>4, <1>5, <1>6, <1>7 DEF Next, Work, Steady

(* A variable never resolves to a parameter of some other term's call      *)
(* (withTermParams), however terms, messages and arguments are nested.     *)
THEOREM ResolverParams == Spec => []ParamsOfInnermostTerm
<1>1. Init => ParamsOfInnermostTerm  BY DEF Init, ParamsOfInnermostTerm
<1> QED  BY InitCall, NextCall, NextParams, <1>1, PTL DEF Spec

-----------------------------------------------------------------------------
(* Cycle detection *)
LEMMA NextDirty ==
  CallInv /\ CallInv' /\ DirtyIsActive /\ [Next]_vars => DirtyIsActive'
<1> SUFFICES ASSUME CallInv, CallInv', DirtyIsActive, [Next]_vars PROVE DirtyIsActive'
  OBVIOUS
<1> DEFINE Active == UNION {Key(stack[k].p) : k \in Calls("complex")}
<1>1. CASE UNCHANGED vars \/ AddResource
  BY <1>1 DEF vars, scope, AddResource, DirtyIsActive, Running, Calls
<1>2. CASE Call
  <2>1. ctl = Idle /\ dirty' = {} /\ UNCHANGED stack
    BY <1>2 DEF Call, FormatText, FormatNil, FormatComplex, NewScope
  <2>2. stack' = << >>  BY <2>1 DEF CallInv
  <2>3. Calls("complex")' = {}  BY <2>2 DEF Calls
  <2> QED  BY <2>1, <2>3 DEF DirtyIsActive
<1>3. CASE Return \/ TooManyPlaceables
  <2>1. ~Running'  BY <1>3, ModesAre DEF Return, TooManyPlaceables, Running
  <2> QED  BY <2>1 DEF DirtyIsActive
<1>4. ASSUME Running, UNCHANGED dirty, Calls("complex")' = Calls("complex"),
             \A k \in Calls("complex") : stack'[k].p = stack[k].p
      PROVE  DirtyIsActive'
  <2>1. Active' = Active
    <3>1. {Key(stack[k].p) : k \in Calls("complex")}'
            = {Key(stack[k].p) : k \in Calls("complex")}
      BY <1>4 DEF Key
    <3> QED  BY <3>1
  <2> QED  BY <1>4, <2>1 DEF DirtyIsActive
<1>5. CASE Steady
  <2>1. Running  BY <1>5, WithinTheLimit DEF Steady, Within, Running
  <2> QED  BY <1>4, <1>5, <2>1, SteadySteps, CallsKept
<1>6. CASE EnterTerm
  <2>1. Running /\ UNCHANGED dirty
    BY <1>6, ModesAre DEF EnterTerm, Calling, Running
  <2> QED  BY <1>4, <1>6, <2>1, TermEntered
<1>7. CASE LeaveTerm
  <2>1. Running /\ UNCHANGED dirty /\ stack # << >> /\ Top.f = "term" /\ stack' = Pop
    BY <1>7 DEF LeaveTerm, Running, In
  <2>2. Len(stack) \notin Calls("complex")  BY <2>1 DEF Calls, Top
  <2>3. Calls("complex")' = Calls("complex")
        /\ \A k \in Calls("complex") : stack'[k] = stack[k]
    BY <2>1, <2>2, CallsLeft DEF Calls
  <2> QED  BY <1>4, <2>1, <2>3
<1>8. CASE ResolveComplex
  <2> DEFINE p == ctl.p
             top == Len(stack) + 1
  <2>1. Running /\ p \notin dirty /\ dirty' = dirty \cup Key(p)
    BY <1>8 DEF ResolveComplex, Running
  <2>2. ComplexFrame(p) \in Frames /\ ComplexFrame(p).f = "complex"
        /\ ComplexFrame(p).p = p /\ stack' = Push(ComplexFrame(p))
    BY <1>8, FramesAre, ControlsTyped
       DEF ResolveComplex, CallInv, TypeOK, IsComplex, ComplexFrame
  <2>3. /\ top \notin Calls("complex") /\ stack'[top].p = p
        /\ \A k \in Calls("complex") : stack'[k] = stack[k]
        /\ Calls("complex")' = Calls("complex") \cup {top}
    BY <2>2, CallsEntered DEF Calls
  <2> HIDE DEF p, top
  <2>4. dirty = Active  BY <2>1 DEF DirtyIsActive
  <2>5. dirty' = Active'
    <3>1. {Key(stack[k].p) : k \in Calls("complex")}'
            = {Key(stack[k].p) : k \in Calls("complex")} \cup {Key(p)}
      BY <2>3 DEF Key
    <3> QED  BY <2>1, <2>4, <3>1
  <2>6. ASSUME NEW k \in Calls("complex"), stack[k].p = p, Elems(p) # << >> PROVE FALSE
    <3>1. p \in Key(stack[k].p)  BY <2>6 DEF Key
    <3> QED  BY <2>1, <2>4, <3>1
  <2>7. \A j, k \in Calls("complex")' :
          stack'[j].p = stack'[k].p /\ Elems(stack'[j].p) # << >> => j = k
    BY <2>1, <2>3, <2>6 DEF DirtyIsActive
  <2> QED  BY <2>5, <2>7 DEF DirtyIsActive, Elems
<1>9. CASE FinishPattern
  <2> DEFINE p == Top.p
             top == Len(stack)
  <2>1. /\ Running /\ dirty' = dirty \ Key(p)
        /\ stack # << >> /\ Top.f = "complex" /\ stack' = Pop
    BY <1>9, ModesAre DEF FinishPattern, Running, In, Unmark
  <2>2. /\ top \in Calls("complex") /\ stack[top].p = p
        /\ Calls("complex")' = Calls("complex") \ {top}
        /\ \A k \in Calls("complex") \ {top} : stack'[k] = stack[k]
    BY <2>1, CallsLeft DEF Calls, Top
  <2> HIDE DEF p, top
  <2>3. dirty = Active  BY <2>1 DEF DirtyIsActive
  <2>4. ASSUME NEW k \in Calls("complex") \ {top}, NEW q \in Key(stack[k].p), q \in Key(p)
        PROVE  FALSE
    <3>1. stack[k].p = p /\ Elems(p) # << >>  BY <2>4 DEF Key
    <3> QED  BY <2>1, <2>2, <2>4, <3>1 DEF DirtyIsActive
  <2>5. dirty' = Active'
    <3>1. Active' = UNION {Key(stack[k].p) : k \in Calls("complex") \ {top}}
      <4>1. {Key(stack[k].p) : k \in Calls("complex")}'
              = {Key(stack[k].p) : k \in Calls("complex") \ {top}}
        BY <2>2 DEF Key
      <4> QED  BY <4>1
    <3>2. Active = Key(p) \cup UNION {Key(stack[k].p) : k \in Calls("complex") \ {top}}
      BY <2>2
    <3> QED  BY <2>1, <2>3, <2>4, <3>1, <3>2
  <2>6. \A j, k \in Calls("complex")' :
          stack'[j].p = stack'[k].p /\ Elems(stack'[j].p) # << >> => j = k
    BY <2>1, <2>2 DEF DirtyIsActive
  <2> QED  BY <2>5, <2>6 DEF DirtyIsActive, Elems
<1> QED  BY <1>1, <1>2, <1>3, <1>5, <1>6, <1>7, <1>8, <1>9 DEF Next, Work, Steady

(* Cycle detection is exact (Scope.dirty): the marked patterns are those   *)
(* being resolved, each once.                                              *)
THEOREM ResolverDirty == Spec => []DirtyIsActive
<1>1. Init => DirtyIsActive  BY ModesAre DEF Init, DirtyIsActive, Running
<1> QED  BY InitCall, NextCall, NextDirty, <1>1, PTL DEF Spec

-----------------------------------------------------------------------------
(* The depth of the recursion.  A pattern is entered from a placeable of   *)
(* another: each pattern in progress but the outermost one has counted a   *)
(* placeable, and the innermost one has not yet counted its next.          *)
AtLoop == ctl = Continue /\ In("complex")

DepthInv ==
  Running => Cardinality(Calls("complex")) <= placeables + (IF AtLoop THEN 1 ELSE 0)

LEMMA CallsFinite ==
  ASSUME CallInv
  PROVE  \A f : IsFiniteSet(Calls(f)) /\ Cardinality(Calls(f)) \in Nat
<1>1. stack \in Seq(Frames)  BY DEF CallInv, TypeOK
<1>2. DOMAIN stack = 1..Len(stack) /\ Len(stack) \in Nat  BY <1>1, LenProperties
<1>3. IsFiniteSet(DOMAIN stack)  BY <1>2, FS_Interval
<1>4. \A f : Calls(f) \subseteq DOMAIN stack  BY DEF Calls
<1>5. \A f : IsFiniteSet(Calls(f))  BY <1>3, <1>4, FS_Subset
<1> QED  BY <1>5, FS_CardinalityType

LEMMA NextDepth ==
  CallInv /\ CallInv' /\ DepthInv /\ [Next]_vars => DepthInv'
<1> SUFFICES ASSUME CallInv, CallInv', DepthInv, [Next]_vars PROVE DepthInv'
  OBVIOUS
<1> DEFINE depth == Cardinality(Calls("complex"))
<1>1. depth \in Nat /\ IsFiniteSet(Calls("complex")) /\ placeables \in Nat
  BY CallsFinite, ResolverAssumption DEF CallInv, TypeOK
<1>2. placeables' \in Nat  BY ResolverAssumption DEF CallInv, TypeOK
<1>3. CASE UNCHANGED vars \/ AddResource
  BY <1>3 DEF vars, scope, AddResource, DepthInv, Running, Calls, AtLoop, In, Top
<1>4. CASE Call
  <2>1. ctl = Idle /\ UNCHANGED stack
    BY <1>4 DEF Call, FormatText, FormatNil, FormatComplex
  <2>2. stack' = << >>  BY <2>1 DEF CallInv
  <2>3. Calls("complex")' = {}  BY <2>2 DEF Calls
  <2>4. depth' = 0  BY <2>3, FS_EmptySet
  <2>5. \A n \in Nat : 0 <= n + 1 /\ 0 <= n + 0  OBVIOUS
  <2> QED  BY <1>2, <2>4, <2>5 DEF DepthInv
<1>5. CASE Return \/ TooManyPlaceables
  <2>1. ~Running'  BY <1>5, ModesAre DEF Return, TooManyPlaceables, Running
  <2> QED  BY <2>1 DEF DepthInv
(* A step of some other call, or of an expression. *)
<1>6. ASSUME Running, ~AtLoop, Calls("complex")' = Calls("complex"), UNCHANGED placeables
      PROVE  DepthInv'
  <2>1. depth <= placeables  BY <1>1, <1>6 DEF DepthInv
  <2>2. depth' = depth  BY <1>6
  <2>3. depth' <= placeables' /\ depth' <= placeables' + 1  BY <1>1, <1>6, <2>1, <2>2
  <2> HIDE DEF depth
  <2> QED  BY <1>2, <2>3 DEF DepthInv, depth
<1>7. CASE AppendText
  <2>1. Calls("complex")' = Calls("complex")  BY <1>7, SteadySteps, CallsKept DEF Steady
  <2>2. UNCHANGED placeables /\ AtLoop /\ Running
    BY <1>7, ModesAre DEF AppendText, AtElement, AtLoop, Running, scope
  <2>3. CASE UNCHANGED ctl
    <3>1. In("complex")'
      <4>1. Len(stack) \in Calls("complex")
        BY <2>2, PopIs DEF AtLoop, In, Calls, Top, CallInv, TypeOK
      <4>2. Len(stack') = Len(stack) /\ stack' # << >>
        <5>1. \A fr : Len(ToTop(fr)) = Len(stack) /\ DOMAIN ToTop(fr) = DOMAIN stack
          BY <2>2, PopIs, LenProperties DEF ToTop, CallInv, TypeOK
        <5>2. \E fr : stack' = ToTop(fr) \/ UNCHANGED stack  BY <1>7 DEF AppendText
        <5>3. stack' # << >>  BY <4>1, <5>1, <5>2 DEF Calls
        <5> QED  BY <5>1, <5>2, <5>3
      <4> QED  BY <2>1, <4>1, <4>2 DEF In, Top, Calls
    <3>2. AtLoop'  BY <2>2, <2>3, <3>1 DEF AtLoop
    <3> QED  BY <1>1, <2>1, <2>2, <3>2 DEF DepthInv
  <2>4. CASE \E o : ctl' = Panic(o)
    BY <2>4, ModesAre DEF DepthInv, Running
  <2> QED  BY <1>7, <2>3, <2>4 DEF AppendText
<1>8. CASE ExpandPlaceable
  <2>1. Calls("complex")' = Calls("complex")  BY <1>8, SteadySteps, CallsKept DEF Steady
  <2>2. placeables' = placeables + 1 /\ AtLoop /\ Running
    BY <1>8, ModesAre DEF ExpandPlaceable, AtPlaceable, AtElement, Counted, AtLoop, Running
  <2>3. ~AtLoop'  BY <1>8, ModesAre DEF ExpandPlaceable, AtLoop
  <2> QED  BY <1>1, <2>1, <2>2, <2>3 DEF DepthInv
<1>9. CASE Steady /\ ~AppendText /\ ~ExpandPlaceable
  <2>1. Running  BY <1>9, WithinTheLimit DEF Steady, Within, Running
  <2>2. UNCHANGED placeables
    BY <1>9 DEF Steady, Finish, ResolveNil, ResolveText, ResolveCyclic, WritePlaceable,
                EvalLiteral, EvalParameter, EvalArgument, EvalMessage, EvalTerm,
                EvalFunction, EvalPositional, TakePositional, CallNUMBER, CallDATETIME,
                CallFunction, EvalSelect, TakeSelector, TryVariant, NoVariantMatched, scope
  <2>3. \/ ctl.m \in {"give", "resolve", "eval"}
        \/ In("args") \/ In("variants")
    BY <1>9, ModesAre
            DEF Steady, Finish, ResolveNil, ResolveText, ResolveCyclic, WritePlaceable,
                EvalLiteral, EvalParameter, EvalArgument, EvalMessage, EvalTerm, At,
                EvalFunction, EvalPositional, TakePositional, CallNUMBER, CallDATETIME,
                CallFunction, EvalSelect, TakeSelector, TryVariant, NoVariantMatched,
                Calling, AtVariant
  <2>4. ~AtLoop  BY <2>3, ModesAre DEF AtLoop, In
  <2> QED  BY <1>6, <1>9, <2>1, <2>2, <2>4, SteadySteps, CallsKept
<1>10. CASE EnterTerm
  <2>1. Running /\ ~AtLoop /\ UNCHANGED placeables
    BY <1>10, ModesAre DEF EnterTerm, Calling, Running, AtLoop, In
  <2> QED  BY <1>6, <1>10, <2>1, TermEntered
<1>11. CASE LeaveTerm
  <2>1. Running /\ ~AtLoop /\ UNCHANGED placeables
        /\ stack # << >> /\ Top.f = "term" /\ stack' = Pop
    BY <1>11, ModesAre DEF LeaveTerm, Running, AtLoop, In
  <2>2. Calls("complex")' = Calls("complex")
    BY <2>1, CallsLeft DEF Calls, Top
  <2> QED  BY <1>6, <2>1, <2>2
<1>12. CASE ResolveComplex
  <2>1. Running /\ ~AtLoop /\ UNCHANGED placeables /\ ctl' = Continue
    BY <1>12, ModesAre DEF ResolveComplex, Running, AtLoop
  <2>2. ComplexFrame(ctl.p) \in Frames /\ ComplexFrame(ctl.p).f = "complex"
        /\ stack' = Push(ComplexFrame(ctl.p))
    BY <1>12, FramesAre, ControlsTyped
       DEF ResolveComplex, CallInv, TypeOK, IsComplex, ComplexFrame
  <2>3. Len(stack) + 1 \notin Calls("complex")
        /\ Calls("complex")' = Calls("complex") \cup {Len(stack) + 1}
    BY <2>2, CallsEntered DEF Calls
  <2>4. depth' = depth + 1  BY <1>1, <2>3, FS_AddElement
  <2>5. AtLoop'
    <3>1. stack \in Seq(Frames)  BY DEF CallInv, TypeOK
    <3>2. Len(stack') = Len(stack) + 1 /\ stack'[Len(stack')] = ComplexFrame(ctl.p)
          /\ stack' # << >>
      BY <2>2, <3>1 DEF Push
    <3> QED  BY <2>1, <2>2, <3>2 DEF AtLoop, In, Top
  <2>6. depth <= placeables  BY <1>1, <2>1 DEF DepthInv
  <2> QED  BY <1>1, <2>1, <2>4, <2>5, <2>6 DEF DepthInv
<1>13. CASE FinishPattern
  <2>1. Running /\ AtLoop /\ UNCHANGED placeables /\ ctl'.m = "give"
        /\ stack # << >> /\ Top.f = "complex" /\ stack' = Pop
    BY <1>13, ModesAre DEF FinishPattern, Running, AtLoop, In
  <2>2. Len(stack) \in Calls("complex")
        /\ Calls("complex")' = Calls("complex") \ {Len(stack)}
    BY <2>1, CallsLeft DEF Calls, Top
  <2>3. depth' = depth - 1  BY <1>1, <2>2, FS_RemoveElement
  <2>4. ~AtLoop'  BY <2>1, ModesAre DEF AtLoop
  <2>5. depth <= placeables + 1  BY <2>1 DEF DepthInv
  <2>6. depth' <= placeables'  BY <1>1, <2>1, <2>3, <2>5
  <2> HIDE DEF depth
  <2> QED  BY <1>2, <2>4, <2>6 DEF DepthInv, depth
<1> QED  BY <1>3, <1>4, <1>5, <1>7, <1>8, <1>9, <1>10, <1>11, <1>12, <1>13
         DEF Next, Work, Steady

(* MaxPlaceables bounds the recursion, also while other goroutines keep    *)
(* replacing the messages being formatted (trackPlaceable).                *)
THEOREM ResolverExpansion == Spec => []ExpansionBound
<1>1. Init => DepthInv  BY ModesAre DEF Init, DepthInv, Running
<1>2. CallInv /\ DepthInv => ExpansionBound
  <2> SUFFICES ASSUME CallInv, DepthInv, Running PROVE ExpansionBound
    BY DEF ExpansionBound
  <2>1. Cardinality(Calls("complex")) \in Nat /\ placeables \in Nat
    BY CallsFinite, ResolverAssumption DEF CallInv, TypeOK
  <2>2. placeables <= MaxPlaceables  BY DEF CallInv
  <2>3. Cardinality(Calls("complex")) <= placeables + 1  BY <2>1 DEF DepthInv
  <2> QED  BY <2>2, <2>3 DEF ExpansionBound
<1> QED  BY InitCall, NextCall, NextDepth, <1>1, <1>2, PTL DEF Spec

-----------------------------------------------------------------------------
(* Panics. *)
LEMMA NextEscape ==
  ASSUME Guarded
  PROVE  CallInv /\ OnlyFaultsEscape /\ [Next]_vars => OnlyFaultsEscape'
<1> SUFFICES ASSUME CallInv, OnlyFaultsEscape, [Next]_vars PROVE OnlyFaultsEscape'
  OBVIOUS
<1>1. \A o : Panic(o).why = o  BY DEF Panic
<1>2. \A o \in Outcomes.transform : o # "ok" => o = "fault"
  BY ProgramAssumption DEF Guarded
<1>3. CASE UNCHANGED ctl  BY <1>3 DEF OnlyFaultsEscape
<1>4. CASE UNCHANGED vars \/ AddResource \/ TakePositional \/ LeaveTerm
  BY <1>3, <1>4 DEF vars, AddResource, TakePositional, LeaveTerm, OnlyFaultsEscape, Continue
<1>5. CASE FormatText \/ ResolveText \/ AppendText
  BY <1>1, <1>2, <1>3, <1>5, ModesAre
     DEF FormatText, ResolveText, AppendText, OnlyFaultsEscape
<1>6. CASE WritePlaceable
  <2>1. PICK o \in Formatting(ctl.v) :
          IF Unrecovered(o, ctl.v) THEN ctl' = Panic(o) ELSE ctl' = Continue
    BY <1>6 DEF WritePlaceable
  <2>2. o = "panic" /\ ctl.v.k = "custom" => FALSE
    BY <2>1 DEF Formatting, UsesFormatter, Guarded
  <2> QED  BY <1>1, <2>1, <2>2, ModesAre DEF Unrecovered, OnlyFaultsEscape
<1>7. CASE CallFunction
  <2>1. ctl'.m = "give" \/ ctl' = Panic("fault")
    BY <1>7, ModesAre DEF CallFunction, Failed, NilResult, Missed
  <2> QED  BY <1>1, <2>1 DEF OnlyFaultsEscape
<1>8. CASE TryVariant
  <2>1. ctl' = Panic("fault") \/ ctl'.m = "resolve" \/ UNCHANGED ctl
    BY <1>8, ModesAre DEF TryVariant
  <2> QED  BY <1>1, <1>3, <2>1 DEF OnlyFaultsEscape
<1>9. CASE FormatNil \/ FormatComplex \/ Finish \/ Return \/ ResolveNil \/ ResolveCyclic
           \/ ResolveComplex \/ ExpandPlaceable \/ TooManyPlaceables \/ FinishPattern
           \/ EvalLiteral \/ EvalParameter \/ EvalArgument \/ EvalMessage
  <2>1. ctl'.m # "panic"
    BY <1>9, ModesAre
       DEF FormatNil, FormatComplex, Finish, Return, ResolveNil, ResolveCyclic,
           ResolveComplex, ExpandPlaceable, TooManyPlaceables, FinishPattern,
           EvalLiteral, EvalParameter, EvalArgument, EvalMessage, Missed
  <2> QED  BY <2>1 DEF OnlyFaultsEscape
<1>10. CASE EvalTerm \/ EvalFunction \/ EvalPositional \/ EnterTerm \/ CallNUMBER
            \/ CallDATETIME \/ EvalSelect \/ TakeSelector \/ NoVariantMatched
  <2>1. ctl'.m # "panic"
    BY <1>10, ModesAre
       DEF EvalTerm, EvalFunction, EvalPositional, EnterTerm, CallNUMBER, CallDATETIME,
           EvalSelect, TakeSelector, NoVariantMatched, Missed, Answer
  <2> QED  BY <2>1 DEF OnlyFaultsEscape
<1> QED  BY <1>4, <1>5, <1>6, <1>7, <1>8, <1>9, <1>10 DEF Next, Call, Work

(* With a transform and values that do not panic, only a runtime fault of  *)
(* user code escapes FormatPattern (guardExtension, callFunction): a       *)
(* panicking function, formatter or plural rule never does.                *)
THEOREM ResolverPanics == Guarded => (Spec => []OnlyFaultsEscape)
<1> SUFFICES ASSUME Guarded PROVE Spec => []OnlyFaultsEscape  OBVIOUS
<1>1. Init => OnlyFaultsEscape  BY ModesAre DEF Init, OnlyFaultsEscape
<1>2. CallInv /\ OnlyFaultsEscape /\ [Next]_vars => OnlyFaultsEscape'  BY NextEscape
<1> QED  BY InitCall, NextCall, <1>1, <1>2, PTL DEF Spec

-----------------------------------------------------------------------------
(* Isolation marks.  Counting is additive over concatenation. *)
LEMMA CountIs ==
  ASSUME NEW S, NEW s \in Seq(S), NEW X
  PROVE  /\ Count(s, X) \in Nat
         /\ IsFiniteSet({i \in 1..Len(s) : s[i] \in X})
         /\ Count(s, X) = Cardinality({i \in 1..Len(s) : s[i] \in X})
<1> DEFINE Hits == {i \in 1..Len(s) : s[i] \in X}
<1>1. DOMAIN s = 1..Len(s) /\ Len(s) \in Nat  BY LenProperties
<1>2. IsFiniteSet(1..Len(s))  BY <1>1, FS_Interval
<1>3. IsFiniteSet(Hits)  BY <1>2, FS_Subset
<1>4. Count(s, X) = Cardinality(Hits)  BY <1>1 DEF Count
<1> HIDE DEF Hits
<1>5. Cardinality(Hits) \in Nat  BY <1>3, FS_CardinalityType
<1> QED  BY <1>3, <1>4, <1>5 DEF Hits

LEMMA CountNone == \A X : Count(<< >>, X) = 0
<1>1. \A X : {i \in DOMAIN << >> : << >>[i] \in X} = {}  OBVIOUS
<1> QED  BY <1>1, FS_EmptySet DEF Count

LEMMA CountOne ==
  ASSUME NEW x, NEW X
  PROVE  Count(<<x>>, X) = IF x \in X THEN 1 ELSE 0
<1>1. {i \in DOMAIN <<x>> : <<x>>[i] \in X} = IF x \in X THEN {1} ELSE {}  OBVIOUS
<1> QED  BY <1>1, FS_EmptySet, FS_Singleton DEF Count

LEMMA CountConcat ==
  ASSUME NEW S, NEW s \in Seq(S), NEW t \in Seq(S), NEW X
  PROVE  Count(s \o t, X) = Count(s, X) + Count(t, X)
<1> DEFINE m == Len(s)
           n == Len(t)
           A == {i \in 1..m : s[i] \in X}
           B == {i \in 1..n : t[i] \in X}
           C == {i \in m + 1..m + n : (s \o t)[i] \in X}
<1>1. /\ m \in Nat /\ n \in Nat
      /\ s \o t \in Seq(S) /\ Len(s \o t) = m + n
      /\ \A i \in 1..m + n : (s \o t)[i] = IF i <= m THEN s[i] ELSE t[i - m]
  BY ConcatProperties, LenProperties
<1>2. /\ Count(s, X) = Cardinality(A) /\ IsFiniteSet(A)
      /\ Count(t, X) = Cardinality(B) /\ IsFiniteSet(B)
      /\ Count(s \o t, X) = Cardinality({i \in 1..m + n : (s \o t)[i] \in X})
  BY <1>1, CountIs
<1>3. {i \in 1..m + n : (s \o t)[i] \in X} = A \cup C
  <2>1. 1..m + n = (1..m) \cup (m + 1..m + n)  BY <1>1
  <2>2. \A i \in 1..m : i \in 1..m + n /\ i <= m  BY <1>1
  <2>3. \A i \in 1..m : (s \o t)[i] = s[i]  BY <1>1, <2>2
  <2> HIDE DEF m, n
  <2> QED  BY <2>1, <2>3
<1>4. A \cap C = {}  BY <1>1
<1>5. IsFiniteSet(C) /\ Cardinality(C) = Cardinality(B)
  <2> DEFINE f == [i \in B |-> m + i]
  <2>1. \A i \in 1..n : m + i \in m + 1..m + n /\ (s \o t)[m + i] = t[i]
    <3> SUFFICES ASSUME NEW i \in 1..n
                 PROVE  m + i \in m + 1..m + n /\ (s \o t)[m + i] = t[i]
      OBVIOUS
    <3>1. m + i \in 1..m + n /\ ~(m + i <= m) /\ m + i \in m + 1..m + n /\ (m + i) - m = i
      BY <1>1
    <3> HIDE DEF m, n
    <3> QED  BY <1>1, <3>1
  <2>2. f \in [B -> C]  BY <2>1
  <2>3. \A a, b \in B : f[a] = f[b] => a = b  BY <1>1
  <2>4. \A c \in C : \E b \in B : f[b] = c
    <3> SUFFICES ASSUME NEW c \in C PROVE \E b \in B : f[b] = c  OBVIOUS
    <3>1. c - m \in 1..n /\ m + (c - m) = c  BY <1>1
    <3>2. (s \o t)[c] = t[c - m]  BY <2>1, <3>1
    <3>3. c - m \in B  BY <3>1, <3>2
    <3> QED  BY <3>1, <3>3
  <2>5. f \in Bijection(B, C)  BY <2>2, <2>3, <2>4, Fun_IsBij
  <2>6. ExistsBijection(B, C)  BY <2>5 DEF ExistsBijection
  <2> QED  BY <1>2, <2>6, FS_Bijection
<1> HIDE DEF A, B, C
<1>6. Cardinality(A \cup C) = Cardinality(A) + Cardinality(C) - Cardinality({})
  BY <1>2, <1>4, <1>5, FS_Union
<1>7. Cardinality({}) = 0  BY FS_EmptySet
<1>8. Cardinality(A) \in Nat /\ Cardinality(C) \in Nat
  BY <1>2, <1>5, FS_CardinalityType
<1>9. Count(s \o t, X) = Cardinality(A) + Cardinality(C)
  <2>1. \A a, c \in Nat : a + c - 0 = a + c  OBVIOUS
  <2> QED  BY <1>2, <1>3, <1>6, <1>7, <1>8, <2>1
<1> QED  BY <1>2, <1>5, <1>9

LEMMA PrefixIs ==
  ASSUME NEW S, NEW s \in Seq(S), NEW n \in 0..Len(s)
  PROVE  /\ SubSeq(s, 1, n) \in Seq(S)
         /\ Len(SubSeq(s, 1, n)) = n
         /\ \A i \in 1..n : SubSeq(s, 1, n)[i] = s[i]
<1>1. Len(s) \in Nat /\ n \in Nat /\ n <= Len(s)  BY LenProperties
<1>2. \A i \in 1..n : i \in 1..Len(s)  BY <1>1
<1>3. \A i \in 1..n : s[i] \in S  BY <1>2, ElementOfSeq
<1>4. /\ SubSeq(s, 1, n) \in Seq(S)
      /\ Len(SubSeq(s, 1, n)) = IF 1 <= n THEN n - 1 + 1 ELSE 0
      /\ \A i \in 1..n - 1 + 1 : SubSeq(s, 1, n)[i] = s[1 + i - 1]
  BY <1>1, <1>3, SubSeqProperties
<1> QED  BY <1>1, <1>4

LEMMA PrefixOfConcat ==
  ASSUME NEW S, NEW s \in Seq(S), NEW t \in Seq(S), NEW n \in 0..Len(s) + Len(t)
  PROVE  \/ n \in 0..Len(s) /\ SubSeq(s \o t, 1, n) = SubSeq(s, 1, n)
         \/ /\ n - Len(s) \in 0..Len(t)
            /\ SubSeq(s \o t, 1, n) = s \o SubSeq(t, 1, n - Len(s))
<1> DEFINE k == n - Len(s)
<1>1. /\ Len(s) \in Nat /\ Len(t) \in Nat /\ n \in Nat
      /\ s \o t \in Seq(S) /\ Len(s \o t) = Len(s) + Len(t)
      /\ \A i \in 1..Len(s) + Len(t) : (s \o t)[i] = IF i <= Len(s) THEN s[i] ELSE t[i - Len(s)]
  BY ConcatProperties, LenProperties
<1>2. n \in 0..Len(s \o t)  BY <1>1
<1>3. /\ SubSeq(s \o t, 1, n) \in Seq(S)
      /\ Len(SubSeq(s \o t, 1, n)) = n
      /\ \A i \in 1..n : SubSeq(s \o t, 1, n)[i] = (s \o t)[i]
  BY <1>1, <1>2, PrefixIs
<1>4. CASE n <= Len(s)
  <2>1. n \in 0..Len(s)  BY <1>1, <1>4
  <2>2. /\ SubSeq(s, 1, n) \in Seq(S) /\ Len(SubSeq(s, 1, n)) = n
        /\ \A i \in 1..n : SubSeq(s, 1, n)[i] = s[i]
    BY <2>1, PrefixIs
  <2>3. \A i \in 1..n : i \in 1..Len(s) + Len(t) /\ i <= Len(s)  BY <1>1, <1>4
  <2>4. \A i \in 1..n : SubSeq(s \o t, 1, n)[i] = SubSeq(s, 1, n)[i]
    BY <1>1, <1>3, <2>2, <2>3
  <2>5. SubSeq(s \o t, 1, n) = SubSeq(s, 1, n)  BY <1>3, <2>2, <2>4, SeqEqual
  <2> QED  BY <2>1, <2>5
<1>5. CASE ~(n <= Len(s))
  <2>1. k \in 0..Len(t) /\ n = Len(s) + k  BY <1>1, <1>5
  <2>2. /\ SubSeq(t, 1, k) \in Seq(S) /\ Len(SubSeq(t, 1, k)) = k
        /\ \A i \in 1..k : SubSeq(t, 1, k)[i] = t[i]
    BY <2>1, PrefixIs
  <2> DEFINE r == s \o SubSeq(t, 1, k)
  <2> HIDE DEF k
  <2>3. /\ r \in Seq(S) /\ Len(r) = n
        /\ \A i \in 1..n : r[i] = IF i <= Len(s) THEN s[i] ELSE SubSeq(t, 1, k)[i - Len(s)]
    BY <2>1, <2>2, ConcatProperties
  <2>4. \A i \in 1..n : /\ i \in 1..Len(s) + Len(t)
                        /\ ~(i <= Len(s)) => i - Len(s) \in 1..k
    BY <1>1, <2>1
  <2> HIDE DEF r
  <2>5. \A i \in 1..n : SubSeq(s \o t, 1, n)[i] = r[i]  BY <1>1, <1>3, <2>2, <2>3, <2>4
  <2>6. SubSeq(s \o t, 1, n) = r  BY <1>3, <2>3, <2>5, SeqEqual
  <2> QED  BY <2>1, <2>6 DEF r, k
<1> QED  BY <1>1, <1>4, <1>5

(* A text in which d marks are open at the end, and never more are closed  *)
(* than were opened, even after c others.                                  *)
OpensAfter(out, c, d) ==
  /\ \A n \in 0..Len(out) :
       Count(SubSeq(out, 1, n), {PDI}) <= Count(SubSeq(out, 1, n), {FSI}) + c
  /\ Count(out, {PDI}) + d = Count(out, {FSI}) + c

(* The marks of a text and of its prefixes are natural numbers. *)
LEMMA MarksTyped ==
  ASSUME NEW out \in Seq(Tokens)
  PROVE  /\ Count(out, {PDI}) \in Nat /\ Count(out, {FSI}) \in Nat
         /\ \A n \in 0..Len(out) : /\ SubSeq(out, 1, n) \in Seq(Tokens)
                                   /\ Count(SubSeq(out, 1, n), {PDI}) \in Nat
                                   /\ Count(SubSeq(out, 1, n), {FSI}) \in Nat
BY PrefixIs, CountIs

LEMMA OpensMore ==
  ASSUME NEW out \in Seq(Tokens), Isolates(out), NEW c \in Nat
  PROVE  OpensAfter(out, c, c)
<1>1. ASSUME NEW n \in 0..Len(out)
      PROVE  Count(SubSeq(out, 1, n), {PDI}) <= Count(SubSeq(out, 1, n), {FSI}) + c
  <2> DEFINE p == Count(SubSeq(out, 1, n), {PDI})
             f == Count(SubSeq(out, 1, n), {FSI})
  <2>1. p \in Nat /\ f \in Nat  BY MarksTyped
  <2>2. p <= f  BY DEF Isolates
  <2> HIDE DEF p, f
  <2>3. p <= f + c  BY <2>1, <2>2
  <2> QED  BY <2>3 DEF p, f
<1>2. Count(out, {PDI}) + c = Count(out, {FSI}) + c  BY DEF Isolates
<1> QED  BY <1>1, <1>2 DEF OpensAfter

LEMMA OpensNothing ==
  ASSUME NEW out \in Seq(Tokens), OpensAfter(out, 0, 0)
  PROVE  Isolates(out)
<1>1. \A p, f \in Nat : (p <= f + 0 => p <= f) /\ (p + 0 = f + 0 => p = f)  OBVIOUS
<1>2. ASSUME NEW n \in 0..Len(out)
      PROVE  Count(SubSeq(out, 1, n), {PDI}) <= Count(SubSeq(out, 1, n), {FSI})
  <2>1. Count(SubSeq(out, 1, n), {PDI}) <= Count(SubSeq(out, 1, n), {FSI}) + 0
    BY DEF OpensAfter
  <2> QED  BY <1>1, <2>1, MarksTyped
<1>3. Count(out, {PDI}) = Count(out, {FSI})
  <2>1. Count(out, {PDI}) + 0 = Count(out, {FSI}) + 0  BY DEF OpensAfter
  <2> QED  BY <1>1, <2>1, MarksTyped
<1> QED  BY <1>2, <1>3 DEF Isolates

LEMMA OpensConcat ==
  ASSUME NEW s \in Seq(Tokens), NEW t \in Seq(Tokens), NEW c \in Nat, NEW d \in Nat,
         OpensAfter(s, 0, c), OpensAfter(t, c, d)
  PROVE  OpensAfter(s \o t, 0, d)
<1>1. /\ Count(s, {PDI}) \in Nat /\ Count(s, {FSI}) \in Nat
      /\ Count(t, {PDI}) \in Nat /\ Count(t, {FSI}) \in Nat
  BY MarksTyped
<1>2. \A q \in Seq(Tokens) : /\ Count(s \o q, {FSI}) = Count(s, {FSI}) + Count(q, {FSI})
                             /\ Count(s \o q, {PDI}) = Count(s, {PDI}) + Count(q, {PDI})
  BY CountConcat
<1>3. /\ s \o t \in Seq(Tokens) /\ Len(s \o t) = Len(s) + Len(t)
      /\ Len(s) \in Nat /\ Len(t) \in Nat
  BY ConcatProperties, LenProperties
<1>4. Count(s, {PDI}) + c = Count(s, {FSI}) + 0  BY DEF OpensAfter
<1>5. \A ps, fs, p, f \in Nat :
        ps + c = fs + 0 /\ p <= f + c => ps + p <= (fs + f) + 0
  OBVIOUS
<1>6. \A ps, fs, p, f \in Nat :
        ps + c = fs + 0 /\ p + d = f + c => (ps + p) + d = (fs + f) + 0
  OBVIOUS
<1>7. ASSUME NEW n \in 0..Len(s \o t)
      PROVE  Count(SubSeq(s \o t, 1, n), {PDI}) <= Count(SubSeq(s \o t, 1, n), {FSI}) + 0
  <2>1. n \in 0..Len(s) + Len(t)  BY <1>3
  <2>2. CASE n \in 0..Len(s) /\ SubSeq(s \o t, 1, n) = SubSeq(s, 1, n)
    BY <2>2 DEF OpensAfter
  <2>3. CASE /\ n - Len(s) \in 0..Len(t)
             /\ SubSeq(s \o t, 1, n) = s \o SubSeq(t, 1, n - Len(s))
    <3> DEFINE q == SubSeq(t, 1, n - Len(s))
    <3>1. q \in Seq(Tokens) /\ Count(q, {PDI}) \in Nat /\ Count(q, {FSI}) \in Nat
      BY <2>3, MarksTyped
    <3>2. Count(q, {PDI}) <= Count(q, {FSI}) + c  BY <2>3 DEF OpensAfter
    <3>3. SubSeq(s \o t, 1, n) = s \o q  BY <2>3
    <3> HIDE DEF q
    <3>4. Count(s, {PDI}) + Count(q, {PDI}) <= (Count(s, {FSI}) + Count(q, {FSI})) + 0
      BY <1>1, <1>4, <1>5, <3>1, <3>2
    <3> QED  BY <1>2, <3>1, <3>3, <3>4
  <2> QED  BY <2>1, <2>2, <2>3, PrefixOfConcat
<1>8. Count(s \o t, {PDI}) + d = Count(s \o t, {FSI}) + 0
  <2>1. Count(t, {PDI}) + d = Count(t, {FSI}) + c  BY DEF OpensAfter
  <2>2. (Count(s, {PDI}) + Count(t, {PDI})) + d = (Count(s, {FSI}) + Count(t, {FSI})) + 0
    BY <1>1, <1>4, <1>6, <2>1
  <2> QED  BY <1>2, <2>2
<1> QED  BY <1>7, <1>8 DEF OpensAfter

LEMMA OpensOne ==
  ASSUME NEW x \in Tokens, NEW c \in Nat
  PROVE  /\ x \notin {FSI, PDI} => OpensAfter(<<x>>, c, c)
         /\ x = FSI => OpensAfter(<<x>>, c, c + 1)
         /\ x = PDI => OpensAfter(<<x>>, c + 1, c)
<1>1. FSI # PDI  BY DEF FSI, PDI
<1>2. <<x>> \in Seq(Tokens) /\ Len(<<x>>) = 1  OBVIOUS
<1>3. SubSeq(<<x>>, 1, 0) = << >>  BY SubSeqEmpty
<1>4. SubSeq(<<x>>, 1, 1) = <<x>>
  <2>1. SubSeq(<<x>>, 1, Len(<<x>>)) = <<x>>  BY <1>2, SubSeqFull
  <2> QED  BY <1>2, <2>1
<1>5. \A n \in 0..1 : n = 0 \/ n = 1  OBVIOUS
<1>6. /\ Count(<<x>>, {PDI}) = IF x = PDI THEN 1 ELSE 0
      /\ Count(<<x>>, {FSI}) = IF x = FSI THEN 1 ELSE 0
  BY CountOne
<1>7. ASSUME NEW a \in Nat, NEW n \in 0..Len(<<x>>), x # PDI \/ a > 0
      PROVE  Count(SubSeq(<<x>>, 1, n), {PDI}) <= Count(SubSeq(<<x>>, 1, n), {FSI}) + a
  <2>1. CASE n = 0
    <3>1. Count(SubSeq(<<x>>, 1, n), {PDI}) = 0 /\ Count(SubSeq(<<x>>, 1, n), {FSI}) = 0
      BY <1>3, <2>1, CountNone
    <3>2. 0 <= 0 + a  OBVIOUS
    <3> QED  BY <3>1, <3>2
  <2>2. CASE n = 1
    <3>1. /\ Count(SubSeq(<<x>>, 1, n), {PDI}) = IF x = PDI THEN 1 ELSE 0
          /\ Count(SubSeq(<<x>>, 1, n), {FSI}) = IF x = FSI THEN 1 ELSE 0
      BY <1>4, <1>6, <2>2
    <3>2. 0 <= 0 + a /\ 0 <= 1 + a /\ (a > 0 => 1 <= 0 + a)  OBVIOUS
    <3> QED  BY <1>1, <1>7, <3>1, <3>2
  <2> QED  BY <1>2, <1>5, <2>1, <2>2
<1>8. x \notin {FSI, PDI} => OpensAfter(<<x>>, c, c)
  <2>1. x \notin {FSI, PDI} => Count(<<x>>, {PDI}) + c = Count(<<x>>, {FSI}) + c
    BY <1>6
  <2> QED  BY <1>7, <2>1 DEF OpensAfter
<1>9. x = FSI => OpensAfter(<<x>>, c, c + 1)
  <2>1. x = FSI => Count(<<x>>, {PDI}) + (c + 1) = Count(<<x>>, {FSI}) + c
    BY <1>1, <1>6
  <2> QED  BY <1>1, <1>7, <2>1 DEF OpensAfter
<1>10. x = PDI => OpensAfter(<<x>>, c + 1, c)
  <2>1. x = PDI => Count(<<x>>, {PDI}) + c = Count(<<x>>, {FSI}) + (c + 1)
    BY <1>1, <1>6
  <2>2. c + 1 \in Nat /\ c + 1 > 0  OBVIOUS
  <2> QED  BY <1>7, <2>1, <2>2 DEF OpensAfter
<1> QED  BY <1>8, <1>9, <1>10

LEMMA OpensNone == OpensAfter(<< >>, 0, 0)
<1>1. Len(<< >>) = 0  OBVIOUS
<1>2. SubSeq(<< >>, 1, 0) = << >>  OBVIOUS
<1>3. \A n \in 0..0 : n = 0  OBVIOUS
<1>4. ASSUME NEW n \in 0..Len(<< >>)
      PROVE  Count(SubSeq(<< >>, 1, n), {PDI}) <= Count(SubSeq(<< >>, 1, n), {FSI}) + 0
  <2>1. SubSeq(<< >>, 1, n) = << >>  BY <1>1, <1>2, <1>3
  <2>2. 0 <= 0 + 0  OBVIOUS
  <2> QED  BY <2>1, <2>2, CountNone
<1>5. Count(<< >>, {PDI}) + 0 = Count(<< >>, {FSI}) + 0  BY CountNone
<1> QED  BY <1>4, <1>5 DEF OpensAfter

LEMMA IsoValues ==
  /\ \A x \in Tokens \ {FSI, PDI} : Isolates(<<x>>) /\ IsoValue(Str(<<x>>))
  /\ \A v : v.k # "string" => IsoValue(v)
  /\ \A m \in Missing : IsoValue(None(m)) /\ Isolates(Rendered(None(m)))
  /\ \A v \in Values : IsoValue(v) => Isolates(Rendered(v))
<1>1. \A x \in Tokens \ {FSI, PDI} : Isolates(<<x>>)
  <2> SUFFICES ASSUME NEW x \in Tokens, x \notin {FSI, PDI} PROVE Isolates(<<x>>)
    OBVIOUS
  <2>1. 0 \in Nat /\ <<x>> \in Seq(Tokens)  OBVIOUS
  <2>2. OpensAfter(<<x>>, 0, 0)  BY <2>1, OpensOne
  <2> QED  BY <2>1, <2>2, OpensNothing
<1>2. {"text", "number", "badnumber", "datetime", "custom"} \subseteq Tokens \ {FSI, PDI}
  BY TokensTyped DEF FSI, PDI
<1>3. \A m \in Missing : Fallback(m) \in Tokens \ {FSI, PDI}
  BY TokensTyped, TokensAssumption
<1>4. \A v \in Values : IsoValue(v) => Isolates(Rendered(v))
  <2> SUFFICES ASSUME NEW v \in Values, IsoValue(v) PROVE Isolates(Rendered(v))
    OBVIOUS
  <2>1. CASE v.k = "string"  BY <2>1 DEF IsoValue, Rendered
  <2>2. CASE v.k = "none"  BY <1>1, <1>3, <2>2, ValuesTyped DEF Rendered
  <2>3. CASE v.k = "number"  BY <1>1, <1>2, <2>3 DEF Rendered
  <2>4. CASE v.k = "datetime"  BY <1>1, <1>2, <2>4 DEF Rendered
  <2>5. CASE v.k = "custom"  BY <1>1, <1>2, <2>5 DEF Rendered
  <2> QED  BY <2>1, <2>2, <2>3, <2>4, <2>5, ValuesTyped
<1>5. \A m \in Missing : IsoValue(None(m)) /\ None(m) \in Values
  BY ValuesTyped DEF IsoValue, None
<1> QED  BY <1>1, <1>4, <1>5 DEF IsoValue, Str

(* The text of an open pattern is closed while the pattern is in its loop, *)
(* and has one mark open while it awaits the value of a placeable.         *)
Level(p) == IF Isolated(p) THEN 1 ELSE 0
ValuesIsolate(fr) == fr.f = "args" => \A j \in DOMAIN fr.vals : IsoValue(fr.vals[j])
Awaiting(fr) ==
  ValuesIsolate(fr) /\ (fr.f = "complex" => OpensAfter(fr.out, 0, Level(fr.p)))
InLoop(fr) ==
  ValuesIsolate(fr) /\ (fr.f = "complex" => OpensAfter(fr.out, 0, 0))

StackIsolates ==
  \A k \in DOMAIN stack :
    IF k = Len(stack) /\ ctl = Continue THEN InLoop(stack[k]) ELSE Awaiting(stack[k])

IsolationInv ==
  /\ IsolationBalanced
  /\ Running => StackIsolates

LEMMA IsoSame ==
  ASSUME StackIsolates, UNCHANGED stack,
         \/ (ctl # Continue /\ ctl' # Continue)
         \/ stack = << >>
         \/ Top.f # "complex"
  PROVE  StackIsolates'
BY DEF StackIsolates, Top, Awaiting, InLoop

LEMMA IsoPush ==
  ASSUME CallInv, StackIsolates, ctl # Continue, NEW fr \in Frames, stack' = Push(fr),
         IF ctl' = Continue THEN InLoop(fr) ELSE Awaiting(fr)
  PROVE  StackIsolates'
<1>1. stack \in Seq(Frames)  BY DEF CallInv, TypeOK
<1>2. /\ Len(stack) \in Nat /\ DOMAIN stack = 1..Len(stack)
      /\ DOMAIN stack' = 1..Len(stack) + 1
      /\ \A n \in DOMAIN stack : stack'[n] = stack[n]
      /\ stack'[Len(stack) + 1] = fr
      /\ Len(stack') = Len(stack) + 1
  BY <1>1, PushIs DEF Push
<1>3. \A k \in DOMAIN stack' : k = Len(stack) + 1 \/ (k \in DOMAIN stack /\ k # Len(stack) + 1)
  BY <1>2
<1> QED  BY <1>2, <1>3 DEF StackIsolates

LEMMA IsoPop ==
  ASSUME CallInv, StackIsolates, stack # << >>, stack' = Pop, ctl' # Continue
  PROVE  StackIsolates'
<1>1. stack \in Seq(Frames)  BY DEF CallInv, TypeOK
<1>2. /\ Len(stack) \in Nat \ {0} /\ DOMAIN stack = 1..Len(stack)
      /\ DOMAIN stack' = 1..Len(stack) - 1
      /\ \A n \in 1..Len(stack) - 1 : stack'[n] = stack[n]
  BY <1>1, PopIs DEF Pop
<1>3. \A k \in DOMAIN stack' : k \in DOMAIN stack /\ k # Len(stack)  BY <1>2
<1> QED  BY <1>2, <1>3 DEF StackIsolates

LEMMA IsoTop ==
  ASSUME CallInv, StackIsolates, stack # << >>, NEW fr \in Frames, stack' = ToTop(fr),
         IF ctl' = Continue THEN InLoop(fr) ELSE Awaiting(fr)
  PROVE  StackIsolates'
<1>1. stack \in Seq(Frames)  BY DEF CallInv, TypeOK
<1>2. /\ Len(stack) \in Nat \ {0} /\ DOMAIN stack = 1..Len(stack)
      /\ DOMAIN stack' = 1..Len(stack)
      /\ \A n \in 1..Len(stack) - 1 : stack'[n] = stack[n]
      /\ stack'[Len(stack)] = fr
  BY <1>1, ReplaceIs DEF ToTop
<1>3. Len(stack') = Len(stack)  BY <1>1, <1>2, LenProperties DEF CallInv, TypeOK, ToTop
<1>4. \A k \in DOMAIN stack' : k = Len(stack) \/ (k \in 1..Len(stack) - 1 /\ k # Len(stack))
  BY <1>2
<1> QED  BY <1>2, <1>3, <1>4 DEF StackIsolates

(* The end of a call. *)
LEMMA IsoEnds ==
  ASSUME TextsIsolate, CallInv, IsolationInv,
         Call \/ Finish \/ Return \/ TooManyPlaceables
  PROVE  IsolationInv'
<1>1. ASSUME NEW out \in Seq(Tokens), Isolates(out), ctl' = Done(out)
      PROVE  IsolationInv'
  BY <1>1, ModesAre DEF IsolationInv, IsolationBalanced, Running, Done
<1>2. ASSUME ctl'.m \notin {"done", "give"}, Running' => stack' = << >>
      PROVE  IsolationInv'
  BY <1>2 DEF IsolationInv, IsolationBalanced, StackIsolates
<1>3. Isolates(<<"text">>) /\ <<"text">> \in Seq(Tokens)
  BY IsoValues, TokensTyped DEF FSI, PDI
<1>4. \A m \in Missing : Isolates(Rendered(None(m))) /\ Rendered(None(m)) \in Seq(Tokens)
  BY IsoValues, ValuesTyped, RenderedTyped
<1>5. CASE FormatText
  <2>1. ctl' = Done(<<"text">>) \/ ctl'.m = "panic"
    BY <1>5, ModesAre DEF FormatText
  <2> QED  BY <1>1, <1>2, <1>3, <2>1 DEF Running
<1>6. CASE FormatNil  BY <1>1, <1>4, <1>6 DEF FormatNil, Missing
<1>7. CASE FormatComplex
  <2>1. ctl'.m = "resolve" /\ stack' = << >>
    BY <1>7, ModesAre DEF FormatComplex, CallInv
  <2> QED  BY <1>2, <2>1
<1>8. CASE Finish
  <2>1. ctl.v \in Values /\ IsoValue(ctl.v)
    BY <1>8, ControlsTyped DEF Finish, IsolationInv, IsolationBalanced, IsoValue, CallInv, TypeOK
  <2>2. Isolates(Rendered(ctl.v)) /\ Rendered(ctl.v) \in Seq(Tokens)
    BY <2>1, IsoValues, RenderedTyped
  <2> QED  BY <1>1, <1>8, <2>2 DEF Finish
<1>9. CASE Return  BY <1>2, <1>9, ModesAre DEF Return, Running
<1>10. CASE TooManyPlaceables  BY <1>1, <1>4, <1>10 DEF TooManyPlaceables, Missing
<1> QED  BY <1>5, <1>6, <1>7, <1>8, <1>9, <1>10 DEF Call

(* What the invariant asks of a step that goes on. *)
LEMMA IsoGoesOn ==
  ASSUME StackIsolates',
         \/ ctl'.m \in {"eval", "resolve", "continue", "panic"}
         \/ \E v : ctl' = Give(v) /\ IsoValue(v)
  PROVE  IsolationInv'
BY ModesAre DEF IsolationInv, IsolationBalanced, IsoValue, Give

LEMMA IsoMissed ==
  ASSUME NEW err, NEW m \in Missing, Missed(err, m)
  PROVE  ctl'.m = "give" /\ \E v : ctl' = Give(v) /\ IsoValue(v)
BY IsoValues, ModesAre DEF Missed

LEMMA IsoPatterns ==
  ASSUME TextsIsolate, CallInv, IsolationInv, CallInv',
         \/ ResolveNil \/ ResolveText \/ ResolveCyclic \/ ResolveComplex
         \/ AppendText \/ ExpandPlaceable \/ WritePlaceable \/ FinishPattern
  PROVE  IsolationInv'
<1>1. StackIsolates
  <2>1. Running
    BY ModesAre DEF Running, ResolveNil, ResolveText, ResolveCyclic, ResolveComplex,
                    AppendText, ExpandPlaceable, WritePlaceable, FinishPattern,
                    AtPlaceable, AtElement
  <2> QED  BY <2>1 DEF IsolationInv
<1>2. ASSUME ctl'.m = "panic" PROVE IsolationInv'
  BY <1>2 DEF IsolationInv, IsolationBalanced, Running
<1>3. \A x \in {"text"} : x \in Tokens \ {FSI, PDI}  BY TokensTyped DEF FSI, PDI
<1>4. CASE ResolveNil \/ ResolveCyclic
  <2>1. ctl # Continue /\ UNCHANGED stack
    BY <1>4, ModesAre DEF ResolveNil, ResolveCyclic, scope
  <2>2. ctl'.m = "give" /\ \E v : ctl' = Give(v) /\ IsoValue(v)
    BY <1>4, IsoValues, IsoMissed, ModesAre DEF ResolveNil, ResolveCyclic, Missing
  <2> QED  BY <1>1, <2>1, <2>2, IsoSame, IsoGoesOn, ModesAre
<1>5. CASE ResolveText
  <2>1. ctl # Continue /\ UNCHANGED stack  BY <1>5, ModesAre DEF ResolveText, scope
  <2>2. ctl'.m = "panic" \/ ctl' = Give(Str(<<"text">>))
    BY <1>5, ModesAre DEF ResolveText
  <2>3. IsoValue(Str(<<"text">>))  BY <1>3, IsoValues
  <2> QED  BY <1>1, <1>2, <2>1, <2>2, <2>3, IsoSame, IsoGoesOn, ModesAre
<1>6. CASE ResolveComplex
  <2> DEFINE fr == ComplexFrame(ctl.p)
  <2>1. ctl # Continue /\ ctl' = Continue /\ stack' = Push(fr)
    BY <1>6, ModesAre DEF ResolveComplex
  <2>2. fr \in Frames
    BY <1>6, FramesAre, ControlsTyped DEF ResolveComplex, CallInv, TypeOK, IsComplex
  <2>3. InLoop(fr)  BY OpensNone DEF InLoop, ValuesIsolate, ComplexFrame
  <2> HIDE DEF fr
  <2>4. StackIsolates'  BY <1>1, <2>1, <2>2, <2>3, IsoPush
  <2> QED  BY <2>1, <2>4, IsoGoesOn, ModesAre
(* The text of the pattern in its loop, or awaiting a value. *)
<1>7. ASSUME In("complex")
      PROVE  /\ Top \in Frames /\ stack # << >> /\ Top.f = "complex"
             /\ Top.out \in Seq(Tokens)
             /\ ctl = Continue => OpensAfter(Top.out, 0, 0)
             /\ ctl # Continue => OpensAfter(Top.out, 0, Level(Top.p))
  <2>1. Top \in Frames /\ stack # << >> /\ Top.f = "complex"
    BY <1>7, TopIs DEF In, CallInv
  <2>2. Len(stack) \in DOMAIN stack  BY <2>1, PopIs DEF CallInv, TypeOK
  <2> QED  BY <1>1, <2>1, <2>2, FramesTyped DEF StackIsolates, InLoop, Awaiting, Top
<1>8. \A fr \in Frames : fr.f = "complex" =>
        \A out \in Seq(Tokens), i \in Nat \ {0} :
          /\ [fr EXCEPT !.out = out].out = out /\ [fr EXCEPT !.i = i, !.out = out].out = out
          /\ [fr EXCEPT !.out = out].p = fr.p /\ [fr EXCEPT !.i = i, !.out = out].p = fr.p
          /\ [fr EXCEPT !.out = out].f = "complex"
          /\ [fr EXCEPT !.i = i, !.out = out].f = "complex"
  <2> SUFFICES ASSUME NEW fr \in Frames, fr.f = "complex",
                      NEW out \in Seq(Tokens), NEW i \in Nat \ {0}
               PROVE
          /\ [fr EXCEPT !.out = out].out = out /\ [fr EXCEPT !.i = i, !.out = out].out = out
          /\ [fr EXCEPT !.out = out].p = fr.p /\ [fr EXCEPT !.i = i, !.out = out].p = fr.p
          /\ [fr EXCEPT !.out = out].f = "complex"
          /\ [fr EXCEPT !.i = i, !.out = out].f = "complex"
    OBVIOUS
  <2> DEFINE F == [f : {"complex"}, p : {q \in Patterns : IsComplex(q)},
                   i : Nat \ {0}, out : Seq(Tokens)]
  <2>1. fr \in F  BY DEF Frames
  <2>2. DOMAIN fr = {"f", "p", "i", "out"}  BY <2>1
  <2> QED  BY <2>2
<1>9. ASSUME In("complex"), NEW out \in Seq(Tokens), NEW i \in Nat \ {0},
             \/ stack' = ToTop([Top EXCEPT !.out = out])
             \/ stack' = ToTop([Top EXCEPT !.i = i, !.out = out]),
             IF ctl' = Continue THEN OpensAfter(out, 0, 0)
             ELSE OpensAfter(out, 0, Level(Top.p))
      PROVE  StackIsolates'
  <2>1. PICK fr \in Frames : /\ fr.f = "complex" /\ fr.p = Top.p /\ fr.out = out
                             /\ stack' = ToTop(fr)
    <3> DEFINE fo == [Top EXCEPT !.out = out]
               fi == [Top EXCEPT !.i = i, !.out = out]
    <3>1. fo \in Frames /\ fi \in Frames  BY <1>7, <1>9, FrameChanged
    <3>2. /\ fo.f = "complex" /\ fo.p = Top.p /\ fo.out = out
          /\ fi.f = "complex" /\ fi.p = Top.p /\ fi.out = out
      BY <1>7, <1>8, <1>9
    <3>3. stack' = ToTop(fo) \/ stack' = ToTop(fi)  BY <1>9
    <3> HIDE DEF fo, fi
    <3> QED  BY <3>1, <3>2, <3>3
  <2>2. IF ctl' = Continue THEN InLoop(fr) ELSE Awaiting(fr)
    BY <1>9, <2>1 DEF InLoop, Awaiting, ValuesIsolate
  <2> QED  BY <1>1, <1>7, <1>9, <2>1, <2>2, IsoTop
<1>10. CASE AppendText
  <2>1. In("complex") /\ ctl = Continue  BY <1>10 DEF AppendText, AtElement
  <2>2. CASE UNCHANGED ctl /\ stack' = ToTop([Top EXCEPT !.i = @ + 1, !.out = Append(@, "text")])
    <3> DEFINE out == Append(Top.out, "text")
    <3>1. out = Top.out \o <<"text">> /\ out \in Seq(Tokens) /\ <<"text">> \in Seq(Tokens)
      BY <1>7, <2>1, TokensTyped, AppendIsConcat, AppendProperties
    <3>2. 0 \in Nat /\ OpensAfter(<<"text">>, 0, 0)  BY <1>3, OpensOne
    <3>3. OpensAfter(out, 0, 0)  BY <1>7, <2>1, <3>1, <3>2, OpensConcat
    <3>4. Top.i + 1 \in Nat \ {0}  BY <1>7, <2>1, FramesTyped
    <3> HIDE DEF out
    <3>5. stack' = ToTop([Top EXCEPT !.i = Top.i + 1, !.out = out])  BY <2>2 DEF out
    <3>6. StackIsolates'  BY <1>9, <2>1, <2>2, <3>1, <3>3, <3>4, <3>5
    <3> QED  BY <2>1, <2>2, <3>6, IsoGoesOn, ModesAre
  <2> QED  BY <1>2, <1>10, <2>2, ModesAre DEF AppendText
<1>11. CASE ExpandPlaceable
  <2>1. In("complex") /\ ctl = Continue /\ ctl'.m = "eval"
    BY <1>11, ModesAre DEF ExpandPlaceable, AtPlaceable, AtElement
  <2>2. StackIsolates'
    <3>1. CASE ~Isolated(Top.p) /\ UNCHANGED stack
      <4>1. OpensAfter(Top.out, 0, 0) /\ Level(Top.p) = 0
        BY <1>7, <2>1, <3>1 DEF Level
      <4>2. \A k \in DOMAIN stack : k = Len(stack) => Awaiting(stack[k])
        BY <1>1, <2>1, <4>1 DEF StackIsolates, Awaiting, InLoop, Top
      <4> QED  BY <1>1, <2>1, <3>1, <4>2, ModesAre DEF StackIsolates
    <3>2. CASE Isolated(Top.p) /\ stack' = ToTop([Top EXCEPT !.out = Append(@, FSI)])
      <4> DEFINE out == Append(Top.out, FSI)
      <4>1. out = Top.out \o <<FSI>> /\ out \in Seq(Tokens) /\ <<FSI>> \in Seq(Tokens)
        BY <1>7, <2>1, TokensTyped, AppendIsConcat, AppendProperties
      <4>2. 0 \in Nat /\ 1 \in Nat /\ OpensAfter(<<FSI>>, 0, 0 + 1)
        BY TokensTyped, OpensOne
      <4>3. OpensAfter(out, 0, 1)
        <5>1. 0 + 1 = 1  OBVIOUS
        <5>2. OpensAfter(<<FSI>>, 0, 1)  BY <4>2, <5>1
        <5>3. OpensAfter(Top.out, 0, 0) /\ Top.out \in Seq(Tokens)  BY <1>7, <2>1
        <5>4. OpensAfter(Top.out \o <<FSI>>, 0, 1)
          BY <4>1, <4>2, <5>2, <5>3, OpensConcat
        <5> QED  BY <4>1, <5>4
      <4> HIDE DEF out
      <4>4. stack' = ToTop([Top EXCEPT !.out = out])  BY <3>2 DEF out
      <4>5. ctl' # Continue /\ Level(Top.p) = 1 /\ 1 \in Nat \ {0}
        BY <2>1, <3>2, ModesAre DEF Level
      <4> QED  BY <1>9, <2>1, <4>1, <4>3, <4>4, <4>5
    <3> QED  BY <1>11, <3>1, <3>2 DEF ExpandPlaceable
  <2> QED  BY <2>1, <2>2, IsoGoesOn
<1>12. CASE WritePlaceable
  <2> DEFINE v == ctl.v
             text == Top.out \o Rendered(v)
             out == text \o Close(v)
  <2>1. In("complex") /\ ctl.m = "give" /\ ctl # Continue
    BY <1>12, ModesAre DEF WritePlaceable
  <2>2. CASE ctl' = Continue
             /\ stack' = ToTop([Top EXCEPT !.i = @ + 1, !.out = @ \o Rendered(ctl.v) \o Close(ctl.v)])
    <3>1. v \in Values /\ IsoValue(v)
      BY <2>1, ControlsTyped DEF IsolationInv, IsolationBalanced, IsoValue, CallInv, TypeOK
    <3>2. Rendered(v) \in Seq(Tokens) /\ Isolates(Rendered(v))
      BY <3>1, IsoValues, RenderedTyped
    <3>3. Level(Top.p) \in Nat  BY DEF Level
    <3>4. OpensAfter(Rendered(v), Level(Top.p), Level(Top.p))
      BY <3>2, <3>3, OpensMore
    <3>5. text \in Seq(Tokens) /\ OpensAfter(text, 0, Level(Top.p))
      BY <1>7, <2>1, <3>2, <3>3, <3>4, OpensConcat, ConcatProperties
    <3> HIDE DEF text
    <3>6. out \in Seq(Tokens) /\ OpensAfter(out, 0, 0)
      <4>1. CASE Isolated(Top.p)
        <5>1. Close(v) = <<PDI>> /\ <<PDI>> \in Seq(Tokens) /\ Level(Top.p) = 1
          BY <4>1, TokensTyped DEF Close, Level
        <5>2. 0 \in Nat /\ 1 \in Nat /\ OpensAfter(<<PDI>>, 0 + 1, 0)
          BY TokensTyped, OpensOne
        <5>3. OpensAfter(<<PDI>>, 1, 0)  BY <5>2
        <5> QED  BY <3>5, <5>1, <5>2, <5>3, OpensConcat, ConcatProperties
      <4>2. CASE ~Isolated(Top.p)
        <5>1. Close(v) = << >> /\ Level(Top.p) = 0  BY <4>2 DEF Close, Level
        <5>2. out = text  BY <3>5, <5>1, ConcatEmptySeq
        <5> QED  BY <3>5, <5>1, <5>2
      <4> QED  BY <4>1, <4>2
    <3> HIDE DEF out
    <3>7. Top.i + 1 \in Nat \ {0}  BY <1>7, <2>1, FramesTyped
    <3>8. stack' = ToTop([Top EXCEPT !.i = Top.i + 1, !.out = out])
      BY <2>2 DEF out, text
    <3>9. StackIsolates'  BY <1>9, <2>1, <2>2, <3>6, <3>7, <3>8
    <3> QED  BY <2>2, <3>9, IsoGoesOn, ModesAre
  <2>3. CASE ctl'.m = "panic"  BY <1>2, <2>3
  <2>4. \/ ctl'.m = "panic"
        \/ ctl' = Continue
           /\ stack' = ToTop([Top EXCEPT !.i = @ + 1, !.out = @ \o Rendered(ctl.v) \o Close(ctl.v)])
    BY <1>12, ModesAre DEF WritePlaceable
  <2> QED  BY <2>2, <2>3, <2>4
<1>13. CASE FinishPattern
  <2>1. In("complex") /\ ctl = Continue /\ stack' = Pop /\ ctl' = Give(Str(Top.out))
    BY <1>13 DEF FinishPattern
  <2>2. Isolates(Top.out)  BY <1>7, <2>1, OpensNothing
  <2>3. IsoValue(Str(Top.out))  BY <2>2 DEF IsoValue, Str
  <2>4. StackIsolates'  BY <1>1, <1>7, <2>1, IsoPop, ModesAre
  <2> QED  BY <2>1, <2>3, <2>4, IsoGoesOn
<1> QED  BY <1>4, <1>5, <1>6, <1>10, <1>11, <1>12, <1>13

(* The values the builtins make are not texts. *)
LEMMA IsoBuiltins ==
  ASSUME NEW vals, NEW named
  PROVE  /\ NumberResult(vals, named).ok => IsoValue(NumberResult(vals, named).v)
         /\ DateTimeResult(vals, named).ok => IsoValue(DateTimeResult(vals, named).v)
<1>1. \A e : Fails(e).ok = FALSE  BY DEF Fails
<1>2. \A v : Made(v).v = v  BY DEF Made
<1>3. \A n, o, b : Num(n, o, b).k = "number" /\ DateTime(n).k = "datetime"
  BY DEF Num, DateTime
<1>4. CASE vals = << >>  BY <1>1, <1>4 DEF NumberResult, DateTimeResult
<1>5. CASE vals # << >>
  <2>1. NumberResult(vals, named).ok => IsoValue(NumberResult(vals, named).v)
    BY <1>1, <1>2, <1>3, <1>5 DEF NumberResult, IsoValue
  <2>2. DateTimeResult(vals, named).ok => IsoValue(DateTimeResult(vals, named).v)
    BY <1>1, <1>2, <1>3, <1>5 DEF DateTimeResult, IsoValue
  <2> QED  BY <2>1, <2>2
<1> QED  BY <1>4, <1>5

(* Frames that hold neither text nor values. *)
LEMMA IsoFrames ==
  \A fr : fr.f \notin {"args", "complex"} => InLoop(fr) /\ Awaiting(fr)
BY DEF InLoop, Awaiting, ValuesIsolate

LEMMA IsoExpressions ==
  ASSUME TextsIsolate, CallInv, IsolationInv, CallInv',
         \/ EvalLiteral \/ EvalParameter \/ EvalArgument \/ EvalMessage
         \/ EvalTerm \/ EvalFunction \/ EvalSelect
  PROVE  IsolationInv'
<1>1. /\ StackIsolates /\ ctl # Continue
      /\ ctl.m = "eval" /\ ctl.e \in Exprs
      /\ stack \in Seq(Frames) /\ stack' \in Seq(Frames)
  BY ModesAre, ControlsTyped
     DEF EvalLiteral, EvalParameter, EvalArgument, EvalMessage, EvalTerm,
         EvalFunction, EvalSelect, At, IsolationInv, Running, CallInv, TypeOK
<1>2. ASSUME UNCHANGED stack,
             \/ ctl'.m \in {"eval", "resolve"}
             \/ \E v : ctl' = Give(v) /\ IsoValue(v)
      PROVE  IsolationInv'
  BY <1>1, <1>2, IsoSame, IsoGoesOn, ModesAre
<1>3. ASSUME UNCHANGED stack, NEW err, NEW m \in Missing, Missed(err, m)
      PROVE  IsolationInv'
  BY <1>2, <1>3, IsoMissed
<1>4. ASSUME NEW fr \in Frames, stack' = Push(fr), ctl'.m \in {"eval", "continue"},
             InLoop(fr), Awaiting(fr)
      PROVE  IsolationInv'
  BY <1>1, <1>4, IsoPush, IsoGoesOn
<1>5. CASE EvalLiteral
  <2>1. IsoValue(ctl.e.v)  BY <1>1, <1>5 DEF EvalLiteral, At, Of, TextsIsolate
  <2> QED  BY <1>2, <1>5, <2>1 DEF EvalLiteral
<1>6. CASE EvalParameter
  <2>1. ctl.e.name \in DOMAIN params => IsoValue(params[ctl.e.name])
    BY <1>6 DEF EvalParameter, CallInv, TypeOK, TextsIsolate
  <2>2. IsoValue(None("param"))  BY IsoValues DEF Missing
  <2> QED  BY <1>2, <1>6, <2>1, <2>2 DEF EvalParameter
<1>7. CASE EvalArgument
  <2>1. UNCHANGED stack  BY <1>7 DEF EvalArgument
  <2>2. CASE Missed("reference", "variable") \/ Missed("type", "variable")
    BY <1>3, <2>1, <2>2 DEF Missing
  <2>3. CASE ctl.e.name \in DOMAIN args /\ ctl' = Give(args[ctl.e.name])
    <3>1. IsoValue(args[ctl.e.name])  BY <2>3 DEF CallInv, TypeOK, TextsIsolate
    <3> QED  BY <1>2, <2>1, <2>3, <3>1
  <2> QED  BY <1>7, <2>2, <2>3 DEF EvalArgument
<1>8. CASE EvalMessage
  <2>1. UNCHANGED stack  BY <1>8 DEF EvalMessage
  <2>2. Missed("reference", "message") \/ ctl'.m = "resolve"
    BY <1>8, ModesAre DEF EvalMessage
  <2> QED  BY <1>2, <1>3, <2>1, <2>2 DEF Missing
<1>9. ASSUME NEW e, NEW p, ArgsFrame(e, p) \in Frames
      PROVE  InLoop(ArgsFrame(e, p)) /\ Awaiting(ArgsFrame(e, p))
  BY DEF ArgsFrame, InLoop, Awaiting, ValuesIsolate
<1>10. CASE EvalTerm
  <2>1. CASE Missed("reference", "term") /\ UNCHANGED stack
    BY <1>3, <2>1 DEF Missing
  <2>2. CASE ctl' = Continue /\ \E p \in Patterns \cup {NoPattern} : stack' = Push(ArgsFrame(ctl.e, p))
    <3>1. ctl.e \in Of({"term", "function"})  BY <1>1, <1>10 DEF EvalTerm, At, Of
    <3>2. PICK p \in Patterns \cup {NoPattern} : stack' = Push(ArgsFrame(ctl.e, p))
      BY <2>2
    <3>3. ArgsFrame(ctl.e, p) \in Frames  BY <3>1, FramesAre
    <3> QED  BY <1>4, <1>9, <2>2, <3>2, <3>3, ModesAre
  <2>3. ctl.e.name \in Ids /\ "term" \in Kinds
    BY <1>1, <1>10, ProgramAssumption DEF EvalTerm, At, Of, Kinds
  <2> DEFINE def == defs["term"][ctl.e.name]
             attr == ctl.e.attr
  <2>4. CASE /\ def # Absent /\ (attr # "" => attr \in DOMAIN def.attrs)
             /\ stack' = Push(ArgsFrame(ctl.e, Named(def, attr))) /\ ctl' = Continue
    <3>1. Named(def, attr) \in Patterns \cup {NoPattern}
      BY <2>3, <2>4, NamedTyped DEF CallInv, TypeOK
    <3> QED  BY <2>2, <2>4, <3>1
  <2> QED  BY <1>10, <2>1, <2>4 DEF EvalTerm
<1>11. CASE EvalFunction
  <2>1. CASE Missed("reference", "function") /\ UNCHANGED stack
    BY <1>3, <2>1 DEF Missing
  <2>2. CASE stack' = Push(ArgsFrame(ctl.e, NoPattern)) /\ ctl' = Continue
    <3>1. ctl.e \in Of({"term", "function"})  BY <1>1, <1>11 DEF EvalFunction, At, Of
    <3>2. ArgsFrame(ctl.e, NoPattern) \in Frames  BY <3>1, FramesAre
    <3> QED  BY <1>4, <1>9, <2>2, <3>2, ModesAre
  <2> QED  BY <1>11, <2>1, <2>2 DEF EvalFunction
<1>12. CASE EvalSelect
  <2>1. ctl.e \in Of({"select"})  BY <1>1, <1>12 DEF EvalSelect, At, Of
  <2>2. SelectorFrame(ctl.e) \in Frames  BY <2>1, FramesAre
  <2>3. SelectorFrame(ctl.e).f = "selector"  BY DEF SelectorFrame
  <2>4. InLoop(SelectorFrame(ctl.e)) /\ Awaiting(SelectorFrame(ctl.e))
    BY <2>3, IsoFrames
  <2> QED  BY <1>4, <1>12, <2>2, <2>4, ModesAre DEF EvalSelect
<1> QED  BY <1>5, <1>6, <1>7, <1>8, <1>10, <1>11, <1>12

LEMMA IsoCalls ==
  ASSUME TextsIsolate, CallInv, IsolationInv, CallInv',
         \/ EvalPositional \/ TakePositional \/ EnterTerm \/ LeaveTerm
         \/ CallNUMBER \/ CallDATETIME \/ CallFunction
  PROVE  IsolationInv'
<1>1. /\ StackIsolates /\ stack # << >> /\ Top \in Frames
      /\ Top.f \in {"args", "term"}
  BY ModesAre, TopIs
     DEF EvalPositional, TakePositional, EnterTerm, LeaveTerm, CallNUMBER,
         CallDATETIME, CallFunction, Calling, In, IsolationInv, Running, CallInv
<1>2. Top.f = "args" => /\ Top.vals \in Seq(Values)
                        /\ \A j \in DOMAIN Top.vals : IsoValue(Top.vals[j])
  <2>1. Len(stack) \in DOMAIN stack  BY <1>1, PopIs DEF CallInv, TypeOK
  <2> QED  BY <1>1, <2>1, FramesTyped
           DEF StackIsolates, InLoop, Awaiting, ValuesIsolate, Top
<1>3. ASSUME stack' = Pop,
             \/ ctl'.m = "panic"
             \/ \E v : ctl' = Give(v) /\ IsoValue(v)
      PROVE  IsolationInv'
  BY <1>1, <1>3, IsoPop, IsoGoesOn, ModesAre
<1>4. CASE EvalPositional
  <2>1. StackIsolates'  BY <1>1, <1>4, IsoSame DEF EvalPositional
  <2> QED  BY <1>4, <2>1, IsoGoesOn, ModesAre DEF EvalPositional
<1>5. CASE TakePositional
  <2> DEFINE vals == Append(Top.vals, ctl.v)
             fr == [Top EXCEPT !.vals = vals]
  <2>1. ctl.v \in Values /\ IsoValue(ctl.v) /\ Top.f = "args"
    BY <1>5, ControlsTyped
       DEF TakePositional, In, IsolationInv, IsolationBalanced, IsoValue, CallInv, TypeOK
  <2>2. vals \in Seq(Values) /\ \A j \in DOMAIN vals : IsoValue(vals[j])
    <3>1. /\ vals \in Seq(Values) /\ Len(Top.vals) \in Nat
          /\ DOMAIN Top.vals = 1..Len(Top.vals)
          /\ DOMAIN vals = 1..Len(Top.vals) + 1
          /\ \A n \in 1..Len(Top.vals) : vals[n] = Top.vals[n]
          /\ vals[Len(Top.vals) + 1] = ctl.v
      BY <1>2, <2>1, PushIs, LenProperties
    <3>2. \A j \in DOMAIN vals : j \in DOMAIN Top.vals \/ j = Len(Top.vals) + 1
      BY <3>1
    <3> HIDE DEF vals
    <3> QED  BY <1>2, <2>1, <3>1, <3>2
  <2> HIDE DEF vals
  <2>3. fr \in Frames  BY <1>1, <2>1, <2>2, FrameChanged
  <2>4. fr.f = "args" /\ fr.vals = vals
    <3> DEFINE F == [f : {"args"}, e : Of({"term", "function"}),
                     p : Patterns \cup {NoPattern}, vals : Seq(Values)]
    <3>1. Top \in F  BY <1>1, <2>1 DEF Frames
    <3>2. DOMAIN Top = {"f", "e", "p", "vals"}  BY <3>1
    <3> QED  BY <2>1, <3>2
  <2>5. stack' = ToTop(fr) /\ ctl' = Continue  BY <1>5 DEF TakePositional, vals
  <2> HIDE DEF fr
  <2>6. InLoop(fr)  BY <2>2, <2>4 DEF InLoop, ValuesIsolate
  <2>7. StackIsolates'  BY <1>1, <2>3, <2>5, <2>6, IsoTop
  <2> QED  BY <2>5, <2>7, IsoGoesOn, ModesAre
<1>6. CASE EnterTerm
  <2> DEFINE fr == TermFrame(Top.e)
  <2>1. stack' = ToTop(fr) /\ ctl' = Resolve(Top.p) /\ Top.f = "args" /\ Top.e.t = "term"
    BY <1>6 DEF EnterTerm, Calling, In
  <2>2. Top.e \in Of({"term"})  BY <1>1, <2>1, FramesTyped DEF Of
  <2>3. fr \in Frames  BY <2>2, FramesAre
  <2>4. fr.f = "term"  BY DEF TermFrame
  <2> HIDE DEF fr
  <2>5. InLoop(fr) /\ Awaiting(fr)  BY <2>4, IsoFrames
  <2>6. StackIsolates'  BY <1>1, <2>1, <2>3, <2>5, IsoTop
  <2> QED  BY <2>1, <2>6, IsoGoesOn, ModesAre
<1>7. CASE LeaveTerm
  <2>1. stack' = Pop /\ UNCHANGED ctl /\ ctl.m = "give"  BY <1>7 DEF LeaveTerm
  <2>2. StackIsolates'  BY <1>1, <2>1, IsoPop, ModesAre
  <2> QED  BY <2>1, <2>2 DEF IsolationInv, IsolationBalanced
<1>8. ASSUME NEW r, Answer(r), stack' = Pop, r.ok => IsoValue(r.v)
      PROVE  IsolationInv'
  BY <1>3, <1>8, IsoMissed DEF Answer, Missing
<1>9. CASE CallNUMBER \/ CallDATETIME
  BY <1>8, <1>9, IsoBuiltins DEF CallNUMBER, CallDATETIME
<1>10. CASE CallFunction
  <2>1. stack' = Pop /\ Top.f = "args"  BY <1>10 DEF CallFunction, Calling, In
  <2>2. \A v \in Results \cup {Top.vals[j] : j \in DOMAIN Top.vals} : IsoValue(v)
    BY <1>2, <2>1 DEF TextsIsolate
  <2>3. CASE \E v \in Results \cup {Top.vals[j] : j \in DOMAIN Top.vals} :
               ctl' = Give(v)
    BY <1>3, <2>1, <2>2, <2>3
  <2>4. CASE Missed("extension", "function") \/ Missed("type", "function")
    BY <1>3, <2>1, <2>4, IsoMissed DEF Missing
  <2>5. CASE ctl'.m = "panic"  BY <1>3, <2>1, <2>5
  <2> QED  BY <1>10, <2>3, <2>4, <2>5, ModesAre DEF CallFunction, Failed, NilResult
<1> QED  BY <1>4, <1>5, <1>6, <1>7, <1>9, <1>10

LEMMA IsoSelects ==
  ASSUME CallInv, IsolationInv, CallInv',
         TakeSelector \/ TryVariant \/ NoVariantMatched
  PROVE  IsolationInv'
<1>1. /\ StackIsolates /\ stack # << >> /\ Top \in Frames
      /\ Top.f \in {"selector", "variants"} /\ stack \in Seq(Frames)
  BY ModesAre, TopIs
     DEF TakeSelector, TryVariant, NoVariantMatched, AtVariant, In, IsolationInv,
         Running, CallInv, TypeOK
<1>2. ASSUME stack' = Pop, ctl'.m = "resolve" PROVE IsolationInv'
  BY <1>1, <1>2, IsoPop, IsoGoesOn, ModesAre
<1>3. ASSUME NEW fr \in Frames, fr.f = "variants", stack' = ToTop(fr), ctl' = Continue
      PROVE  IsolationInv'
  BY <1>1, <1>3, IsoFrames, IsoTop, IsoGoesOn, ModesAre
<1>4. CASE TakeSelector
  <2> DEFINE v == ctl.v
             checked == IF Late(v) THEN Cleared(v) ELSE v
             fr == VariantFrame(Top.e, checked)
  <2>1. \/ stack' = Pop /\ ctl' = Resolve(Default(Top.e))
        \/ stack' = ToTop(fr) /\ ctl' = Continue
    BY <1>4 DEF TakeSelector
  <2>2. stack' = ToTop(fr) => fr \in Frames
    <3>1. ASSUME stack' = ToTop(fr) PROVE Len(stack) \in DOMAIN stack' /\ stack'[Len(stack)] = fr
      <4>1. Len(stack) \in 1..Len(stack) /\ DOMAIN stack = 1..Len(stack)
        BY <1>1, PopIs, LenProperties
      <4> HIDE DEF fr
      <4> QED  BY <3>1, <4>1 DEF ToTop
    <3>2. stack' \in Seq(Frames)  BY DEF CallInv, TypeOK
    <3> HIDE DEF fr
    <3> QED  BY <3>1, <3>2, LenProperties, ElementOfSeq
  <2>3. fr.f = "variants"  BY DEF VariantFrame
  <2> HIDE DEF fr
  <2> QED  BY <1>2, <1>3, <2>1, <2>2, <2>3, ModesAre
<1>5. CASE TryVariant
  <2> DEFINE fr == [Top EXCEPT !.i = NextVariant]
  <2>1. \/ ctl'.m = "panic"
        \/ ctl'.m = "resolve" /\ stack' = Pop
        \/ stack' = ToTop(fr) /\ UNCHANGED ctl
    BY <1>5, ModesAre DEF TryVariant
  <2>2. ctl = Continue /\ Top.f = "variants"
    BY <1>5 DEF TryVariant, AtVariant, In
  <2>3. fr \in Frames
    <3>1. NextVariant \in Nat \ {0}  BY <1>1, <2>2, FramesTyped DEF NextVariant
    <3> QED  BY <1>1, <2>2, <3>1, FrameChanged
  <2>4. fr.f = "variants"
    <3> DEFINE F == [f : {"variants"}, e : Of({"select"}), sel : Values, i : Nat \ {0}]
    <3>1. Top \in F  BY <1>1, <2>2 DEF Frames
    <3>2. DOMAIN Top = {"f", "e", "sel", "i"}  BY <3>1
    <3> QED  BY <2>2, <3>2
  <2> HIDE DEF fr
  <2>5. CASE ctl'.m = "panic"
    BY <2>5 DEF IsolationInv, IsolationBalanced, Running
  <2> QED  BY <1>2, <1>3, <2>1, <2>2, <2>3, <2>4, <2>5
<1>6. CASE NoVariantMatched  BY <1>2, <1>6, ModesAre DEF NoVariantMatched
<1> QED  BY <1>4, <1>5, <1>6

LEMMA NextIsolation ==
  ASSUME TextsIsolate
  PROVE  CallInv /\ IsolationInv /\ [Next]_vars => IsolationInv'
<1> SUFFICES ASSUME CallInv, IsolationInv, [Next]_vars PROVE IsolationInv'  OBVIOUS
<1>1. CallInv'  BY NextCall
<1>2. CASE UNCHANGED vars \/ AddResource
  <2>1. UNCHANGED <<ctl, stack>>  BY <1>2 DEF vars, AddResource
  <2> QED  BY <2>1 DEF IsolationInv, IsolationBalanced, StackIsolates, Running,
                       InLoop, Awaiting, ValuesIsolate
<1>3. CASE Call \/ Finish \/ Return \/ TooManyPlaceables  BY <1>3, IsoEnds
<1>4. CASE \/ ResolveNil \/ ResolveText \/ ResolveCyclic \/ ResolveComplex
           \/ AppendText \/ ExpandPlaceable \/ WritePlaceable \/ FinishPattern
  BY <1>1, <1>4, IsoPatterns
<1>5. CASE \/ EvalLiteral \/ EvalParameter \/ EvalArgument \/ EvalMessage
           \/ EvalTerm \/ EvalFunction \/ EvalSelect
  BY <1>1, <1>5, IsoExpressions
<1>6. CASE \/ EvalPositional \/ TakePositional \/ EnterTerm \/ LeaveTerm
           \/ CallNUMBER \/ CallDATETIME \/ CallFunction
  BY <1>1, <1>6, IsoCalls
<1>7. CASE TakeSelector \/ TryVariant \/ NoVariantMatched  BY <1>1, <1>7, IsoSelects
<1> QED  BY <1>2, <1>3, <1>4, <1>5, <1>6, <1>7 DEF Next, Work

(* When the literals and the arguments of the caller close the marks they  *)
(* open themselves, so does everything FormatPattern returns, however a    *)
(* placeable ends (resolveComplexPattern): a missing name, a cyclic        *)
(* reference, an error or a panic of user code, the placeable limit.       *)
THEOREM ResolverIsolation == TextsIsolate => (Spec => []IsolationBalanced)
<1> SUFFICES ASSUME TextsIsolate PROVE Spec => []IsolationBalanced  OBVIOUS
<1>1. Init => IsolationInv
  BY ModesAre DEF Init, IsolationInv, IsolationBalanced, Running
<1>2. CallInv /\ IsolationInv /\ [Next]_vars => IsolationInv'  BY NextIsolation
<1>3. IsolationInv => IsolationBalanced  BY DEF IsolationInv
<1> QED  BY InitCall, NextCall, <1>1, <1>2, <1>3, PTL DEF Spec


(***************************************************************************)
(* What is written is backed by what was reported.  Of the tokens X that   *)
(* count, a value in flight or in a call holds Weight(v, X), and a text    *)
(* those that occur in it.  The certificate c gives every call a share of  *)
(* the n errors: the tokens in a call and in all those around it are at    *)
(* most its share, so that no sum over the stack is needed.  A function    *)
(* returns at most one of its arguments: the largest of them is enough.    *)
(***************************************************************************)
Holds(fr, low, high, X) ==
  /\ low <= high
  /\ fr.f = "complex" => low + Count(fr.out, X) <= high
  /\ fr.f = "args" => \A j \in DOMAIN fr.vals : low + Weight(fr.vals[j], X) <= high

Backed(st, w, X, n) ==
  \E c \in [0..Len(st) -> Nat] :
    /\ \A k \in DOMAIN st : Holds(st[k], c[k - 1], c[k], X)
    /\ c[Len(st)] + w <= n

LEMMA WeightTyped ==
  ASSUME NEW v \in Values, NEW X
  PROVE  Weight(v, X) \in Nat
BY ValuesTyped, CountIs DEF Weight

LEMMA BackedStarts ==
  ASSUME NEW X, NEW w \in Nat, NEW n \in Nat, w <= n
  PROVE  Backed(<< >>, w, X, n)
<1> DEFINE c == [k \in 0..0 |-> 0]
<1>1. Len(<< >>) = 0 /\ DOMAIN << >> = {}  OBVIOUS
<1>2. c \in [0..Len(<< >>) -> Nat] /\ c[Len(<< >>)] + w <= n  BY <1>1
<1> QED  BY <1>1, <1>2 DEF Backed

LEMMA BackedBounds ==
  ASSUME NEW st \in Seq(Frames), NEW X, NEW w \in Nat, NEW n \in Nat, Backed(st, w, X, n)
  PROVE  w <= n
<1>1. PICK c \in [0..Len(st) -> Nat] : c[Len(st)] + w <= n  BY DEF Backed
<1>2. Len(st) \in 0..Len(st)  BY LenProperties
<1>3. c[Len(st)] \in Nat  BY <1>2
<1> QED  BY <1>1, <1>3

(* The stack stays; what is in flight grows by no more than the errors do. *)
LEMMA BackedSame ==
  ASSUME NEW st \in Seq(Frames), NEW X, NEW w \in Nat, NEW n \in Nat, Backed(st, w, X, n),
         NEW w1 \in Nat, NEW n1 \in Nat, w1 + n <= w + n1
  PROVE  Backed(st, w1, X, n1)
<1>1. PICK c \in [0..Len(st) -> Nat] :
        /\ \A k \in DOMAIN st : Holds(st[k], c[k - 1], c[k], X)
        /\ c[Len(st)] + w <= n
  BY DEF Backed
<1>2. Len(st) \in 0..Len(st)  BY LenProperties
<1>3. c[Len(st)] \in Nat  BY <1>2
<1>4. \A a \in Nat : a + w <= n => a + w1 <= n1  OBVIOUS
<1>5. c[Len(st)] + w1 <= n1  BY <1>1, <1>3, <1>4
<1> QED  BY <1>1, <1>5 DEF Backed

(* A call begins that holds nothing yet. *)
LEMMA BackedPush ==
  ASSUME NEW st \in Seq(Frames), NEW X, NEW w \in Nat, NEW n \in Nat, Backed(st, w, X, n),
         NEW w1 \in Nat, NEW n1 \in Nat, w1 + n <= w + n1,
         NEW fr \in Frames, \A a \in Nat : Holds(fr, a, a, X)
  PROVE  Backed(Append(st, fr), w1, X, n1)
<1>1. PICK c \in [0..Len(st) -> Nat] :
        /\ \A k \in DOMAIN st : Holds(st[k], c[k - 1], c[k], X)
        /\ c[Len(st)] + w <= n
  BY DEF Backed
<1> DEFINE m == Len(st)
           st1 == Append(st, fr)
           d == [k \in 0..m + 1 |-> IF k = m + 1 THEN c[m] ELSE c[k]]
<1>2. /\ m \in Nat /\ DOMAIN st = 1..m /\ Len(st1) = m + 1
      /\ DOMAIN st1 = 1..m + 1
      /\ \A k \in 1..m : st1[k] = st[k]
      /\ st1[m + 1] = fr
  BY PushIs
<1> HIDE DEF m, st1
<1>3. \A k \in 1..m : /\ k \in 0..m + 1 /\ k # m + 1
                      /\ k - 1 \in 0..m + 1 /\ k - 1 # m + 1
  BY <1>2
<1>4. m \in 0..m + 1 /\ m # m + 1 /\ m + 1 \in 0..m + 1 /\ m \in 0..m /\ (m + 1) - 1 = m
  BY <1>2
<1>5. \A k \in 0..m + 1 : k \in 0..m \/ k = m + 1  BY <1>2
<1>6. \A k \in 1..m + 1 : k \in 1..m \/ k = m + 1  BY <1>2
<1>7. d \in [0..m + 1 -> Nat]  BY <1>1, <1>4, <1>5 DEF m
<1>8. c[m] \in Nat  BY <1>1, <1>4 DEF m
<1>9. \A k \in 1..m + 1 : Holds(st1[k], d[k - 1], d[k], X)
  <2>1. \A k \in 1..m : Holds(st1[k], d[k - 1], d[k], X)
    <3>1. \A k \in 1..m : d[k] = c[k] /\ d[k - 1] = c[k - 1]  BY <1>3
    <3> HIDE DEF d
    <3> QED  BY <1>1, <1>2, <3>1
  <2>2. Holds(st1[m + 1], d[(m + 1) - 1], d[m + 1], X)  BY <1>2, <1>4, <1>8
  <2> QED  BY <1>6, <2>1, <2>2
<1>10. d[m + 1] = c[m]  BY <1>4
<1>11. \A a \in Nat : a + w <= n => a + w1 <= n1  OBVIOUS
<1>12. d[m + 1] + w1 <= n1  BY <1>1, <1>8, <1>10, <1>11 DEF m
<1> HIDE DEF d
<1> QED  BY <1>2, <1>7, <1>9, <1>12 DEF Backed, st1

(* A call ends and passes on no more than it held. *)
LEMMA BackedPop ==
  ASSUME NEW st \in Seq(Frames), NEW X, NEW w \in Nat, NEW n \in Nat, Backed(st, w, X, n),
         NEW w1 \in Nat, NEW n1 \in Nat, st # << >>,
         \A low, high \in Nat :
           Holds(st[Len(st)], low, high, X) /\ high + w <= n => low + w1 <= n1
  PROVE  Backed(SubSeq(st, 1, Len(st) - 1), w1, X, n1)
<1>1. PICK c \in [0..Len(st) -> Nat] :
        /\ \A k \in DOMAIN st : Holds(st[k], c[k - 1], c[k], X)
        /\ c[Len(st)] + w <= n
  BY DEF Backed
<1> DEFINE m == Len(st)
           st1 == SubSeq(st, 1, m - 1)
           d == [k \in 0..m - 1 |-> c[k]]
<1>2. /\ m \in Nat \ {0} /\ DOMAIN st = 1..m
      /\ DOMAIN st1 = 1..m - 1
      /\ \A k \in 1..m - 1 : st1[k] = st[k]
      /\ Len(st1) = m - 1
  <2>1. /\ m \in Nat \ {0} /\ DOMAIN st = 1..m
        /\ DOMAIN st1 = 1..m - 1 /\ st1 \in Seq(Frames)
        /\ \A k \in 1..m - 1 : st1[k] = st[k]
    BY PopIs
  <2>2. m - 1 \in 0..m  BY <2>1
  <2>3. Len(st1) = m - 1  BY <2>2, PrefixIs
  <2> QED  BY <2>1, <2>3
<1>3. \A k \in 1..m - 1 : k \in 0..m - 1 /\ k - 1 \in 0..m - 1 /\ k \in 1..m  BY <1>2
<1>4. m - 1 \in 0..m - 1 /\ m - 1 \in 0..m /\ m \in 1..m /\ m \in 0..m  BY <1>2
<1>5. \A k \in 0..m - 1 : k \in 0..m  BY <1>2
<1> HIDE DEF m, st1
<1>6. d \in [0..m - 1 -> Nat]  BY <1>1, <1>5 DEF m
<1>7. \A k \in 1..m - 1 : Holds(st1[k], d[k - 1], d[k], X)
  <2>1. \A k \in 1..m - 1 : d[k] = c[k] /\ d[k - 1] = c[k - 1]  BY <1>3
  <2> HIDE DEF d
  <2> QED  BY <1>1, <1>2, <1>3, <2>1
<1>8. c[m - 1] \in Nat /\ c[m] \in Nat /\ d[m - 1] = c[m - 1]  BY <1>1, <1>4 DEF m
<1>9. Holds(st[m], c[m - 1], c[m], X) /\ c[m] + w <= n  BY <1>1, <1>2, <1>4 DEF m
<1>10. d[m - 1] + w1 <= n1  BY <1>8, <1>9 DEF m
<1> HIDE DEF d
<1> QED  BY <1>2, <1>6, <1>7, <1>10 DEF Backed, st1, m

(* The innermost call takes over d of what is in flight or newly reported. *)
LEMMA BackedTop ==
  ASSUME NEW st \in Seq(Frames), NEW X, NEW w \in Nat, NEW n \in Nat, Backed(st, w, X, n),
         NEW w1 \in Nat, NEW n1 \in Nat, st # << >>, NEW fr \in Frames, NEW d \in Nat,
         \A low, high \in Nat :
           Holds(st[Len(st)], low, high, X) => Holds(fr, low, high + d, X),
         d + w1 + n <= w + n1
  PROVE  Backed([st EXCEPT ![Len(st)] = fr], w1, X, n1)
<1>1. PICK c \in [0..Len(st) -> Nat] :
        /\ \A k \in DOMAIN st : Holds(st[k], c[k - 1], c[k], X)
        /\ c[Len(st)] + w <= n
  BY DEF Backed
<1> DEFINE m == Len(st)
           st1 == [st EXCEPT ![m] = fr]
           b == [k \in 0..m |-> IF k = m THEN c[m] + d ELSE c[k]]
<1>2. /\ m \in Nat \ {0} /\ DOMAIN st = 1..m
      /\ DOMAIN st1 = 1..m
      /\ \A k \in 1..m - 1 : st1[k] = st[k]
      /\ st1[m] = fr
      /\ Len(st1) = m
  <2>1. /\ m \in Nat \ {0} /\ DOMAIN st = 1..m
        /\ DOMAIN st1 = 1..m /\ st1 \in Seq(Frames)
        /\ \A k \in 1..m - 1 : st1[k] = st[k]
        /\ st1[m] = fr
    BY ReplaceIs
  <2>2. Len(st1) = m
    <3> HIDE DEF st1
    <3> QED  BY <2>1, LenProperties
  <2> QED  BY <2>1, <2>2
<1> HIDE DEF m, st1
<1>3. \A k \in 1..m - 1 : /\ k \in 0..m /\ k # m /\ k - 1 \in 0..m /\ k - 1 # m
                          /\ k \in 1..m
  BY <1>2
<1>4. m - 1 \in 0..m /\ m - 1 # m /\ m \in 1..m /\ m \in 0..m  BY <1>2
<1>5. \A k \in 1..m : k \in 1..m - 1 \/ k = m  BY <1>2
<1>6. c[m] \in Nat /\ c[m - 1] \in Nat  BY <1>1, <1>4 DEF m
<1>7. b \in [0..m -> Nat]  BY <1>1, <1>6 DEF m
<1>8. b[m] = c[m] + d /\ b[m - 1] = c[m - 1]  BY <1>4
<1>9. \A k \in 1..m : Holds(st1[k], b[k - 1], b[k], X)
  <2>1. \A k \in 1..m - 1 : Holds(st1[k], b[k - 1], b[k], X)
    <3>1. \A k \in 1..m - 1 : b[k] = c[k] /\ b[k - 1] = c[k - 1]  BY <1>3
    <3> HIDE DEF b
    <3> QED  BY <1>1, <1>2, <1>3, <3>1
  <2>2. Holds(st1[m], b[m - 1], b[m], X)
    <3>1. Holds(st[m], c[m - 1], c[m], X)  BY <1>1, <1>2, <1>4
    <3> HIDE DEF b
    <3> QED  BY <1>2, <1>6, <1>8, <3>1 DEF m
  <2> QED  BY <1>5, <2>1, <2>2
<1>10. \A a \in Nat : a + w <= n => (a + d) + w1 <= n1  OBVIOUS
<1>11. b[m] + w1 <= n1  BY <1>1, <1>6, <1>8, <1>10 DEF m
<1> HIDE DEF b
<1> QED  BY <1>2, <1>7, <1>9, <1>11 DEF Backed, st1, m

(* What is on its way from one step to the next. *)
InFlight(c, X) ==
  CASE c.m = "give" -> Weight(c.v, X)
    [] c.m = "done" -> Count(c.out, X)
    [] OTHER -> 0

BackedInv(X, n) == Running \/ ctl.m = "done" => Backed(stack, InFlight(ctl, X), X, n)

LEMMA InFlightIs ==
  ASSUME NEW X
  PROVE  /\ \A c \in Controls : InFlight(c, X) \in Nat
         /\ \A c : c.m \notin {"give", "done"} => InFlight(c, X) = 0
         /\ \A c : c.m = "give" => InFlight(c, X) = Weight(c.v, X)
         /\ \A v : InFlight(Give(v), X) = Weight(v, X)
         /\ \A out : InFlight(Done(out), X) = Count(out, X)
<1>1. \A c \in Controls : InFlight(c, X) \in Nat
  <2> SUFFICES ASSUME NEW c \in Controls PROVE InFlight(c, X) \in Nat  OBVIOUS
  <2>1. CASE c.m = "give"  BY <2>1, ControlsTyped, WeightTyped DEF InFlight
  <2>2. CASE c.m = "done"  BY <2>2, ControlsTyped, CountIs DEF InFlight
  <2>3. CASE c.m \notin {"give", "done"}  BY <2>3 DEF InFlight
  <2> QED  BY <2>1, <2>2, <2>3
<1>2. \A v : Give(v).v = v /\ Give(v).m = "give"  BY DEF Give
<1>3. \A out : Done(out).out = out /\ Done(out).m = "done"  BY DEF Done
<1> QED  BY <1>1, <1>2, <1>3 DEF InFlight

LEMMA HoldsIs ==
  ASSUME NEW X
  PROVE  /\ \A fr, low, high : Holds(fr, low, high, X) => low <= high
         /\ \A fr, low, high :
              fr.f \notin {"args", "complex"} => (Holds(fr, low, high, X) <=> low <= high)
         /\ \A p : \A a \in Nat : Holds(ComplexFrame(p), a, a, X)
         /\ \A e, p : \A a \in Nat : Holds(ArgsFrame(e, p), a, a, X)
<1>1. \A a \in Nat : a <= a /\ a + 0 <= a  OBVIOUS
<1>2. \A p : \A a \in Nat : Holds(ComplexFrame(p), a, a, X)
  BY <1>1, CountNone DEF Holds, ComplexFrame
<1>3. \A e, p : \A a \in Nat : Holds(ArgsFrame(e, p), a, a, X)
  BY <1>1 DEF Holds, ArgsFrame
<1> QED  BY <1>2, <1>3 DEF Holds

Countable(X) ==
  /\ {FSI, PDI, "text"} \cap X = {}
  /\ \A m \in {"null", "param"} : Fallback(m) \notin X
  /\ NotGiven(X)

(* A step reports as much as it writes: the errors that count are n before *)
(* and n1 after it.                                                        *)
Accounted(X, n, n1) ==
  /\ n <= n1
  /\ \A err \in Errors, m \in Missing : Missed(err, m) /\ Fallback(m) \in X => n + 1 <= n1
  /\ TooManyPlaceables /\ Fallback("limit") \in X => n + 1 <= n1
  /\ WritePlaceable /\ ctl' = Continue =>
       Count(Rendered(ctl.v), X) + n <= Weight(ctl.v, X) + n1
  /\ Finish => Count(Rendered(ctl.v), X) + n <= Weight(ctl.v, X) + n1

LEMMA WeightIs ==
  ASSUME NEW X
  PROVE  /\ \A m : Weight(None(m), X) = IF Fallback(m) \in X THEN 1 ELSE 0
         /\ \A out : Weight(Str(out), X) = Count(out, X)
         /\ \A n, o, b : Weight(Num(n, o, b), X) = 0
         /\ \A n : Weight(DateTime(n), X) = 0
         /\ \A m : Count(Rendered(None(m)), X) = IF Fallback(m) \in X THEN 1 ELSE 0
BY CountOne DEF Weight, None, Str, Num, DateTime, Rendered

(* The stack stays, a call begins, a call ends. *)
LEMMA BackedGoesOn ==
  ASSUME CallInv, CallInv', NEW X, NEW n \in Nat, NEW n1 \in Nat, n <= n1,
         BackedInv(X, n), Running, UNCHANGED stack,
         \/ InFlight(ctl', X) = 0
         \/ InFlight(ctl', X) <= InFlight(ctl, X)
         \/ InFlight(ctl', X) = 1 /\ n + 1 <= n1
  PROVE  BackedInv(X, n1)'
<1>1. stack \in Seq(Frames) /\ InFlight(ctl, X) \in Nat /\ InFlight(ctl', X) \in Nat
  BY InFlightIs DEF CallInv, TypeOK
<1>2. Backed(stack, InFlight(ctl, X), X, n)  BY DEF BackedInv
<1>3. \A w, w1 \in Nat : w1 = 0 \/ w1 <= w \/ (w1 = 1 /\ n + 1 <= n1) => w1 + n <= w + n1
  OBVIOUS
<1>4. InFlight(ctl', X) + n <= InFlight(ctl, X) + n1  BY <1>1, <1>3
<1>5. Backed(stack', InFlight(ctl', X), X, n1)  BY <1>1, <1>2, <1>4, BackedSame
<1> QED  BY <1>5 DEF BackedInv

LEMMA BackedCalls ==
  ASSUME CallInv, CallInv', NEW X, NEW n \in Nat, NEW n1 \in Nat, n <= n1,
         BackedInv(X, n), Running, NEW fr \in Frames, stack' = Push(fr),
         \A a \in Nat : Holds(fr, a, a, X), InFlight(ctl', X) = 0
  PROVE  BackedInv(X, n1)'
<1>1. stack \in Seq(Frames) /\ InFlight(ctl, X) \in Nat  BY InFlightIs DEF CallInv, TypeOK
<1>2. Backed(stack, InFlight(ctl, X), X, n)  BY DEF BackedInv
<1>3. \A w \in Nat : 0 + n <= w + n1  OBVIOUS
<1>4. Backed(stack', 0, X, n1)  BY <1>1, <1>2, <1>3, BackedPush DEF Push
<1> QED  BY <1>4 DEF BackedInv

LEMMA BackedReturns ==
  ASSUME CallInv, CallInv', NEW X, NEW n \in Nat, NEW n1 \in Nat, n <= n1,
         BackedInv(X, n), Running, stack # << >>, stack' = Pop,
         \/ InFlight(ctl', X) = 0
         \/ InFlight(ctl', X) <= InFlight(ctl, X)
         \/ InFlight(ctl', X) = 1 /\ n + 1 <= n1
         \/ \A low, high \in Nat : Holds(Top, low, high, X) => low + InFlight(ctl', X) <= high
  PROVE  BackedInv(X, n1)'
<1> DEFINE w == InFlight(ctl, X)
           w1 == InFlight(ctl', X)
<1>1. stack \in Seq(Frames) /\ w \in Nat /\ w1 \in Nat  BY InFlightIs DEF CallInv, TypeOK
<1>2. Backed(stack, w, X, n)  BY DEF BackedInv
<1> HIDE DEF w, w1
<1>3. \A low, high \in Nat : Holds(Top, low, high, X) /\ high + w <= n => low + w1 <= n1
  <2> SUFFICES ASSUME NEW low \in Nat, NEW high \in Nat, Holds(Top, low, high, X),
                      high + w <= n
               PROVE  low + w1 <= n1
    OBVIOUS
  <2>1. low <= high  BY HoldsIs
  <2>2. CASE w1 = 0 \/ w1 <= w \/ (w1 = 1 /\ n + 1 <= n1)  BY <1>1, <2>1, <2>2
  <2>3. CASE low + w1 <= high  BY <1>1, <2>3
  <2> QED  BY <2>2, <2>3 DEF w, w1
<1>4. Backed(Pop, w1, X, n1)  BY <1>1, <1>2, <1>3, BackedPop DEF Top, Pop
<1> QED  BY <1>4 DEF BackedInv, w1

LEMMA BackedChanges ==
  ASSUME CallInv, CallInv', NEW X, NEW n \in Nat, NEW n1 \in Nat,
         BackedInv(X, n), Running, stack # << >>, NEW fr \in Frames, stack' = ToTop(fr),
         InFlight(ctl', X) = 0, NEW d \in Nat,
         \A low, high \in Nat : Holds(Top, low, high, X) => Holds(fr, low, high + d, X),
         d + n <= InFlight(ctl, X) + n1
  PROVE  BackedInv(X, n1)'
<1>1. stack \in Seq(Frames) /\ InFlight(ctl, X) \in Nat  BY InFlightIs DEF CallInv, TypeOK
<1>2. Backed(stack, InFlight(ctl, X), X, n)  BY DEF BackedInv
<1> DEFINE w1 == InFlight(ctl', X)
<1>3. w1 \in Nat /\ d + w1 + n <= InFlight(ctl, X) + n1  OBVIOUS
<1> HIDE DEF w1
<1>4. Backed(stack', w1, X, n1)  BY <1>1, <1>2, <1>3, BackedTop DEF Top, ToTop
<1> QED  BY <1>4 DEF BackedInv, w1

(* The beginning and the end of a call of FormatPattern. *)
LEMMA BackedEnds ==
  ASSUME CallInv, CallInv', NEW X, Countable(X), NEW n \in Nat, NEW n1 \in Nat,
         BackedInv(X, n),
         Call \/ Return \/ (Accounted(X, n, n1) /\ (Finish \/ TooManyPlaceables))
  PROVE  BackedInv(X, n1)'
<1>1. ASSUME stack' = << >>, InFlight(ctl', X) <= n1 PROVE BackedInv(X, n1)'
  <2>1. InFlight(ctl', X) \in Nat  BY InFlightIs DEF CallInv, TypeOK
  <2> QED  BY <1>1, <2>1, BackedStarts DEF BackedInv
<1>2. ASSUME ctl'.m \in {"idle", "panic"} PROVE BackedInv(X, n1)'
  BY <1>2 DEF BackedInv, Running
<1>3. 0 <= n1  OBVIOUS
<1>4. CASE FormatText
  <2>1. stack' = << >>  BY <1>4 DEF FormatText, CallInv
  <2>2. ctl' = Done(<<"text">>) \/ ctl'.m = "panic"
    BY <1>4, ModesAre DEF FormatText
  <2>3. InFlight(Done(<<"text">>), X) = 0  BY InFlightIs, CountOne DEF Countable
  <2> QED  BY <1>1, <1>2, <1>3, <2>1, <2>2, <2>3
<1>5. CASE FormatNil
  <2>1. stack' = << >>  BY <1>5 DEF FormatNil, CallInv
  <2>2. InFlight(ctl', X) = 0
    <3>1. ctl' = Done(Rendered(None("null")))  BY <1>5 DEF FormatNil
    <3>2. Count(Rendered(None("null")), X) = 0  BY WeightIs DEF Countable
    <3> QED  BY <3>1, <3>2, InFlightIs
  <2> QED  BY <1>1, <1>3, <2>1, <2>2
<1>6. CASE FormatComplex
  <2>1. stack' = << >> /\ ctl'.m = "resolve"
    BY <1>6, ModesAre DEF FormatComplex, CallInv
  <2>2. InFlight(ctl', X) = 0  BY <2>1, InFlightIs
  <2> QED  BY <1>1, <1>3, <2>1, <2>2
<1>7. CASE Return  BY <1>2, <1>7, ModesAre DEF Return
<1>8. CASE TooManyPlaceables /\ Accounted(X, n, n1)
  <2>1. stack' = << >>  BY <1>8 DEF TooManyPlaceables
  <2>2. InFlight(ctl', X) = IF Fallback("limit") \in X THEN 1 ELSE 0
    BY <1>8, InFlightIs, WeightIs DEF TooManyPlaceables
  <2>3. Fallback("limit") \in X => 1 <= n1
    <3>1. Fallback("limit") \in X => n + 1 <= n1  BY <1>8 DEF Accounted
    <3> QED  BY <3>1
  <2> QED  BY <1>1, <1>3, <2>1, <2>2, <2>3
<1>9. CASE Finish /\ Accounted(X, n, n1)
  <2> DEFINE w == InFlight(ctl, X)
             w1 == InFlight(ctl', X)
  <2>1. /\ stack = << >> /\ stack' = << >> /\ Running /\ ctl.m = "give"
        /\ ctl' = Done(Rendered(ctl.v))
    BY <1>9 DEF Finish, Running
  <2>2. w = Weight(ctl.v, X) /\ w1 = Count(Rendered(ctl.v), X)  BY <2>1, InFlightIs
  <2>3. w \in Nat /\ w1 \in Nat  BY InFlightIs DEF CallInv, TypeOK
  <2>4. w1 + n <= w + n1  BY <1>9, <2>2 DEF Accounted
  <2>5. Backed(stack, w, X, n)  BY <2>1 DEF BackedInv
  <2>6. stack \in Seq(Frames)  BY DEF CallInv, TypeOK
  <2> HIDE DEF w, w1
  <2>7. w <= n  BY <2>3, <2>5, <2>6, BackedBounds
  <2>8. w1 <= n1  BY <2>3, <2>4, <2>7
  <2> QED  BY <1>1, <2>1, <2>8 DEF w1
<1> QED  BY <1>4, <1>5, <1>6, <1>7, <1>8, <1>9 DEF Call

(* Finding something missing writes one fallback. *)
LEMMA BackedMissed ==
  ASSUME NEW X, NEW n \in Nat, NEW n1 \in Nat, Accounted(X, n, n1),
         NEW err \in Errors, NEW m \in Missing, Missed(err, m)
  PROVE  InFlight(ctl', X) = 0 \/ (InFlight(ctl', X) = 1 /\ n + 1 <= n1)
<1>1. InFlight(ctl', X) = IF Fallback(m) \in X THEN 1 ELSE 0
  BY InFlightIs, WeightIs DEF Missed
<1>2. Fallback(m) \in X => n + 1 <= n1  BY DEF Accounted
<1> QED  BY <1>1, <1>2

LEMMA ComplexChanged ==
  \A fr \in Frames : fr.f = "complex" =>
    \A out \in Seq(Tokens), i \in Nat \ {0} :
      /\ [fr EXCEPT !.out = out].f = "complex"
      /\ [fr EXCEPT !.i = i, !.out = out].f = "complex"
      /\ [fr EXCEPT !.out = out].out = out
      /\ [fr EXCEPT !.i = i, !.out = out].out = out
<1> SUFFICES ASSUME NEW fr \in Frames, fr.f = "complex",
                    NEW out \in Seq(Tokens), NEW i \in Nat \ {0}
             PROVE
      /\ [fr EXCEPT !.out = out].f = "complex"
      /\ [fr EXCEPT !.i = i, !.out = out].f = "complex"
      /\ [fr EXCEPT !.out = out].out = out
      /\ [fr EXCEPT !.i = i, !.out = out].out = out
  OBVIOUS
<1> DEFINE F == [f : {"complex"}, p : {q \in Patterns : IsComplex(q)},
                 i : Nat \ {0}, out : Seq(Tokens)]
<1>1. fr \in F  BY DEF Frames
<1>2. DOMAIN fr = {"f", "p", "i", "out"}  BY <1>1
<1> QED  BY <1>2, FrameChanged

LEMMA ArgsChanged ==
  ASSUME NEW fr \in Frames, fr.f = "args", NEW vals \in Seq(Values)
  PROVE  /\ [fr EXCEPT !.vals = vals] \in Frames
         /\ [fr EXCEPT !.vals = vals].f = "args"
         /\ [fr EXCEPT !.vals = vals].e = fr.e
         /\ [fr EXCEPT !.vals = vals].vals = vals
<1> DEFINE F == [f : {"args"}, e : Of({"term", "function"}),
                 p : Patterns \cup {NoPattern}, vals : Seq(Values)]
<1>1. fr \in F  BY DEF Frames
<1>2. DOMAIN fr = {"f", "e", "p", "vals"}  BY <1>1
<1> QED  BY <1>2, FrameChanged

LEMMA VariantChanged ==
  ASSUME NEW fr \in Frames, fr.f = "variants", NEW i \in Nat \ {0}
  PROVE  /\ [fr EXCEPT !.i = i] \in Frames
         /\ [fr EXCEPT !.i = i].f = "variants"
         /\ [fr EXCEPT !.i = i].sel = fr.sel
<1> DEFINE F == [f : {"variants"}, e : Of({"select"}), sel : Values, i : Nat \ {0}]
<1>1. fr \in F  BY DEF Frames
<1>2. DOMAIN fr = {"f", "e", "sel", "i"}  BY <1>1
<1> QED  BY <1>2, FrameChanged

LEMMA BackedPatterns ==
  ASSUME CallInv, CallInv', NEW X, Countable(X), NEW n \in Nat, NEW n1 \in Nat,
         BackedInv(X, n), Accounted(X, n, n1),
         \/ ResolveNil \/ ResolveText \/ ResolveCyclic \/ ResolveComplex
         \/ AppendText \/ ExpandPlaceable \/ WritePlaceable \/ FinishPattern
  PROVE  BackedInv(X, n1)'
<1>1. Running
  BY ModesAre DEF Running, ResolveNil, ResolveText, ResolveCyclic, ResolveComplex,
                  AppendText, ExpandPlaceable, WritePlaceable, FinishPattern,
                  AtPlaceable, AtElement
<1>2. n <= n1  BY DEF Accounted
<1>3. ASSUME ctl'.m = "panic" PROVE BackedInv(X, n1)'
  BY <1>3 DEF BackedInv, Running
<1>4. CASE ResolveNil
  <2>1. InFlight(ctl', X) = 0
    <3>1. Weight(None("null"), X) = 0  BY WeightIs DEF Countable
    <3>2. ctl' = Give(None("null"))  BY <1>4 DEF ResolveNil
    <3> QED  BY <3>1, <3>2, InFlightIs
  <2> QED  BY <1>1, <1>2, <1>4, <2>1, BackedGoesOn DEF ResolveNil
<1>5. CASE ResolveText
  <2>1. ctl' = Give(Str(<<"text">>)) \/ ctl'.m = "panic"
    BY <1>5, ModesAre DEF ResolveText
  <2>2. InFlight(Give(Str(<<"text">>)), X) = 0
    <3>1. Count(<<"text">>, X) = 0  BY CountOne DEF Countable
    <3>2. Weight(Str(<<"text">>), X) = 0  BY <3>1, WeightIs
    <3> QED  BY <3>2, InFlightIs
  <2> QED  BY <1>1, <1>2, <1>3, <1>5, <2>1, <2>2, BackedGoesOn DEF ResolveText
<1>6. CASE ResolveCyclic
  <2>1. UNCHANGED stack /\ Missed("cyclic", "cyclic")  BY <1>6 DEF ResolveCyclic
  <2>2. InFlight(ctl', X) = 0 \/ (InFlight(ctl', X) = 1 /\ n + 1 <= n1)
    BY <2>1, BackedMissed DEF Missing, Errors
  <2> QED  BY <1>1, <1>2, <2>1, <2>2, BackedGoesOn
<1>7. CASE ResolveComplex
  <2> DEFINE fr == ComplexFrame(ctl.p)
  <2>1. stack' = Push(fr) /\ ctl'.m = "continue"  BY <1>7, ModesAre DEF ResolveComplex
  <2>2. fr \in Frames
    BY <1>7, FramesAre, ControlsTyped DEF ResolveComplex, CallInv, TypeOK, IsComplex
  <2>3. (\A a \in Nat : Holds(fr, a, a, X)) /\ InFlight(ctl', X) = 0
    BY <2>1, HoldsIs, InFlightIs
  <2> HIDE DEF fr
  <2> QED  BY <1>1, <1>2, <2>1, <2>2, <2>3, BackedCalls
<1>8. ASSUME In("complex")
      PROVE  /\ Top \in Frames /\ stack # << >> /\ Top.f = "complex"
             /\ Top.out \in Seq(Tokens) /\ Top.i + 1 \in Nat \ {0}
             /\ Count(Top.out, X) \in Nat
  <2>1. Top \in Frames /\ stack # << >> /\ Top.f = "complex"
    BY <1>8, TopIs DEF In, CallInv
  <2>2. Top.out \in Seq(Tokens) /\ Top.i \in Nat  BY <2>1, FramesTyped
  <2>3. Top.i + 1 \in Nat \ {0}  BY <2>2
  <2>4. Count(Top.out, X) \in Nat  BY <2>2, CountIs
  <2> QED  BY <2>1, <2>2, <2>3, <2>4
(* The pattern's text grows by d counted tokens. *)
<1>9. ASSUME In("complex"), NEW out \in Seq(Tokens), NEW i \in Nat \ {0}, NEW d \in Nat,
             \/ stack' = ToTop([Top EXCEPT !.out = out])
             \/ stack' = ToTop([Top EXCEPT !.i = i, !.out = out]),
             Count(out, X) = Count(Top.out, X) + d, d + n <= InFlight(ctl, X) + n1,
             InFlight(ctl', X) = 0
      PROVE  BackedInv(X, n1)'
  <2>1. PICK fr \in Frames : fr.f = "complex" /\ fr.out = out /\ stack' = ToTop(fr)
    <3> DEFINE fo == [Top EXCEPT !.out = out]
               fi == [Top EXCEPT !.i = i, !.out = out]
    <3>1. Top \in Frames /\ Top.f = "complex"  BY <1>8, <1>9
    <3>2. /\ fo \in Frames /\ fi \in Frames
          /\ fo.f = "complex" /\ fo.out = out
          /\ fi.f = "complex" /\ fi.out = out
      <4>1. fo \in Frames /\ fi \in Frames  BY <1>9, <3>1, FrameChanged
      <4>2. /\ fo.f = "complex" /\ fo.out = out
            /\ fi.f = "complex" /\ fi.out = out
        BY <1>9, <3>1, ComplexChanged
      <4> QED  BY <4>1, <4>2
    <3>3. stack' = ToTop(fo) \/ stack' = ToTop(fi)  BY <1>9
    <3> HIDE DEF fo, fi
    <3> QED  BY <3>2, <3>3
  <2>2. ASSUME NEW low \in Nat, NEW high \in Nat, Holds(Top, low, high, X)
        PROVE  Holds(fr, low, high + d, X)
    <3>1. low + Count(Top.out, X) <= high  BY <1>8, <1>9, <2>2 DEF Holds
    <3>2. \A a \in Nat : low + a <= high => low + (a + d) <= high + d /\ low <= high + d
      OBVIOUS
    <3>3. low + Count(out, X) <= high + d /\ low <= high + d  BY <1>8, <1>9, <3>1, <3>2
    <3> QED  BY <2>1, <3>3 DEF Holds
  <2> QED  BY <1>1, <1>8, <1>9, <2>1, <2>2, BackedChanges
<1>10. \A t \in {FSI, PDI, "text"} : <<t>> \in Seq(Tokens) /\ Count(<<t>>, X) = 0
  <2>1. \A t \in {FSI, PDI, "text"} : t \in Tokens /\ t \notin X
    BY TokensTyped DEF Countable
  <2> QED  BY <2>1, CountOne
<1>11. CASE AppendText
  <2>1. In("complex") /\ ctl = Continue  BY <1>11 DEF AppendText, AtElement
  <2>2. CASE UNCHANGED ctl /\ stack' = ToTop([Top EXCEPT !.i = @ + 1, !.out = Append(@, "text")])
    <3> DEFINE out == Append(Top.out, "text")
    <3>1. out = Top.out \o <<"text">> /\ out \in Seq(Tokens)
      BY <1>8, <2>1, TokensTyped, AppendIsConcat, AppendProperties
    <3>2. Count(out, X) = Count(Top.out, X) + 0
      <4>1. <<"text">> \in Seq(Tokens) /\ Count(<<"text">>, X) = 0  BY <1>10
      <4>2. Count(Top.out \o <<"text">>, X) = Count(Top.out, X) + Count(<<"text">>, X)
        BY <1>8, <2>1, <4>1, CountConcat
      <4> QED  BY <3>1, <4>1, <4>2
    <3>3. InFlight(ctl, X) = 0 /\ InFlight(ctl', X) = 0
      BY <2>1, <2>2, InFlightIs, ModesAre
    <3>4. 0 \in Nat /\ 0 + n <= 0 + n1  BY <1>2
    <3> HIDE DEF out
    <3>5. stack' = ToTop([Top EXCEPT !.i = Top.i + 1, !.out = out])  BY <2>2 DEF out
    <3> QED  BY <1>8, <1>9, <2>1, <3>1, <3>2, <3>3, <3>4, <3>5
  <2> QED  BY <1>3, <1>11, <2>2, ModesAre DEF AppendText
<1>12. CASE ExpandPlaceable
  <2>1. In("complex") /\ ctl = Continue /\ ctl'.m = "eval"
    BY <1>12, ModesAre DEF ExpandPlaceable, AtPlaceable, AtElement
  <2>2. InFlight(ctl, X) = 0 /\ InFlight(ctl', X) = 0  BY <2>1, InFlightIs, ModesAre
  <2>3. CASE UNCHANGED stack  BY <1>1, <1>2, <2>2, <2>3, BackedGoesOn
  <2>4. CASE stack' = ToTop([Top EXCEPT !.out = Append(@, FSI)])
    <3> DEFINE out == Append(Top.out, FSI)
    <3>1. out = Top.out \o <<FSI>> /\ out \in Seq(Tokens)
      BY <1>8, <2>1, TokensTyped, AppendIsConcat, AppendProperties
    <3>2. Count(out, X) = Count(Top.out, X) + 0
      <4>1. <<FSI>> \in Seq(Tokens) /\ Count(<<FSI>>, X) = 0  BY <1>10
      <4>2. Count(Top.out \o <<FSI>>, X) = Count(Top.out, X) + Count(<<FSI>>, X)
        BY <1>8, <2>1, <4>1, CountConcat
      <4> QED  BY <3>1, <4>1, <4>2
    <3>3. 0 \in Nat /\ 0 + n <= 0 + n1  BY <1>2
    <3> HIDE DEF out
    <3>4. stack' = ToTop([Top EXCEPT !.out = out])  BY <2>4 DEF out
    <3> QED  BY <1>8, <1>9, <2>1, <2>2, <3>1, <3>2, <3>3, <3>4
  <2> QED  BY <1>12, <2>3, <2>4 DEF ExpandPlaceable
<1>13. CASE WritePlaceable
  <2> DEFINE v == ctl.v
             text == Top.out \o Rendered(v)
             out == text \o Close(v)
             d == Count(Rendered(v), X)
  <2>1. In("complex") /\ ctl.m = "give"  BY <1>13 DEF WritePlaceable
  <2>2. CASE ctl' = Continue
             /\ stack' = ToTop([Top EXCEPT !.i = @ + 1, !.out = @ \o Rendered(ctl.v) \o Close(ctl.v)])
    <3>1. v \in Values /\ Rendered(v) \in Seq(Tokens) /\ d \in Nat
      BY <2>1, ControlsTyped, RenderedTyped, CountIs DEF CallInv, TypeOK
    <3>2. text \in Seq(Tokens) /\ Count(text, X) = Count(Top.out, X) + d
      BY <1>8, <2>1, <3>1, CountConcat, ConcatProperties
    <3>3. Close(v) \in Seq(Tokens) /\ Count(Close(v), X) = 0
      BY <1>10, CountNone DEF Close
    <3> HIDE DEF text
    <3>4. out \in Seq(Tokens) /\ Count(out, X) = Count(text, X) + 0
      BY <3>2, <3>3, CountConcat, ConcatProperties
    <3>5. d + n <= Weight(v, X) + n1  BY <1>13, <2>2 DEF Accounted
    <3>6. InFlight(ctl, X) = Weight(v, X) /\ InFlight(ctl', X) = 0
      BY <2>1, <2>2, InFlightIs, ModesAre
    <3>7. stack' = ToTop([Top EXCEPT !.i = Top.i + 1, !.out = out])
      BY <2>2 DEF out, text
    <3> HIDE DEF out, d
    <3>8. Count(out, X) = Count(Top.out, X) + d  BY <1>8, <2>1, <3>1, <3>2, <3>4
    <3> QED  BY <1>8, <1>9, <2>1, <3>1, <3>4, <3>5, <3>6, <3>7, <3>8
  <2> QED  BY <1>3, <1>13, <2>2, ModesAre DEF WritePlaceable
<1>14. CASE FinishPattern
  <2>1. In("complex") /\ stack' = Pop /\ ctl' = Give(Str(Top.out))
    BY <1>14 DEF FinishPattern
  <2>2. InFlight(ctl', X) = Count(Top.out, X)  BY <2>1, InFlightIs, WeightIs
  <2>3. \A low, high \in Nat : Holds(Top, low, high, X) => low + InFlight(ctl', X) <= high
    BY <1>8, <2>1, <2>2 DEF Holds
  <2> QED  BY <1>1, <1>2, <1>8, <2>1, <2>3, BackedReturns
<1> QED  BY <1>4, <1>5, <1>6, <1>7, <1>11, <1>12, <1>13, <1>14

LEMMA BackedExpressions ==
  ASSUME CallInv, CallInv', NEW X, Countable(X), NEW n \in Nat, NEW n1 \in Nat,
         BackedInv(X, n), Accounted(X, n, n1),
         \/ EvalLiteral \/ EvalParameter \/ EvalArgument \/ EvalMessage
         \/ EvalTerm \/ EvalFunction \/ EvalSelect
  PROVE  BackedInv(X, n1)'
<1>1. ctl.m = "eval" /\ ctl.e \in Exprs /\ Running
  BY ControlsTyped
     DEF EvalLiteral, EvalParameter, EvalArgument, EvalMessage, EvalTerm,
         EvalFunction, EvalSelect, At, Running, CallInv, TypeOK
<1>2. n <= n1  BY DEF Accounted
<1>3. ASSUME UNCHANGED stack, InFlight(ctl', X) = 0 PROVE BackedInv(X, n1)'
  BY <1>1, <1>2, <1>3, BackedGoesOn
<1>4. ASSUME UNCHANGED stack, NEW v, ctl' = Give(v), Weight(v, X) = 0
      PROVE  BackedInv(X, n1)'
  BY <1>3, <1>4, InFlightIs
<1>5. ASSUME UNCHANGED stack, NEW err \in Errors, NEW m \in Missing, Missed(err, m)
      PROVE  BackedInv(X, n1)'
  BY <1>1, <1>2, <1>5, BackedMissed, BackedGoesOn
<1>6. ASSUME NEW fr \in Frames, stack' = Push(fr), ctl'.m \in {"eval", "continue"},
             \A a \in Nat : Holds(fr, a, a, X)
      PROVE  BackedInv(X, n1)'
  <2>1. InFlight(ctl', X) = 0  BY <1>6, InFlightIs
  <2> QED  BY <1>1, <1>2, <1>6, <2>1, BackedCalls
<1>7. CASE EvalLiteral
  <2>1. Weight(ctl.e.v, X) = 0  BY <1>1, <1>7 DEF EvalLiteral, At, Of, Countable, NotGiven
  <2> QED  BY <1>4, <1>7, <2>1 DEF EvalLiteral
<1>8. CASE EvalParameter
  <2>1. ctl.e.name \in DOMAIN params => Weight(params[ctl.e.name], X) = 0
    BY <1>8 DEF EvalParameter, CallInv, TypeOK, Countable, NotGiven
  <2>2. Weight(None("param"), X) = 0  BY WeightIs DEF Countable
  <2> QED  BY <1>4, <1>8, <2>1, <2>2 DEF EvalParameter
<1>9. CASE EvalArgument
  <2>1. UNCHANGED stack  BY <1>9 DEF EvalArgument
  <2>2. CASE Missed("reference", "variable") \/ Missed("type", "variable")
    BY <1>5, <2>1, <2>2 DEF Missing, Errors
  <2>3. CASE ctl.e.name \in DOMAIN args /\ ctl' = Give(args[ctl.e.name])
    <3>1. Weight(args[ctl.e.name], X) = 0  BY <2>3 DEF CallInv, TypeOK, Countable, NotGiven
    <3> QED  BY <1>4, <2>1, <2>3, <3>1
  <2> QED  BY <1>9, <2>2, <2>3 DEF EvalArgument
<1>10. CASE EvalMessage
  <2>1. UNCHANGED stack  BY <1>10 DEF EvalMessage
  <2>2. Missed("reference", "message") \/ ctl'.m = "resolve"
    BY <1>10, ModesAre DEF EvalMessage
  <2> QED  BY <1>3, <1>5, <2>1, <2>2, InFlightIs DEF Missing, Errors
<1>11. CASE EvalTerm
  <2>1. CASE Missed("reference", "term") /\ UNCHANGED stack
    BY <1>5, <2>1 DEF Missing, Errors
  <2>2. ctl.e.name \in Ids /\ "term" \in Kinds /\ ctl.e \in Of({"term", "function"})
    BY <1>1, <1>11, ProgramAssumption DEF EvalTerm, At, Of, Kinds
  <2> DEFINE def == defs["term"][ctl.e.name]
             attr == ctl.e.attr
  <2>3. CASE /\ def # Absent /\ (attr # "" => attr \in DOMAIN def.attrs)
             /\ stack' = Push(ArgsFrame(ctl.e, Named(def, attr))) /\ ctl' = Continue
    <3> DEFINE p == Named(def, attr)
               fr == ArgsFrame(ctl.e, p)
    <3>1. p \in Patterns \cup {NoPattern}
      BY <2>2, <2>3, NamedTyped DEF CallInv, TypeOK
    <3>2. stack' = Push(fr)  BY <2>3
    <3> HIDE DEF p
    <3>3. fr \in Frames  BY <2>2, <3>1, FramesAre
    <3>4. \A a \in Nat : Holds(fr, a, a, X)  BY HoldsIs
    <3> HIDE DEF fr
    <3> QED  BY <1>6, <2>3, <3>2, <3>3, <3>4, ModesAre
  <2> QED  BY <1>11, <2>1, <2>3 DEF EvalTerm
<1>12. CASE EvalFunction
  <2>1. CASE Missed("reference", "function") /\ UNCHANGED stack
    BY <1>5, <2>1 DEF Missing, Errors
  <2>2. CASE stack' = Push(ArgsFrame(ctl.e, NoPattern)) /\ ctl' = Continue
    <3>1. ctl.e \in Of({"term", "function"})  BY <1>1, <1>12 DEF EvalFunction, At, Of
    <3>2. ArgsFrame(ctl.e, NoPattern) \in Frames  BY <3>1, FramesAre
    <3>3. \A a \in Nat : Holds(ArgsFrame(ctl.e, NoPattern), a, a, X)  BY HoldsIs
    <3> QED  BY <1>6, <2>2, <3>2, <3>3, ModesAre
  <2> QED  BY <1>12, <2>1, <2>2 DEF EvalFunction
<1>13. CASE EvalSelect
  <2>1. ctl.e \in Of({"select"})  BY <1>1, <1>13 DEF EvalSelect, At, Of
  <2>2. SelectorFrame(ctl.e) \in Frames  BY <2>1, FramesAre
  <2>3. SelectorFrame(ctl.e).f = "selector"  BY DEF SelectorFrame
  <2>4. \A a \in Nat : Holds(SelectorFrame(ctl.e), a, a, X)  BY <2>3, HoldsIs
  <2> QED  BY <1>6, <1>13, <2>2, <2>4, ModesAre DEF EvalSelect
<1> QED  BY <1>7, <1>8, <1>9, <1>10, <1>11, <1>12, <1>13

(* The builtins return their argument or what is no text. *)
LEMMA BuiltinWeight ==
  ASSUME NEW vals \in Seq(Values), NEW named, NEW X,
         NEW r \in {NumberResult(vals, named), DateTimeResult(vals, named)}, r.ok
  PROVE  Weight(r.v, X) = 0 \/ \E j \in DOMAIN vals : r.v = vals[j]
<1>1. \A e : Fails(e).ok = FALSE  BY DEF Fails
<1>2. \A v : Made(v).v = v  BY DEF Made
<1>3. CASE vals = << >>  BY <1>1, <1>3 DEF NumberResult, DateTimeResult
<1>4. CASE vals # << >>
  <2>1. 1 \in DOMAIN vals  BY <1>4, EmptySeq, LenProperties
  <2>2. r = NumberResult(vals, named) => Weight(r.v, X) = 0 \/ r.v = vals[1]
    BY <1>1, <1>2, <1>4, WeightIs DEF NumberResult
  <2>3. r = DateTimeResult(vals, named) => Weight(r.v, X) = 0 \/ r.v = vals[1]
    <3>1. CASE vals[1].k = "none"  BY <1>1, <1>2, <1>4, <3>1 DEF DateTimeResult
    <3>2. CASE vals[1].k \in {"datetime", "number"}
      <4>1. r = DateTimeResult(vals, named) =>
              r = Made(DateTime(vals[1].n)) \/ r = Fails("range")
        BY <1>4, <3>2 DEF DateTimeResult
      <4> QED  BY <1>1, <1>2, <4>1, WeightIs
    <3>3. CASE vals[1].k \notin {"none", "datetime", "number"}
      BY <1>1, <1>4, <3>3 DEF DateTimeResult
    <3> QED  BY <3>1, <3>2, <3>3
  <2> QED  BY <2>1, <2>2, <2>3
<1> QED  BY <1>3, <1>4

LEMMA BackedArguments ==
  ASSUME CallInv, CallInv', NEW X, Countable(X), NEW n \in Nat, NEW n1 \in Nat,
         BackedInv(X, n), Accounted(X, n, n1),
         \/ EvalPositional \/ TakePositional \/ EnterTerm \/ LeaveTerm
         \/ CallNUMBER \/ CallDATETIME \/ CallFunction
  PROVE  BackedInv(X, n1)'
<1>1. stack # << >> /\ Top \in Frames /\ Top.f \in {"args", "term"} /\ Running
  BY ModesAre, TopIs
     DEF EvalPositional, TakePositional, EnterTerm, LeaveTerm, CallNUMBER,
         CallDATETIME, CallFunction, Calling, In, Running, CallInv
<1>2. Top.f = "args" => Top.vals \in Seq(Values)  BY <1>1, FramesTyped
<1>3. n <= n1  BY DEF Accounted
<1>4. ASSUME stack' = Pop, Top.f = "args", NEW v, ctl' = Give(v),
             Weight(v, X) = 0 \/ \E j \in DOMAIN Top.vals : v = Top.vals[j]
      PROVE  BackedInv(X, n1)'
  <2>1. InFlight(ctl', X) = Weight(v, X)  BY <1>4, InFlightIs
  <2>2. CASE InFlight(ctl', X) = 0  BY <1>1, <1>3, <1>4, <2>2, BackedReturns
  <2>3. CASE \E j \in DOMAIN Top.vals : v = Top.vals[j]
    <3>1. \A low, high \in Nat : Holds(Top, low, high, X) => low + InFlight(ctl', X) <= high
      BY <1>4, <2>1, <2>3 DEF Holds
    <3> QED  BY <1>1, <1>3, <1>4, <3>1, BackedReturns
  <2> QED  BY <1>4, <2>1, <2>2, <2>3
<1>5. ASSUME stack' = Pop, NEW err \in Errors, NEW m \in Missing, Missed(err, m)
      PROVE  BackedInv(X, n1)'
  <2>1. InFlight(ctl', X) = 0 \/ (InFlight(ctl', X) = 1 /\ n + 1 <= n1)
    BY <1>5, BackedMissed
  <2> QED  BY <1>1, <1>3, <1>5, <2>1, BackedReturns
<1>6. CASE EvalPositional
  <2>1. UNCHANGED stack /\ ctl'.m = "eval"  BY <1>6, ModesAre DEF EvalPositional
  <2>2. InFlight(ctl', X) = 0  BY <2>1, InFlightIs
  <2> QED  BY <1>1, <1>3, <2>1, <2>2, BackedGoesOn
<1>7. CASE TakePositional
  <2> DEFINE vals == Append(Top.vals, ctl.v)
             fr == [Top EXCEPT !.vals = vals]
             d == Weight(ctl.v, X)
  <2>1. ctl.m = "give" /\ ctl.v \in Values /\ Top.f = "args" /\ d \in Nat
    BY <1>7, ControlsTyped, WeightTyped DEF TakePositional, In, CallInv, TypeOK
  <2>2. /\ vals \in Seq(Values)
        /\ \A j \in DOMAIN vals :
             (j \in DOMAIN Top.vals /\ vals[j] = Top.vals[j]) \/ vals[j] = ctl.v
    <3>1. /\ vals \in Seq(Values) /\ Len(Top.vals) \in Nat
          /\ DOMAIN Top.vals = 1..Len(Top.vals)
          /\ DOMAIN vals = 1..Len(Top.vals) + 1
          /\ \A j \in 1..Len(Top.vals) : vals[j] = Top.vals[j]
          /\ vals[Len(Top.vals) + 1] = ctl.v
      BY <1>2, <2>1, PushIs, LenProperties
    <3>2. \A j \in DOMAIN vals : j \in DOMAIN Top.vals \/ j = Len(Top.vals) + 1
      BY <3>1
    <3> HIDE DEF vals
    <3> QED  BY <3>1, <3>2
  <2>3. stack' = ToTop(fr) /\ ctl' = Continue  BY <1>7 DEF TakePositional
  <2> HIDE DEF vals
  <2>4. fr \in Frames /\ fr.f = "args" /\ fr.vals = vals
    BY <1>1, <2>1, <2>2, ArgsChanged
  <2> HIDE DEF fr, d
  <2>5. ASSUME NEW low \in Nat, NEW high \in Nat, Holds(Top, low, high, X)
        PROVE  Holds(fr, low, high + d, X)
    <3>1. low <= high /\ \A j \in DOMAIN Top.vals : low + Weight(Top.vals[j], X) <= high
      BY <2>1, <2>5 DEF Holds
    <3>2. low <= high + d /\ low + d <= high + d  BY <2>1, <3>1
    <3>3. \A w \in Nat : low + w <= high => low + w <= high + d  BY <2>1
    <3>4. \A v \in Values : Weight(v, X) \in Nat  BY WeightTyped
    <3>5. ASSUME NEW j \in DOMAIN vals PROVE low + Weight(vals[j], X) <= high + d
      <4>1. CASE vals[j] = ctl.v  BY <3>2, <4>1 DEF d
      <4>2. CASE j \in DOMAIN Top.vals /\ vals[j] = Top.vals[j]
        <5>1. Top.vals[j] \in Values  BY <1>2, <2>1, <4>2, ElementOfSeq, LenProperties
        <5> QED  BY <3>1, <3>3, <3>4, <4>2, <5>1
      <4> QED  BY <2>2, <4>1, <4>2
    <3> QED  BY <2>4, <3>2, <3>5 DEF Holds
  <2>6. InFlight(ctl, X) = d /\ InFlight(ctl', X) = 0
    BY <2>1, <2>3, InFlightIs, ModesAre DEF d
  <2>7. d + n <= d + n1  BY <1>3, <2>1
  <2> QED  BY <1>1, <2>1, <2>3, <2>4, <2>5, <2>6, <2>7, BackedChanges
<1>8. CASE EnterTerm
  <2> DEFINE fr == TermFrame(Top.e)
  <2>1. stack' = ToTop(fr) /\ ctl'.m = "resolve" /\ Top.f = "args" /\ Top.e.t = "term"
        /\ ctl = Continue
    BY <1>8, ModesAre DEF EnterTerm, Calling, In
  <2>2. Top.e \in Of({"term"})  BY <1>1, <2>1, FramesTyped DEF Of
  <2>3. fr \in Frames  BY <2>2, FramesAre
  <2>4. fr.f = "term"  BY DEF TermFrame
  <2> HIDE DEF fr
  <2>5. \A low, high \in Nat : Holds(Top, low, high, X) => Holds(fr, low, high + 0, X)
    <3>1. \A high \in Nat : high + 0 = high  OBVIOUS
    <3> QED  BY <2>4, <3>1, HoldsIs
  <2>6. InFlight(ctl', X) = 0 /\ InFlight(ctl, X) = 0 /\ 0 \in Nat /\ 0 + n <= 0 + n1
    BY <1>3, <2>1, InFlightIs, ModesAre
  <2> QED  BY <1>1, <2>1, <2>3, <2>5, <2>6, BackedChanges
<1>9. CASE LeaveTerm
  <2>1. stack' = Pop /\ UNCHANGED ctl  BY <1>9 DEF LeaveTerm
  <2>2. InFlight(ctl', X) <= InFlight(ctl, X)
    <3>1. InFlight(ctl, X) \in Nat  BY InFlightIs DEF CallInv, TypeOK
    <3>2. InFlight(ctl', X) = InFlight(ctl, X)  BY <2>1
    <3> QED  BY <3>1, <3>2
  <2> QED  BY <1>1, <1>3, <2>1, <2>2, BackedReturns
<1>10. CASE CallNUMBER \/ CallDATETIME
  <2> DEFINE rn == NumberResult(Top.vals, Top.e.named)
             rd == DateTimeResult(Top.vals, Top.e.named)
  <2>1. stack' = Pop /\ Top.f = "args" /\ (Answer(rn) \/ Answer(rd))
    BY <1>10 DEF CallNUMBER, CallDATETIME, Calling, In
  <2>2. PICK r \in {rn, rd} : Answer(r)  BY <2>1
  <2>3. CASE r.ok
    <3>1. ctl' = Give(r.v)  BY <2>2, <2>3 DEF Answer
    <3>2. Weight(r.v, X) = 0 \/ \E j \in DOMAIN Top.vals : r.v = Top.vals[j]
      BY <1>2, <2>1, <2>2, <2>3, BuiltinWeight
    <3> QED  BY <1>4, <2>1, <3>1, <3>2
  <2>4. CASE ~r.ok
    <3>1. r.err \in Errors
      BY <1>2, <2>1, <2>2, <2>4, NumberTyped, DateTimeTyped DEF Errors
    <3>2. Missed(r.err, "function")  BY <2>2, <2>4 DEF Answer
    <3> QED  BY <1>5, <2>1, <3>1, <3>2 DEF Missing
  <2> QED  BY <2>3, <2>4
<1>11. CASE CallFunction
  <2>1. stack' = Pop /\ Top.f = "args"  BY <1>11 DEF CallFunction, Calling, In
  <2>2. CASE \E v \in Results \cup {Top.vals[j] : j \in DOMAIN Top.vals} :
               ctl' = Give(v)
    <3>1. \A v \in Results : Weight(v, X) = 0  BY DEF Countable, NotGiven
    <3> QED  BY <1>4, <2>1, <2>2, <3>1
  <2>3. CASE Missed("extension", "function") \/ Missed("type", "function")
    BY <1>5, <2>1, <2>3 DEF Missing, Errors
  <2>4. CASE ctl'.m = "panic"  BY <2>4 DEF BackedInv, Running
  <2> QED  BY <1>11, <2>2, <2>3, <2>4, ModesAre DEF CallFunction, Failed, NilResult
<1> QED  BY <1>6, <1>7, <1>8, <1>9, <1>10, <1>11

LEMMA BackedSelects ==
  ASSUME CallInv, CallInv', NEW X, NEW n \in Nat, NEW n1 \in Nat,
         BackedInv(X, n), Accounted(X, n, n1),
         TakeSelector \/ TryVariant \/ NoVariantMatched
  PROVE  BackedInv(X, n1)'
<1>1. /\ stack # << >> /\ Top \in Frames /\ Running /\ stack \in Seq(Frames)
      /\ Top.f \in {"selector", "variants"}
  BY ModesAre, TopIs
     DEF TakeSelector, TryVariant, NoVariantMatched, AtVariant, In, Running, CallInv, TypeOK
<1>2. n <= n1  BY DEF Accounted
<1>3. InFlight(ctl, X) \in Nat  BY InFlightIs DEF CallInv, TypeOK
<1>4. ASSUME stack' = Pop, ctl'.m = "resolve" PROVE BackedInv(X, n1)'
  <2>1. InFlight(ctl', X) = 0  BY <1>4, InFlightIs
  <2> QED  BY <1>1, <1>2, <1>4, <2>1, BackedReturns
<1>5. ASSUME NEW fr \in Frames, fr.f = "variants", stack' = ToTop(fr), ctl' = Continue
      PROVE  BackedInv(X, n1)'
  <2>1. InFlight(ctl', X) = 0  BY <1>5, InFlightIs, ModesAre
  <2>2. \A low, high \in Nat : Holds(Top, low, high, X) => Holds(fr, low, high + 0, X)
    <3>1. \A high \in Nat : high + 0 = high  OBVIOUS
    <3> QED  BY <1>5, <3>1, HoldsIs
  <2>3. 0 \in Nat /\ 0 + n <= InFlight(ctl, X) + n1  BY <1>2, <1>3
  <2> QED  BY <1>1, <1>5, <2>1, <2>2, <2>3, BackedChanges
<1>6. CASE TakeSelector
  <2> DEFINE v == ctl.v
             checked == IF Late(v) THEN Cleared(v) ELSE v
             fr == VariantFrame(Top.e, checked)
  <2>1. \/ stack' = Pop /\ ctl' = Resolve(Default(Top.e))
        \/ stack' = ToTop(fr) /\ ctl' = Continue
    BY <1>6 DEF TakeSelector
  <2>2. stack' = ToTop(fr) => fr \in Frames
    <3>1. ASSUME stack' = ToTop(fr) PROVE Len(stack) \in DOMAIN stack' /\ stack'[Len(stack)] = fr
      <4>1. Len(stack) \in 1..Len(stack) /\ DOMAIN stack = 1..Len(stack)
        BY <1>1, PopIs, LenProperties
      <4> HIDE DEF fr
      <4> QED  BY <3>1, <4>1 DEF ToTop
    <3>2. stack' \in Seq(Frames)  BY DEF CallInv, TypeOK
    <3> HIDE DEF fr
    <3> QED  BY <3>1, <3>2, LenProperties, ElementOfSeq
  <2>3. fr.f = "variants"  BY DEF VariantFrame
  <2> HIDE DEF fr
  <2> QED  BY <1>4, <1>5, <2>1, <2>2, <2>3, ModesAre
<1>7. CASE TryVariant
  <2> DEFINE fr == [Top EXCEPT !.i = NextVariant]
  <2>1. \/ ctl'.m = "panic"
        \/ ctl'.m = "resolve" /\ stack' = Pop
        \/ stack' = ToTop(fr) /\ UNCHANGED ctl
    BY <1>7, ModesAre DEF TryVariant
  <2>2. ctl = Continue /\ Top.f = "variants"
    BY <1>7 DEF TryVariant, AtVariant, In
  <2>3. fr \in Frames /\ fr.f = "variants"
    <3>1. NextVariant \in Nat \ {0}  BY <1>1, <2>2, FramesTyped DEF NextVariant
    <3> QED  BY <1>1, <2>2, <3>1, VariantChanged
  <2> HIDE DEF fr
  <2>4. CASE ctl'.m = "panic"  BY <2>4 DEF BackedInv, Running
  <2> QED  BY <1>4, <1>5, <2>1, <2>2, <2>3, <2>4
<1>8. CASE NoVariantMatched  BY <1>4, <1>8, ModesAre DEF NoVariantMatched
<1> QED  BY <1>6, <1>7, <1>8

LEMMA NextBacked ==
  ASSUME CallInv, CallInv', NEW X, Countable(X), NEW n \in Nat, NEW n1 \in Nat,
         BackedInv(X, n), Call \/ Return \/ Accounted(X, n, n1), [Next]_vars
  PROVE  BackedInv(X, n1)'
<1>1. CASE Call \/ Return  BY <1>1, BackedEnds
<1> SUFFICES ASSUME Accounted(X, n, n1) PROVE BackedInv(X, n1)'  BY <1>1
<1>2. CASE UNCHANGED vars \/ AddResource
  <2>1. UNCHANGED <<ctl, stack>>  BY <1>2 DEF vars, AddResource
  <2>2. stack \in Seq(Frames) /\ InFlight(ctl, X) \in Nat  BY InFlightIs DEF CallInv, TypeOK
  <2>3. \A w \in Nat : w + n <= w + n1  BY DEF Accounted
  <2>4. Backed(stack, InFlight(ctl, X), X, n) => Backed(stack, InFlight(ctl, X), X, n1)
    BY <2>2, <2>3, BackedSame
  <2> QED  BY <2>1, <2>4 DEF BackedInv, Running
<1>3. CASE Finish \/ TooManyPlaceables  BY <1>3, BackedEnds
<1>4. CASE \/ ResolveNil \/ ResolveText \/ ResolveCyclic \/ ResolveComplex
           \/ AppendText \/ ExpandPlaceable \/ WritePlaceable \/ FinishPattern
  BY <1>4, BackedPatterns
<1>5. CASE \/ EvalLiteral \/ EvalParameter \/ EvalArgument \/ EvalMessage
           \/ EvalTerm \/ EvalFunction \/ EvalSelect
  BY <1>5, BackedExpressions
<1>6. CASE \/ EvalPositional \/ TakePositional \/ EnterTerm \/ LeaveTerm
           \/ CallNUMBER \/ CallDATETIME \/ CallFunction
  BY <1>6, BackedArguments
<1>7. CASE TakeSelector \/ TryVariant \/ NoVariantMatched  BY <1>7, BackedSelects
<1> QED  BY <1>1, <1>2, <1>3, <1>4, <1>5, <1>6, <1>7 DEF Next, Work

(* Errors are only added while a call runs. *)
LEMMA ErrsGrow ==
  ASSUME CallInv, CallInv', [Next]_vars
  PROVE  \/ Call \/ Return
         \/ UNCHANGED errs
         \/ \E err \in Errors : Report(err)
<1>1. CASE UNCHANGED vars \/ AddResource \/ Finish
  BY <1>1 DEF vars, AddResource, Finish, scope
<1>2. CASE \/ ResolveNil \/ ResolveText \/ ResolveCyclic \/ ResolveComplex \/ AppendText
           \/ ExpandPlaceable \/ TooManyPlaceables \/ WritePlaceable \/ FinishPattern
  BY <1>2 DEF ResolveNil, ResolveText, ResolveCyclic, ResolveComplex, AppendText,
              ExpandPlaceable, TooManyPlaceables, WritePlaceable, FinishPattern,
              Missed, scope, Errors
<1>3. CASE \/ EvalLiteral \/ EvalParameter \/ EvalArgument \/ EvalMessage
           \/ EvalTerm \/ EvalFunction \/ EvalSelect
  BY <1>3 DEF EvalLiteral, EvalParameter, EvalArgument, EvalMessage, EvalTerm,
              EvalFunction, EvalSelect, Missed, scope, Errors
<1>4. CASE EvalPositional \/ TakePositional \/ EnterTerm \/ LeaveTerm
  BY <1>4 DEF EvalPositional, TakePositional, EnterTerm, LeaveTerm, scope
<1>5. CASE CallNUMBER \/ CallDATETIME
  <2>1. Top.f = "args" /\ Top \in Frames
    BY <1>5, TopIs DEF CallNUMBER, CallDATETIME, Calling, In, CallInv
  <2>2. Top.vals \in Seq(Values)  BY <2>1, FramesTyped
  <2>3. \A r \in {NumberResult(Top.vals, Top.e.named), DateTimeResult(Top.vals, Top.e.named)} :
          ~r.ok => r.err \in Errors
    BY <2>2, NumberTyped, DateTimeTyped DEF Errors
  <2>4. PICK r \in {NumberResult(Top.vals, Top.e.named), DateTimeResult(Top.vals, Top.e.named)} :
          Answer(r)
    BY <1>5 DEF CallNUMBER, CallDATETIME
  <2> QED  BY <2>3, <2>4 DEF Answer, Missed
<1>6. CASE CallFunction
  BY <1>6 DEF CallFunction, Failed, NilResult, Missed, Errors
<1>7. CASE TakeSelector \/ TryVariant \/ NoVariantMatched
  BY <1>7 DEF TakeSelector, TryVariant, NoVariantMatched, scope, Errors
<1> QED  BY <1>1, <1>2, <1>3, <1>4, <1>5, <1>6, <1>7 DEF Next, Work

-----------------------------------------------------------------------------
LEMMA FallbacksWeigh ==
  /\ {FSI, PDI, "text", "number", "badnumber", "datetime", "custom"} \cap Fallbacks = {}
  /\ \A m \in {"null", "param"} : Fallback(m) \notin Fallbacks
  /\ \A v \in Values : Count(Rendered(v), Fallbacks) <= Weight(v, Fallbacks)
<1>1. {FSI, PDI, "text", "number", "badnumber", "datetime", "custom"} \cap Fallbacks = {}
  BY TokensAssumption DEF Fallbacks
<1>2. \A m \in {"null", "param"} : Fallback(m) \notin Fallbacks
  <2>1. {"null", "param"} \subseteq Missing  BY DEF Missing
  <2> QED  BY <2>1, TokensAssumption DEF Fallbacks
<1>3. ASSUME NEW v \in Values
      PROVE  Count(Rendered(v), Fallbacks) <= Weight(v, Fallbacks)
  <2>1. CASE v.k = "string"
    <3>1. Weight(v, Fallbacks) \in Nat  BY WeightTyped
    <3>2. Count(Rendered(v), Fallbacks) = Weight(v, Fallbacks)  BY <2>1 DEF Rendered, Weight
    <3> QED  BY <3>1, <3>2
  <2>2. CASE v.k = "none"
    <3>1. Count(Rendered(v), Fallbacks) = IF Fallback(v.missing) \in Fallbacks THEN 1 ELSE 0
      BY <2>2, CountOne DEF Rendered
    <3> QED  BY <2>2, <3>1 DEF Weight
  <2>3. CASE v.k \in {"number", "datetime", "custom"}
    <3>1. Rendered(v) \in {<<"number">>, <<"badnumber">>, <<"datetime">>, <<"custom">>}
      BY <2>3 DEF Rendered
    <3>2. Count(Rendered(v), Fallbacks) = 0  BY <1>1, <3>1, CountOne
    <3> QED  BY <2>3, <3>2 DEF Weight
  <2> QED  BY <2>1, <2>2, <2>3, ValuesTyped
<1> QED  BY <1>1, <1>2, <1>3

LEMMA NextFallbacks ==
  ASSUME NotGiven(Fallbacks)
  PROVE  CallInv /\ BackedInv(Fallbacks, Len(errs)) /\ [Next]_vars
           => BackedInv(Fallbacks, Len(errs))'
<1> SUFFICES ASSUME CallInv, BackedInv(Fallbacks, Len(errs)), [Next]_vars
             PROVE  BackedInv(Fallbacks, Len(errs))'
  OBVIOUS
<1>1. CallInv'  BY NextCall
<1>2. Len(errs) \in Nat /\ Len(errs)' \in Nat  BY <1>1, LenProperties DEF CallInv, TypeOK
<1> PICK n \in Nat : n = Len(errs)  BY <1>2
<1> PICK n1 \in Nat : n1 = Len(errs)'  BY <1>2
<1>3. BackedInv(Fallbacks, n)  BY DEF BackedInv
<1>4. \A err : Report(err) => n1 = n + 1  BY DEF Report, CallInv, TypeOK
<1>5. Countable(Fallbacks)  BY FallbacksWeigh DEF Countable
<1>6. Call \/ Return \/ Accounted(Fallbacks, n, n1)
  <2> SUFFICES ASSUME ~(Call \/ Return) PROVE Accounted(Fallbacks, n, n1)  OBVIOUS
  <2>1. n <= n1  BY <1>1, <1>4, ErrsGrow
  <2>2. \A err \in Errors, m \in Missing : Missed(err, m) => n + 1 <= n1
    BY <1>4 DEF Missed
  <2>3. TooManyPlaceables => n + 1 <= n1  BY <1>4 DEF TooManyPlaceables
  <2>4. ASSUME ctl.m = "give"
        PROVE  Count(Rendered(ctl.v), Fallbacks) + n <= Weight(ctl.v, Fallbacks) + n1
    <3>1. ctl.v \in Values  BY <2>4, ControlsTyped DEF CallInv, TypeOK
    <3>2. /\ Count(Rendered(ctl.v), Fallbacks) \in Nat
          /\ Weight(ctl.v, Fallbacks) \in Nat
          /\ Count(Rendered(ctl.v), Fallbacks) <= Weight(ctl.v, Fallbacks)
      BY <3>1, RenderedTyped, CountIs, WeightTyped, FallbacksWeigh
    <3>3. \A a, b \in Nat : a <= b => a + n <= b + n1  BY <2>1
    <3> QED  BY <3>2, <3>3
  <2> QED  BY <2>1, <2>2, <2>3, <2>4 DEF Accounted, WritePlaceable, Finish
<1>7. BackedInv(Fallbacks, n1)'  BY <1>1, <1>3, <1>5, <1>6, NextBacked
<1> QED  BY <1>7 DEF BackedInv

(* When neither the program nor the caller writes what looks like a        *)
(* fallback, the fallbacks in what FormatPattern returns never outnumber   *)
(* the errors (reportError), whatever functions do with the values they    *)
(* are given, and also when they are dropped, selected on or cut off by    *)
(* the placeable limit.                                                    *)
THEOREM ResolverFallbacks ==
  NotGiven(Fallbacks) => (Spec => []FallbacksReported)
<1> SUFFICES ASSUME NotGiven(Fallbacks) PROVE Spec => []FallbacksReported  OBVIOUS
<1> DEFINE Inv == BackedInv(Fallbacks, Len(errs))
<1>1. Init => Inv  BY ModesAre DEF Init, BackedInv, Running
<1>2. CallInv /\ Inv /\ [Next]_vars => Inv'  BY NextFallbacks
<1>3. CallInv /\ Inv => FallbacksReported
  <2> SUFFICES ASSUME CallInv, Inv, ctl.m = "done"
               PROVE  Count(ctl.out, Fallbacks) <= Len(errs)
    BY DEF FallbacksReported, Reported, Fallbacks
  <2>1. /\ stack \in Seq(Frames) /\ Len(errs) \in Nat
        /\ InFlight(ctl, Fallbacks) \in Nat
    BY InFlightIs, LenProperties DEF CallInv, TypeOK
  <2>2. InFlight(ctl, Fallbacks) = Count(ctl.out, Fallbacks)  BY DEF InFlight
  <2>3. Backed(stack, InFlight(ctl, Fallbacks), Fallbacks, Len(errs))  BY DEF BackedInv
  <2> QED  BY <2>1, <2>2, <2>3, BackedBounds
<1> HIDE DEF Inv
<1> QED  BY InitCall, NextCall, <1>1, <1>2, <1>3, PTL DEF Spec

-----------------------------------------------------------------------------
(* Option errors.  A number whose options were invalid carries the error   *)
(* until it is reported, unless another NUMBER() has replaced it, which    *)
(* NumbersOnce excludes.                                                   *)
Pending(v) == v.k = "number" /\ ~v.valid => v.optErr

(* A call of NUMBER that still waits for the number it formats. *)
IsNUMBER(fr) == fr.f = "args" /\ fr.e.t = "function" /\ fr.e.name = "NUMBER"
AsksNumber(fr) == IsNUMBER(fr) /\ fr.vals = << >>
Expects(fr, e) == fr.f # "term" /\ (AsksNumber(fr) => Direct(e))

(* The arguments of a call, what the call is made for, and the report of   *)
(* the error of a number that only selects; n option errors are reported.  *)
SoundArgs(fr) ==
  fr.f = "args" => /\ \A j \in DOMAIN fr.vals : Pending(fr.vals[j])
                   /\ IsNUMBER(fr) /\ fr.vals # << >> => Faultless(fr.vals[1])
SoundSelector(fr, n) == fr.f = "variants" /\ ~Faultless(fr.sel) => n > 0
SoundStack(st, n) ==
  \A k \in DOMAIN st :
    /\ SoundArgs(st[k])
    /\ SoundSelector(st[k], n)
    /\ st[k].f = "args" => k - 1 \in DOMAIN st /\ Expects(st[k - 1], st[k].e)

(* Only a call that does not ask for a number gets one with an error. *)
SoundGive(v, st) ==
  /\ Pending(v)
  /\ ~Faultless(v) => /\ st # << >>
                      /\ st[Len(st)].f # "term"
                      /\ ~AsksNumber(st[Len(st)])

OptionInv(n) ==
  /\ SoundStack(stack, n)
  /\ ctl.m = "eval" => stack # << >> /\ Expects(Top, ctl.e)
  /\ ctl.m = "give" => SoundGive(ctl.v, stack)

LEMMA SoundPush ==
  ASSUME NEW n \in Nat, NEW n1 \in Nat, n <= n1,
         NEW st \in Seq(Frames), SoundStack(st, n), NEW fr \in Frames,
         SoundArgs(fr), fr.f # "variants",
         fr.f = "args" => st # << >> /\ Expects(st[Len(st)], fr.e)
  PROVE  SoundStack(Append(st, fr), n1)
<1> DEFINE m == Len(st)
           st1 == Append(st, fr)
<1>1. /\ m \in Nat /\ DOMAIN st = 1..m /\ DOMAIN st1 = 1..m + 1
      /\ \A k \in 1..m : st1[k] = st[k]
      /\ st1[m + 1] = fr
      /\ st # << >> => m \in 1..m
  BY PushIs, EmptySeq
<1> HIDE DEF m, st1
<1>2. \A k \in 1..m + 1 : k \in 1..m \/ k = m + 1  BY <1>1
<1>3. \A k \in 1..m : k \in 1..m + 1 /\ (k - 1 \in 1..m => k - 1 \in 1..m + 1)  BY <1>1
<1>4. (m + 1) - 1 = m  BY <1>1
<1>5. \A k \in 1..m : /\ SoundArgs(st[k]) /\ SoundSelector(st[k], n)
                      /\ st[k].f = "args" => k - 1 \in 1..m /\ Expects(st[k - 1], st[k].e)
  BY <1>1 DEF SoundStack
<1>6. ASSUME NEW k \in 1..m
      PROVE  /\ SoundArgs(st1[k]) /\ SoundSelector(st1[k], n1)
             /\ st1[k].f = "args" => k - 1 \in 1..m + 1 /\ Expects(st1[k - 1], st1[k].e)
  <2>1. SoundSelector(st[k], n1)  BY <1>5 DEF SoundSelector
  <2>2. st[k].f = "args" => k - 1 \in 1..m + 1 /\ st1[k - 1] = st[k - 1]
    BY <1>1, <1>3, <1>5
  <2> QED  BY <1>1, <1>5, <2>1, <2>2
<1>7. /\ SoundArgs(fr) /\ SoundSelector(fr, n1)
      /\ fr.f = "args" => m \in 1..m + 1 /\ Expects(st1[m], fr.e)
  <2>1. SoundSelector(fr, n1)  BY DEF SoundSelector
  <2>2. fr.f = "args" => m \in 1..m /\ Expects(st[m], fr.e)  BY <1>1 DEF m
  <2> QED  BY <1>1, <1>3, <2>1, <2>2
<1>8. \A k \in 1..m + 1 :
        /\ SoundArgs(st1[k]) /\ SoundSelector(st1[k], n1)
        /\ st1[k].f = "args" => k - 1 \in 1..m + 1 /\ Expects(st1[k - 1], st1[k].e)
  BY <1>1, <1>2, <1>4, <1>6, <1>7
<1> QED  BY <1>1, <1>8 DEF SoundStack, st1

LEMMA SoundPop ==
  ASSUME NEW n \in Nat, NEW n1 \in Nat, n <= n1,
         NEW st \in Seq(Frames), SoundStack(st, n), st # << >>
  PROVE  /\ SoundStack(SubSeq(st, 1, Len(st) - 1), n1)
         /\ st[Len(st)].f = "args" =>
              /\ SubSeq(st, 1, Len(st) - 1) # << >>
              /\ LET below == SubSeq(st, 1, Len(st) - 1) IN
                 Expects(below[Len(below)], st[Len(st)].e)
<1> DEFINE m == Len(st)
           st1 == SubSeq(st, 1, m - 1)
<1>1. /\ m \in Nat \ {0} /\ DOMAIN st = 1..m
      /\ DOMAIN st1 = 1..m - 1 /\ st1 \in Seq(Frames)
      /\ \A k \in 1..m - 1 : st1[k] = st[k]
  BY PopIs
<1>2. Len(st1) = m - 1
  <2>1. m - 1 \in 0..m  BY <1>1
  <2> QED  BY <2>1, PrefixIs
<1>3. st1 = << >> => DOMAIN st1 = {}  OBVIOUS
<1> HIDE DEF m, st1
<1>4. \A k \in 1..m - 1 : k \in 1..m /\ (k - 1 \in 1..m => k - 1 \in 1..m - 1)  BY <1>1
<1>5. m \in 1..m /\ (m - 1 \in 1..m => m - 1 \in 1..m - 1)  BY <1>1
<1>6. \A k \in 1..m : /\ SoundArgs(st[k]) /\ SoundSelector(st[k], n)
                      /\ st[k].f = "args" => k - 1 \in 1..m /\ Expects(st[k - 1], st[k].e)
  BY <1>1 DEF SoundStack
<1>7. ASSUME NEW k \in 1..m - 1
      PROVE  /\ SoundArgs(st1[k]) /\ SoundSelector(st1[k], n1)
             /\ st1[k].f = "args" => k - 1 \in 1..m - 1 /\ Expects(st1[k - 1], st1[k].e)
  <2>1. SoundSelector(st[k], n1)  BY <1>4, <1>6 DEF SoundSelector
  <2>2. st[k].f = "args" => k - 1 \in 1..m - 1 /\ st1[k - 1] = st[k - 1]
    BY <1>1, <1>4, <1>6
  <2> QED  BY <1>1, <1>4, <1>6, <2>1, <2>2
<1>8. SoundStack(st1, n1)  BY <1>1, <1>7 DEF SoundStack
<1>9. st[m].f = "args" => st1 # << >> /\ Expects(st1[Len(st1)], st[m].e)
  <2> SUFFICES ASSUME st[m].f = "args" PROVE st1 # << >> /\ Expects(st1[Len(st1)], st[m].e)
    OBVIOUS
  <2>1. m - 1 \in 1..m - 1 /\ Expects(st[m - 1], st[m].e)  BY <1>5, <1>6
  <2>2. st1 # << >>  BY <1>1, <1>3, <2>1
  <2> QED  BY <1>1, <1>2, <2>1, <2>2
<1> QED  BY <1>8, <1>9 DEF st1, m

LEMMA SoundTop ==
  ASSUME NEW n \in Nat, NEW n1 \in Nat, n <= n1,
         NEW st \in Seq(Frames), SoundStack(st, n), st # << >>, NEW fr \in Frames,
         SoundArgs(fr), SoundSelector(fr, n1),
         fr.f = "args" => st[Len(st)].f = "args" /\ fr.e = st[Len(st)].e
  PROVE  SoundStack([st EXCEPT ![Len(st)] = fr], n1)
<1> DEFINE m == Len(st)
           st1 == [st EXCEPT ![m] = fr]
<1>1. /\ m \in Nat \ {0} /\ DOMAIN st = 1..m
      /\ DOMAIN st1 = 1..m
      /\ \A k \in 1..m - 1 : st1[k] = st[k]
      /\ st1[m] = fr
  BY ReplaceIs
<1>2. fr.f = "args" => st[m].f = "args" /\ fr.e = st[m].e  OBVIOUS
<1> HIDE DEF m, st1
<1>3. \A k \in 1..m : /\ k \in 1..m - 1 \/ k = m
                      /\ k - 1 \in 1..m => k - 1 \in 1..m - 1
  BY <1>1
<1>4. \A k \in 1..m - 1 : k \in 1..m  BY <1>1
<1>5. m \in 1..m  BY <1>1
<1>6. \A k \in 1..m : /\ SoundArgs(st[k]) /\ SoundSelector(st[k], n)
                      /\ st[k].f = "args" => k - 1 \in 1..m /\ Expects(st[k - 1], st[k].e)
  BY <1>1 DEF SoundStack
<1>7. ASSUME NEW k \in 1..m - 1
      PROVE  /\ SoundArgs(st1[k]) /\ SoundSelector(st1[k], n1)
             /\ st1[k].f = "args" => k - 1 \in 1..m /\ Expects(st1[k - 1], st1[k].e)
  <2>1. SoundSelector(st[k], n1)  BY <1>4, <1>6 DEF SoundSelector
  <2>2. st[k].f = "args" => k - 1 \in 1..m /\ st1[k - 1] = st[k - 1]
    BY <1>1, <1>3, <1>4, <1>6
  <2> QED  BY <1>1, <1>4, <1>6, <2>1, <2>2
<1>8. fr.f = "args" => m - 1 \in 1..m /\ Expects(st1[m - 1], fr.e)
  BY <1>1, <1>2, <1>3, <1>5, <1>6
<1> QED  BY <1>1, <1>3, <1>7, <1>8 DEF SoundStack, st1

LEMMA SoundSame ==
  ASSUME NEW n \in Nat, NEW n1 \in Nat, n <= n1, NEW st, SoundStack(st, n)
  PROVE  SoundStack(st, n1)
<1>1. \A fr : SoundSelector(fr, n) => SoundSelector(fr, n1)  BY DEF SoundSelector
<1> QED  BY <1>1 DEF SoundStack

LEMMA FaultlessValues ==
  /\ \A m : Faultless(None(m))
  /\ \A out : Faultless(Str(out))
  /\ \A v : Faultless(v) => Pending(v)
  /\ \A v, st : Faultless(v) => SoundGive(v, st)
BY DEF Faultless, Pending, SoundGive, None, Str

(* A step that hands on no number with an error. *)
LEMMA OptionGoesOn ==
  ASSUME NEW n1 \in Nat, SoundStack(stack', n1),
         \/ ctl'.m \in {"idle", "resolve", "continue", "done", "panic"}
         \/ \E v : ctl' = Give(v) /\ Faultless(v)
  PROVE  OptionInv(n1)'
<1>1. \A v : Give(v).v = v /\ Give(v).m = "give"  BY DEF Give
<1> QED  BY <1>1, FaultlessValues DEF OptionInv

LEMMA OptionMissed ==
  ASSUME NEW err, NEW m, Missed(err, m)
  PROVE  \E v : ctl' = Give(v) /\ Faultless(v)
BY FaultlessValues DEF Missed

LEMMA OptionEnds ==
  ASSUME CallInv, NEW n1 \in Nat, Call \/ Finish \/ Return \/ TooManyPlaceables
  PROVE  OptionInv(n1)'
<1>1. stack' = << >>
  BY DEF Call, FormatText, FormatNil, FormatComplex, Finish, Return, TooManyPlaceables, CallInv
<1>2. ctl'.m \in {"idle", "resolve", "done", "panic"}
  BY ModesAre DEF Call, FormatText, FormatNil, FormatComplex, Finish, Return, TooManyPlaceables
<1>3. SoundStack(<< >>, n1)
  <2>1. DOMAIN << >> = {}  OBVIOUS
  <2> QED  BY <2>1 DEF SoundStack
<1> QED  BY <1>1, <1>2, <1>3, OptionGoesOn

(* The frames other than arguments ask for nothing. *)
LEMMA SoundFrames ==
  \A fr : fr.f # "args" => SoundArgs(fr) /\ (fr.f # "variants" => \A n : SoundSelector(fr, n))
BY DEF SoundArgs, SoundSelector

LEMMA OptionPatterns ==
  ASSUME CallInv, CallInv', NEW n \in Nat, NEW n1 \in Nat, n <= n1, OptionInv(n),
         \/ ResolveNil \/ ResolveText \/ ResolveCyclic \/ ResolveComplex
         \/ AppendText \/ ExpandPlaceable \/ WritePlaceable \/ FinishPattern
  PROVE  OptionInv(n1)'
<1>1. SoundStack(stack, n) /\ stack \in Seq(Frames)  BY DEF OptionInv, CallInv, TypeOK
<1>2. UNCHANGED stack => SoundStack(stack', n1)  BY <1>1, SoundSame
<1>3. CASE ResolveNil
  BY <1>2, <1>3, FaultlessValues, OptionGoesOn DEF ResolveNil
<1>4. CASE ResolveText
  <2>1. UNCHANGED stack  BY <1>4 DEF ResolveText
  <2>2. ctl' = Give(Str(<<"text">>)) \/ ctl'.m = "panic"
    BY <1>4, ModesAre DEF ResolveText
  <2> QED  BY <1>2, <2>1, <2>2, FaultlessValues, OptionGoesOn
<1>5. CASE ResolveCyclic
  BY <1>2, <1>5, OptionMissed, OptionGoesOn DEF ResolveCyclic
<1>6. CASE ResolveComplex
  <2> DEFINE fr == ComplexFrame(ctl.p)
  <2>1. stack' = Push(fr) /\ ctl'.m = "continue"  BY <1>6, ModesAre DEF ResolveComplex
  <2>2. fr \in Frames
    BY <1>6, FramesAre, ControlsTyped DEF ResolveComplex, CallInv, TypeOK, IsComplex
  <2>3. fr.f = "complex"  BY DEF ComplexFrame
  <2> HIDE DEF fr
  <2>4. SoundStack(Push(fr), n1)
    BY <1>1, <2>2, <2>3, SoundFrames, SoundPush DEF Push
  <2> QED  BY <2>1, <2>4, OptionGoesOn
<1>7. ASSUME In("complex")
      PROVE  Top \in Frames /\ stack # << >> /\ Top.f = "complex"
             /\ Top.out \in Seq(Tokens) /\ Top.i + 1 \in Nat \ {0}
  <2>1. Top \in Frames /\ stack # << >> /\ Top.f = "complex"
    BY <1>7, TopIs DEF In, CallInv
  <2>2. Top.out \in Seq(Tokens) /\ Top.i \in Nat  BY <2>1, FramesTyped
  <2>3. Top.i + 1 \in Nat \ {0}  BY <2>2
  <2> QED  BY <2>1, <2>2, <2>3
<1>8. ASSUME In("complex"), NEW out \in Seq(Tokens), NEW i \in Nat \ {0},
             \/ stack' = ToTop([Top EXCEPT !.out = out])
             \/ stack' = ToTop([Top EXCEPT !.i = i, !.out = out])
      PROVE  SoundStack(stack', n1) /\ stack' # << >> /\ Top'.f = "complex"
  <2>1. PICK fr \in Frames : fr.f = "complex" /\ stack' = ToTop(fr)
    <3> DEFINE fo == [Top EXCEPT !.out = out]
               fi == [Top EXCEPT !.i = i, !.out = out]
    <3>1. Top \in Frames /\ Top.f = "complex"  BY <1>7, <1>8
    <3>2. fo \in Frames /\ fi \in Frames  BY <1>8, <3>1, FrameChanged
    <3>3. fo.f = "complex" /\ fi.f = "complex"  BY <1>8, <3>1, ComplexChanged
    <3>4. stack' = ToTop(fo) \/ stack' = ToTop(fi)  BY <1>8
    <3> HIDE DEF fo, fi
    <3> QED  BY <3>2, <3>3, <3>4
  <2>2. stack # << >>  BY <1>7, <1>8
  <2>3. SoundStack(ToTop(fr), n1)
    BY <1>1, <2>1, <2>2, SoundFrames, SoundTop DEF ToTop
  <2>4. /\ Len(stack) \in Nat \ {0} /\ DOMAIN stack' = 1..Len(stack)
        /\ stack'[Len(stack)] = fr
    BY <1>1, <2>1, <2>2, ReplaceIs DEF ToTop
  <2>5. Len(stack') = Len(stack) /\ stack' # << >>
    <3>1. stack' \in Seq(Frames)  BY DEF CallInv, TypeOK
    <3>2. << >> \in Seq(Frames) /\ Len(<< >>) = 0  OBVIOUS
    <3>3. Len(stack') = Len(stack)  BY <2>4, <3>1, LenProperties
    <3> QED  BY <2>4, <3>2, <3>3
  <2> QED  BY <2>1, <2>3, <2>4, <2>5 DEF Top
<1>9. \A t \in {FSI, "text"} : In("complex") => Append(Top.out, t) \in Seq(Tokens)
  BY <1>7, TokensTyped, AppendProperties
<1>10. CASE AppendText
  <2>1. In("complex") /\ ctl = Continue  BY <1>10 DEF AppendText, AtElement
  <2>2. CASE UNCHANGED stack /\ ctl'.m = "panic"  BY <1>2, <2>2, OptionGoesOn
  <2>3. CASE UNCHANGED ctl /\ stack' = ToTop([Top EXCEPT !.i = @ + 1, !.out = Append(@, "text")])
    <3> DEFINE out == Append(Top.out, "text")
    <3>1. out \in Seq(Tokens)  BY <1>9, <2>1
    <3>2. stack' = ToTop([Top EXCEPT !.i = Top.i + 1, !.out = out])  BY <2>3
    <3> HIDE DEF out
    <3>3. SoundStack(stack', n1)  BY <1>7, <1>8, <2>1, <3>1, <3>2
    <3> QED  BY <2>1, <2>3, <3>3, OptionGoesOn, ModesAre
  <2> QED  BY <1>10, <2>2, <2>3, ModesAre DEF AppendText
<1>11. CASE ExpandPlaceable
  <2>1. In("complex") /\ ctl'.m = "eval"
    BY <1>11, ModesAre DEF ExpandPlaceable, AtPlaceable, AtElement
  <2>2. SoundStack(stack', n1) /\ stack' # << >> /\ Top'.f = "complex"
    <3>1. CASE UNCHANGED stack  BY <1>2, <1>7, <2>1, <3>1 DEF Top
    <3>2. CASE stack' = ToTop([Top EXCEPT !.out = Append(@, FSI)])
      <4> DEFINE out == Append(Top.out, FSI)
      <4>1. out \in Seq(Tokens) /\ 1 \in Nat \ {0}  BY <1>9, <2>1
      <4>2. stack' = ToTop([Top EXCEPT !.out = out])  BY <3>2
      <4> HIDE DEF out
      <4> QED  BY <1>8, <2>1, <4>1, <4>2
    <3> QED  BY <1>11, <3>1, <3>2 DEF ExpandPlaceable
  <2>3. Expects(Top', ctl'.e)  BY <2>2 DEF Expects, AsksNumber, IsNUMBER
  <2> QED  BY <2>1, <2>2, <2>3 DEF OptionInv
<1>12. CASE WritePlaceable
  <2>1. In("complex") /\ ctl.m = "give"  BY <1>12 DEF WritePlaceable
  <2>2. CASE UNCHANGED stack /\ ctl'.m = "panic"  BY <1>2, <2>2, OptionGoesOn
  <2>3. CASE ctl' = Continue
             /\ stack' = ToTop([Top EXCEPT !.i = @ + 1, !.out = @ \o Rendered(ctl.v) \o Close(ctl.v)])
    <3> DEFINE text == Top.out \o Rendered(ctl.v)
               out == text \o Close(ctl.v)
    <3>1. Rendered(ctl.v) \in Seq(Tokens)
      BY <2>1, ControlsTyped, RenderedTyped DEF CallInv, TypeOK
    <3>2. text \in Seq(Tokens)  BY <1>7, <2>1, <3>1, ConcatProperties
    <3>3. Close(ctl.v) \in Seq(Tokens)
      <4>1. <<PDI>> \in Seq(Tokens) /\ << >> \in Seq(Tokens)  BY TokensTyped
      <4> QED  BY <4>1 DEF Close
    <3> HIDE DEF text
    <3>4. out \in Seq(Tokens)  BY <3>2, <3>3, ConcatProperties
    <3>5. stack' = ToTop([Top EXCEPT !.i = Top.i + 1, !.out = out])  BY <2>3 DEF text
    <3> HIDE DEF out
    <3>6. SoundStack(stack', n1)  BY <1>7, <1>8, <2>1, <3>4, <3>5
    <3> QED  BY <2>3, <3>6, OptionGoesOn, ModesAre
  <2> QED  BY <1>12, <2>2, <2>3, ModesAre DEF WritePlaceable
<1>13. CASE FinishPattern
  <2>1. stack # << >> /\ stack' = Pop /\ ctl' = Give(Str(Top.out))
    BY <1>13 DEF FinishPattern, In
  <2>2. SoundStack(Pop, n1)  BY <1>1, <2>1, SoundPop DEF Pop
  <2> QED  BY <2>1, <2>2, FaultlessValues, OptionGoesOn
<1> QED  BY <1>3, <1>4, <1>5, <1>6, <1>10, <1>11, <1>12, <1>13

LEMMA OptionExpressions ==
  ASSUME CallInv, CallInv', NEW n \in Nat, NEW n1 \in Nat, n <= n1, OptionInv(n),
         OptionsGiven,
         \/ EvalLiteral \/ EvalParameter \/ EvalArgument \/ EvalMessage
         \/ EvalTerm \/ EvalFunction \/ EvalSelect
  PROVE  OptionInv(n1)'
<1>1. /\ ctl.m = "eval" /\ ctl.e \in Exprs
      /\ SoundStack(stack, n) /\ stack \in Seq(Frames)
      /\ stack # << >> /\ Expects(Top, ctl.e)
  BY ControlsTyped
     DEF EvalLiteral, EvalParameter, EvalArgument, EvalMessage, EvalTerm,
         EvalFunction, EvalSelect, At, OptionInv, CallInv, TypeOK
<1>2. UNCHANGED stack => SoundStack(stack', n1)  BY <1>1, SoundSame
<1>3. ASSUME UNCHANGED stack, NEW v, ctl' = Give(v), Faultless(v)
      PROVE  OptionInv(n1)'
  BY <1>2, <1>3, OptionGoesOn
<1>4. ASSUME UNCHANGED stack, NEW err, NEW m, Missed(err, m)
      PROVE  OptionInv(n1)'
  BY <1>2, <1>4, OptionMissed, OptionGoesOn
<1>5. ASSUME NEW p, ArgsFrame(ctl.e, p) \in Frames, stack' = Push(ArgsFrame(ctl.e, p)),
             ctl' = Continue
      PROVE  OptionInv(n1)'
  <2> DEFINE fr == ArgsFrame(ctl.e, p)
  <2>1. fr.f = "args" /\ fr.e = ctl.e /\ fr.vals = << >>  BY DEF ArgsFrame
  <2>2. fr \in Frames /\ stack' = Push(fr)  BY <1>5
  <2> HIDE DEF fr
  <2>3. SoundArgs(fr)  BY <2>1 DEF SoundArgs
  <2>4. SoundStack(Push(fr), n1)
    BY <1>1, <2>1, <2>2, <2>3, SoundPush DEF Push, Top
  <2> QED  BY <1>5, <2>2, <2>4, OptionGoesOn, ModesAre
<1>6. CASE EvalLiteral
  <2>1. Faultless(ctl.e.v)  BY <1>1, <1>6 DEF EvalLiteral, At, Of, OptionsGiven
  <2> QED  BY <1>3, <1>6, <2>1 DEF EvalLiteral
<1>7. CASE EvalParameter
  <2>1. ctl.e.name \in DOMAIN params => Faultless(params[ctl.e.name])
    BY <1>7 DEF EvalParameter, CallInv, TypeOK, OptionsGiven
  <2> QED  BY <1>3, <1>7, <2>1, FaultlessValues DEF EvalParameter
<1>8. CASE EvalArgument
  <2>1. UNCHANGED stack  BY <1>8 DEF EvalArgument
  <2>2. CASE Missed("reference", "variable") \/ Missed("type", "variable")
    BY <1>4, <2>1, <2>2
  <2>3. CASE /\ ctl.e.name \in DOMAIN args /\ args[ctl.e.name] # Unsupported
             /\ ctl' = Give(args[ctl.e.name])
    <3>1. Faultless(args[ctl.e.name])  BY <2>3 DEF CallInv, TypeOK, OptionsGiven
    <3> QED  BY <1>3, <2>1, <2>3, <3>1
  <2> QED  BY <1>8, <2>2, <2>3 DEF EvalArgument
<1>9. CASE EvalMessage
  <2>1. UNCHANGED stack  BY <1>9 DEF EvalMessage
  <2>2. Missed("reference", "message") \/ ctl'.m = "resolve"
    BY <1>9, ModesAre DEF EvalMessage
  <2> QED  BY <1>2, <1>4, <2>1, <2>2, OptionGoesOn
<1>10. CASE EvalTerm
  <2>1. CASE Missed("reference", "term") /\ UNCHANGED stack  BY <1>4, <2>1
  <2>2. ctl.e.name \in Ids /\ "term" \in Kinds /\ ctl.e \in Of({"term", "function"})
    BY <1>1, <1>10, ProgramAssumption DEF EvalTerm, At, Of, Kinds
  <2> DEFINE def == defs["term"][ctl.e.name]
             attr == ctl.e.attr
  <2>3. CASE /\ def # Absent /\ (attr # "" => attr \in DOMAIN def.attrs)
             /\ stack' = Push(ArgsFrame(ctl.e, Named(def, attr))) /\ ctl' = Continue
    <3> DEFINE p == Named(def, attr)
    <3>1. p \in Patterns \cup {NoPattern}
      BY <2>2, <2>3, NamedTyped DEF CallInv, TypeOK
    <3>2. stack' = Push(ArgsFrame(ctl.e, p))  BY <2>3
    <3> HIDE DEF p
    <3> QED  BY <1>5, <2>2, <2>3, <3>1, <3>2, FramesAre
  <2> QED  BY <1>10, <2>1, <2>3 DEF EvalTerm
<1>11. CASE EvalFunction
  <2>1. CASE Missed("reference", "function") /\ UNCHANGED stack  BY <1>4, <2>1
  <2>2. CASE stack' = Push(ArgsFrame(ctl.e, NoPattern)) /\ ctl' = Continue
    <3>1. ctl.e \in Of({"term", "function"})  BY <1>1, <1>11 DEF EvalFunction, At, Of
    <3> QED  BY <1>5, <2>2, <3>1, FramesAre
  <2> QED  BY <1>11, <2>1, <2>2 DEF EvalFunction
<1>12. CASE EvalSelect
  <2> DEFINE fr == SelectorFrame(ctl.e)
  <2>1. ctl.e \in Of({"select"})  BY <1>1, <1>12 DEF EvalSelect, At, Of
  <2>2. fr \in Frames /\ fr.f = "selector"  BY <2>1, FramesAre DEF SelectorFrame
  <2>3. stack' = Push(fr) /\ ctl' = Eval(ctl.e.sel)  BY <1>12 DEF EvalSelect
  <2> HIDE DEF fr
  <2>4. SoundStack(Push(fr), n1)
    BY <1>1, <2>2, SoundFrames, SoundPush DEF Push
  <2>5. stack' # << >> /\ Top' = fr
    <3>1. DOMAIN stack' = 1..Len(stack) + 1 /\ stack'[Len(stack) + 1] = fr /\ Len(stack) \in Nat
      BY <1>1, <2>2, <2>3, PushIs DEF Push
    <3>2. stack' \in Seq(Frames)  BY DEF CallInv, TypeOK
    <3>3. << >> \in Seq(Frames) /\ Len(<< >>) = 0  OBVIOUS
    <3>4. Len(stack') = Len(stack) + 1  BY <3>1, <3>2, LenProperties
    <3> QED  BY <3>1, <3>3, <3>4 DEF Top
  <2>6. Expects(fr, ctl'.e)  BY <2>2 DEF Expects, AsksNumber, IsNUMBER
  <2> QED  BY <2>3, <2>4, <2>5, <2>6, ModesAre DEF OptionInv
<1> QED  BY <1>6, <1>7, <1>8, <1>9, <1>10, <1>11, <1>12

(* What the builtins make of an argument without an error. *)
LEMMA BuiltinPending ==
  ASSUME NEW vals \in Seq(Values), NEW named, vals # << >> => Faultless(vals[1])
  PROVE  LET r == NumberResult(vals, named) IN r.ok => Pending(r.v)
<1> DEFINE r == NumberResult(vals, named)
           v == vals[1]
           valid == ValidOptions(named)
<1>1. \A e : Fails(e).ok = FALSE  BY DEF Fails
<1>2. \A x : Made(x).v = x  BY DEF Made
<1>3. CASE vals = << >>  BY <1>1, <1>3 DEF NumberResult
<1>4. CASE vals # << >>
  <2>1. Faultless(v)  BY <1>4
  <2>2. \A n, o, b : (~b => o) => Pending(Num(n, o, b))  BY DEF Num, Pending
  <2>3. CASE v.k = "none"
    <3>1. r.v = v  BY <1>2, <1>4, <2>3 DEF NumberResult
    <3> QED  BY <2>3, <3>1 DEF Pending
  <2>4. CASE v.k = "number"
    <3>1. r.v = Num(v.n, ~valid, valid /\ v.valid)
      BY <1>2, <1>4, <2>4 DEF NumberResult
    <3>2. v.valid  BY <2>1, <2>4 DEF Faultless
    <3> HIDE DEF valid, v, r
    <3>3. ~(valid /\ v.valid) => ~valid  BY <3>2, Zenon
    <3>4. Pending(Num(v.n, ~valid, valid /\ v.valid))  BY <2>2, <3>3, Zenon
    <3> QED  BY <3>1, <3>4 DEF r
  <2>5. CASE v.k = "datetime"
    <3>1. r.v = Num(v.n, ~valid, valid)  BY <1>2, <1>4, <2>5 DEF NumberResult
    <3> HIDE DEF valid, v, r
    <3>2. Pending(Num(v.n, ~valid, valid))  BY <2>2, Zenon
    <3> QED  BY <3>1, <3>2 DEF r
  <2>6. CASE v.k \notin {"none", "number", "datetime"}
    BY <1>1, <1>4, <2>6 DEF NumberResult
  <2> QED  BY <2>3, <2>4, <2>5, <2>6
<1> QED  BY <1>3, <1>4

LEMMA BuiltinFaultless ==
  ASSUME NEW vals, NEW named
  PROVE  LET r == DateTimeResult(vals, named) IN r.ok => Faultless(r.v)
<1>1. \A e : Fails(e).ok = FALSE  BY DEF Fails
<1>2. \A x : Made(x).v = x  BY DEF Made
<1>3. \A n : DateTime(n).k = "datetime"  BY DEF DateTime
<1>4. CASE vals = << >>  BY <1>1, <1>4 DEF DateTimeResult
<1>5. CASE vals # << >>
  BY <1>1, <1>2, <1>3, <1>5 DEF DateTimeResult, Faultless
<1> QED  BY <1>4, <1>5

LEMMA OptionArguments ==
  ASSUME CallInv, CallInv', NEW n \in Nat, NEW n1 \in Nat, n <= n1, OptionInv(n),
         OptionsGiven, NumbersOnce,
         \/ EvalPositional \/ TakePositional \/ EnterTerm \/ LeaveTerm
         \/ CallNUMBER \/ CallDATETIME \/ CallFunction
  PROVE  OptionInv(n1)'
<1>1. /\ SoundStack(stack, n) /\ stack \in Seq(Frames)
      /\ stack # << >> /\ Top \in Frames
  BY TopIs
     DEF EvalPositional, TakePositional, EnterTerm, LeaveTerm, CallNUMBER,
         CallDATETIME, CallFunction, Calling, In, OptionInv, CallInv, TypeOK
<1>2. SoundArgs(Top) /\ (Top.f = "args" => Top.vals \in Seq(Values))
  <2>1. Len(stack) \in DOMAIN stack  BY <1>1, PopIs
  <2> QED  BY <1>1, <2>1, FramesTyped DEF SoundStack, Top
<1>3. /\ SoundStack(Pop, n1)
      /\ Top.f = "args" => Pop # << >> /\ Expects(Pop[Len(Pop)], Top.e)
  BY <1>1, SoundPop DEF Top, Pop
<1>4. ASSUME stack' = Pop,
             \/ ctl'.m = "panic"
             \/ \E v : ctl' = Give(v) /\ Faultless(v)
      PROVE  OptionInv(n1)'
  BY <1>3, <1>4, OptionGoesOn
<1>5. ASSUME stack' = Pop, Top.f = "args", ~Direct(Top.e), NEW v, ctl' = Give(v), Pending(v)
      PROVE  OptionInv(n1)'
  <2>1. SoundGive(v, stack')  BY <1>3, <1>5 DEF SoundGive, Expects
  <2>2. Give(v).v = v /\ Give(v).m = "give"  BY DEF Give
  <2> QED  BY <1>3, <1>5, <2>1, <2>2 DEF OptionInv
<1>6. ASSUME stack' = Pop, NEW err, NEW m, Missed(err, m) PROVE OptionInv(n1)'
  BY <1>4, <1>6, OptionMissed
<1>7. CASE EvalPositional
  <2> DEFINE e == Top.e.pos[Len(Top.vals) + 1]
  <2>1. /\ UNCHANGED stack /\ ctl' = Eval(e) /\ Top.f = "args"
        /\ Len(Top.vals) < Len(Top.e.pos)
    BY <1>7 DEF EvalPositional, In, ArgumentsLeft
  <2>2. Expects(Top, e)
    <3> SUFFICES ASSUME AsksNumber(Top) PROVE Direct(e)
      BY <2>1 DEF Expects
    <3>1. Top.e \in Of({"function"}) /\ Top.e.name = "NUMBER" /\ Top.vals = << >>
      BY <1>1, <2>1, FramesTyped DEF AsksNumber, IsNUMBER, Of
    <3>2. Len(<< >>) = 0  OBVIOUS
    <3>3. Len(Top.vals) = 0 /\ 0 < Len(Top.e.pos) /\ e = Top.e.pos[1]
      BY <2>1, <3>1, <3>2
    <3>4. Top.e.pos # << >>  BY <3>2, <3>3
    <3> QED  BY <3>1, <3>3, <3>4 DEF NumbersOnce
  <2> HIDE DEF e
  <2>3. Eval(e).e = e /\ Eval(e).m = "eval"  BY DEF Eval
  <2>4. SoundStack(stack', n1)  BY <1>1, <2>1, SoundSame
  <2> QED  BY <1>1, <2>1, <2>2, <2>3, <2>4 DEF OptionInv, Top
<1>8. CASE TakePositional
  <2> DEFINE vals == Append(Top.vals, ctl.v)
             fr == [Top EXCEPT !.vals = vals]
  <2>1. ctl.m = "give" /\ ctl.v \in Values /\ Top.f = "args" /\ SoundGive(ctl.v, stack)
    BY <1>8, ControlsTyped DEF TakePositional, In, CallInv, TypeOK, OptionInv
  <2>2. /\ vals \in Seq(Values)
        /\ \A j \in DOMAIN vals :
             (j \in DOMAIN Top.vals /\ vals[j] = Top.vals[j]) \/ vals[j] = ctl.v
        /\ vals[1] = IF Top.vals = << >> THEN ctl.v ELSE Top.vals[1]
    <3>1. /\ vals \in Seq(Values) /\ Len(Top.vals) \in Nat
          /\ DOMAIN Top.vals = 1..Len(Top.vals)
          /\ DOMAIN vals = 1..Len(Top.vals) + 1
          /\ \A j \in 1..Len(Top.vals) : vals[j] = Top.vals[j]
          /\ vals[Len(Top.vals) + 1] = ctl.v
      BY <1>2, <2>1, PushIs, LenProperties
    <3>2. \A j \in DOMAIN vals : j \in DOMAIN Top.vals \/ j = Len(Top.vals) + 1
      BY <3>1
    <3>3. CASE Top.vals = << >>
      <4>1. Len(Top.vals) + 1 = 1  BY <3>3
      <4> HIDE DEF vals
      <4> QED  BY <3>1, <3>2, <3>3, <4>1
    <3>4. CASE Top.vals # << >>
      <4>1. 1 \in 1..Len(Top.vals)  BY <1>2, <2>1, <3>1, <3>4, EmptySeq
      <4> HIDE DEF vals
      <4> QED  BY <3>1, <3>2, <3>4, <4>1
    <3> QED  BY <3>3, <3>4
  <2>3. stack' = ToTop(fr) /\ ctl' = Continue  BY <1>8 DEF TakePositional
  <2> HIDE DEF vals
  <2>4. fr \in Frames /\ fr.f = "args" /\ fr.e = Top.e /\ fr.vals = vals
    BY <1>1, <2>1, <2>2, ArgsChanged
  <2> HIDE DEF fr
  <2>5. SoundArgs(fr)
    <3>1. \A j \in DOMAIN vals : Pending(vals[j])
      BY <1>2, <2>1, <2>2 DEF SoundArgs, SoundGive
    <3>2. ASSUME IsNUMBER(fr) PROVE Faultless(vals[1])
      <4>1. IsNUMBER(Top)  BY <2>1, <2>4, <3>2 DEF IsNUMBER
      <4>2. CASE Top.vals = << >>
        BY <2>1, <2>2, <4>1, <4>2 DEF SoundGive, AsksNumber, Top
      <4>3. CASE Top.vals # << >>  BY <1>2, <2>1, <2>2, <4>1, <4>3 DEF SoundArgs
      <4> QED  BY <4>2, <4>3
    <3> QED  BY <2>4, <3>1, <3>2 DEF SoundArgs
  <2>6. SoundSelector(fr, n1)  BY <2>4 DEF SoundSelector
  <2>7. SoundStack(ToTop(fr), n1)
    BY <1>1, <2>1, <2>4, <2>5, <2>6, SoundTop DEF ToTop, Top
  <2> QED  BY <2>3, <2>7, OptionGoesOn, ModesAre
<1>9. CASE EnterTerm
  <2> DEFINE fr == TermFrame(Top.e)
  <2>1. stack' = ToTop(fr) /\ ctl'.m = "resolve" /\ Top.f = "args" /\ Top.e.t = "term"
    BY <1>9, ModesAre DEF EnterTerm, Calling, In
  <2>2. Top.e \in Of({"term"})  BY <1>1, <2>1, FramesTyped DEF Of
  <2>3. fr \in Frames /\ fr.f = "term"  BY <2>2, FramesAre DEF TermFrame
  <2> HIDE DEF fr
  <2>4. SoundStack(ToTop(fr), n1)
    BY <1>1, <2>3, SoundFrames, SoundTop DEF ToTop
  <2> QED  BY <2>1, <2>4, OptionGoesOn
<1>10. CASE LeaveTerm
  <2>1. stack' = Pop /\ UNCHANGED ctl /\ ctl.m = "give" /\ Top.f = "term"
    BY <1>10 DEF LeaveTerm, In
  <2>2. Faultless(ctl.v)  BY <2>1 DEF OptionInv, SoundGive, Top
  <2>3. SoundGive(ctl', stack') \/ SoundGive(ctl.v, stack')  BY <2>2, FaultlessValues
  <2> QED  BY <1>3, <2>1, <2>2, FaultlessValues DEF OptionInv
<1>11. CASE CallNUMBER
  <2> DEFINE r == NumberResult(Top.vals, Top.e.named)
  <2>1. /\ stack' = Pop /\ Top.f = "args" /\ Top.e.t = "function" /\ Top.e.name = "NUMBER"
        /\ Answer(r)
    BY <1>11 DEF CallNUMBER, Calling, In, Builtin
  <2>2. ~Direct(Top.e)  BY <2>1 DEF Direct
  <2>3. Top.vals # << >> => Faultless(Top.vals[1])
    BY <1>2, <2>1 DEF SoundArgs, IsNUMBER
  <2>4. r.ok => Pending(r.v)  BY <1>2, <2>1, <2>3, BuiltinPending
  <2> HIDE DEF r
  <2>5. (r.ok /\ ctl' = Give(r.v)) \/ Missed(r.err, "function")
    BY <2>1 DEF Answer
  <2> QED  BY <1>5, <1>6, <2>1, <2>2, <2>4, <2>5
<1>12. CASE CallDATETIME
  <2> DEFINE r == DateTimeResult(Top.vals, Top.e.named)
  <2>1. stack' = Pop /\ Answer(r)  BY <1>12 DEF CallDATETIME
  <2>2. r.ok => Faultless(r.v)  BY BuiltinFaultless
  <2> HIDE DEF r
  <2>3. (r.ok /\ ctl' = Give(r.v)) \/ Missed(r.err, "function")
    BY <2>1 DEF Answer
  <2> QED  BY <1>4, <1>6, <2>1, <2>2, <2>3
<1>13. CASE CallFunction
  <2>1. /\ stack' = Pop /\ Top.f = "args" /\ Top.e.t = "function"
        /\ Top.e.name \in Functions
    BY <1>13 DEF CallFunction, Calling, In
  <2>2. ~Direct(Top.e)  BY <2>1 DEF Direct
  <2>3. CASE \E v \in Results \cup {Top.vals[j] : j \in DOMAIN Top.vals} :
               ctl' = Give(v)
    <3>1. \A v \in Results \cup {Top.vals[j] : j \in DOMAIN Top.vals} : Pending(v)
      BY <1>2, <2>1, FaultlessValues DEF SoundArgs, OptionsGiven
    <3> QED  BY <1>5, <2>1, <2>2, <2>3, <3>1
  <2>4. CASE Missed("extension", "function") \/ Missed("type", "function")
    BY <1>6, <2>1, <2>4
  <2>5. CASE ctl'.m = "panic"  BY <1>4, <2>1, <2>5
  <2> QED  BY <1>13, <2>3, <2>4, <2>5, ModesAre DEF CallFunction, Failed, NilResult
<1> QED  BY <1>7, <1>8, <1>9, <1>10, <1>11, <1>12, <1>13

LEMMA OptionSelects ==
  ASSUME CallInv, CallInv', NEW n \in Nat, NEW n1 \in Nat, n <= n1, OptionInv(n),
         Report("option") => n1 > 0,
         TakeSelector \/ TryVariant \/ NoVariantMatched
  PROVE  OptionInv(n1)'
<1>1. /\ stack # << >> /\ Top \in Frames /\ SoundStack(stack, n) /\ stack \in Seq(Frames)
  BY TopIs
     DEF TakeSelector, TryVariant, NoVariantMatched, AtVariant, In, OptionInv, CallInv, TypeOK
<1>2. SoundStack(Pop, n1)  BY <1>1, SoundPop DEF Pop
<1>3. ASSUME stack' = Pop, ctl'.m = "resolve" PROVE OptionInv(n1)'
  BY <1>2, <1>3, OptionGoesOn
<1>4. ASSUME NEW fr \in Frames, fr.f = "variants", SoundSelector(fr, n1),
             stack' = ToTop(fr), ctl' = Continue
      PROVE  OptionInv(n1)'
  <2>1. SoundStack(ToTop(fr), n1)
    BY <1>1, <1>4, SoundFrames, SoundTop DEF ToTop
  <2> QED  BY <1>4, <2>1, OptionGoesOn, ModesAre
<1>5. CASE TakeSelector
  <2> DEFINE v == ctl.v
             checked == IF Late(v) THEN Cleared(v) ELSE v
             fr == VariantFrame(Top.e, checked)
  <2>1. \/ stack' = Pop /\ ctl' = Resolve(Default(Top.e))
        \/ stack' = ToTop(fr) /\ ctl' = Continue
    BY <1>5 DEF TakeSelector
  <2>2. v \in Values /\ Pending(v) /\ Top.e \in Of({"select"})
    BY <1>1, <1>5, ControlsTyped, FramesTyped
       DEF TakeSelector, In, CallInv, TypeOK, OptionInv, SoundGive
  <2>3. checked \in Values /\ (Faultless(v) => Faultless(checked))
    <3>1. CASE ~Late(v)  BY <2>2, <3>1
    <3>2. CASE Late(v)
      <4> DEFINE N == [k : {"number"}, n : Int, optErr : BOOLEAN, valid : BOOLEAN]
      <4>1. v \in N  BY <2>2, <3>2 DEF Late, HasOptErr, Values, Custom
      <4>2. DOMAIN v = {"k", "n", "optErr", "valid"}  BY <4>1
      <4>3. Cleared(v) \in N  BY <4>1 DEF Cleared
      <4>4. Cleared(v).k = v.k /\ Cleared(v).valid = v.valid
        BY <4>2 DEF Cleared
      <4> QED  BY <3>2, <4>3, <4>4 DEF Values, Faultless
    <3> QED  BY <3>1, <3>2
  <2>4. ~Faultless(checked) => n1 > 0
    <3>1. ~Faultless(v) => Late(v)  BY <2>2 DEF Faultless, Pending, Late, HasOptErr
    <3>2. Late(v) => n1 > 0  BY <1>5 DEF TakeSelector
    <3> QED  BY <2>3, <3>1, <3>2
  <2> HIDE DEF checked
  <2>5. fr \in Frames /\ fr.f = "variants" /\ fr.sel = checked
    BY <2>2, <2>3, FramesAre DEF VariantFrame
  <2> HIDE DEF fr
  <2>6. SoundSelector(fr, n1)  BY <2>4, <2>5 DEF SoundSelector
  <2> QED  BY <1>3, <1>4, <2>1, <2>5, <2>6, ModesAre
<1>6. CASE TryVariant
  <2> DEFINE fr == [Top EXCEPT !.i = NextVariant]
  <2>1. \/ ctl'.m = "panic" /\ UNCHANGED stack
        \/ ctl'.m = "resolve" /\ stack' = Pop
        \/ stack' = ToTop(fr) /\ UNCHANGED ctl
    BY <1>6, ModesAre DEF TryVariant
  <2>2. ctl = Continue /\ Top.f = "variants"
    BY <1>6 DEF TryVariant, AtVariant, In
  <2>3. fr \in Frames /\ fr.f = "variants" /\ fr.sel = Top.sel
    <3>1. NextVariant \in Nat \ {0}  BY <1>1, <2>2, FramesTyped DEF NextVariant
    <3> QED  BY <1>1, <2>2, <3>1, VariantChanged
  <2> HIDE DEF fr
  <2>4. SoundSelector(fr, n1)
    <3>1. Len(stack) \in DOMAIN stack  BY <1>1, PopIs
    <3>2. SoundSelector(Top, n)  BY <1>1, <3>1 DEF SoundStack, Top
    <3> QED  BY <2>2, <2>3, <3>2 DEF SoundSelector
  <2>5. CASE ctl'.m = "panic" /\ UNCHANGED stack
    BY <1>1, <2>5, SoundSame, OptionGoesOn
  <2> QED  BY <1>3, <1>4, <2>1, <2>2, <2>3, <2>4, <2>5
<1>7. CASE NoVariantMatched  BY <1>3, <1>7, ModesAre DEF NoVariantMatched
<1> QED  BY <1>5, <1>6, <1>7

LEMMA OptionCount ==
  ASSUME NEW s \in Seq(Errors), NEW err \in Errors
  PROVE  /\ Count(s, {"option"}) \in Nat
         /\ Count(Append(s, err), {"option"}) =
              Count(s, {"option"}) + IF err = "option" THEN 1 ELSE 0
<1> DEFINE t == <<err>>
<1>1. Append(s, err) = s \o t /\ t \in Seq(Errors)
  BY AppendIsConcat
<1>2. Count(t, {"option"}) = IF err = "option" THEN 1 ELSE 0  BY CountOne
<1> HIDE DEF t
<1>3. \A X : Count(s \o t, X) = Count(s, X) + Count(t, X)
  BY <1>1, CountConcat
<1> QED  BY <1>1, <1>2, <1>3, CountIs

Reports == Count(errs, {"option"})
OptionsInv == OptionInv(Reports) /\ BackedInv({"badnumber"}, Reports)

LEMMA NextOptions ==
  ASSUME OptionsGiven, NumbersOnce, NotGiven({"badnumber"})
  PROVE  CallInv /\ OptionsInv /\ [Next]_vars => OptionsInv'
<1> SUFFICES ASSUME CallInv, OptionsInv, [Next]_vars PROVE OptionsInv'  OBVIOUS
<1> DEFINE X == {"badnumber"}
<1>1. CallInv' /\ errs \in Seq(Errors) /\ errs' \in Seq(Errors)
  BY NextCall DEF CallInv, TypeOK
<1>2. Reports \in Nat /\ Reports' \in Nat  BY <1>1, CountIs DEF Reports
<1> PICK n \in Nat : n = Reports  BY <1>2
<1> PICK n1 \in Nat : n1 = Reports'  BY <1>2
<1>3. OptionInv(n) /\ BackedInv(X, n)
  BY DEF OptionsInv, OptionInv, BackedInv
<1>4. \A err \in Errors : Report(err) => n1 = n + IF err = "option" THEN 1 ELSE 0
  BY <1>1, OptionCount DEF Report, Reports
<1>5. Call \/ Return \/ n <= n1
  <2>1. UNCHANGED errs => n1 = n  BY DEF Reports
  <2> QED  BY <1>1, <1>4, <2>1, ErrsGrow
<1>6. Report("option") => n1 = n + 1  BY <1>4 DEF Errors
<1>7. OptionInv(n1)'
  <2>1. CASE Call \/ Finish \/ Return \/ TooManyPlaceables  BY <2>1, OptionEnds
  <2> SUFFICES ASSUME n <= n1 PROVE OptionInv(n1)'  BY <1>5, <2>1
  <2>2. CASE UNCHANGED vars \/ AddResource
    <3>1. UNCHANGED <<ctl, stack>>  BY <2>2 DEF vars, AddResource
    <3>2. SoundStack(stack, n1)  BY <1>3, SoundSame DEF OptionInv
    <3> QED  BY <1>3, <3>1, <3>2 DEF OptionInv, Top
  <2>3. CASE \/ ResolveNil \/ ResolveText \/ ResolveCyclic \/ ResolveComplex
             \/ AppendText \/ ExpandPlaceable \/ WritePlaceable \/ FinishPattern
    BY <1>1, <1>3, <2>3, OptionPatterns
  <2>4. CASE \/ EvalLiteral \/ EvalParameter \/ EvalArgument \/ EvalMessage
             \/ EvalTerm \/ EvalFunction \/ EvalSelect
    BY <1>1, <1>3, <2>4, OptionExpressions
  <2>5. CASE \/ EvalPositional \/ TakePositional \/ EnterTerm \/ LeaveTerm
             \/ CallNUMBER \/ CallDATETIME \/ CallFunction
    BY <1>1, <1>3, <2>5, OptionArguments
  <2>6. CASE TakeSelector \/ TryVariant \/ NoVariantMatched
    <3>1. Report("option") => n1 > 0  BY <1>6
    <3> QED  BY <1>1, <1>3, <2>6, <3>1, OptionSelects
  <2> QED  BY <2>1, <2>2, <2>3, <2>4, <2>5, <2>6 DEF Next, Work
<1>8. \A m \in Missing : Fallback(m) \notin X  BY TokensAssumption
<1>9. Countable(X)
  <2>1. {"null", "param"} \subseteq Missing  BY DEF Missing
  <2>2. {FSI, PDI, "text"} \cap X = {}  BY DEF FSI, PDI
  <2> QED  BY <1>8, <2>1, <2>2 DEF Countable
(* A number with an error is written by the step that reports the error. *)
<1>10. ASSUME ctl.m = "give"
       PROVE  /\ Count(Rendered(ctl.v), X) \in Nat /\ Weight(ctl.v, X) \in Nat
              /\ Faultless(ctl.v) => Count(Rendered(ctl.v), X) <= Weight(ctl.v, X)
              /\ Count(Rendered(ctl.v), X) <= Weight(ctl.v, X) + 1
  <2>1. ctl.v \in Values  BY <1>10, ControlsTyped DEF CallInv, TypeOK
  <2>2. Count(Rendered(ctl.v), X) \in Nat /\ Weight(ctl.v, X) \in Nat
    BY <2>1, RenderedTyped, CountIs, WeightTyped
  <2>3. CASE ctl.v.k = "string"
    <3>1. Count(Rendered(ctl.v), X) = Weight(ctl.v, X)  BY <2>3 DEF Rendered, Weight
    <3> QED  BY <2>2, <3>1
  <2>4. CASE ctl.v.k = "none"
    <3>1. Rendered(ctl.v) = <<Fallback(ctl.v.missing)>>  BY <2>4 DEF Rendered
    <3>2. Count(Rendered(ctl.v), X) = 0  BY <1>8, <2>1, <2>4, <3>1, CountOne, ValuesTyped
    <3> QED  BY <2>2, <3>2
  <2>5. CASE ctl.v.k \in {"number", "datetime", "custom"}
    <3>1. /\ Rendered(ctl.v) \in {<<"number">>, <<"badnumber">>, <<"datetime">>, <<"custom">>}
          /\ Faultless(ctl.v) => Rendered(ctl.v) # <<"badnumber">>
      BY <2>5 DEF Rendered, Faultless
    <3>2. /\ Count(<<"number">>, X) = 0 /\ Count(<<"badnumber">>, X) = 1
          /\ Count(<<"datetime">>, X) = 0 /\ Count(<<"custom">>, X) = 0
      BY CountOne
    <3> HIDE DEF X
    <3> QED  BY <2>2, <3>1, <3>2
  <2> QED  BY <2>1, <2>3, <2>4, <2>5, <2>2, ValuesTyped
<1>11. Call \/ Return \/ Accounted(X, n, n1)
  <2> SUFFICES ASSUME ~(Call \/ Return) PROVE Accounted(X, n, n1)  OBVIOUS
  <2>1. n <= n1  BY <1>5
  <2>2. "limit" \in Missing  BY DEF Missing
  <2>3. ASSUME WritePlaceable, ctl' = Continue
        PROVE  Count(Rendered(ctl.v), X) + n <= Weight(ctl.v, X) + n1
    <3>1. ctl.m = "give" /\ Pending(ctl.v)
      BY <1>3, <2>3 DEF WritePlaceable, OptionInv, SoundGive
    <3>2. CASE Faultless(ctl.v)  BY <1>10, <2>1, <3>1, <3>2
    <3>3. CASE ~Faultless(ctl.v)
      <4>1. ctl.v.k = "number" /\ ctl.v.optErr
        BY <3>1, <3>3 DEF Faultless, Pending
      <4>2. Formatting(ctl.v) = {"ok"} /\ HasOptErr(ctl.v)
        BY <4>1 DEF Formatting, UsesFormatter, HasOptErr
      <4>3. Report("option")
        BY <2>3, <4>2, ModesAre DEF WritePlaceable, Unrecovered
      <4> QED  BY <1>6, <1>10, <3>1, <4>3
    <3> QED  BY <3>2, <3>3
  <2>4. ASSUME Finish PROVE Count(Rendered(ctl.v), X) + n <= Weight(ctl.v, X) + n1
    <3>1. ctl.m = "give" /\ Faultless(ctl.v)
      BY <1>3, <2>4 DEF Finish, OptionInv, SoundGive
    <3> QED  BY <1>10, <2>1, <3>1
  <2> QED  BY <1>8, <2>1, <2>2, <2>3, <2>4 DEF Accounted
<1>12. BackedInv(X, n1)'  BY <1>1, <1>3, <1>9, <1>11, NextBacked
<1> QED  BY <1>7, <1>12 DEF OptionsInv, OptionInv, BackedInv

(* When the program calls NUMBER() with no number a function returned, the *)
(* numbers rendered with an invalid option never outnumber the option      *)
(* errors, and there is one when such a number selects a variant           *)
(* (reportOptErr, resolveSelectExpression).                                *)
THEOREM ResolverOptions ==
  OptionsGiven /\ NumbersOnce /\ NotGiven({"badnumber"}) => (Spec => []OptionErrorsReported)
<1> SUFFICES ASSUME OptionsGiven, NumbersOnce, NotGiven({"badnumber"})
             PROVE  Spec => []OptionErrorsReported
  OBVIOUS
<1>1. Init => OptionsInv
  <2>1. DOMAIN << >> = {}  OBVIOUS
  <2> QED  BY <2>1, ModesAre DEF Init, OptionsInv, OptionInv, BackedInv, Running, SoundStack
<1>2. CallInv /\ OptionsInv /\ [Next]_vars => OptionsInv'  BY NextOptions
<1>3. CallInv /\ OptionsInv => OptionErrorsReported
  <2> SUFFICES ASSUME CallInv, OptionsInv PROVE OptionErrorsReported  OBVIOUS
  <2>1. /\ stack \in Seq(Frames) /\ Reports \in Nat
        /\ InFlight(ctl, {"badnumber"}) \in Nat
    BY InFlightIs, CountIs DEF CallInv, TypeOK, Reports
  <2>2. ctl.m = "done" => Count(ctl.out, {"badnumber"}) <= Reports
    <3> SUFFICES ASSUME ctl.m = "done" PROVE Count(ctl.out, {"badnumber"}) <= Reports
      OBVIOUS
    <3>1. InFlight(ctl, {"badnumber"}) = Count(ctl.out, {"badnumber"})  BY DEF InFlight
    <3>2. Backed(stack, InFlight(ctl, {"badnumber"}), {"badnumber"}, Reports)
      BY DEF OptionsInv, BackedInv
    <3> QED  BY <2>1, <3>1, <3>2, BackedBounds
  <2>3. \A k \in Calls("variants") :
          stack[k].sel.k = "number" /\ ~stack[k].sel.valid => Reports > 0
    BY DEF OptionsInv, OptionInv, SoundStack, SoundSelector, Faultless, Calls
  <2> QED  BY <2>2, <2>3 DEF OptionErrorsReported, Reports
<1> QED  BY InitCall, NextCall, <1>1, <1>2, <1>3, PTL DEF Spec

-----------------------------------------------------------------------------
(* An option error is reported at most once.  A call holds numbers that    *)
(* carry one in places: its arguments, or (0) what a select compares.      *)
Holding(fr, j) ==
  \/ fr.f = "variants" /\ j = 0 /\ HasOptErr(fr.sel)
  \/ fr.f = "args" /\ j \in DOMAIN fr.vals /\ HasOptErr(fr.vals[j])

AtHand(c) == c.m = "give" /\ HasOptErr(c.v)

CarriersIn(c, st) ==
  {<<0, 0>> : x \in {y \in {c} : y.m = "give" /\ HasOptErr(y.v)}}
    \cup {<<k, 0>> : k \in {n \in {i \in DOMAIN st : st[i].f = "variants"} : HasOptErr(st[n].sel)}}
    \cup UNION {{<<k, j>> : j \in {i \in DOMAIN st[k].vals : HasOptErr(st[k].vals[i])}} :
                  k \in {i \in DOMAIN st : st[i].f = "args"}}

LEMMA CarriersAre ==
  ASSUME NEW c, NEW st
  PROVE  \A x : x \in CarriersIn(c, st) <=>
           \/ x = <<0, 0>> /\ AtHand(c)
           \/ \E k \in DOMAIN st : \E j : x = <<k, j>> /\ Holding(st[k], j)
BY DEF CarriersIn, AtHand, Holding

(* The calls of st1 hold nothing that those of st do not hold. *)
Shrinks(st, st1) ==
  \A k \in DOMAIN st1 : \A j : Holding(st1[k], j) => k \in DOMAIN st /\ Holding(st[k], j)

LEMMA ShrinksPush ==
  ASSUME NEW st \in Seq(Frames), NEW fr \in Frames, \A j : ~Holding(fr, j)
  PROVE  Shrinks(st, Append(st, fr))
<1>1. /\ DOMAIN st = 1..Len(st) /\ Len(st) \in Nat /\ DOMAIN Append(st, fr) = 1..Len(st) + 1
      /\ \A n \in DOMAIN st : Append(st, fr)[n] = st[n]
      /\ Append(st, fr)[Len(st) + 1] = fr
  BY PushIs
<1>2. DOMAIN Append(st, fr) = DOMAIN st \cup {Len(st) + 1}  BY <1>1
<1> QED  BY <1>1, <1>2 DEF Shrinks

LEMMA ShrinksPop ==
  ASSUME NEW st \in Seq(Frames), st # << >>
  PROVE  LET st1 == SubSeq(st, 1, Len(st) - 1) IN
         Shrinks(st, st1) /\ Len(st) \in DOMAIN st \ DOMAIN st1
<1> DEFINE st1 == SubSeq(st, 1, Len(st) - 1)
<1>1. /\ Len(st) \in Nat \ {0} /\ DOMAIN st = 1..Len(st) /\ DOMAIN st1 = 1..Len(st) - 1
      /\ \A n \in DOMAIN st1 : st1[n] = st[n]
  BY PopIs
<1> HIDE DEF st1
<1>2. DOMAIN st = DOMAIN st1 \cup {Len(st)} /\ Len(st) \notin DOMAIN st1  BY <1>1
<1>3. Shrinks(st, st1)  BY <1>1, <1>2 DEF Shrinks
<1> QED  BY <1>2, <1>3 DEF st1

LEMMA ShrinksTop ==
  ASSUME NEW st \in Seq(Frames), st # << >>, NEW fr \in Frames,
         \A j : Holding(fr, j) => Holding(st[Len(st)], j)
  PROVE  Shrinks(st, [st EXCEPT ![Len(st)] = fr])
<1> DEFINE st1 == [st EXCEPT ![Len(st)] = fr]
<1>1. /\ Len(st) \in Nat \ {0} /\ DOMAIN st = 1..Len(st) /\ DOMAIN st1 = 1..Len(st)
      /\ \A n \in 1..Len(st) - 1 : st1[n] = st[n]
      /\ st1[Len(st)] = fr
  BY ReplaceIs
<1> HIDE DEF st1
<1>2. DOMAIN st = (1..Len(st) - 1) \cup {Len(st)}  BY <1>1
<1>3. Shrinks(st, st1)  BY <1>1, <1>2 DEF Shrinks
<1> QED  BY <1>3 DEF st1

(* Taking an element out, putting one in. *)
LEMMA CardinalitiesAre ==
  ASSUME NEW S, IsFiniteSet(S), NEW T
  PROVE  /\ T \subseteq S => IsFiniteSet(T) /\ Cardinality(T) <= Cardinality(S)
         /\ \A c \in S : T \subseteq S \ {c} =>
              IsFiniteSet(T) /\ Cardinality(T) <= Cardinality(S) - 1
         /\ \A c \in S : \A d : T \subseteq (S \ {c}) \cup {d} =>
              IsFiniteSet(T) /\ Cardinality(T) <= Cardinality(S)
         /\ \A d : T \subseteq S \cup {d} =>
              IsFiniteSet(T) /\ Cardinality(T) <= Cardinality(S) + 1
<1>1. Cardinality(S) \in Nat  BY FS_CardinalityType
<1>2. \A U : IsFiniteSet(U) /\ T \subseteq U =>
        IsFiniteSet(T) /\ Cardinality(T) \in Nat /\ Cardinality(T) <= Cardinality(U)
  BY FS_Subset, FS_CardinalityType
<1>3. T \subseteq S => IsFiniteSet(T) /\ Cardinality(T) <= Cardinality(S)  BY <1>2
<1>4. ASSUME NEW c \in S PROVE IsFiniteSet(S \ {c}) /\ Cardinality(S \ {c}) = Cardinality(S) - 1
  BY FS_RemoveElement
<1>5. ASSUME NEW c \in S, T \subseteq S \ {c}
      PROVE  IsFiniteSet(T) /\ Cardinality(T) <= Cardinality(S) - 1
  BY <1>2, <1>4, <1>5
<1>6. ASSUME NEW c \in S, NEW d, T \subseteq (S \ {c}) \cup {d}
      PROVE  IsFiniteSet(T) /\ Cardinality(T) <= Cardinality(S)
  <2> DEFINE U == S \ {c}
  <2>1. IsFiniteSet(U) /\ Cardinality(U) = Cardinality(S) - 1  BY <1>4
  <2>2. IsFiniteSet(U \cup {d}) /\
        Cardinality(U \cup {d}) = IF d \in U THEN Cardinality(U) ELSE Cardinality(U) + 1
    BY <2>1, FS_AddElement
  <2>3. T \subseteq U \cup {d}  BY <1>6
  <2> HIDE DEF U
  <2>4. /\ IsFiniteSet(T) /\ Cardinality(T) \in Nat
        /\ Cardinality(T) <= Cardinality(U \cup {d})
    BY <1>2, <2>2, <2>3
  <2> QED  BY <1>1, <2>1, <2>2, <2>4
<1>7. ASSUME NEW d, T \subseteq S \cup {d}
      PROVE  IsFiniteSet(T) /\ Cardinality(T) <= Cardinality(S) + 1
  <2>1. IsFiniteSet(S \cup {d}) /\
        Cardinality(S \cup {d}) = IF d \in S THEN Cardinality(S) ELSE Cardinality(S) + 1
    BY FS_AddElement
  <2>2. /\ IsFiniteSet(T) /\ Cardinality(T) \in Nat
        /\ Cardinality(T) <= Cardinality(S \cup {d})
    BY <1>2, <1>7, <2>1
  <2> QED  BY <1>1, <2>1, <2>2
<1> QED  BY <1>3, <1>5, <1>6, <1>7

(* What a step does with the errors: it leaves them where they are or      *)
(* drops some, reports one it takes out, moves one, or is NUMBER().        *)
OtherErrors == UNCHANGED errs \/ \E err \in Errors \ {"option"} : Report(err)

Flow ==
  \/ Carriers' \subseteq Carriers /\ OtherErrors
  \/ \E c \in Carriers : Carriers' \subseteq Carriers \ {c} /\ (OtherErrors \/ Report("option"))
  \/ \E c \in Carriers : \E d : Carriers' \subseteq (Carriers \ {c}) \cup {d} /\ OtherErrors
  \/ CallNUMBER /\ OtherErrors /\ \E d : Carriers' \subseteq Carriers \cup {d}

LEMMA CarriersShrink ==
  ASSUME CallInv, CallInv', Shrinks(stack, stack')
  PROVE  /\ Carriers' \subseteq Carriers \cup {<<0, 0>>}
         /\ (AtHand(ctl') => AtHand(ctl)) => Carriers' \subseteq Carriers
         /\ AtHand(ctl) /\ ~AtHand(ctl') =>
              <<0, 0>> \in Carriers /\ Carriers' \subseteq Carriers \ {<<0, 0>>}
<1>1. Carriers = CarriersIn(ctl, stack) /\ Carriers' = CarriersIn(ctl', stack')
  BY DEF Carriers, CarriersIn, Calls
<1>2. /\ stack' \in Seq(Frames)
      /\ \A k \in DOMAIN stack' : k # 0
  BY LenProperties DEF CallInv, TypeOK
<1>3. \A k \in DOMAIN stack' : \A j : <<k, j>> # <<0, 0>>  BY <1>2
<1> QED  BY <1>1, <1>3, CarriersAre DEF Shrinks

LEMMA FlowDrops ==
  ASSUME CallInv, CallInv', Shrinks(stack, stack'), OtherErrors, AtHand(ctl') => AtHand(ctl)
  PROVE  Flow
BY CarriersShrink DEF Flow

LEMMA FlowReports ==
  ASSUME CallInv, CallInv', Shrinks(stack, stack'), AtHand(ctl), ~AtHand(ctl'),
         OtherErrors \/ Report("option")
  PROVE  Flow
BY CarriersShrink DEF Flow

LEMMA HoldNothing ==
  /\ \A fr, j : Holding(fr, j) => fr.f \in {"args", "variants"}
  /\ \A e, p, j : ~Holding(ArgsFrame(e, p), j)
  /\ \A e, j : ~Holding(SelectorFrame(e), j) /\ ~Holding(TermFrame(e), j)
  /\ \A p, j : ~Holding(ComplexFrame(p), j)
  /\ \A st : Shrinks(st, st)
BY DEF Holding, ArgsFrame, SelectorFrame, TermFrame, ComplexFrame, Shrinks

LEMMA NothingAtHand ==
  /\ \A c : c.m # "give" => ~AtHand(c)
  /\ \A v : ~HasOptErr(v) => ~AtHand(Give(v))
  /\ \A v : HasOptErr(v) => AtHand(Give(v))
  /\ \A out : ~HasOptErr(Str(out))
  /\ \A m : ~HasOptErr(None(m))
  /\ \A n : ~HasOptErr(DateTime(n))
BY DEF AtHand, HasOptErr, Give, Str, None, DateTime

LEMMA FlowMissed ==
  ASSUME NEW err \in Errors \ {"option"}, NEW m, Missed(err, m)
  PROVE  OtherErrors /\ ~AtHand(ctl')
BY NothingAtHand DEF Missed, OtherErrors

LEMMA FlowPatterns ==
  ASSUME CallInv, CallInv',
         \/ ResolveNil \/ ResolveText \/ ResolveCyclic \/ ResolveComplex
         \/ AppendText \/ ExpandPlaceable \/ WritePlaceable \/ FinishPattern
         \/ Finish \/ TooManyPlaceables
  PROVE  Flow
<1>1. stack \in Seq(Frames)  BY DEF CallInv, TypeOK
<1>2. UNCHANGED stack => Shrinks(stack, stack')  BY HoldNothing
<1>3. UNCHANGED errs => OtherErrors  BY DEF OtherErrors
<1>4. ASSUME stack # << >>, Top.f = "complex",
             \/ \E out : stack' = ToTop([Top EXCEPT !.out = out])
             \/ \E i, out : stack' = ToTop([Top EXCEPT !.i = i, !.out = out])
      PROVE  Shrinks(stack, stack')
  <2>1. Top \in Frames  BY <1>4, TopIs DEF CallInv
  <2>2. \A i, out : /\ [Top EXCEPT !.out = out].f = "complex"
                    /\ [Top EXCEPT !.i = i, !.out = out].f = "complex"
    <3> DEFINE F == [f : {"complex"}, p : {q \in Patterns : IsComplex(q)},
                     i : Nat \ {0}, out : Seq(Tokens)]
    <3>1. Top \in F  BY <1>4, <2>1 DEF Frames
    <3> HIDE DEF Top
    <3>2. DOMAIN Top = {"f", "p", "i", "out"}  BY <3>1
    <3> QED  BY <1>4, <3>2
  <2>3. PICK fr : fr.f = "complex" /\ stack' = ToTop(fr)  BY <1>4, <2>2
  <2>4. fr \in Frames
    <3>1. stack' \in Seq(Frames)  BY DEF CallInv, TypeOK
    <3>2. Len(stack) \in DOMAIN stack
      <4>1. stack # << >>  BY <1>4
      <4> QED  BY <1>1, <4>1, PopIs
    <3> DEFINE new == [stack EXCEPT ![Len(stack)] = fr]
    <3>3. Len(stack) \in DOMAIN new /\ new[Len(stack)] = fr  BY <3>2
    <3>4. stack' = new  BY <2>3 DEF ToTop
    <3> HIDE DEF new
    <3>5. Len(stack) \in DOMAIN stack' /\ stack'[Len(stack)] = fr  BY <3>3, <3>4
    <3> QED  BY <3>1, <3>5, LenProperties, ElementOfSeq
  <2> QED  BY <1>1, <1>4, <2>3, <2>4, HoldNothing, ShrinksTop DEF ToTop
<1>5. CASE ResolveNil
  BY <1>2, <1>3, <1>5, NothingAtHand, FlowDrops DEF ResolveNil, scope
<1>6. CASE ResolveText
  <2>1. ctl' = Give(Str(<<"text">>)) \/ ctl'.m = "panic"
    BY <1>6, ModesAre DEF ResolveText
  <2> QED  BY <1>2, <1>3, <1>6, <2>1, NothingAtHand, FlowDrops DEF ResolveText, scope
<1>7. CASE ResolveCyclic
  BY <1>2, <1>7, FlowMissed, FlowDrops DEF ResolveCyclic, Errors
<1>8. CASE ResolveComplex
  <2> DEFINE fr == ComplexFrame(ctl.p)
  <2>1. stack' = Push(fr) /\ ctl'.m = "continue" /\ UNCHANGED errs
    BY <1>8, ModesAre DEF ResolveComplex
  <2>2. fr \in Frames
    BY <1>8, FramesAre, ControlsTyped DEF ResolveComplex, CallInv, TypeOK, IsComplex
  <2>3. \A j : ~Holding(fr, j)  BY HoldNothing
  <2> HIDE DEF fr
  <2>4. Shrinks(stack, stack')  BY <1>1, <2>1, <2>2, <2>3, ShrinksPush DEF Push
  <2> QED  BY <1>3, <2>1, <2>4, NothingAtHand, FlowDrops
<1>9. CASE AppendText
  <2>1. In("complex") /\ ctl = Continue  BY <1>9 DEF AppendText, AtElement
  <2>2. UNCHANGED stack \/ \E i, out : stack' = ToTop([Top EXCEPT !.i = i, !.out = out])
    BY <1>9 DEF AppendText
  <2>3. Shrinks(stack, stack')  BY <1>2, <1>4, <2>1, <2>2 DEF In
  <2>4. UNCHANGED errs /\ ctl'.m # "give"
    BY <1>9, <2>1, ModesAre DEF AppendText, scope
  <2> QED  BY <1>3, <2>3, <2>4, NothingAtHand, FlowDrops
<1>10. CASE ExpandPlaceable
  <2>1. In("complex")  BY <1>10 DEF ExpandPlaceable, AtPlaceable, AtElement
  <2>2. UNCHANGED stack \/ \E out : stack' = ToTop([Top EXCEPT !.out = out])
    BY <1>10 DEF ExpandPlaceable
  <2>3. Shrinks(stack, stack')  BY <1>2, <1>4, <2>1, <2>2 DEF In
  <2>4. UNCHANGED errs /\ ctl'.m # "give"  BY <1>10, ModesAre DEF ExpandPlaceable
  <2> QED  BY <1>3, <2>3, <2>4, NothingAtHand, FlowDrops
<1>11. CASE WritePlaceable
  <2>1. In("complex") /\ ctl.m = "give"  BY <1>11 DEF WritePlaceable
  <2>2. UNCHANGED stack \/ \E i, out : stack' = ToTop([Top EXCEPT !.i = i, !.out = out])
    BY <1>11 DEF WritePlaceable
  <2>3. Shrinks(stack, stack')  BY <1>2, <1>4, <2>1, <2>2 DEF In
  <2>4. ctl'.m # "give"  BY <1>11, ModesAre DEF WritePlaceable
  <2>5. OtherErrors \/ (HasOptErr(ctl.v) /\ Report("option"))
    BY <1>11 DEF WritePlaceable, OtherErrors, Errors
  <2>6. CASE OtherErrors  BY <2>3, <2>4, <2>6, NothingAtHand, FlowDrops
  <2>7. CASE HasOptErr(ctl.v) /\ Report("option")
    BY <2>1, <2>3, <2>4, <2>7, NothingAtHand, FlowReports DEF AtHand
  <2> QED  BY <2>5, <2>6, <2>7
<1>12. CASE FinishPattern
  <2>1. stack # << >> /\ stack' = Pop /\ ctl' = Give(Str(Top.out)) /\ UNCHANGED errs
    BY <1>12 DEF FinishPattern, In
  <2>2. Shrinks(stack, stack')  BY <1>1, <2>1, ShrinksPop DEF Pop
  <2> QED  BY <1>3, <2>1, <2>2, NothingAtHand, FlowDrops
<1>13. CASE Finish
  BY <1>2, <1>3, <1>13, ModesAre, NothingAtHand, FlowDrops DEF Finish, scope
<1>14. CASE TooManyPlaceables
  <2>1. stack' = << >> /\ ctl'.m # "give" /\ Report("limit")
    BY <1>14, ModesAre DEF TooManyPlaceables
  <2>2. Shrinks(stack, stack')
    <3>1. DOMAIN stack' = {}  BY <2>1
    <3> QED  BY <3>1 DEF Shrinks
  <2> QED  BY <2>1, <2>2, NothingAtHand, FlowDrops DEF OtherErrors, Errors
<1> QED  BY <1>5, <1>6, <1>7, <1>8, <1>9, <1>10, <1>11, <1>12, <1>13, <1>14

LEMMA FlowExpressions ==
  ASSUME CallInv, CallInv', NumbersFresh,
         \/ EvalLiteral \/ EvalParameter \/ EvalArgument \/ EvalMessage
         \/ EvalTerm \/ EvalFunction \/ EvalSelect
  PROVE  Flow
<1>1. ctl.m = "eval" /\ ctl.e \in Exprs /\ stack \in Seq(Frames)
  BY ControlsTyped
     DEF EvalLiteral, EvalParameter, EvalArgument, EvalMessage, EvalTerm,
         EvalFunction, EvalSelect, At, CallInv, TypeOK
<1>2. UNCHANGED stack => Shrinks(stack, stack')  BY HoldNothing
<1>3. UNCHANGED errs => OtherErrors  BY DEF OtherErrors
<1>4. ASSUME NEW fr \in Frames, \A j : ~Holding(fr, j), stack' = Push(fr), ctl'.m # "give",
             UNCHANGED errs
      PROVE  Flow
  <2>1. Shrinks(stack, stack')  BY <1>1, <1>4, ShrinksPush DEF Push
  <2> QED  BY <1>3, <1>4, <2>1, NothingAtHand, FlowDrops
<1>5. ASSUME UNCHANGED stack, NEW err \in Errors \ {"option"}, NEW m, Missed(err, m)
      PROVE  Flow
  BY <1>2, <1>5, FlowMissed, FlowDrops
<1>6. ASSUME UNCHANGED <<stack, errs>>, NEW v, ctl' = Give(v), ~HasOptErr(v) PROVE Flow
  BY <1>2, <1>3, <1>6, NothingAtHand, FlowDrops
<1>7. CASE EvalLiteral
  <2>1. ~HasOptErr(ctl.e.v)  BY <1>1, <1>7 DEF EvalLiteral, At, Of, NumbersFresh
  <2> QED  BY <1>6, <1>7, <2>1 DEF EvalLiteral, scope
<1>8. CASE EvalParameter
  <2>1. ctl.e.name \in DOMAIN params => ~HasOptErr(params[ctl.e.name])
    BY <1>8 DEF EvalParameter, CallInv, TypeOK, NumbersFresh
  <2> QED  BY <1>6, <1>8, <2>1, NothingAtHand DEF EvalParameter, scope
<1>9. CASE EvalArgument
  <2>1. UNCHANGED stack  BY <1>9 DEF EvalArgument
  <2>2. CASE Missed("reference", "variable") \/ Missed("type", "variable")
    BY <1>5, <2>1, <2>2 DEF Errors
  <2>3. CASE /\ ctl.e.name \in DOMAIN args /\ ctl' = Give(args[ctl.e.name])
             /\ UNCHANGED errs
    <3>1. ~HasOptErr(args[ctl.e.name])  BY <2>3 DEF CallInv, TypeOK, NumbersFresh
    <3> QED  BY <1>6, <2>1, <2>3, <3>1
  <2> QED  BY <1>9, <2>2, <2>3 DEF EvalArgument
<1>10. CASE EvalMessage
  <2>1. UNCHANGED stack  BY <1>10 DEF EvalMessage
  <2>2. Missed("reference", "message") \/ (ctl'.m = "resolve" /\ UNCHANGED errs)
    BY <1>10, ModesAre DEF EvalMessage
  <2>3. CASE Missed("reference", "message")  BY <1>5, <2>1, <2>3 DEF Errors
  <2>4. CASE ctl'.m = "resolve" /\ UNCHANGED errs
    BY <1>2, <1>3, <2>1, <2>4, NothingAtHand, FlowDrops
  <2> QED  BY <2>2, <2>3, <2>4
<1>11. CASE EvalTerm
  <2>1. CASE Missed("reference", "term") /\ UNCHANGED stack  BY <1>5, <2>1 DEF Errors
  <2>2. ctl.e.name \in Ids /\ "term" \in Kinds /\ ctl.e \in Of({"term", "function"})
    BY <1>1, <1>11, ProgramAssumption DEF EvalTerm, At, Of, Kinds
  <2> DEFINE def == defs["term"][ctl.e.name]
             attr == ctl.e.attr
  <2>3. CASE /\ def # Absent /\ (attr # "" => attr \in DOMAIN def.attrs)
             /\ stack' = Push(ArgsFrame(ctl.e, Named(def, attr))) /\ ctl' = Continue
             /\ UNCHANGED errs
    <3> DEFINE p == Named(def, attr)
    <3>1. p \in Patterns \cup {NoPattern}
      BY <2>2, <2>3, NamedTyped DEF CallInv, TypeOK
    <3>2. stack' = Push(ArgsFrame(ctl.e, p))  BY <2>3
    <3> HIDE DEF p
    <3>3. ArgsFrame(ctl.e, p) \in Frames  BY <2>2, <3>1, FramesAre
    <3> QED  BY <1>4, <2>3, <3>2, <3>3, HoldNothing, ModesAre
  <2> QED  BY <1>11, <2>1, <2>3 DEF EvalTerm
<1>12. CASE EvalFunction
  <2>1. CASE Missed("reference", "function") /\ UNCHANGED stack  BY <1>5, <2>1 DEF Errors
  <2>2. CASE stack' = Push(ArgsFrame(ctl.e, NoPattern)) /\ ctl' = Continue /\ UNCHANGED errs
    <3>1. ctl.e \in Of({"term", "function"})  BY <1>1, <1>12 DEF EvalFunction, At, Of
    <3>2. ArgsFrame(ctl.e, NoPattern) \in Frames  BY <3>1, FramesAre
    <3> QED  BY <1>4, <2>2, <3>2, HoldNothing, ModesAre
  <2> QED  BY <1>12, <2>1, <2>2 DEF EvalFunction
<1>13. CASE EvalSelect
  <2> DEFINE fr == SelectorFrame(ctl.e)
  <2>1. ctl.e \in Of({"select"})  BY <1>1, <1>13 DEF EvalSelect, At, Of
  <2>2. fr \in Frames /\ \A j : ~Holding(fr, j)  BY <2>1, FramesAre, HoldNothing
  <2>3. stack' = Push(fr) /\ ctl'.m # "give" /\ UNCHANGED errs
    BY <1>13, ModesAre DEF EvalSelect, scope
  <2> HIDE DEF fr
  <2> QED  BY <1>4, <2>2, <2>3
<1> QED  BY <1>7, <1>8, <1>9, <1>10, <1>11, <1>12, <1>13

LEMMA FlowArguments ==
  ASSUME CallInv, CallInv', NumbersFresh,
         \/ EvalPositional \/ TakePositional \/ EnterTerm \/ LeaveTerm
         \/ CallNUMBER \/ CallDATETIME \/ CallFunction
  PROVE  Flow
<1>1. stack \in Seq(Frames) /\ stack # << >> /\ Top \in Frames
  BY TopIs
     DEF EvalPositional, TakePositional, EnterTerm, LeaveTerm, CallNUMBER, CallDATETIME,
         CallFunction, Calling, In, CallInv, TypeOK
<1>2. UNCHANGED errs => OtherErrors  BY DEF OtherErrors
<1>3. stack' = Pop => /\ Shrinks(stack, stack')
                      /\ Len(stack) \in DOMAIN stack \ DOMAIN stack'
  BY <1>1, ShrinksPop DEF Pop
<1>4. ASSUME stack' = Pop, NEW v, ctl' = Give(v), ~HasOptErr(v), UNCHANGED errs PROVE Flow
  BY <1>2, <1>3, <1>4, NothingAtHand, FlowDrops
<1>5. ASSUME stack' = Pop, NEW err \in Errors \ {"option"}, NEW m, Missed(err, m) PROVE Flow
  BY <1>3, <1>5, FlowMissed, FlowDrops
<1>6. CASE EvalPositional
  BY <1>2, <1>6, HoldNothing, NothingAtHand, ModesAre, FlowDrops DEF EvalPositional, scope
<1>7. CASE TakePositional
  <2> DEFINE n == Len(stack)
             fr == [Top EXCEPT !.vals = Append(@, ctl.v)]
             new == Len(Top.vals) + 1
  <2>1. Top.f = "args" /\ ctl.m = "give" /\ ctl' = Continue /\ UNCHANGED errs
    BY <1>7 DEF TakePositional, In, scope
  <2>2. Top.vals \in Seq(Values) /\ ctl.v \in Values
    BY <1>1, <2>1, FramesTyped, ControlsTyped DEF CallInv, TypeOK
  <2>3. fr \in Frames /\ fr.f = "args" /\ fr.vals = Append(Top.vals, ctl.v)
    <3>1. Append(Top.vals, ctl.v) \in Seq(Values)  BY <2>2, AppendProperties
    <3> QED  BY <1>1, <2>1, <3>1, FrameChanged, ArgsChanged
  <2>4. stack' = ToTop(fr)  BY <1>7 DEF TakePositional
  <2> HIDE DEF fr
  <2>5. \A j : Holding(fr, j) => Holding(Top, j) \/ (j = new /\ HasOptErr(ctl.v))
    <3>1. /\ DOMAIN Top.vals = 1..Len(Top.vals) /\ Len(Top.vals) \in Nat
          /\ DOMAIN fr.vals = 1..Len(Top.vals) + 1
          /\ \A j \in DOMAIN Top.vals : fr.vals[j] = Top.vals[j]
          /\ fr.vals[new] = ctl.v
      BY <2>2, <2>3, PushIs
    <3>2. DOMAIN fr.vals = DOMAIN Top.vals \cup {new}  BY <3>1
    <3> HIDE DEF new
    <3> QED  BY <2>1, <2>3, <3>1, <3>2 DEF Holding
  <2> HIDE DEF new
  <2>6. CASE ~HasOptErr(ctl.v)
    <3>1. Shrinks(stack, stack')
      BY <1>1, <2>3, <2>4, <2>5, <2>6, ShrinksTop DEF ToTop, Top
    <3> QED  BY <1>2, <2>1, <3>1, NothingAtHand, ModesAre, FlowDrops
  <2>7. CASE HasOptErr(ctl.v)
    <3>1. /\ n \in Nat \ {0} /\ DOMAIN stack = 1..n /\ DOMAIN stack' = 1..n
          /\ \A k \in 1..n - 1 : stack'[k] = stack[k]
          /\ stack'[n] = fr
      BY <1>1, <2>3, <2>4, ReplaceIs DEF ToTop
    <3>2. stack[n] = Top  BY DEF Top
    <3> HIDE DEF n
    <3>3. n \in DOMAIN stack /\ 0 \notin DOMAIN stack
          /\ \A k \in DOMAIN stack' : k \in DOMAIN stack /\ (k = n \/ stack'[k] = stack[k])
      BY <3>1
    <3>4. Carriers = CarriersIn(ctl, stack) /\ Carriers' = CarriersIn(ctl', stack')
      BY DEF Carriers, CarriersIn, Calls
    <3>5. <<0, 0>> \in Carriers  BY <2>1, <2>7, <3>4, CarriersAre DEF AtHand
    <3>6. Carriers' \subseteq (Carriers \ {<<0, 0>>}) \cup {<<n, new>>}
      <4> SUFFICES ASSUME NEW x \in Carriers', x # <<n, new>>
                   PROVE  x \in Carriers /\ x # <<0, 0>>
        OBVIOUS
      <4>1. ~AtHand(ctl')  BY <2>1, NothingAtHand, ModesAre
      <4>2. PICK k \in DOMAIN stack' : \E j : x = <<k, j>> /\ Holding(stack'[k], j)
        BY <3>4, <4>1, CarriersAre
      <4>3. PICK j : x = <<k, j>> /\ Holding(stack'[k], j)  BY <4>2
      <4>4. k \in DOMAIN stack /\ Holding(stack[k], j)
        <5>1. CASE k = n  BY <2>5, <3>1, <3>2, <3>3, <4>3, <5>1
        <5>2. CASE k # n  BY <3>3, <4>3, <5>2
        <5> QED  BY <5>1, <5>2
      <4>5. x \in Carriers  BY <3>4, <4>3, <4>4, CarriersAre
      <4>6. k # 0  BY <3>3, <4>4
      <4> QED  BY <4>3, <4>5, <4>6
    <3> QED  BY <1>2, <2>1, <3>5, <3>6 DEF Flow
  <2> QED  BY <2>6, <2>7
<1>8. CASE EnterTerm
  <2> DEFINE fr == TermFrame(Top.e)
  <2>1. Top.f = "args" /\ Top.e.t = "term"  BY <1>8 DEF EnterTerm, Calling, In
  <2>2. Top.e \in Of({"term"})  BY <1>1, <2>1, FramesTyped DEF Of
  <2>3. fr \in Frames /\ \A j : ~Holding(fr, j)  BY <2>2, FramesAre, HoldNothing
  <2>4. stack' = ToTop(fr) /\ ctl'.m = "resolve" /\ UNCHANGED errs
    BY <1>8, ModesAre DEF EnterTerm
  <2> HIDE DEF fr
  <2>5. Shrinks(stack, stack')  BY <1>1, <2>3, <2>4, ShrinksTop DEF ToTop
  <2> QED  BY <1>2, <2>4, <2>5, NothingAtHand, FlowDrops
<1>9. CASE LeaveTerm
  <2>1. stack' = Pop /\ UNCHANGED ctl /\ UNCHANGED errs  BY <1>9 DEF LeaveTerm
  <2> QED  BY <1>2, <1>3, <2>1, FlowDrops
<1>10. CASE CallNUMBER
  <2>1. stack' = Pop /\ Top.vals \in Seq(Values)
    BY <1>1, <1>10, FramesTyped DEF CallNUMBER, Calling, In
  <2> DEFINE r == NumberResult(Top.vals, Top.e.named)
  <2>2. ~r.ok => r.err \in {"type"}  BY <2>1, NumberTyped
  <2>3. Answer(r)  BY <1>10 DEF CallNUMBER
  <2> HIDE DEF r
  <2>4. OtherErrors
    <3>1. CASE r.ok  BY <1>2, <2>3, <3>1 DEF Answer
    <3>2. CASE ~r.ok
      <4>1. "type" \in Errors \ {"option"}  BY DEF Errors
      <4> QED  BY <2>2, <2>3, <3>2, <4>1, FlowMissed DEF Answer
    <3> QED  BY <3>1, <3>2
  <2>5. Carriers' \subseteq Carriers \cup {<<0, 0>>}  BY <1>3, <2>1, CarriersShrink
  <2> QED  BY <1>10, <2>4, <2>5 DEF Flow
<1>11. CASE CallDATETIME
  <2>1. stack' = Pop /\ Top.vals \in Seq(Values)
    BY <1>1, <1>11, FramesTyped DEF CallDATETIME, Calling, In
  <2> DEFINE r == DateTimeResult(Top.vals, Top.e.named)
  <2>2. ~r.ok => r.err \in {"type", "range"}  BY <2>1, DateTimeTyped
  <2>3. r.ok => ~HasOptErr(r.v)
    <3>1. \A e : Fails(e).ok = FALSE  BY DEF Fails
    <3>2. \A v : Made(v).v = v  BY DEF Made
    <3>3. \A n : DateTime(n).k = "datetime"  BY DEF DateTime
    <3>4. CASE Top.vals = << >>  BY <3>1, <3>4 DEF DateTimeResult
    <3>5. CASE Top.vals # << >>
      BY <3>1, <3>2, <3>3, <3>5 DEF DateTimeResult, HasOptErr
    <3> QED  BY <3>4, <3>5
  <2>4. Answer(r)  BY <1>11 DEF CallDATETIME
  <2> HIDE DEF r
  <2>5. CASE r.ok  BY <1>4, <2>1, <2>3, <2>4, <2>5 DEF Answer
  <2>6. CASE ~r.ok
    <3>1. {"type", "range"} \subseteq Errors \ {"option"}  BY DEF Errors
    <3> QED  BY <1>5, <2>1, <2>2, <2>4, <2>6, <3>1 DEF Answer
  <2> QED  BY <2>5, <2>6
<1>12. CASE CallFunction
  <2>1. stack' = Pop /\ Top.f = "args"  BY <1>12 DEF CallFunction, Calling, In
  <2>2. CASE (\E v \in Results \cup {Top.vals[j] : j \in DOMAIN Top.vals} : ctl' = Give(v))
             /\ UNCHANGED errs
    <3>1. PICK v \in Results \cup {Top.vals[j] : j \in DOMAIN Top.vals} : ctl' = Give(v)
      BY <2>2
    <3>2. CASE ~HasOptErr(v)  BY <1>4, <2>1, <2>2, <3>1, <3>2
    <3>3. CASE HasOptErr(v)
      <4>1. PICK j \in DOMAIN Top.vals : v = Top.vals[j]  BY <3>1, <3>3 DEF NumbersFresh
      <4>2. Holding(stack[Len(stack)], j)  BY <2>1, <3>3, <4>1 DEF Holding, Top
      <4>3. Carriers = CarriersIn(ctl, stack) /\ Carriers' = CarriersIn(ctl', stack')
        BY DEF Carriers, CarriersIn, Calls
      <4>4. Len(stack) \in DOMAIN stack \ DOMAIN stack'  BY <1>3, <2>1
      <4>5. stack \in Seq(Frames) /\ 0 \notin DOMAIN stack  BY <1>1, LenProperties
      <4> DEFINE c == <<Len(stack), j>>
      <4>6. c \in Carriers  BY <4>2, <4>3, <4>4, CarriersAre
      <4>7. c \notin Carriers'  BY <4>3, <4>4, <4>5, CarriersAre
      <4>8. Carriers' \subseteq Carriers \cup {<<0, 0>>}  BY <1>3, <2>1, CarriersShrink
      <4> HIDE DEF c
      <4>9. Carriers' \subseteq (Carriers \ {c}) \cup {<<0, 0>>}  BY <4>7, <4>8
      <4> QED  BY <1>2, <2>2, <4>6, <4>9 DEF Flow
    <3> QED  BY <3>2, <3>3
  <2>3. CASE Missed("extension", "function") \/ Missed("type", "function")
    BY <1>5, <2>1, <2>3 DEF Errors
  <2>4. CASE ctl'.m = "panic" /\ UNCHANGED errs
    BY <1>2, <1>3, <2>1, <2>4, NothingAtHand, FlowDrops
  <2> QED  BY <1>12, <2>2, <2>3, <2>4, ModesAre DEF CallFunction, Failed, NilResult
<1> QED  BY <1>6, <1>7, <1>8, <1>9, <1>10, <1>11, <1>12

LEMMA FlowSelects ==
  ASSUME CallInv, CallInv', TakeSelector \/ TryVariant \/ NoVariantMatched
  PROVE  Flow
<1>1. stack \in Seq(Frames) /\ stack # << >> /\ Top \in Frames
  BY TopIs
     DEF TakeSelector, TryVariant, NoVariantMatched, AtVariant, In, CallInv, TypeOK
<1>2. UNCHANGED errs => OtherErrors  BY DEF OtherErrors
<1>3. stack' = Pop => Shrinks(stack, stack')  BY <1>1, ShrinksPop DEF Pop
<1>4. CASE TakeSelector
  <2> DEFINE v == ctl.v
             checked == IF Late(v) THEN Cleared(v) ELSE v
             fr == VariantFrame(Top.e, checked)
  <2>1. \/ stack' = Pop /\ ctl' = Resolve(Default(Top.e))
        \/ stack' = ToTop(fr) /\ ctl' = Continue
    BY <1>4 DEF TakeSelector
  <2>2. ctl.m = "give" /\ v \in Values
    BY <1>4, ControlsTyped DEF TakeSelector, CallInv, TypeOK
  <2>3. ~HasOptErr(checked)
    <3>1. CASE ~Late(v)  BY <3>1 DEF Late
    <3>2. CASE Late(v)
      <4> DEFINE N == [k : {"number"}, n : Int, optErr : BOOLEAN, valid : BOOLEAN]
      <4>1. v \in N  BY <2>2, <3>2 DEF Late, HasOptErr, Values, Custom
      <4>2. Cleared(v).optErr = FALSE  BY <4>1 DEF Cleared
      <4> QED  BY <3>2, <4>2 DEF HasOptErr
    <3> QED  BY <3>1, <3>2
  <2> HIDE DEF checked
  <2>4. \A j : ~Holding(fr, j)  BY <2>3 DEF Holding, VariantFrame
  <2>5. Shrinks(stack, stack')
    <3>1. CASE stack' = Pop  BY <1>3, <3>1
    <3>2. CASE stack' = ToTop(fr)
      <4>1. Len(stack) \in DOMAIN stack  BY <1>1, PopIs
      <4>2. Len(stack) \in DOMAIN ToTop(fr) /\ ToTop(fr)[Len(stack)] = fr
        BY <4>1 DEF ToTop
      <4>3. stack' \in Seq(Frames)  BY DEF CallInv, TypeOK
      <4>4. fr \in Frames  BY <3>2, <4>2, <4>3, LenProperties, ElementOfSeq
      <4> QED  BY <1>1, <2>4, <3>2, <4>4, ShrinksTop DEF ToTop
    <3> QED  BY <2>1, <3>1, <3>2
  <2>6. ~AtHand(ctl')  BY <2>1, NothingAtHand, ModesAre
  <2>7. CASE HasOptErr(v) /\ Report("option")
    BY <2>2, <2>5, <2>6, <2>7, FlowReports DEF AtHand
  <2>8. CASE UNCHANGED errs  BY <1>2, <2>5, <2>6, <2>8, FlowDrops
  <2> QED  BY <1>4, <2>7, <2>8 DEF TakeSelector, Late
<1>5. CASE TryVariant
  <2> DEFINE fr == [Top EXCEPT !.i = NextVariant]
  <2>1. \/ ctl'.m = "panic" /\ UNCHANGED stack
        \/ ctl'.m = "resolve" /\ stack' = Pop
        \/ stack' = ToTop(fr) /\ UNCHANGED ctl
    BY <1>5, ModesAre DEF TryVariant
  <2>2. ctl = Continue /\ Top.f = "variants"
    BY <1>5 DEF TryVariant, AtVariant, In
  <2>3. fr \in Frames /\ fr.f = "variants" /\ fr.sel = Top.sel
    <3>1. NextVariant \in Nat \ {0}  BY <1>1, <2>2, FramesTyped DEF NextVariant
    <3> QED  BY <1>1, <2>2, <3>1, VariantChanged
  <2> HIDE DEF fr
  <2>4. \A j : Holding(fr, j) => Holding(Top, j)  BY <2>2, <2>3 DEF Holding
  <2>5. Shrinks(stack, stack')
    <3>1. CASE UNCHANGED stack  BY <3>1, HoldNothing
    <3>2. CASE stack' = ToTop(fr)
      BY <1>1, <2>3, <2>4, <3>2, ShrinksTop DEF ToTop, Top
    <3> QED  BY <1>3, <2>1, <3>1, <3>2
  <2>6. OtherErrors  BY <1>5 DEF TryVariant, OtherErrors, Errors
  <2>7. ~AtHand(ctl')  BY <2>1, <2>2, NothingAtHand, ModesAre
  <2> QED  BY <2>5, <2>6, <2>7, FlowDrops
<1>6. CASE NoVariantMatched
  BY <1>2, <1>3, <1>6, NothingAtHand, ModesAre, FlowDrops DEF NoVariantMatched, scope
<1> QED  BY <1>4, <1>5, <1>6

LEMMA NextFlow ==
  ASSUME NumbersFresh, CallInv, CallInv', [Next]_vars, ~(Call \/ Return)
  PROVE  Flow
<1>1. CASE UNCHANGED vars \/ AddResource
  <2>1. UNCHANGED <<ctl, stack, errs>>  BY <1>1 DEF vars, scope, AddResource
  <2> QED  BY <2>1, HoldNothing, FlowDrops DEF OtherErrors
<1>2. CASE Work \/ TooManyPlaceables
  BY <1>2, FlowPatterns, FlowExpressions, FlowArguments, FlowSelects DEF Work
<1> QED  BY <1>1, <1>2 DEF Next

CarriersInv == IsFiniteSet(Carriers)

LEMMA NextCarriers ==
  ASSUME NumbersFresh
  PROVE  CallInv /\ CarriersInv /\ [Next]_vars =>
           /\ CarriersInv'
           /\ Running => OptErrs' <= OptErrs + IF CallNUMBER THEN 1 ELSE 0
<1> SUFFICES ASSUME CallInv, CarriersInv, [Next]_vars
             PROVE  /\ CarriersInv'
                    /\ Running => OptErrs' <= OptErrs + IF CallNUMBER THEN 1 ELSE 0
  OBVIOUS
<1>1. CallInv'  BY NextCall
<1>2. CASE Call \/ Return
  <2>1. stack' = << >> /\ ctl'.m # "give" /\ ~Running
    BY <1>2, ModesAre
       DEF Call, FormatText, FormatNil, FormatComplex, Return, CallInv, Running
  <2>2. Carriers' = {}
    <3>1. DOMAIN stack' = {}  BY <2>1
    <3>2. Carriers' = CarriersIn(ctl', stack')  BY DEF Carriers, CarriersIn, Calls
    <3> QED  BY <2>1, <3>1, <3>2, CarriersAre, NothingAtHand
  <2> QED  BY <2>1, <2>2, FS_EmptySet DEF CarriersInv
<1>3. CASE ~(Call \/ Return)
  <2>1. Flow  BY <1>1, <1>3, NextFlow
  <2> DEFINE n == Count(errs, {"option"})
             n1 == Count(errs', {"option"})
             C == Cardinality(Carriers)
             C1 == Cardinality(Carriers')
  <2>2. errs \in Seq(Errors) /\ n \in Nat /\ OptErrs = n + C /\ OptErrs' = n1 + C1
    BY CountIs DEF CallInv, TypeOK, OptErrs, Count
  <2>3. OtherErrors => n1 = n
    <3>1. CASE UNCHANGED errs  BY <3>1
    <3>2. ASSUME NEW err \in Errors \ {"option"}, Report(err) PROVE n1 = n
      <4>1. n1 = n + IF err = "option" THEN 1 ELSE 0
        BY <2>2, <3>2, OptionCount DEF Report
      <4> QED  BY <2>2, <4>1
    <3> QED  BY <3>1, <3>2 DEF OtherErrors
  <2>4. Report("option") => n1 = n + 1
    <3>1. "option" \in Errors  BY DEF Errors
    <3> QED  BY <2>2, <3>1, OptionCount DEF Report
  <2>5. IsFiniteSet(Carriers) /\ C \in Nat  BY FS_CardinalityType DEF CarriersInv
  <2>6. /\ CarriersInv'
        /\ \/ C1 <= C /\ n1 = n
           \/ C1 <= C - 1 /\ n1 \in {n, n + 1}
           \/ C1 <= C + 1 /\ n1 = n /\ CallNUMBER
    <3> HIDE DEF n, n1
    <3> QED  BY <2>1, <2>3, <2>4, <2>5, CardinalitiesAre DEF Flow, CarriersInv
  <2>7. C1 \in Nat  BY <2>6, FS_CardinalityType DEF CarriersInv
  <2> HIDE DEF n, n1, C, C1
  <2> QED  BY <2>2, <2>5, <2>6, <2>7
<1> QED  BY <1>2, <1>3

(* In any program, an option error is reported at most once: it stays in   *)
(* one number, through arguments, custom functions and selectors, until    *)
(* the report takes it out (reportOptErr), and only NUMBER() makes one.    *)
THEOREM ResolverOptionsOnce == NumbersFresh => (Spec => OptionErrorsOnce)
<1> SUFFICES ASSUME NumbersFresh PROVE Spec => OptionErrorsOnce  OBVIOUS
<1>1. Init => CarriersInv
  <2> SUFFICES ASSUME Init PROVE CarriersInv  OBVIOUS
  <2>1. stack = << >> /\ ctl = Idle  BY DEF Init
  <2>2. Carriers = CarriersIn(ctl, stack)  BY DEF Carriers, CarriersIn, Calls
  <2>3. DOMAIN stack = {}  BY <2>1
  <2>4. Carriers = {}  BY <2>1, <2>2, <2>3, CarriersAre, NothingAtHand, ModesAre
  <2> QED  BY <2>4, FS_EmptySet DEF CarriersInv
<1>2. CallInv /\ CarriersInv /\ [Next]_vars => CarriersInv'  BY NextCarriers
<1>3. CallInv /\ CarriersInv /\ [Next]_vars =>
        [Running => OptErrs' <= OptErrs + IF CallNUMBER THEN 1 ELSE 0]_vars
  BY NextCarriers
<1> QED  BY InitCall, NextCall, <1>1, <1>2, <1>3, PTL DEF Spec, OptionErrorsOnce

-----------------------------------------------------------------------------
(* Termination: the work left is a number, and falls between placeables.   *)
LEMMA Products ==
  \A a, b, c \in Nat :
    a * c \in Nat /\ (a + 1) * c = a * c + c /\ (a <= b => a * c <= b * c)
<1>1. \A a, c \in Nat : a * c \in Nat /\ (a + 1) * c = a * c + c  OBVIOUS
<1>2. ASSUME NEW a \in Nat, NEW b \in Nat, NEW c \in Nat, a <= b PROVE a * c <= b * c
  <2>1. b - a \in Nat /\ b = a + (b - a)  BY <1>2
  <2>2. (b - a) * c \in Nat  BY <1>1, <2>1
  <2>3. b * c = a * c + (b - a) * c  OBVIOUS
  <2> QED  BY <1>1, <2>2, <2>3
<1> QED  BY <1>1, <1>2

LEMMA CostIs ==
  /\ \A n \in 0..Size : Cost[n] \in Nat
  /\ \A n \in 1..Size :
       Cost[n] = (Size + 1) * (Cost[n - 1] + 1) + Size + ResolveCost + 2
  /\ \A n \in 0..Size : \A k \in 0..n : Cost[k] <= Cost[n]
<1> DEFINE Step(c) == (Size + 1) * (c + 1) + Size + ResolveCost + 2
           Is(f) == f = [n \in 0..Size |-> IF n = 0 THEN 0 ELSE Step(f[n - 1])]
<1>1. Size \in Nat /\ Size + 1 \in Nat /\ 0 \in Nat  BY FiniteAssumption
<1>2. ASSUME NEW c \in Nat PROVE Step(c) \in Nat /\ c <= Step(c)
  <2>1. /\ Size * (c + 1) \in Nat
        /\ (Size + 1) * (c + 1) = Size * (c + 1) + (c + 1)
    <3>1. c + 1 \in Nat  OBVIOUS
    <3> QED  BY <1>1, <3>1, Products
  <2>2. ResolveCost = Size + 3  BY DEF ResolveCost
  <2> DEFINE x == Size * (c + 1)
  <2> HIDE DEF x
  <2>3. x \in Nat /\ Step(c) = x + (c + 1) + Size + ResolveCost + 2  BY <2>1 DEF x
  <2> HIDE DEF Step
  <2> QED  BY <1>1, <2>2, <2>3
<1>3. Cost = CHOOSE f : Is(f)  BY DEF Cost
<1> HIDE DEF Step
<1>4. PICK G : G = [x \in (1..Size) \X Nat |-> Step(x[2])]  OBVIOUS
<1>5. /\ G \in [(1..Size) \X Nat -> Nat]
      /\ \A n \in 1..Size, c \in Nat : G[<<n, c>>] = Step(c)
  BY <1>2, <1>4
<1>6. PICK f : Stepwise(f, Size, Nat, 0, G)  BY <1>1, <1>5, RecursionExists
<1>7. Is(f)
  <2>1. \A n \in 0..Size : n # 0 => n \in 1..Size /\ f[n - 1] \in Nat
    <3>1. \A n \in 0..Size : n # 0 => n \in 1..Size /\ n - 1 \in 0..Size  BY <1>1
    <3> QED  BY <1>6, <3>1 DEF Stepwise
  <2>2. f = [n \in 0..Size |-> f[n]]  BY <1>6 DEF Stepwise
  <2> QED  BY <1>5, <1>6, <2>1, <2>2 DEF Stepwise
<1>8. Is(Cost)  BY <1>3, <1>7
<1>9. \A n \in 0..Size : Cost[n] = IF n = 0 THEN 0 ELSE Step(Cost[n - 1])  BY <1>8
<1>10. ASSUME NEW n \in 0..Size PROVE Cost[n] \in Nat
  <2> DEFINE Bad == {k \in 0..Size : Cost[k] \notin Nat}
  <2> SUFFICES ASSUME Bad # {} PROVE FALSE  BY DEF Bad
  <2>1. PICK m \in Bad : \A j \in Bad : m <= j
    <3>1. Bad \in SUBSET Nat  BY <1>1
    <3> HIDE DEF Bad
    <3> QED  BY <3>1, FirstExists
  <2>2. m \in 0..Size /\ m # 0  BY <1>9, <2>1
  <2>3. m - 1 \in 0..Size /\ ~(m <= m - 1)  BY <1>1, <2>2
  <2>4. Cost[m - 1] \in Nat  BY <2>1, <2>3
  <2> QED  BY <1>2, <1>9, <2>1, <2>2, <2>4
<1>11. ASSUME NEW n \in 0..Size, NEW k \in 0..n PROVE Cost[k] <= Cost[n]
  <2> DEFINE Bad == {j \in 0..Size : k <= j /\ ~(Cost[k] <= Cost[j])}
  <2> SUFFICES ASSUME Bad # {} PROVE FALSE  BY <1>1 DEF Bad
  <2>1. PICK m \in Bad : \A j \in Bad : m <= j
    <3>1. Bad \in SUBSET Nat  BY <1>1
    <3> HIDE DEF Bad
    <3> QED  BY <3>1, FirstExists
  <2>2. m \in 0..Size /\ k <= m /\ ~(Cost[k] <= Cost[m])  BY <2>1
  <2>3. k \in 0..Size /\ Cost[k] \in Nat /\ Cost[m] \in Nat  BY <1>1, <1>10, <2>2
  <2>4. m # k  BY <2>2, <2>3
  <2>5. m - 1 \in 0..Size /\ k <= m - 1 /\ ~(m <= m - 1) /\ m # 0
    BY <1>1, <2>2, <2>3, <2>4
  <2>6. Cost[k] <= Cost[m - 1]  BY <2>1, <2>5
  <2>7. Cost[m] = Step(Cost[m - 1]) /\ Cost[m - 1] \in Nat  BY <1>9, <1>10, <2>2, <2>5
  <2>8. Cost[m - 1] <= Cost[m]  BY <1>2, <2>7
  <2> QED  BY <2>2, <2>3, <2>6, <2>7, <2>8
<1>12. \A n \in 1..Size : n \in 0..Size /\ n # 0  BY <1>1
<1> QED  BY <1>9, <1>10, <1>11, <1>12 DEF Step

LEMMA LeftIs ==
  ASSUME NEW S, NEW s \in Seq(S), NEW i \in Nat \ {0}
  PROVE  /\ Left(s, i) \in Nat
         /\ Left(s, 1) = Len(s)
         /\ i <= Len(s) => Left(s, i) = Left(s, i + 1) + 1
         /\ Left(s, i) <= Len(s)
<1>1. Len(s) \in Nat  OBVIOUS
<1> QED  BY <1>1 DEF Left

(* The sequences a call works through, and what evaluating one of the      *)
(* operands of its expression costs.                                       *)
LEMMA ProgramIs ==
  /\ Size \in Nat /\ ResolveCost = Size + 3
  /\ \A p \in Patterns : IsComplex(p) =>
       Elems(p) \in Seq(Exprs \cup {Text}) /\ Len(Elems(p)) <= Size
  /\ \A e \in Exprs : Cost[Depth[e]] \in Nat /\ Cost[Depth[e] - 1] \in Nat
       /\ Cost[Depth[e]] = (Size + 1) * (Cost[Depth[e] - 1] + 1) + Size + ResolveCost + 2
  /\ \A e \in Of({"term", "function"}) :
       /\ e \in Exprs /\ e.pos \in Seq(Exprs) /\ Len(e.pos) <= Size
       /\ \A i \in 1..Len(e.pos) : Cost[Depth[e.pos[i]]] <= Cost[Depth[e] - 1]
  /\ \A e \in Of({"select"}) :
       /\ e \in Exprs /\ e.variants \in Seq([key : Values, p : Patterns])
       /\ Len(e.variants) <= Size
       /\ e.sel \in Exprs
       /\ Cost[Depth[e.sel]] <= Cost[Depth[e] - 1]
<1>1. Size \in Nat /\ ResolveCost = Size + 3  BY FiniteAssumption DEF ResolveCost
<1>2. \A e \in Exprs : Depth[e] \in 1..Size /\ Depth[e] \in 0..Size /\ Depth[e] - 1 \in 0..Size
  BY <1>1, FiniteAssumption
<1>3. \A e \in Exprs, d \in Exprs : Depth[d] < Depth[e] => Depth[d] \in 0..Depth[e] - 1
  BY <1>1, <1>2
<1>4. \A e \in Exprs, d \in Exprs : Depth[d] < Depth[e] => Cost[Depth[d]] <= Cost[Depth[e] - 1]
  BY <1>2, <1>3, CostIs
<1>5. \A e \in Of({"term", "function"}) :
       /\ e \in Exprs /\ e.pos \in Seq(Exprs) /\ Len(e.pos) <= Size
       /\ \A i \in 1..Len(e.pos) : e.pos[i] \in Exprs /\ Depth[e.pos[i]] < Depth[e]
  BY FiniteAssumption, ProgramAssumption, ElementTyped DEF Of
<1>6. \A e \in Of({"select"}) :
       /\ e \in Exprs /\ e.variants \in Seq([key : Values, p : Patterns])
       /\ Len(e.variants) <= Size
       /\ e.sel \in Exprs /\ Depth[e.sel] < Depth[e]
  BY FiniteAssumption, ProgramAssumption DEF Of
<1>7. \A p \in Patterns : IsComplex(p) =>
       Elems(p) \in Seq(Exprs \cup {Text}) /\ Len(Elems(p)) <= Size
  <2>1. \A p \in Patterns : IsComplex(p) => Elems(p) \in Seq(Exprs \cup {Text})
    BY ResolverAssumption DEF IsComplex, Text
  <2> QED  BY <2>1, FiniteAssumption
<1> QED  BY <1>1, <1>2, <1>4, <1>5, <1>6, <1>7, CostIs

LEMMA NeedsIs ==
  ASSUME NEW fr \in Frames, NEW k \in {0, 1}
  PROVE  Needs(fr, k) \in Nat /\ 0 < Needs(fr, k)
<1>1. CASE fr.f = "complex"
  <2>1. fr.i + k \in Nat \ {0} /\ Elems(fr.p) \in Seq(Exprs \cup {Text})
    BY <1>1, FramesTyped, ProgramIs
  <2>2. Left(Elems(fr.p), fr.i + k) \in Nat  BY <2>1, LeftIs
  <2> QED  BY <1>1, <2>2 DEF Needs
<1>2. CASE fr.f = "args"
  <2>1. fr.e \in Exprs /\ fr.e.pos \in Seq(Exprs) /\ fr.vals \in Seq(Values)
    BY <1>2, FramesTyped, ProgramIs
  <2>2. Len(fr.vals) + 1 + k \in Nat \ {0}  BY <2>1
  <2>3. Left(fr.e.pos, Len(fr.vals) + 1 + k) \in Nat  BY <2>1, <2>2, LeftIs
  <2>4. Cost[Depth[fr.e] - 1] + 1 \in Nat
    <3>1. Cost[Depth[fr.e] - 1] \in Nat  BY <2>1, ProgramIs
    <3> QED  BY <3>1
  <2>5. Left(fr.e.pos, Len(fr.vals) + 1 + k) * (Cost[Depth[fr.e] - 1] + 1) \in Nat
    BY <2>3, <2>4, Products
  <2>6. Needs(fr, k) = Left(fr.e.pos, Len(fr.vals) + 1 + k) * (Cost[Depth[fr.e] - 1] + 1)
                         + ResolveCost + 2
    BY <1>2 DEF Needs
  <2> QED  BY <2>5, <2>6, ProgramIs
<1>3. CASE fr.f \in {"term", "selector"}
  BY <1>3, ProgramIs DEF Needs
<1>4. CASE fr.f = "variants"
  <2>1. /\ fr.i \in Nat \ {0}
        /\ fr.e.variants \in Seq([key : Values, p : Patterns])
    BY <1>4, FramesTyped, ProgramIs
  <2>2. Left(fr.e.variants, fr.i) \in Nat  BY <2>1, LeftIs
  <2> QED  BY <1>4, <2>2, ProgramIs DEF Needs
<1> QED  BY <1>1, <1>2, <1>3, <1>4, FramesTyped

(* The calls that wait: their work adds up along the stack. *)
Totals(f, st) ==
  /\ f \in [0..Len(st) -> Nat]
  /\ \A n \in 0..Len(st) : f[n] = IF n = 0 THEN 0 ELSE f[n - 1] + Needs(st[n], 1)

LEMMA WaitingIs ==
  ASSUME NEW st \in Seq(Frames)
  PROVE  \E f : Totals(f, st) /\ Waiting(st) = f[Len(st)]
<1> DEFINE N == Len(st)
           Is(f) == f = [n \in 0..N |-> IF n = 0 THEN 0 ELSE f[n - 1] + Needs(st[n], 1)]
<1>1. N \in Nat /\ 0 \in Nat  OBVIOUS
<1>2. ASSUME NEW n \in 1..N PROVE Needs(st[n], 1) \in Nat
  BY ElementTyped, NeedsIs
<1>3. Waiting(st) = (CHOOSE f : Is(f))[N]  BY DEF Waiting
<1> HIDE DEF N
<1>4. PICK G : G = [x \in (1..N) \X Nat |-> x[2] + Needs(st[x[1]], 1)]  OBVIOUS
<1>5. /\ G \in [(1..N) \X Nat -> Nat]
      /\ \A n \in 1..N, c \in Nat : G[<<n, c>>] = c + Needs(st[n], 1)
  BY <1>2, <1>4
<1>6. PICK f : Stepwise(f, N, Nat, 0, G)  BY <1>1, <1>5, RecursionExists
<1>7. \A n \in 0..N : n # 0 => n \in 1..N /\ f[n - 1] \in Nat
  <2>1. \A n \in 0..N : n # 0 => n \in 1..N /\ n - 1 \in 0..N  BY <1>1
  <2> QED  BY <1>6, <2>1 DEF Stepwise
<1>8. f = [n \in 0..N |-> f[n]]  BY <1>6 DEF Stepwise
<1>9. Is(f)  BY <1>5, <1>6, <1>7, <1>8 DEF Stepwise
<1>10. PICK h : h = (CHOOSE g : Is(g)) /\ Is(h)  BY <1>9
<1>11. \A n \in 0..N : h[n] = IF n = 0 THEN 0 ELSE h[n - 1] + Needs(st[n], 1)  BY <1>10
<1>12. ASSUME NEW n \in 0..N PROVE h[n] \in Nat
  <2> DEFINE Bad == {k \in 0..N : h[k] \notin Nat}
  <2> SUFFICES ASSUME Bad # {} PROVE FALSE  BY DEF Bad
  <2>1. PICK m \in Bad : \A j \in Bad : m <= j
    <3>1. Bad \in SUBSET Nat  BY <1>1
    <3> HIDE DEF Bad
    <3> QED  BY <3>1, FirstExists
  <2>2. m \in 0..N /\ m # 0  BY <1>11, <2>1
  <2>3. m \in 1..N /\ m - 1 \in 0..N /\ ~(m <= m - 1)  BY <1>1, <2>2
  <2>4. h[m - 1] \in Nat  BY <2>1, <2>3
  <2> QED  BY <1>2, <1>11, <2>1, <2>2, <2>3, <2>4
<1>13. h \in [0..N -> Nat]  BY <1>10, <1>12
<1>14. Totals(h, st)  BY <1>11, <1>13 DEF Totals, N
<1>15. Waiting(st) = h[Len(st)]  BY <1>3, <1>10 DEF N
<1> QED  BY <1>14, <1>15

LEMMA WaitingNothing == Waiting(<< >>) = 0
<1>1. << >> \in Seq(Frames) /\ Len(<< >>) = 0  OBVIOUS
<1>2. PICK f : Totals(f, << >>) /\ Waiting(<< >>) = f[0]  BY <1>1, WaitingIs
<1> QED  BY <1>1, <1>2 DEF Totals

LEMMA WaitingOne ==
  ASSUME NEW st \in Seq(Frames), NEW fr \in Frames
  PROVE  /\ Waiting(st) \in Nat
         /\ Waiting(Append(st, fr)) = Waiting(st) + Needs(fr, 1)
<1> DEFINE new == Append(st, fr)
           N == Len(st)
<1>1. /\ N \in Nat /\ new \in Seq(Frames) /\ Len(new) = N + 1
      /\ \A n \in 1..N : new[n] = st[n]
      /\ new[N + 1] = fr
  BY AppendProperties, LenProperties
<1> HIDE DEF new
<1>2. PICK f : Totals(f, st) /\ Waiting(st) = f[N]  BY WaitingIs
<1>3. PICK g : Totals(g, new) /\ Waiting(new) = g[N + 1]  BY <1>1, WaitingIs
<1>4. N \in 0..N /\ N + 1 \in 0..N + 1 /\ N + 1 # 0 /\ (N + 1) - 1 = N  BY <1>1
<1>5. f[N] = g[N]
  <2> DEFINE Bad == {n \in 0..N : f[n] # g[n]}
  <2> SUFFICES ASSUME Bad # {} PROVE FALSE  BY <1>4 DEF Bad
  <2>1. PICK m \in Bad : \A j \in Bad : m <= j
    <3>1. Bad \in SUBSET Nat  BY <1>1
    <3> HIDE DEF Bad
    <3> QED  BY <3>1, FirstExists
  <2>2. \A n \in 0..N : n \in 0..N + 1  BY <1>1
  <2>3. m \in 0..N /\ m # 0  BY <1>1, <1>2, <1>3, <2>1, <2>2 DEF Totals
  <2>4. m \in 1..N /\ m - 1 \in 0..N /\ ~(m <= m - 1)  BY <1>1, <2>3
  <2>5. f[m - 1] = g[m - 1]  BY <2>1, <2>4
  <2>6. f[m] = f[m - 1] + Needs(st[m], 1)  BY <1>2, <2>3 DEF Totals
  <2>7. g[m] = g[m - 1] + Needs(new[m], 1)  BY <1>1, <1>3, <2>2, <2>3 DEF Totals
  <2> QED  BY <1>1, <2>1, <2>4, <2>5, <2>6, <2>7
<1>6. g[N + 1] = g[N] + Needs(fr, 1)  BY <1>1, <1>3, <1>4 DEF Totals
<1>7. f[N] \in Nat  BY <1>2, <1>4 DEF Totals
<1> QED  BY <1>2, <1>3, <1>5, <1>6, <1>7 DEF new

(* What is left of a call that waits, or goes on, and of those around it. *)
LEMMA StackWaits ==
  ASSUME CallInv
  PROVE  /\ Waiting(stack) \in Nat
         /\ \A fr \in Frames : Waiting(Push(fr)) = Waiting(stack) + Needs(fr, 1)
         /\ stack # << >> =>
              /\ Top \in Frames /\ Pop \in Seq(Frames) /\ Waiting(Pop) \in Nat
              /\ Waiting(stack) = Waiting(Pop) + Needs(Top, 1)
              /\ \A fr \in Frames :
                   /\ Waiting(ToTop(fr)) = Waiting(Pop) + Needs(fr, 1)
                   /\ ToTop(fr)[Len(ToTop(fr))] = fr
                   /\ SubSeq(ToTop(fr), 1, Len(ToTop(fr)) - 1) = Pop
<1>1. stack \in Seq(Frames)  BY DEF CallInv, TypeOK
<1>2. Waiting(stack) \in Nat  
  <2>1. ASSUME stack = << >> PROVE Waiting(stack) \in Nat  BY <2>1, WaitingNothing
  <2>2. ASSUME stack # << >> PROVE Waiting(stack) \in Nat
    <3>1. Top \in Frames  BY <1>1, <2>2, PopIs DEF Top
    <3> QED  BY <1>1, <3>1, WaitingOne
  <2> QED  BY <2>1, <2>2
<1>3. \A fr \in Frames : Waiting(Push(fr)) = Waiting(stack) + Needs(fr, 1)
  BY <1>1, WaitingOne DEF Push
<1>4. ASSUME stack # << >>
      PROVE  /\ Top \in Frames /\ Pop \in Seq(Frames) /\ Waiting(Pop) \in Nat
             /\ Waiting(stack) = Waiting(Pop) + Needs(Top, 1)
             /\ \A fr \in Frames :
                  /\ Waiting(ToTop(fr)) = Waiting(Pop) + Needs(fr, 1)
                  /\ ToTop(fr)[Len(ToTop(fr))] = fr
                  /\ SubSeq(ToTop(fr), 1, Len(ToTop(fr)) - 1) = Pop
  <2> DEFINE n == Len(stack)
  <2>1. /\ Pop \in Seq(Frames) /\ n \in Nat \ {0} /\ DOMAIN stack = 1..n
        /\ DOMAIN Pop = 1..n - 1
        /\ \A j \in 1..n - 1 : Pop[j] = stack[j]
        /\ Top \in Frames /\ stack[n] = Top
    BY <1>1, <1>4, PopIs DEF Pop, Top
  <2> HIDE DEF n
  <2>2. Len(Pop) = n - 1
    <3>1. n - 1 \in Nat /\ Len(Pop) \in Nat /\ 1..Len(Pop) = 1..n - 1
      BY <2>1, LenProperties
    <3> QED  BY <3>1
  <2>3. ASSUME NEW fr \in Frames, NEW st \in Seq(Frames), DOMAIN st = 1..n,
               \A j \in 1..n - 1 : st[j] = stack[j], st[n] = fr
        PROVE  st = Append(Pop, fr)
    <3>1. /\ Append(Pop, fr) \in Seq(Frames) /\ Len(Append(Pop, fr)) = n - 1 + 1
          /\ \A j \in 1..n - 1 : Append(Pop, fr)[j] = Pop[j]
          /\ Append(Pop, fr)[n - 1 + 1] = fr
      BY <2>1, <2>2, AppendProperties
    <3>2. Len(st) = n
      <4>1. Len(st) \in Nat /\ 1..Len(st) = 1..n  BY <2>3, LenProperties
      <4> QED  BY <2>1, <4>1
    <3>3. n - 1 + 1 = n /\ \A j \in 1..n : j \in 1..n - 1 \/ j = n  BY <2>1
    <3>4. \A j \in 1..n : st[j] = Append(Pop, fr)[j]  BY <2>1, <2>3, <3>1, <3>3
    <3> QED  BY <3>1, <3>2, <3>3, <3>4, SeqEqual
  <2>4. stack = Append(Pop, Top)  BY <1>1, <2>1, <2>3
  <2>5. Waiting(Pop) \in Nat /\ Waiting(stack) = Waiting(Pop) + Needs(Top, 1)
    BY <2>1, <2>4, WaitingOne
  <2>6. ASSUME NEW fr \in Frames
        PROVE  /\ Waiting(ToTop(fr)) = Waiting(Pop) + Needs(fr, 1)
               /\ ToTop(fr)[Len(ToTop(fr))] = fr
               /\ SubSeq(ToTop(fr), 1, Len(ToTop(fr)) - 1) = Pop
    <3>1. /\ ToTop(fr) \in Seq(Frames) /\ DOMAIN ToTop(fr) = 1..n
          /\ \A j \in 1..n - 1 : ToTop(fr)[j] = stack[j]
          /\ ToTop(fr)[n] = fr
      BY <1>1, <1>4, ReplaceIs DEF ToTop, n
    <3>2. ToTop(fr) = Append(Pop, fr)  BY <2>3, <3>1
    <3>3. Waiting(ToTop(fr)) = Waiting(Pop) + Needs(fr, 1)  BY <2>1, <3>2, WaitingOne
    <3>4. SubSeq(Append(Pop, fr), 1, Len(Append(Pop, fr)) - 1) = Pop
          /\ Append(Pop, fr)[Len(Append(Pop, fr))] = fr
      <4>1. /\ Append(Pop, fr) \in Seq(Frames) /\ Append(Pop, fr) # << >>
            /\ Len(Append(Pop, fr)) = Len(Pop) + 1
            /\ Append(Pop, fr)[Len(Pop) + 1] = fr
            /\ SubSeq(Append(Pop, fr), 1, Len(Pop)) = Pop
        BY <2>1, AppendProperties
      <4>2. Len(Pop) + 1 - 1 = Len(Pop)  BY <2>1, <2>2
      <4> QED  BY <4>1, <4>2
    <3> QED  BY <3>2, <3>3, <3>4
  <2> QED  BY <2>1, <2>5, <2>6
<1> QED  BY <1>2, <1>3, <1>4

(* The work left before and after a step. *)
LEMMA WorkIs ==
  /\ ctl.m = "eval" => WorkLeft = Cost[Depth[ctl.e]] + Waiting(stack)
  /\ ctl.m = "resolve" => WorkLeft = ResolveCost + Waiting(stack)
  /\ ctl.m = "give" => WorkLeft = 1 + Waiting(stack)
  /\ ctl = Continue => WorkLeft = Needs(Top, 0) + Waiting(Pop)
BY ModesAre DEF WorkLeft

LEMMA WorkAfter ==
  ASSUME CallInv
  PROVE  /\ \A e : ctl' = Eval(e) => WorkLeft' = Cost[Depth[e]] + Waiting(stack')
         /\ \A p : ctl' = Resolve(p) => WorkLeft' = ResolveCost + Waiting(stack')
         /\ ctl'.m = "give" => WorkLeft' = 1 + Waiting(stack')
         /\ ctl'.m \in {"done", "panic"} => WorkLeft' = 0
         /\ \A fr \in Frames :
              /\ ctl' = Continue /\ stack' = Push(fr) =>
                   WorkLeft' = Needs(fr, 0) + Waiting(stack)
              /\ ctl' = Continue /\ stack # << >> /\ stack' = ToTop(fr) =>
                   WorkLeft' = Needs(fr, 0) + Waiting(Pop)
<1>1. WorkLeft' =
        CASE ctl'.m = "eval"     -> Cost[Depth[ctl'.e]] + Waiting(stack')
          [] ctl'.m = "resolve"  -> ResolveCost + Waiting(stack')
          [] ctl'.m = "give"     -> 1 + Waiting(stack')
          [] ctl'.m = "continue" -> Needs(stack'[Len(stack')], 0)
                                      + Waiting(SubSeq(stack', 1, Len(stack') - 1))
          [] OTHER               -> 0
  BY DEF WorkLeft, Top, Pop, Waiting, Needs
<1>2. \A e : Eval(e).e = e  BY DEF Eval
<1>3. \A fr \in Frames : stack' = Push(fr) =>
        stack'[Len(stack')] = fr /\ SubSeq(stack', 1, Len(stack') - 1) = stack
  <2>1. stack \in Seq(Frames)  BY DEF CallInv, TypeOK
  <2> SUFFICES ASSUME NEW fr \in Frames, stack' = Append(stack, fr)
               PROVE  /\ stack'[Len(stack')] = fr
                      /\ SubSeq(stack', 1, Len(stack') - 1) = stack
    BY DEF Push
  <2>2. /\ Len(stack') = Len(stack) + 1 /\ stack'[Len(stack) + 1] = fr
        /\ SubSeq(stack', 1, Len(stack)) = stack
    BY <2>1, AppendProperties
  <2>3. Len(stack) + 1 - 1 = Len(stack)  BY <2>1
  <2> QED  BY <2>2, <2>3
<1>4. \A fr \in Frames : stack # << >> /\ stack' = ToTop(fr) =>
        stack'[Len(stack')] = fr /\ SubSeq(stack', 1, Len(stack') - 1) = Pop
  BY StackWaits
<1> QED  BY <1>1, <1>2, <1>3, <1>4, ModesAre

(* A step that progresses.  Handing over a value is the least work. *)
Progress ==
  \/ placeables' > placeables
  \/ placeables' = placeables /\ WorkLeft' \in 0..WorkLeft - 1

LEMMA Falls ==
  ASSUME UNCHANGED placeables, NEW w \in Nat, WorkLeft' = w, NEW v \in Nat,
         WorkLeft = v, w < v
  PROVE  Progress
BY DEF Progress

(* Whatever ctl is about to do takes a step. *)
LEMMA WorkTyped ==
  ASSUME CallInv, Running, ctl = Continue => stack # << >>
  PROVE  WorkLeft \in Nat /\ 0 < WorkLeft
<1>1. Waiting(stack) \in Nat  BY StackWaits
<1>2. CASE ctl.m = "eval"
  <2>1. ctl.e \in Exprs  BY <1>2, ControlsTyped DEF CallInv, TypeOK
  <2> DEFINE c == (Size + 1) * (Cost[Depth[ctl.e] - 1] + 1)
             d == Cost[Depth[ctl.e]]
             w == Waiting(stack)
  <2>2. c \in Nat /\ d = c + Size + ResolveCost + 2 /\ WorkLeft = d + w
    <3>1. Size \in Nat /\ Cost[Depth[ctl.e] - 1] \in Nat  BY <2>1, ProgramIs
    <3>2. Size + 1 \in Nat /\ Cost[Depth[ctl.e] - 1] + 1 \in Nat  BY <3>1
    <3>3. c \in Nat  BY <3>2, Products
    <3> HIDE DEF c
    <3> QED  BY <1>2, <2>1, <3>3, ProgramIs, WorkIs DEF c
  <2> HIDE DEF c, d, w
  <2> QED  BY <1>1, <2>2, ProgramIs DEF w
<1>3. CASE ctl.m \in {"resolve", "give"}  BY <1>1, <1>3, ProgramIs, WorkIs
<1>4. CASE ctl.m = "continue"
  <2>1. ctl = Continue  BY <1>4, ModesAre DEF CallInv, TypeOK, Controls, Continue
  <2>2. Needs(Top, 0) \in Nat /\ 0 < Needs(Top, 0)  BY <2>1, StackWaits, NeedsIs
  <2>3. Waiting(Pop) \in Nat  BY <2>1, StackWaits
  <2> QED  BY <2>1, <2>2, <2>3, WorkIs
<1> QED  BY <1>2, <1>3, <1>4 DEF Running

LEMMA CallEnds ==
  ASSUME CallInv, Running, ctl = Continue => stack # << >>,
         UNCHANGED placeables, ctl'.m \in {"done", "panic"}
  PROVE  Progress
BY WorkTyped, WorkAfter, Falls

LEMMA PatternsProgress ==
  ASSUME CallInv,
         \/ Finish \/ ResolveNil \/ ResolveText \/ ResolveCyclic \/ ResolveComplex
         \/ AppendText \/ ExpandPlaceable \/ TooManyPlaceables \/ WritePlaceable
         \/ FinishPattern
  PROVE  Progress
<1>0. Size \in Nat /\ ResolveCost = Size + 3 /\ Waiting(stack) \in Nat
  BY ProgramIs, StackWaits
<1>1. CASE Finish
  <2>1. Running /\ ctl # Continue /\ UNCHANGED placeables /\ ctl'.m = "done"
    BY <1>1, ModesAre DEF Finish, Running, scope
  <2> QED  BY <2>1, CallEnds
<1>2. CASE ResolveNil \/ ResolveText \/ ResolveCyclic
  <2>1. /\ ctl.m = "resolve" /\ UNCHANGED <<stack, placeables>>
        /\ ctl'.m \in {"give", "panic"}
    BY <1>2, ModesAre DEF ResolveNil, ResolveText, ResolveCyclic, Missed, scope
  <2>2. CASE ctl'.m = "give"
    <3>1. WorkLeft = ResolveCost + Waiting(stack) /\ WorkLeft' = 1 + Waiting(stack)
      BY <2>1, <2>2, WorkIs, WorkAfter
    <3> QED  BY <1>0, <2>1, <3>1, Falls
  <2>3. CASE ctl'.m = "panic"  BY <2>1, <2>3, ModesAre, CallEnds DEF Running
  <2> QED  BY <2>1, <2>2, <2>3
<1>3. CASE ResolveComplex
  <2> DEFINE p == ctl.p
  <2>1. /\ ctl.m = "resolve" /\ p \in Patterns /\ IsComplex(p) /\ ctl' = Continue
        /\ stack' = Push(ComplexFrame(p)) /\ UNCHANGED placeables
    BY <1>3, ControlsTyped DEF ResolveComplex, IsComplex, CallInv, TypeOK
  <2>2. Needs(ComplexFrame(p), 0) = Left(Elems(p), 1) + 2
    BY DEF Needs, ComplexFrame
  <2>3. Left(Elems(p), 1) \in Nat /\ Left(Elems(p), 1) <= Size
    <3>1. /\ Elems(p) \in Seq(Exprs \cup {Text}) /\ Len(Elems(p)) <= Size
          /\ 1 \in Nat \ {0}
      BY <2>1, ProgramIs
    <3> QED  BY <3>1, LeftIs
  <2>4. WorkLeft' = Left(Elems(p), 1) + 2 + Waiting(stack)
    BY <2>1, <2>2, FramesAre, WorkAfter
  <2>5. WorkLeft = ResolveCost + Waiting(stack)  BY <2>1, WorkIs
  <2> QED  BY <1>0, <2>1, <2>3, <2>4, <2>5, Falls
<1>4. ASSUME stack # << >>, Top.f = "complex"
      PROVE  /\ Top \in Frames /\ Waiting(Pop) \in Nat
             /\ \A k \in {0, 1} : Needs(Top, k) = Left(Elems(Top.p), Top.i + k) + 2
             /\ Left(Elems(Top.p), Top.i) \in Nat /\ Left(Elems(Top.p), Top.i + 1) \in Nat
             /\ Top.i <= Len(Elems(Top.p)) =>
                  Left(Elems(Top.p), Top.i) = Left(Elems(Top.p), Top.i + 1) + 1
             /\ Top.i \in Nat /\ Top.i + 1 \in Nat \ {0} /\ Top.out \in Seq(Tokens)
             /\ Waiting(stack) = Waiting(Pop) + Left(Elems(Top.p), Top.i + 1) + 2
  <2>1. Top \in Frames /\ Waiting(Pop) \in Nat /\ Waiting(stack) = Waiting(Pop) + Needs(Top, 1)
    BY <1>4, StackWaits
  <2>2. /\ Top.i \in Nat \ {0} /\ Top.p \in Patterns /\ IsComplex(Top.p)
        /\ Top.out \in Seq(Tokens)
    BY <1>4, <2>1, FramesTyped
  <2>3. Top.i + 1 \in Nat \ {0} /\ Elems(Top.p) \in Seq(Exprs \cup {Text})
    BY <2>2, ProgramIs
  <2>4. \A k \in {0, 1} : Needs(Top, k) = Left(Elems(Top.p), Top.i + k) + 2
    BY <1>4 DEF Needs
  <2>5. /\ Left(Elems(Top.p), Top.i) \in Nat /\ Left(Elems(Top.p), Top.i + 1) \in Nat
        /\ Top.i <= Len(Elems(Top.p)) =>
             Left(Elems(Top.p), Top.i) = Left(Elems(Top.p), Top.i + 1) + 1
    BY <2>2, <2>3, LeftIs
  <2> QED  BY <2>1, <2>2, <2>3, <2>4, <2>5
<1>5. ASSUME stack # << >>, Top.f = "complex", NEW out \in Seq(Tokens),
             ctl' = Continue, stack' = ToTop([Top EXCEPT !.i = @ + 1, !.out = out])
      PROVE  WorkLeft' = Left(Elems(Top.p), Top.i + 1) + 2 + Waiting(Pop)
  <2> DEFINE new == [Top EXCEPT !.i = @ + 1, !.out = out]
  <2>1. new \in Frames  BY <1>4, <1>5, FrameChanged
  <2>2. new.f = "complex" /\ new.p = Top.p /\ new.i = Top.i + 1
    BY <1>4, <1>5, <2>1, FramesTyped DEF Frames
  <2>3. Needs(new, 0) = Left(Elems(Top.p), Top.i + 1) + 2
    <3>1. Top.i + 1 + 0 = Top.i + 1  BY <1>4, <1>5
    <3> QED  BY <2>2, <3>1 DEF Needs
  <2> HIDE DEF new
  <2>4. stack' = ToTop(new)  BY <1>5 DEF new
  <2> QED  BY <1>5, <2>1, <2>3, <2>4, WorkAfter
<1>6. CASE AppendText
  <2>1. /\ ctl = Continue /\ stack # << >> /\ Top.f = "complex"
        /\ Top.i <= Len(Elems(Top.p)) /\ UNCHANGED placeables
        /\ \/ ctl'.m = "panic"
           \/ /\ ctl' = Continue
              /\ stack' = ToTop([Top EXCEPT !.i = @ + 1, !.out = Append(@, "text")])
    BY <1>6, ModesAre DEF AppendText, AtElement, In, scope
  <2>2. CASE ctl'.m = "panic"  BY <2>1, <2>2, ModesAre, CallEnds DEF Running
  <2>3. CASE ctl' = Continue /\ stack' = ToTop([Top EXCEPT !.i = @ + 1, !.out = Append(@, "text")])
    <3>1. Append(Top.out, "text") \in Seq(Tokens)
      BY <1>4, <2>1, AppendProperties, TokensTyped
    <3>2. WorkLeft' = Left(Elems(Top.p), Top.i + 1) + 2 + Waiting(Pop)
      BY <1>5, <2>1, <2>3, <3>1
    <3>3. WorkLeft = Left(Elems(Top.p), Top.i) + 2 + Waiting(Pop)
      <4>1. Top.i + 0 = Top.i  BY <1>4, <2>1
      <4> QED  BY <1>4, <2>1, <4>1, WorkIs
    <3> QED  BY <1>4, <2>1, <3>2, <3>3, Falls
  <2> QED  BY <2>1, <2>2, <2>3
<1>7. CASE ExpandPlaceable \/ TooManyPlaceables
  <2>1. placeables' = placeables + 1 /\ placeables \in Nat
    BY <1>7, ResolverAssumption DEF ExpandPlaceable, TooManyPlaceables, Counted, CallInv, TypeOK
  <2> QED  BY <2>1 DEF Progress
<1>8. CASE WritePlaceable
  <2>1. /\ ctl.m = "give" /\ ctl # Continue /\ stack # << >> /\ Top.f = "complex"
        /\ UNCHANGED placeables /\ Running /\ ctl.v \in Values
        /\ \/ ctl'.m = "panic"
           \/ /\ ctl' = Continue
              /\ stack' = ToTop([Top EXCEPT !.i = @ + 1,
                                 !.out = @ \o Rendered(ctl.v) \o Close(ctl.v)])
    BY <1>8, ModesAre, ControlsTyped DEF WritePlaceable, In, Running, CallInv, TypeOK
  <2>2. CASE ctl'.m = "panic"  BY <2>1, <2>2, CallEnds
  <2>3. CASE ctl' = Continue /\ stack' = ToTop([Top EXCEPT !.i = @ + 1,
                                 !.out = @ \o Rendered(ctl.v) \o Close(ctl.v)])
    <3>1. Top.out \o Rendered(ctl.v) \o Close(ctl.v) \in Seq(Tokens)
      <4>1. Rendered(ctl.v) \in Seq(Tokens)  BY <2>1, RenderedTyped
      <4>2. Close(ctl.v) \in Seq(Tokens)  BY TokensTyped DEF Close
      <4> QED  BY <1>4, <2>1, <4>1, <4>2, ConcatProperties
    <3>2. WorkLeft' = Left(Elems(Top.p), Top.i + 1) + 2 + Waiting(Pop)
      BY <1>5, <2>1, <2>3, <3>1
    <3>3. WorkLeft = 1 + Waiting(Pop) + Left(Elems(Top.p), Top.i + 1) + 2
      BY <1>4, <2>1, WorkIs
    <3> QED  BY <1>4, <2>1, <3>2, <3>3, Falls
  <2> QED  BY <2>1, <2>2, <2>3
<1>9. CASE FinishPattern
  <2>1. /\ ctl = Continue /\ stack # << >> /\ Top.f = "complex"
        /\ UNCHANGED placeables /\ ctl'.m = "give" /\ stack' = Pop
    BY <1>9, ModesAre DEF FinishPattern, In
  <2>2. WorkLeft' = 1 + Waiting(Pop)  BY <2>1, WorkAfter
  <2>3. WorkLeft = Left(Elems(Top.p), Top.i) + 2 + Waiting(Pop)
    <3>1. Top.i + 0 = Top.i  BY <1>4, <2>1
    <3> QED  BY <1>4, <2>1, <3>1, WorkIs
  <2> QED  BY <1>4, <2>1, <2>2, <2>3, Falls
<1> QED  BY <1>1, <1>2, <1>3, <1>6, <1>7, <1>8, <1>9

(* What evaluating an expression pays for. *)
LEMMA ExpressionPays ==
  ASSUME CallInv, ctl.m = "eval"
  PROVE  LET c == Cost[Depth[ctl.e] - 1] + 1 IN
         /\ ctl.e \in Exprs /\ c \in Nat /\ Size * c \in Nat
         /\ WorkLeft = Size * c + c + Size + ResolveCost + 2 + Waiting(stack)
         /\ WorkLeft \in Nat
<1> DEFINE c == Cost[Depth[ctl.e] - 1] + 1
<1>1. ctl.e \in Exprs  BY ControlsTyped DEF CallInv, TypeOK
<1>2. c \in Nat /\ Size \in Nat /\ Size * c \in Nat /\ (Size + 1) * c = Size * c + c
  <2>1. c \in Nat /\ Size \in Nat  BY <1>1, ProgramIs
  <2> HIDE DEF c
  <2> QED  BY <2>1, Products
<1>3. WorkLeft = (Size + 1) * c + Size + ResolveCost + 2 + Waiting(stack)
  BY <1>1, WorkIs, ProgramIs
<1>4. WorkLeft \in Nat  BY ModesAre, WorkTyped DEF Running, Continue
<1> HIDE DEF c
<1>5. WorkLeft = Size * c + c + Size + ResolveCost + 2 + Waiting(stack)
  BY <1>2, <1>3
<1> QED  BY <1>1, <1>2, <1>4, <1>5 DEF c

LEMMA ExpressionsProgress ==
  ASSUME CallInv,
         \/ EvalLiteral \/ EvalParameter \/ EvalArgument \/ EvalMessage
         \/ EvalTerm \/ EvalFunction \/ EvalSelect
  PROVE  Progress
<1> DEFINE c == Cost[Depth[ctl.e] - 1] + 1
           w == Waiting(stack)
<1>1. ctl.m = "eval" /\ UNCHANGED placeables
  BY DEF EvalLiteral, EvalParameter, EvalArgument, EvalMessage, EvalTerm, EvalFunction,
         EvalSelect, At, scope
<1>2. /\ Size \in Nat /\ ResolveCost = Size + 3 /\ w \in Nat
      /\ ctl.e \in Exprs /\ c \in Nat /\ Size * c \in Nat /\ WorkLeft \in Nat
      /\ WorkLeft = Size * c + c + Size + ResolveCost + 2 + w
  BY <1>1, ProgramIs, StackWaits, ExpressionPays
<1>3. ASSUME UNCHANGED stack, ctl'.m = "give" \/ \E p : ctl' = Resolve(p)
      PROVE  Progress
  <2>1. WorkLeft' = 1 + w \/ WorkLeft' = ResolveCost + w  BY <1>3, WorkAfter
  <2> DEFINE x == Size * c
  <2> HIDE DEF c, w, x
  <2>2. x \in Nat /\ WorkLeft = x + c + Size + ResolveCost + 2 + w  BY <1>2 DEF x
  <2> QED  BY <1>1, <1>2, <2>1, <2>2, Falls
<1>4. ASSUME ctl.e \in Of({"term", "function"}), NEW p \in Patterns \cup {NoPattern},
             ctl' = Continue, stack' = Push(ArgsFrame(ctl.e, p))
      PROVE  Progress
  <2> DEFINE fr == ArgsFrame(ctl.e, p)
             n == Len(ctl.e.pos)
  <2>1. fr \in Frames /\ WorkLeft' = Needs(fr, 0) + w  BY <1>4, FramesAre, WorkAfter
  <2>2. n \in Nat /\ n <= Size /\ ctl.e.pos \in Seq(Exprs)  BY <1>4, ProgramIs
  <2>3. Left(ctl.e.pos, 1) = n  BY <2>2, LeftIs
  <2>4. Needs(fr, 0) = n * c + ResolveCost + 2
    <3>1. /\ Len(<< >>) + 1 + 0 = 1
          /\ fr.f = "args" /\ fr.e = ctl.e /\ fr.vals = << >>
      BY DEF ArgsFrame
    <3> QED  BY <2>3, <3>1 DEF Needs
  <2> DEFINE x == Size * c
             y == n * c
  <2>5. x \in Nat /\ y \in Nat /\ y <= x
    <3>1. Size \in Nat /\ n \in Nat /\ c \in Nat /\ n <= Size  BY <1>2, <2>2
    <3> HIDE DEF c, n
    <3> QED  BY <3>1, Products
  <2> HIDE DEF x, y, c, w, n, fr
  <2>6. WorkLeft = x + c + Size + ResolveCost + 2 + w  BY <1>2 DEF x
  <2>7. WorkLeft' = y + ResolveCost + 2 + w  BY <2>1, <2>4 DEF y
  <2>8. y + ResolveCost + 2 + w \in Nat /\ y + ResolveCost + 2 + w < WorkLeft
    <3>1. c \in Nat /\ Size \in Nat /\ w \in Nat /\ ResolveCost \in Nat  BY <1>2
    <3> HIDE <1>2
    <3>2. y + ResolveCost + 2 + w \in Nat  BY <2>5, <3>1
    <3>3. y + ResolveCost + 2 + w < x + c + Size + ResolveCost + 2 + w \/ (c = 0 /\ Size = 0)
      BY <2>5, <3>1
    <3>4. c # 0
      <4>1. Cost[Depth[ctl.e] - 1] \in Nat  BY <1>2, ProgramIs
      <4> QED  BY <4>1 DEF c
    <3> QED  BY <2>5, <2>6, <3>1, <3>2, <3>3, <3>4
  <2> QED  BY <1>1, <1>2, <2>7, <2>8, Falls
<1>5. CASE EvalLiteral \/ EvalParameter \/ EvalArgument \/ EvalMessage
  <2>1. UNCHANGED stack /\ (ctl'.m = "give" \/ \E p : ctl' = Resolve(p))
    BY <1>5, ModesAre
       DEF EvalLiteral, EvalParameter, EvalArgument, EvalMessage, Missed, scope
  <2> QED  BY <1>3, <2>1
<1>6. CASE EvalTerm
  <2>1. ctl.e \in Of({"term", "function"}) /\ ctl.e.name \in Ids
    BY <1>2, <1>6, ProgramAssumption DEF EvalTerm, At, Of
  <2> DEFINE def == defs["term"][ctl.e.name]
             attr == ctl.e.attr
  <2>2. CASE def = Absent \/ (attr # "" /\ attr \notin DOMAIN def.attrs)
    <3>1. UNCHANGED stack /\ ctl'.m = "give"
      BY <1>6, <2>2, ModesAre DEF EvalTerm, Missed
    <3> QED  BY <1>3, <3>1
  <2>3. CASE ~(def = Absent \/ (attr # "" /\ attr \notin DOMAIN def.attrs))
    <3>1. ctl' = Continue /\ stack' = Push(ArgsFrame(ctl.e, Named(def, attr)))
      BY <1>6, <2>3 DEF EvalTerm
    <3>2. Named(def, attr) \in Patterns \cup {NoPattern}
      BY <2>1, <2>3, NamedTyped DEF CallInv, Kinds
    <3> QED  BY <1>4, <2>1, <3>1, <3>2
  <2> QED  BY <2>2, <2>3
<1>7. CASE EvalFunction
  <2>1. ctl.e \in Of({"term", "function"})  BY <1>2, <1>7 DEF EvalFunction, At, Of
  <2>2. \/ UNCHANGED stack /\ ctl'.m = "give"
        \/ ctl' = Continue /\ stack' = Push(ArgsFrame(ctl.e, NoPattern))
    BY <1>7, ModesAre DEF EvalFunction, Missed
  <2> QED  BY <1>3, <1>4, <2>1, <2>2
<1>8. CASE EvalSelect
  <2>1. ctl.e \in Of({"select"})  BY <1>2, <1>8 DEF EvalSelect, At, Of
  <2> DEFINE fr == SelectorFrame(ctl.e)
             s == Cost[Depth[ctl.e.sel]]
  <2>2. fr \in Frames /\ stack' = Push(fr) /\ ctl' = Eval(ctl.e.sel)
    BY <1>8, <2>1, FramesAre DEF EvalSelect
  <2>3. Needs(fr, 1) = Size + ResolveCost + 1  BY DEF Needs, SelectorFrame
  <2>4. s \in Nat /\ s + 1 <= c
    <3>1. /\ s \in Nat /\ Cost[Depth[ctl.e] - 1] \in Nat
          /\ s <= Cost[Depth[ctl.e] - 1]
      BY <2>1, ProgramIs
    <3> HIDE DEF s
    <3> QED  BY <3>1
  <2>5. WorkLeft' = s + w + Size + ResolveCost + 1
    <3>1. WorkLeft' = s + Waiting(stack')  BY <2>2, WorkAfter
    <3>2. Waiting(stack') = w + Needs(fr, 1)  BY <2>2, StackWaits
    <3> HIDE DEF fr, s, w
    <3> QED  BY <1>2, <2>3, <2>4, <3>1, <3>2
  <2> DEFINE x == Size * c
  <2> HIDE DEF x, c, w, s
  <2>6. x \in Nat /\ WorkLeft = x + c + Size + ResolveCost + 2 + w  BY <1>2 DEF x
  <2> QED  BY <1>1, <1>2, <2>4, <2>5, <2>6, Falls
<1> QED  BY <1>5, <1>6, <1>7, <1>8

LEMMA ArgumentsProgress ==
  ASSUME CallInv,
         \/ EvalPositional \/ TakePositional \/ EnterTerm \/ LeaveTerm
         \/ CallNUMBER \/ CallDATETIME \/ CallFunction
  PROVE  Progress
<1> DEFINE pos == Top.e.pos
           n == Len(Top.vals)
           c == Cost[Depth[Top.e] - 1] + 1
           w == Waiting(Pop)
<1>0. ResolveCost \in Nat  BY ProgramIs
<1>1. /\ stack # << >> /\ UNCHANGED placeables
      /\ Top.f = "args" \/ LeaveTerm
  BY DEF EvalPositional, TakePositional, EnterTerm, LeaveTerm, CallNUMBER, CallDATETIME,
         CallFunction, Calling, In, scope
<1>2. Top \in Frames /\ w \in Nat /\ Waiting(stack) = w + Needs(Top, 1)
  BY <1>1, StackWaits
<1>3. ASSUME Top.f = "args"
      PROVE  /\ Top.e \in Of({"term", "function"}) /\ Top.p \in Patterns \cup {NoPattern}
             /\ pos \in Seq(Exprs) /\ Len(pos) \in Nat
             /\ n \in Nat /\ n + 1 \in Nat \ {0} /\ n + 2 \in Nat \ {0} /\ c \in Nat
             /\ Left(pos, n + 1) \in Nat /\ Left(pos, n + 2) \in Nat
             /\ n < Len(pos) => Left(pos, n + 1) = Left(pos, n + 2) + 1
             /\ Left(pos, n + 1) * c \in Nat /\ Left(pos, n + 2) * c \in Nat
             /\ Needs(Top, 0) = Left(pos, n + 1) * c + ResolveCost + 2
             /\ Needs(Top, 1) = Left(pos, n + 2) * c + ResolveCost + 2
  <2>1. /\ Top.e \in Of({"term", "function"}) /\ Top.p \in Patterns \cup {NoPattern}
        /\ Top.vals \in Seq(Values)
    BY <1>2, <1>3, FramesTyped
  <2>2. pos \in Seq(Exprs) /\ c \in Nat
    <3>1. pos \in Seq(Exprs) /\ Cost[Depth[Top.e] - 1] \in Nat  BY <2>1, ProgramIs
    <3> QED  BY <3>1
  <2>3. /\ n \in Nat /\ n + 1 \in Nat \ {0} /\ n + 2 \in Nat \ {0} /\ n + 1 + 1 = n + 2
        /\ n + 1 + 0 = n + 1 /\ Len(pos) \in Nat
    BY <2>1, <2>2
  <2>4. /\ Needs(Top, 0) = Left(pos, n + 1) * c + ResolveCost + 2
        /\ Needs(Top, 1) = Left(pos, n + 2) * c + ResolveCost + 2
    BY <1>3, <2>3 DEF Needs
  <2> HIDE DEF pos, c, n
  <2>5. /\ Left(pos, n + 1) \in Nat /\ Left(pos, n + 2) \in Nat
        /\ n + 1 <= Len(pos) => Left(pos, n + 1) = Left(pos, n + 2) + 1
    BY <2>2, <2>3, LeftIs
  <2>6. n < Len(pos) => n + 1 <= Len(pos)  BY <2>3
  <2> QED  BY <2>1, <2>2, <2>3, <2>4, <2>5, <2>6, Products
<1>4. CASE EvalPositional
  <2> DEFINE e == pos[n + 1]
             x == Left(pos, n + 2) * c
             s == Cost[Depth[e]]
  <2>1. /\ ctl = Continue /\ Top.f = "args" /\ n < Len(pos) /\ ctl' = Eval(e)
        /\ UNCHANGED stack
    BY <1>4 DEF EvalPositional, In, ArgumentsLeft
  <2>2. s \in Nat /\ s + 1 <= c
    <3>1. n + 1 \in 1..Len(pos)  BY <1>3, <2>1
    <3>2. e \in Exprs  BY <1>3, <2>1, <3>1, ElementTyped
    <3>3. s \in Nat /\ Cost[Depth[Top.e] - 1] \in Nat /\ s <= Cost[Depth[Top.e] - 1]
      <4>1. Top.e \in Of({"term", "function"}) /\ Top.e \in Exprs
        BY <1>3, <2>1, ProgramIs
      <4> QED  BY <3>1, <3>2, <4>1, ProgramIs
    <3> HIDE DEF s
    <3> QED  BY <3>3
  <2>3. WorkLeft' = s + w + x + ResolveCost + 2
    <3>1. WorkLeft' = s + Waiting(stack)  BY <2>1, WorkAfter
    <3>2. Waiting(stack) = w + Needs(Top, 1) /\ Needs(Top, 1) = x + ResolveCost + 2
      BY <1>2, <1>3, <2>1
    <3>3. x \in Nat  BY <1>3, <2>1
    <3> HIDE DEF s, w, x
    <3> QED  BY <1>0, <1>2, <2>2, <3>1, <3>2, <3>3
  <2>4. x \in Nat /\ c \in Nat /\ WorkLeft = x + c + ResolveCost + 2 + w
    <3>1. WorkLeft = Left(pos, n + 1) * c + ResolveCost + 2 + w  BY <1>3, <2>1, WorkIs
    <3>2. Left(pos, n + 1) * c = x + c
      <4>1. /\ Left(pos, n + 1) = Left(pos, n + 2) + 1
            /\ Left(pos, n + 2) \in Nat /\ c \in Nat
        BY <1>3, <2>1
      <4> DEFINE l == Left(pos, n + 2)
      <4> HIDE DEF c
      <4>2. (l + 1) * c = l * c + c  BY <4>1, Products
      <4> QED  BY <4>1, <4>2
    <3> QED  BY <1>3, <2>1, <3>1, <3>2
  <2> HIDE DEF s, w, x, c
  <2> QED  BY <1>0, <1>1, <1>2, <2>2, <2>3, <2>4, Falls
<1>5. CASE TakePositional
  <2> DEFINE fr == [Top EXCEPT !.vals = Append(@, ctl.v)]
             x == Left(pos, n + 2) * c
  <2>1. /\ ctl.m = "give" /\ Top.f = "args" /\ ctl.v \in Values
        /\ ctl' = Continue /\ stack' = ToTop(fr)
    BY <1>5, ControlsTyped DEF TakePositional, In, CallInv, TypeOK
  <2>2. Top.vals \in Seq(Values)  BY <1>2, <2>1, FramesTyped
  <2>3. Append(Top.vals, ctl.v) \in Seq(Values) /\ Len(Append(Top.vals, ctl.v)) = n + 1
    BY <2>1, <2>2, AppendProperties
  <2>4. fr \in Frames  BY <1>2, <2>1, <2>3, FrameChanged
  <2>5. Needs(fr, 0) = x + ResolveCost + 2
    <3>1. fr.f = "args" /\ fr.e = Top.e /\ Len(fr.vals) = n + 1
      BY <1>2, <2>1, <2>3, <2>4, FramesTyped DEF Frames
    <3>2. n + 1 + 1 + 0 = n + 2  BY <1>3, <2>1
    <3> HIDE DEF fr
    <3> QED  BY <3>1, <3>2 DEF Needs
  <2> HIDE DEF fr
  <2>6. WorkLeft' = x + ResolveCost + 2 + w  BY <1>1, <2>1, <2>4, <2>5, WorkAfter
  <2>7. WorkLeft = 1 + (w + (x + ResolveCost + 2))  BY <1>2, <1>3, <2>1, WorkIs
  <2>8. x \in Nat  BY <1>3, <2>1
  <2> HIDE DEF x, w
  <2> QED  BY <1>0, <1>1, <1>2, <2>6, <2>7, <2>8, Falls
<1>6. CASE EnterTerm
  <2> DEFINE fr == TermFrame(Top.e)
             x == Left(pos, n + 1) * c
  <2>1. /\ ctl = Continue /\ Top.f = "args" /\ Top.e.t = "term"
        /\ stack' = ToTop(fr) /\ ctl' = Resolve(Top.p)
    BY <1>6 DEF EnterTerm, Calling, In
  <2>2. fr \in Frames
    <3>1. Top.e \in Of({"term"})  BY <1>3, <2>1 DEF Of
    <3> QED  BY <3>1, FramesAre
  <2>3. Needs(fr, 1) = 1  BY DEF Needs, TermFrame
  <2>4. WorkLeft' = ResolveCost + (w + 1)
    BY <1>1, <2>1, <2>2, <2>3, StackWaits, WorkAfter
  <2>5. x \in Nat /\ WorkLeft = x + ResolveCost + 2 + w  BY <1>3, <2>1, WorkIs
  <2> HIDE DEF x, w
  <2> QED  BY <1>0, <1>1, <1>2, <2>4, <2>5, Falls
<1>7. CASE LeaveTerm
  <2>1. ctl.m = "give" /\ Top.f = "term" /\ ctl'.m = "give" /\ stack' = Pop
    BY <1>7 DEF LeaveTerm, In
  <2>2. Needs(Top, 1) = 1  BY <2>1 DEF Needs
  <2>3. WorkLeft' = 1 + w /\ WorkLeft = 1 + (w + 1)
    BY <1>2, <2>1, <2>2, WorkIs, WorkAfter
  <2> HIDE DEF w
  <2> QED  BY <1>1, <1>2, <2>3, Falls
<1>8. CASE CallNUMBER \/ CallDATETIME \/ CallFunction
  <2> DEFINE x == Left(pos, n + 1) * c
  <2>1. /\ ctl = Continue /\ Top.f = "args" /\ stack' = Pop
        /\ ctl'.m \in {"give", "panic"}
    BY <1>8, ModesAre DEF CallNUMBER, CallDATETIME, CallFunction, Calling, In, Answer,
                          Failed, NilResult, Missed
  <2>2. CASE ctl'.m = "give"
    <3>1. WorkLeft' = 1 + w  BY <2>1, <2>2, WorkAfter
    <3>2. x \in Nat /\ WorkLeft = x + ResolveCost + 2 + w  BY <1>3, <2>1, WorkIs
    <3> HIDE DEF x, w
    <3> QED  BY <1>0, <1>1, <1>2, <3>1, <3>2, Falls
  <2>3. CASE ctl'.m = "panic"  BY <1>1, <2>1, <2>3, ModesAre, CallEnds DEF Running
  <2> QED  BY <2>1, <2>2, <2>3
<1> QED  BY <1>4, <1>5, <1>6, <1>7, <1>8

LEMMA SelectsProgress ==
  ASSUME CallInv, TakeSelector \/ TryVariant \/ NoVariantMatched
  PROVE  Progress
<1> DEFINE w == Waiting(Pop)
           vs == Top.e.variants
<1>0. Size \in Nat /\ ResolveCost = Size + 3  BY ProgramIs
<1>1. /\ stack # << >> /\ UNCHANGED placeables
      /\ IF TakeSelector THEN ctl.m = "give" /\ Top.f = "selector"
         ELSE ctl = Continue /\ Top.f = "variants"
  BY ModesAre DEF TakeSelector, TryVariant, NoVariantMatched, AtVariant, In, scope
<1>2. Top \in Frames /\ w \in Nat /\ Waiting(stack) = w + Needs(Top, 1)
  BY <1>1, StackWaits
<1>3. /\ Top.e \in Of({"select"}) /\ vs \in Seq([key : Values, p : Patterns])
      /\ Len(vs) \in Nat /\ Len(vs) <= Size
  <2>1. Top.e \in Of({"select"})  BY <1>1, <1>2, FramesTyped
  <2>2. vs \in Seq([key : Values, p : Patterns]) /\ Len(vs) <= Size  BY <2>1, ProgramIs
  <2> QED  BY <2>1, <2>2
<1>4. CASE TakeSelector
  <2>1. WorkLeft = 1 + (w + (Size + ResolveCost + 1))
    BY <1>1, <1>2, <1>4, WorkIs DEF Needs
  <2> DEFINE given == IF Late(ctl.v) THEN Cleared(ctl.v) ELSE ctl.v
             fr == VariantFrame(Top.e, given)
  <2>2. \/ stack' = Pop /\ ctl' = Resolve(Default(Top.e))
        \/ stack' = ToTop(fr) /\ ctl' = Continue
    BY <1>4 DEF TakeSelector
  <2>3. CASE stack' = Pop /\ ctl' = Resolve(Default(Top.e))
    <3>1. WorkLeft' = ResolveCost + w  BY <2>3, WorkAfter
    <3> HIDE DEF w
    <3> QED  BY <1>0, <1>1, <1>2, <2>1, <3>1, Falls
  <2>4. CASE stack' = ToTop(fr) /\ ctl' = Continue
    <3>1. fr \in Frames
      <4>1. ctl.v \in Values  BY <1>1, <1>4, ControlsTyped DEF CallInv, TypeOK
      <4>2. given \in Values
        <5>1. CASE Late(ctl.v)
          <6> DEFINE V == [k : {"number"}, n : Int, optErr : BOOLEAN, valid : BOOLEAN]
          <6>1. ctl.v.k = "number"  BY <5>1 DEF Late, HasOptErr
          <6>2. ctl.v \in V  BY <4>1, <6>1 DEF Values, Custom
          <6>3. Cleared(ctl.v) \in V  BY <6>2 DEF Cleared
          <6>4. Cleared(ctl.v) \in Values  BY <6>3 DEF Values
          <6> QED  BY <5>1, <6>4
        <5>2. CASE ~Late(ctl.v)  BY <4>1, <5>2
        <5> QED  BY <5>1, <5>2
      <4> QED  BY <1>3, <4>2, FramesAre
    <3>2. Needs(fr, 0) = Left(vs, 1) + ResolveCost + 1
      <4>1. fr.f = "variants" /\ fr.e = Top.e /\ fr.i = 1  BY DEF VariantFrame
      <4> HIDE DEF fr
      <4> QED  BY <4>1 DEF Needs
    <3>3. Left(vs, 1) = Len(vs)
      <4>1. 1 \in Nat \ {0}  OBVIOUS
      <4> QED  BY <1>3, <4>1, LeftIs
    <3> HIDE DEF fr
    <3>4. WorkLeft' = Len(vs) + ResolveCost + 1 + w
      BY <1>1, <2>4, <3>1, <3>2, <3>3, WorkAfter
    <3> HIDE DEF w, vs
    <3> QED  BY <1>0, <1>1, <1>2, <1>3, <2>1, <3>4, Falls
  <2> QED  BY <2>2, <2>3, <2>4
<1>5. ASSUME Top.f = "variants"
      PROVE  /\ Top.i \in Nat \ {0} /\ Top.i + 1 \in Nat \ {0}
             /\ Left(vs, Top.i) \in Nat /\ Left(vs, Top.i + 1) \in Nat
             /\ Top.i <= Len(vs) => Left(vs, Top.i) = Left(vs, Top.i + 1) + 1
             /\ Needs(Top, 0) = Left(vs, Top.i) + ResolveCost + 1
  <2>1. Top.i \in Nat \ {0}  BY <1>2, <1>5, FramesTyped
  <2>2. Top.i + 1 \in Nat \ {0}  BY <2>1
  <2>3. Needs(Top, 0) = Left(vs, Top.i) + ResolveCost + 1  BY <1>5 DEF Needs
  <2> QED  BY <1>3, <2>1, <2>2, <2>3, LeftIs
<1>6. CASE TryVariant \/ NoVariantMatched
  <2> DEFINE fr == [Top EXCEPT !.i = NextVariant]
             x == Left(vs, Top.i)
  <2>1. ctl = Continue /\ Top.f = "variants"
    BY <1>6, ModesAre DEF TryVariant, NoVariantMatched, AtVariant, In
  <2>2. x \in Nat /\ WorkLeft = x + ResolveCost + 1 + w  BY <1>5, <2>1, WorkIs
  <2>3. \/ ctl'.m = "panic"
        \/ stack' = Pop /\ \E p : ctl' = Resolve(p)
        \/ Top.i <= Len(vs) /\ ctl' = Continue /\ stack' = ToTop(fr)
    BY <1>6, <2>1, ModesAre DEF TryVariant, NoVariantMatched
  <2>4. CASE ctl'.m = "panic"  BY <1>1, <2>1, <2>4, ModesAre, CallEnds DEF Running
  <2>5. CASE stack' = Pop /\ \E p : ctl' = Resolve(p)
    <3>1. WorkLeft' = ResolveCost + w  BY <2>5, WorkAfter
    <3> HIDE DEF w, x
    <3> QED  BY <1>0, <1>1, <1>2, <2>2, <3>1, Falls
  <2>6. CASE Top.i <= Len(vs) /\ ctl' = Continue /\ stack' = ToTop(fr)
    <3>1. fr \in Frames  BY <1>2, <1>5, <2>1, FrameChanged DEF NextVariant
    <3>2. fr.f = "variants" /\ fr.e = Top.e /\ fr.i = Top.i + 1
      BY <1>2, <2>1, <3>1, FramesTyped DEF Frames, NextVariant
    <3> HIDE DEF fr
    <3>3. Needs(fr, 0) = Left(vs, Top.i + 1) + ResolveCost + 1  BY <3>2 DEF Needs
    <3>4. WorkLeft' = Left(vs, Top.i + 1) + ResolveCost + 1 + w
      BY <1>1, <2>6, <3>1, <3>3, WorkAfter
    <3>5. x = Left(vs, Top.i + 1) + 1 /\ Left(vs, Top.i + 1) \in Nat  BY <1>5, <2>1, <2>6
    <3> HIDE DEF w, x, vs
    <3> QED  BY <1>0, <1>1, <1>2, <2>2, <3>4, <3>5, Falls
  <2> QED  BY <2>3, <2>4, <2>5, <2>6
<1> QED  BY <1>4, <1>6

LEMMA NextProgress ==
  CallInv /\ [Next]_vars /\ Running => UNCHANGED <<ctl, stack, scope>> \/ Progress
<1> SUFFICES ASSUME CallInv, [Next]_vars, Running
             PROVE  UNCHANGED <<ctl, stack, scope>> \/ Progress
  OBVIOUS
<1>1. CASE UNCHANGED vars \/ AddResource  BY <1>1 DEF vars, AddResource
<1>2. CASE Call \/ Return
  BY <1>2, ModesAre DEF Call, FormatText, FormatNil, FormatComplex, Return, Running
<1>3. CASE Within \/ TooManyPlaceables
  BY <1>3, PatternsProgress, ExpressionsProgress, ArgumentsProgress, SelectsProgress
     DEF Within
<1> QED  BY <1>1, <1>2, <1>3 DEF Next, Work, Within

(* Formatting cannot go on for ever: every step of the resolver takes one  *)
(* of the finitely many placeables (MaxPlaceables, resolver.go) or leaves  *)
(* less work, in any program the parser can have made, whatever cycles its *)
(* references form, whatever other goroutines put in place of a message    *)
(* that is being resolved, and however user code fails.                    *)
THEOREM ResolverProgress == Spec => EveryStepCounts
<1>1. CallInv /\ [Next]_vars =>
        [Running => \/ UNCHANGED <<ctl, stack, scope>>
                    \/ placeables' > placeables
                    \/ placeables' = placeables /\ WorkLeft' \in 0..WorkLeft - 1]_vars
  BY NextProgress DEF Progress
<1> QED  BY InitCall, NextCall, <1>1, PTL DEF Spec, EveryStepCounts
=============================================================================
