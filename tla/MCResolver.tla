------------------------------ MODULE MCResolver ------------------------------
(* Small programs for the resolver: patterns and the entries that hold     *)
(* them, as the runtime parser would produce them.                         *)
EXTENDS Resolver, FiniteSetsExt, Functions, TLC

CONSTANTS nil       \* the value of NoPattern

(* Expressions. *)
Lit(v)                == [t |-> "literal", v |-> v]
Var(n)                == [t |-> "variable", name |-> n]
Msg(n, attr)          == [t |-> "message", name |-> n, attr |-> attr]
Trm(n, attr, pos, nm) == [t |-> "term", name |-> n, attr |-> attr, pos |-> pos, named |-> nm]
Fun(n, pos, nm)       == [t |-> "function", name |-> n, pos |-> pos, named |-> nm]
Sel(e, vs, star)      == [t |-> "select", sel |-> e, variants |-> vs, star |-> star]
Variant(key, p)       == [key |-> key, p |-> p]

Complex(elems) == [t |-> "complex", elems |-> elems]
NoNames        == [n \in {} |-> n]
Num1           == Num(1, FALSE, TRUE)

Entry(kind, id, def) == [kind |-> kind, id |-> id, def |-> def]
Value(p)             == [value |-> p, attrs |-> NoNames]

(* The expressions of a program, arguments and selectors included. *)
Operands(e) ==
  CASE e.t \in {"term", "function"} -> {e.pos[i] : i \in DOMAIN e.pos}
    [] e.t = "select"               -> {e.sel}
    [] OTHER                        -> {}
Elements(body) ==
  (UNION {{body[p].elems[i] : i \in DOMAIN body[p].elems} :
            p \in {q \in DOMAIN body : body[q].t = "complex"}}) \ {Text}
Closed(es) == es \cup UNION {Operands(e) : e \in es}
AllExprs(body) == Closed(Closed(Closed(Elements(body))))

(* How deep operands nest, and the longest sequence of a program. *)
DepthIn(exprs) ==
  LET depth[e \in exprs] == 1 + Max({0} \cup {depth[o] : o \in Operands(e)}) IN depth
Longest(body, exprs) ==
  Max({Len(body[p].elems) : p \in {q \in DOMAIN body : body[q].t = "complex"}}
        \cup {Len(e.pos) : e \in {x \in exprs : x.t \in {"term", "function"}}}
        \cup {Len(e.variants) : e \in {x \in exprs : x.t = "select"}}
        \cup Range(DepthIn(exprs)))

DefsIn(stores, resources) ==
  (UNION {{d[k][id] : k \in Kinds, id \in DOMAIN d["message"]} : d \in stores}
     \cup UNION {{res[i].def : i \in DOMAIN res} : res \in resources}) \ {Absent}

Works == [formatter |-> {"ok"}, transform |-> {"ok"}, custom |-> {"ok"},
          function |-> {"ok"}, plural |-> {"one"}]

-----------------------------------------------------------------------------
(* References: two messages and two terms that other goroutines rewrite    *)
(* into and out of cycles, mutual recursion of terms with parameters,      *)
(* attributes, missing entries and undefined parameters.                   *)
RefBody ==
  [hello  |-> Complex(<<Text, Msg("m2", ""), Trm("t1", "", <<Var("x")>>, [x |-> Num1])>>),
   again  |-> Complex(<<Msg("m1", ""), Msg("m1", "")>>),
   single |-> Complex(<<Trm("t2", "", << >>, [y |-> Num1])>>),
   plain  |-> Text,
   label  |-> Complex(<<Var("x")>>),
   brand  |-> Complex(<<Var("x"), Trm("t2", "", << >>, [y |-> Num1]), Var("x")>>),
   case   |-> Complex(<<Var("y")>>),
   loop   |-> Complex(<<Trm("t1", "case", <<Trm("t2", "case", << >>, NoNames)>>, NoNames), Text>>),
   pick   |-> Complex(<<Sel(Var("x"), <<Variant(Str(<<"one">>), "again"),
                                        Variant(Num1, "plain")>>, 2)>>),
   none   |-> Complex(<< >>)]

RefExprs == AllExprs(RefBody)
RefDepth == DepthIn(RefExprs)
RefSize  == Longest(RefBody, RefExprs)

RefStore ==
  [kind \in Kinds |->
    IF kind = "message"
      THEN ("m1" :> Value("hello") @@ "m2" :> Absent @@ "t1" :> Absent @@ "t2" :> Absent)
      ELSE ("m1" :> Absent @@ "m2" :> Absent
            @@ "t1" :> [value |-> "brand", attrs |-> [case |-> "loop"]]
            @@ "t2" :> Value("case"))]

RefResources ==
  {<<Entry("message", "m2", Value("again")), Entry("term", "t2", Value("loop"))>>,
   <<Entry("message", "m1", [value |-> nil, attrs |-> [title |-> "label"]])>>,
   <<Entry("message", "m2", Value("pick"))>>,
   <<Entry("message", "m2", Value("single")), Entry("term", "t2", Value("none"))>>,
   <<Entry("message", "m1", Value("hello")), Entry("term", "t2", Value("case"))>>}

(* The parser accepts a term that has only attributes; its value is nil.   *)
ValuelessTerm == {<<Entry("term", "t1", [value |-> nil, attrs |-> [case |-> "loop"]])>>}
ValuelessDefs == DefsIn({RefStore}, ValuelessTerm)

AllResources == RefResources \cup ValuelessTerm

RefInitial == {RefStore}
RefDefs    == DefsIn(RefInitial, AllResources)
RefArgs    == {NoNames, [x |-> Num1], [x |-> Str(<<"a">>)], [x |-> Unsupported]}

-----------------------------------------------------------------------------
(* User code: custom functions, formatters, plural rules, the transform    *)
(* and a caller's own Value, each failing in every way the code tells      *)
(* apart; NUMBER() with valid and invalid options, rendered and selecting, *)
(* and DATETIME() of what is a time, with valid and invalid options, and   *)
(* of what is not.                                                         *)
BadOption  == [digits |-> Str(<<"a">>)]
GoodOption == [digits |-> Num1]
N(arg, nm) == Fun("NUMBER", <<arg>>, nm)
D(arg, nm) == Fun("DATETIME", <<arg>>, nm)
Fraction(n) == [fractionalSecondDigits |-> Num(n, FALSE, TRUE)]
F(arg)     == Fun("F", <<arg>>, NoNames)
Plurals    == <<Variant(Str(<<"one">>), "item"), Variant(Num1, "item"),
                Variant(Str(<<"other">>), "items")>>

ExtBody ==
  [item   |-> Text,
   items  |-> Complex(<<Text, N(Var("x"), BadOption)>>),
   call   |-> Complex(<<F(Var("x")), F(N(Var("x"), BadOption)), Fun("G", << >>, NoNames)>>),
   amount |-> Complex(<<N(Var("x"), GoodOption), Fun("NUMBER", << >>, GoodOption)>>),
   count  |-> Complex(<<Sel(N(Var("x"), BadOption), Plurals, 3), Text>>),
   when   |-> Complex(<<D(Var("x"), Fraction(3)), D(N(Var("x"), GoodOption), Fraction(4))>>),
   age    |-> Complex(<<Sel(N(D(Var("x"), NoNames), BadOption), Plurals, 3),
                        D(Lit(Num(2, FALSE, TRUE)), NoNames)>>),
   choose |-> Complex(<<Sel(F(Var("x")), Plurals, 3)>>),
   quote  |-> Complex(<<Sel(Lit(Str(<<"one">>)), Plurals, 3), Lit(Num(2, FALSE, TRUE))>>)]

ExtExprs == AllExprs(ExtBody)
ExtDepth == DepthIn(ExtExprs)
ExtSize  == Longest(ExtBody, ExtExprs)

ExtStore    == [kind \in Kinds |-> [id \in {"m1"} |-> Absent]]
ExtInitial  == {ExtStore}
ExtArgs     == {NoNames} \cup {[x |-> v] : v \in {Num1, DateTime(0), Custom, Str(<<"a">>)}}
ExtOutcomes ==
  [formatter |-> {"ok", "panic", "fault"}, transform |-> {"ok", "fault"},
   custom |-> {"ok", "fault"}, function |-> {"ok", "error", "nil", "panic", "fault"},
   plural |-> {"one", "other", "panic", "fault"}]

ExtResults == {Str(<<"text">>), Num1, Custom}

(* NUMBER() of a NUMBER() whose option is invalid. *)
NestedBody  == [nested |-> Complex(<<N(N(Var("x"), BadOption), GoodOption), Text>>)]
NestedExprs == AllExprs(NestedBody)
NestedDepth == DepthIn(NestedExprs)
NestedSize  == Longest(NestedBody, NestedExprs)
NestedArgs  == {[x |-> Num1]}

(* User code that panics with an ordinary error where nothing recovers.    *)
Misbehaves == [ExtOutcomes EXCEPT !.transform = {"ok", "panic"}, !.custom = {"ok", "panic"}]

(* The programs of resolver_references and resolver_user_code meet the     *)
(* conditions that the properties checked of them need.                    *)
ASSUME RefHypotheses == Body = RefBody => TextsIsolate /\ NotGiven(Fallbacks)
ASSUME ExtHypotheses ==
  Body = ExtBody => /\ TextsIsolate /\ NotGiven(Fallbacks)
                    /\ NotGiven({"badnumber"}) /\ OptionsGiven /\ NumbersOnce /\ NumbersFresh
ASSUME CodeHypotheses == Outcomes \in {Works, ExtOutcomes} => Guarded
=============================================================================
