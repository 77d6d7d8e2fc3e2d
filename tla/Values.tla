-------------------------------- MODULE Values --------------------------------
(***************************************************************************)
(* The runtime values an expression resolves to (value.go), how a selector *)
(* matches a variant key (resolver.go) and the builtins NUMBER and         *)
(* DATETIME (builtins.go).                                                 *)
(*                                                                         *)
(* Text is a sequence of tokens: runs of translated or formatted text are  *)
(* one token each, the isolation marks and the rendered fallbacks keep     *)
(* theirs.  A fallback's name is abstracted to the kind of thing that was  *)
(* missing; of number options only their validity is kept.                 *)
(***************************************************************************)
EXTENDS Integers, Sequences

CONSTANT MaxTimeValue   \* maxTimeValueMillis

FSI == "FSI"
PDI == "PDI"

(* What a fallback stands for.  "param" is a term's undefined parameter,   *)
(* the one fallback that is documented to come without an error; "null" is *)
(* a pattern that is nil.                                                  *)
Missing == {"variable", "param", "message", "term", "function", "cyclic", "null", "limit"}

Fallback(missing) == "{" \o missing \o "}"

Tokens ==
  {FSI, PDI, "text", "number", "badnumber", "datetime", "custom", "a", "one", "other"}
    \cup {Fallback(m) : m \in Missing}

(* A fallback looks neither like anything else that is written nor like    *)
(* the fallback for something else.                                        *)
ASSUME TokensAssumption ==
  \A m \in Missing :
    /\ Fallback(m) \notin {FSI, PDI, "text", "number", "badnumber", "datetime", "custom"}
    /\ \A n \in Missing : Fallback(n) = Fallback(m) => n = m

Str(out)    == [k |-> "string", out |-> out]
None(m)     == [k |-> "none", missing |-> m]
(* optErr: an option error still to be reported; valid: whether every      *)
(* NUMBER() that made this number had valid options.                       *)
Num(n, optErr, valid) == [k |-> "number", n |-> n, optErr |-> optErr, valid |-> valid]
DateTime(n) == [k |-> "datetime", n |-> n]   \* n: its timestamp
Custom      == [k |-> "custom"]     \* a caller's own implementation of Value
Unsupported == [k |-> "nil"]        \* an argument of a Go type that is not a Value

Values ==
  [k : {"string"}, out : Seq(Tokens)] \cup [k : {"none"}, missing : Missing]
    \cup [k : {"number"}, n : Int, optErr : BOOLEAN, valid : BOOLEAN]
    \cup [k : {"datetime"}, n : Int] \cup {Custom}

(* The text a value renders to when its formatter works, and the text it   *)
(* falls back to when a formatter panics (numbers: the plain digits).      *)
Rendered(v) ==
  CASE v.k = "string"   -> v.out
    [] v.k = "none"     -> <<Fallback(v.missing)>>
    [] v.k = "number"   -> <<IF v.valid THEN "number" ELSE "badnumber">>
    [] v.k = "datetime" -> <<"datetime">>
    [] v.k = "custom"   -> <<"custom">>

(* A number whose options were rejected is rendered without the formatter. *)
UsesFormatter(v) == v.k = "datetime" \/ (v.k = "number" /\ ~v.optErr)

-----------------------------------------------------------------------------
(* matchSelector.  A number against a string key asks the plural rules,    *)
(* whose answer is category ("" when they panicked).                       *)
AsksPluralRules(sel, key) == sel.k = "number" /\ key.k = "string"

Matches(sel, key, category) ==
  \/ sel.k = "string" /\ key.k = "string" /\ sel.out = key.out
  \/ sel.k = "number" /\ key.k = "number" /\ sel.n = key.n
  \/ AsksPluralRules(sel, key) /\ key.out = <<category>>

-----------------------------------------------------------------------------
(* NUMBER(arg, digits: ...): merging the options into a new number.  An    *)
(* invalid one does not fail the call: the number carries the error.       *)
(* (No string of the model is a numeral, which would do as an option too.) *)
IntOption(named, name, range) ==
  name \in DOMAIN named => named[name].k = "number" /\ named[name].n \in range

ValidOptions(named) == IntOption(named, "digits", 0..100)

Made(v)   == [ok |-> TRUE, v |-> v]
Fails(err) == [ok |-> FALSE, err |-> err]

NumberResult(vals, named) ==
  IF vals = << >> THEN Fails("type")
  ELSE LET v == vals[1]
           valid == ValidOptions(named) IN
       CASE v.k = "none"     -> Made(v)
         [] v.k = "number"   -> Made(Num(v.n, ~valid, valid /\ v.valid))
         [] v.k = "datetime" -> Made(Num(v.n, ~valid, valid))
         [] OTHER            -> Fails("type")

(* DATETIME(arg, fractionalSecondDigits: ...): an invalid option fails the *)
(* call, and so does a number that is no time (NaN among them).            *)
ValidTimeOptions(named) == IntOption(named, "fractionalSecondDigits", 1..3)
IsTime(n) == n \in -MaxTimeValue..MaxTimeValue

DateTimeResult(vals, named) ==
  IF vals = << >> THEN Fails("type")
  ELSE LET v == vals[1] IN
       CASE v.k = "none" -> Made(v)
         [] v.k \in {"datetime", "number"} ->
              IF (v.k = "number" => IsTime(v.n)) /\ ValidTimeOptions(named)
                THEN Made(DateTime(v.n)) ELSE Fails("range")
         [] OTHER -> Fails("type")
=============================================================================
