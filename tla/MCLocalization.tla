---------------------------- MODULE MCLocalization ----------------------------
(* One message name, with every shape of definition: a value, attributes   *)
(* only, both; two locales; resources that fail to load, repeat an id or   *)
(* are empty.                                                              *)
EXTENDS Localization, TLC

CONSTANTS de, en, m, v1, v2, a1, a2, b2

None == << >>
plain  == [value |-> v1, attrs |-> None]
titled == [value |-> NoPattern, attrs |-> [title |-> a1]]
full   == [value |-> v2, attrs |-> [aria |-> b2, title |-> a2]]

MCDefs == {plain, titled, full}
MCAttrNames == <<"aria", "title">>

Defines(def) == <<[kind |-> "message", id |-> m, def |-> def]>>
MCLoads == {LoadError, << >>, Defines(titled), Defines(full) \o Defines(plain)}
MCResources == {Defines(def) : def \in MCDefs}
MCNegotiations == {Refused, << >>, <<de>>, <<de, en>>}
MCResIds == <<"main", "extra">>
=============================================================================
