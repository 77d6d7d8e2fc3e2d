------------------------------ MODULE MCBundle ------------------------------
(* A small bundle: one name, of a message and of a term, and resources     *)
(* that repeat an id, mix kinds, and are empty.                            *)
EXTENDS Bundle, TLC

CONSTANTS g1, g2, g3, a, d1, d2

E(k, n, d) == [kind |-> k, id |-> n, def |-> d]

MCResources == {
  << >>,
  <<E("message", a, d1)>>,
  <<E("message", a, d2), E("term", a, d2), E("message", a, d1)>> }
=============================================================================
