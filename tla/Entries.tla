------------------------------- MODULE Entries -------------------------------
(***************************************************************************)
(* The entries of a parsed resource and what adding them to a bundle       *)
(* promises.  A bundle keeps two maps, messages and terms, that the code   *)
(* treats alike: the model keeps them as one function                      *)
(*     defs[kind][id], kind \in Kinds,                                     *)
(* with Absent for an id that is not in the map.  A resource is the        *)
(* sequence of its entries in source order, each [kind, id, def]; the same *)
(* id may occur in it more than once, and a term may share a message's     *)
(* name (its map key only carries a leading "-").                          *)
(***************************************************************************)
EXTENDS Integers, Sequences

CONSTANT Absent

Kinds == {"message", "term"}

(* The positions, from i on, of the entries of res that define kind/id. *)
Defining(res, kind, id, i) ==
  {j \in i..Len(res) : res[j].kind = kind /\ res[j].id = id}

FirstOf(S) == CHOOSE j \in S : \A k \in S : j <= k
LastOf(S)  == CHOOSE j \in S : \A k \in S : k <= j

(* The promise of AddResourceOverriding (the last definition wins) and of  *)
(* AddResource (a definition the bundle has is kept, and the first of a    *)
(* resource's own definitions of a new id wins), for the entries from i.   *)
Applied(defs, res, i, override) ==
  [kind \in Kinds |->
    [id \in DOMAIN defs[kind] |->
      LET js == Defining(res, kind, id, i) IN
      IF js = {} \/ (~override /\ defs[kind][id] # Absent)
        THEN defs[kind][id]
        ELSE res[IF override THEN LastOf(js) ELSE FirstOf(js)].def]]

(* The entries AddResource reports as attempted overrides: those whose id  *)
(* the bundle has, and those an earlier entry of the resource has defined. *)
Rejected(defs, res, i, override) ==
  {j \in i..Len(res) :
     /\ ~override
     /\ \/ defs[res[j].kind][res[j].id] # Absent
        \/ \E k \in Defining(res, res[j].kind, res[j].id, i) : k < j}
=============================================================================
