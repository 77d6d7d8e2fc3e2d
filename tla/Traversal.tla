------------------------------ MODULE Traversal ------------------------------
(***************************************************************************)
(* The recursion of Walk and Transform over a tree.                        *)
(***************************************************************************)
EXTENDS Visitor

RECURSIVE Walk(_, _)
Walk(x, away) ==
  WalkNode(x, away, [k \in DOMAIN Children(x) |-> Walk(Children(x)[k], away)])

RECURSIVE Transform(_, _)
Transform(x, away) ==
  TransformNode(x, away,
    [slot \in Rewritten(x.type) |->
       [k \in DOMAIN Held(x, slot) |-> Transform(Held(x, slot)[k], away)]])

(* The tree below x is as the visitor relies on it. *)
RECURSIVE WellShaped(_)
WellShaped(x) ==
  Shaped(x) /\ \A k \in DOMAIN Children(x) : WellShaped(Children(x)[k])
=============================================================================
