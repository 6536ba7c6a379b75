------------------------------- MODULE MCRBTree -------------------------------
(* Nodes for the red-black tree: two pairs of equal keys, and two more.     *)
EXTENDS RBTree

CONSTANTS a1, a2, b1, b2, c, d

MCKeyOf == [n \in Nodes |-> CASE n \in {a1, a2} -> 1 [] n \in {b1, b2} -> 2
                              [] n = c -> 3 [] OTHER -> 4]

=============================================================================
