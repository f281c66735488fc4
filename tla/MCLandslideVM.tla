--------------------------- MODULE MCLandslideVM ---------------------------
(* Two children of the genesis block, both of which this node may build.    *)
EXTENDS LandslideVM, TLC

CONSTANTS g, a1, b1

MCParent == [b \in Blocks |-> IF b = g THEN None ELSE g]

MCHeight == [b \in Blocks |-> IF b = g THEN 1 ELSE 2]

Siblings == Permutations({a1, b1})
=============================================================================
