---------------------------- MODULE MCSnowmanVM ----------------------------
EXTENDS SnowmanVM

CONSTANTS g, a1, b1, a2

MCParent ==
    [b \in Blocks |-> CASE b = g -> None [] b \in {a1, b1} -> g [] OTHER -> a1]

MCHeight ==
    [b \in Blocks |-> CASE b = g -> 1 [] b \in {a1, b1} -> 2 [] OTHER -> 3]
=============================================================================
