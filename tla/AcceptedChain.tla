--------------------------- MODULE AcceptedChain ---------------------------
(***************************************************************************)
(* What the VM promises the engine and its clients: accepted blocks form a *)
(* chain that only grows, by one child of its last block at a time, and    *)
(* only accepted blocks are signed. Module LandslideVM implements it.      *)
(***************************************************************************)
EXTENDS Integers

CONSTANTS Blocks, Genesis, Parent, Height

VARIABLES accepted, last, signed

chainVars == <<accepted, last, signed>>

Init ==
    /\ accepted = {Genesis}
    /\ last = Genesis
    /\ signed = {}

Extend(b) ==
    /\ b \notin accepted
    /\ Parent[b] = last
    /\ Height[b] = Height[last] + 1
    /\ accepted' = accepted \cup {b}
    /\ last' = b
    /\ UNCHANGED signed

Sign(b) ==
    /\ b \in accepted
    /\ signed' = signed \cup {b}
    /\ UNCHANGED <<accepted, last>>

Next == \E b \in Blocks : Extend(b) \/ Sign(b)

Spec == Init /\ [][Next]_chainVars
=============================================================================
