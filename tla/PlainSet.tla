------------------------------ MODULE PlainSet ------------------------------
(***************************************************************************)
(* utils/set/set.go: a set of elements over a Go map. A set that was never *)
(* allocated (nil) reads as the empty set. Elements are numbers in the     *)
(* order of their JSON encodings.                                          *)
(***************************************************************************)
EXTENDS Integers, FiniteSets, SequencesExt

CONSTANT SetElements

VARIABLE pset

\* Add and Union.
AddAll(elts) == pset' = pset \cup elts

RemoveElements(elts) == pset' = pset \ elts
Difference(other) == pset' = pset \ other

Clear == pset' = {}

\* Pop takes whichever element the map gives first.
Pop == \E e \in pset : pset' = pset \ {e}

\* null leaves the set alone; a list of elements replaces its contents.
UnmarshalJSON(list) == pset' = ToSet(list)

PlainInit == pset \in SUBSET SetElements

PlainNext ==
    \/ \E elts \in SUBSET SetElements : AddAll(elts) \/ RemoveElements(elts) \/ Difference(elts)
    \/ Clear
    \/ Pop
    \/ \E list \in [1 .. 2 -> SetElements] : UnmarshalJSON(list)

-----------------------------------------------------------------------------
(* What is read of a set.                                                  *)

Overlaps(s, t) ==
    LET small == IF Cardinality(s) > Cardinality(t) THEN t ELSE s
        big   == IF Cardinality(s) > Cardinality(t) THEN s ELSE t
    IN  \E e \in small : e \in big

\* "Sort for determinism"
MarshalJSON(s) == SetToSortSeq(s, <)
=============================================================================
