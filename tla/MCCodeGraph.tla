---------------------------- MODULE MCCodeGraph ----------------------------
(* Instances of CodeGraph for TLC: a class, its method and what the method  *)
(* calls in the first file, another class in the second.                    *)
EXTENDS CodeGraph, TLC

CONSTANTS class, method, site, other

All == {class, method, site, other}
Joined == {[type |-> "CONTAINS", from |-> class, to |-> method],
           [type |-> "CALLS", from |-> method, to |-> site]}
TwoFiles == [e \in Entities |-> IF e = other THEN 2 ELSE 1]

\* The method's and the call's names begin with the class's.
Named == [e \in Entities |-> IF e = other THEN other ELSE class]
Long == {[type |-> "large_class", entity |-> other]}

\* From the class two hops out, and from the method both ways.
Asked == {[seed |-> class, direction |-> "outbound", depth |-> 2],
          [seed |-> method, direction |-> "both", depth |-> 1]}

Symmetric == Permutations(Runs)
============================================================================
