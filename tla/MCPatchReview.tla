--------------------------- MODULE MCPatchReview ---------------------------
(* Instances of PatchReview for TLC: all tasks are about one file, and all  *)
(* can be automated.                                                        *)
EXTENDS PatchReview, TLC

CONSTANT file
OneFile == [t \in Tasks |-> file]

Symmetric ==
    Permutations(Patches) \cup Permutations(Markers) \cup Permutations(Generators)
    \cup Permutations(Pushers) \cup Permutations(Branches)

===========================================================================
