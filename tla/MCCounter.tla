----------------------------- MODULE MCCounter -----------------------------
EXTENDS Counter, TLC

CONSTANTS t1, t2, s1, b1, ann, bob, coffee1, pack1, bill1

McBranchesOf == (s1 :> {b1})
McOwnerOf == (coffee1 :> ann) @@ (pack1 :> ann)

Symmetry == Permutations(Tasks)
=============================================================================
