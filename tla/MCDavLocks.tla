------------------------------ MODULE MCDavLocks ------------------------------
(* A tree of two levels: one folder and two files besides the root.        *)
EXTENDS DavLocks, TLC

CONSTANTS root, d, f, g, a, b

MCIds == {root, d, f, g}
MCDirs == {root, d}
MCRoot == root
MCNames == {a, b}
MCPaths == {<<a>>, <<b>>, <<a, b>>}
OneBody == Cardinality({r \in Requests : ops[r].op = "body"}) <= 1
Symmetry == Permutations(Tokens) \cup Permutations(Requests)
=============================================================================
