------------------------------ MODULE MCSharing ------------------------------
EXTENDS Sharing, TLC

Symmetry ==
    Permutations(Users) \cup Permutations(Addresses)
    \cup Permutations(Folders) \cup Permutations(Files)

\* Rows of nodes, grants and shares in all.
FourRows == Cardinality(Nodes) + Cardinality(grants) + Cardinality(links) <= 4
=============================================================================
