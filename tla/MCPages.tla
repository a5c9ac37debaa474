------------------------------- MODULE MCPages -------------------------------
EXTENDS Pages

Symmetry == Permutations(Browsers)
=============================================================================
