----------------------------- MODULE MCClientUI -----------------------------
EXTENDS ClientUI, TLC

CONSTANTS b1, b2

Symmetry == Permutations(Browsers)
=============================================================================
