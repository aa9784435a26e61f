--------------------------- MODULE MCAppDictionary ---------------------------
EXTENDS AppDictionary, TLC
CONSTANTS a1, a2, a3
MCSymmetry == Permutations({a1, a2, a3})
=============================================================================
