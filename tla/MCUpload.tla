------------------------------ MODULE MCUpload ------------------------------
EXTENDS Upload, TLC
CONSTANTS u, v, x, y, s
MCCall == {u, v}
MCLarge == {x, y}
MCSmall == {s}
MCSymmetry == Permutations(MCCall) \cup Permutations(MCLarge)
=============================================================================
