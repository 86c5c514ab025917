--------------------------- MODULE MCLiveCapture ---------------------------
EXTENDS LiveCapture, TLC

MCSymmetry == Permutations(Configs) \cup Permutations(Rooms)
=============================================================================
