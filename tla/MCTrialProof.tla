---------------------------- MODULE MCTrialProof ----------------------------
EXTENDS TrialProof, TLC
CONSTANTS m1, m2, k1
MCMonitors == {m1, m2}
MCMarkers == {k1}
Symmetry == Permutations(Monitors)
=============================================================================
