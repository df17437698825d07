----------------------------- MODULE MCFrameLoop -----------------------------
EXTENDS FrameLoop, TLC
CONSTANTS o1, o2, p1, p2
Symmetry == Permutations(Outputs)
=============================================================================
