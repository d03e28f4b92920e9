-------------------------- MODULE MCFrameNumbering --------------------------
EXTENDS FrameNumbering, TLC

Symmetry == Permutations(Loops)
=============================================================================
