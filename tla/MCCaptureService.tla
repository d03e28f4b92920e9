-------------------------- MODULE MCCaptureService --------------------------
\* CaptureService for TLC: interchangeable loops and requests.
EXTENDS CaptureService, TLC

Symmetry == Permutations(Loops) \cup Permutations(Requests)
=============================================================================
