----------------------------- MODULE MCEventLog -----------------------------
EXTENDS EventLog, TLC

Symmetry == Permutations(Events) \cup Permutations(Writers) \cup Permutations(Readers)
=============================================================================
