--------------------------- MODULE MCScratchSweep ---------------------------
\* Instances of ScratchSweep small enough for TLC.
EXTENDS ScratchSweep, TLC

Symmetry == Permutations(TestRuns) \cup Permutations(Names) \cup Permutations(Pids)
=============================================================================
