--------------------------- MODULE MCHealthProbe ---------------------------
\* Instances of HealthProbe small enough for TLC.
EXTENDS HealthProbe, TLC

Symmetry == Permutations(Caps)
=============================================================================
