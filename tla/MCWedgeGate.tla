----------------------------- MODULE MCWedgeGate -----------------------------
\* Instances of WedgeGate small enough for TLC.
EXTENDS WedgeGate, TLC

\* Passes are interchangeable.
Symmetry == Permutations(Passes)
=============================================================================
