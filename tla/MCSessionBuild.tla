--------------------------- MODULE MCSessionBuild ---------------------------
\* Instances of SessionBuild small enough for TLC.
EXTENDS SessionBuild, TLC

\* A DirectML binary: auto tries the card and falls back, an explicit request
\* does not.
SmallOrder == [r \in Requests |-> IF r = "auto" THEN <<"dml", "cpu">> ELSE <<"dml">>]

Symmetry == Permutations(Engines)
=============================================================================
