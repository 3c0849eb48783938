---------------------------- MODULE MCEmbedEngine ----------------------------
\* Instances of EmbedEngine small enough for TLC.
EXTENDS EmbedEngine

\* Requests are interchangeable, and so are drains.
Symmetry == Permutations(Requests) \cup Permutations(Unloaders)
=============================================================================
