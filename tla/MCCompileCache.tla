--------------------------- MODULE MCCompileCache ---------------------------
\* Instances of CompileCache small enough for TLC.
EXTENDS CompileCache, TLC

\* The shapes of the embed rungs are interchangeable.
Symmetry == Permutations(EmbedShapes)
=============================================================================
