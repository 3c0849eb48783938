-------------------------- MODULE MCRequestShapes --------------------------
EXTENDS RequestShapes, TLC

\* A text that fits every cap but the smallest, and one that is cut by all of them.
MCTokens == {20, 300}
=============================================================================
