------------------------- MODULE MCRevisionRollout -------------------------
\* RevisionRollout for TLC: nodes, revisions and threads are model values.
EXTENDS RevisionRollout, TLC

\* The nodes are interchangeable; used for the safety runs only.
NodeSymmetry == Permutations(Nodes)
=============================================================================
