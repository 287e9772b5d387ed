---------------------------- MODULE MCNodeAgent ----------------------------
\* NodeAgent for TLC: the revisions are model values.
EXTENDS NodeAgent
=============================================================================
