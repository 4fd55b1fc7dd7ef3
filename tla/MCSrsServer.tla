---------------------------- MODULE MCSrsServer ----------------------------
\* Three connection objects for TLC.
EXTENDS SrsServer, TLC

CONSTANTS c1, c2, c3

MCConns == {c1, c2, c3}
MCSymmetry == Permutations(MCConns)
=============================================================================
