----------------------------- MODULE MCSrsKbps -----------------------------
\* The statistics for TLC; the connections are interchangeable model values, and so
\* are the sockets.
EXTENDS SrsKbps, TLC

CONSTANTS c1, c2, s1, s2

MCConns == {c1, c2}
MCSessions == {s1, s2}
MCSymmetry ==
    {p @@ q : p \in Permutations(MCConns), q \in Permutations(MCSessions)}
=============================================================================
