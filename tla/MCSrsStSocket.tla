--------------------------- MODULE MCSrsStSocket ---------------------------
\* One connection for TLC; the constants are given in the cfg file.
EXTENDS SrsStSocket
=============================================================================
