------------------------ MODULE MCSrsSignalManager -------------------------
\* The signal manager for TLC; the constants are numbers given in the cfg files.
EXTENDS SrsSignalManager
=============================================================================
