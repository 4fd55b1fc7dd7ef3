---------------------------- MODULE MCSrsThread ----------------------------
\* A listener or signal thread and two connection threads for TLC.
EXTENDS SrsThread

CONSTANTS l1, c1, c2

MCThreads == {l1, c1, c2}
MCJoinable == {l1}
=============================================================================
