--------------------------- MODULE MCSrsFastLog ----------------------------
\* The log for TLC, with files like conf/jvmbs.json: the numbers are given in the
\* cfg file.
EXTENDS SrsFastLog

File(t, l, name) ==
    [readable |-> TRUE,
     items |-> [log_tank |-> Word(t), log_level |-> Word(l), log_file |-> Word(name)]]
MCFiles ==
    {File("file", "trace", "a.log"), File("console", "error", "b.log"),
     File("file", "none", "")}
=============================================================================
