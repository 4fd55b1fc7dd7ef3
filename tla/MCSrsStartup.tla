--------------------------- MODULE MCSrsStartup ----------------------------
\* Launches of the program with files like conf/jvmbs.json, and with broken ones,
\* for TLC.
EXTENDS SrsStartup, TLC

CONSTANTS l1, l2, l3, i1, i2, i3

MCLaunches == {l1, l2, l3}
MCInodes == {i1, i2, i3}
MCSymmetry == Permutations(MCLaunches) \cup Permutations(MCInodes)

Items == [listen |-> Numeral(17644), max_connections |-> Numeral(1000),
          daemon |-> Word("off"), pid_file |-> Word("jvmbs.pid")]
File(items) == [readable |-> TRUE, items |-> items]
MCFiles ==
    {File(Items),
     File([Items EXCEPT !.daemon = Word("on")]),
     File([Items EXCEPT !.pid_file = Word("other.pid")]),
     File([Items EXCEPT !.listen = Word("")]),
     File([Items EXCEPT !.max_connections = Numeral(32757)]),
     File([Items EXCEPT !.pid_file = Word("")]),
     File([Items EXCEPT !.listen = NotString]),
     [readable |-> FALSE, items |-> Items]}
=============================================================================
