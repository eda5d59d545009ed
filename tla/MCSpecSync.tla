------------------------------ MODULE MCSpecSync ------------------------------
(* A small instance: the author rewrites one section of two, everybody else *)
(* either; two syncs may run at once.                                       *)
EXTENDS SpecSync

CONSTANTS s1, s2, a1

MCSections == {s1, s2}
MCEdits == {{s1}}
MCAuthors == {a1}
MCSyncs == 1..2
MCOneSection == {s1}
MCOneSync == {1}
===============================================================================
