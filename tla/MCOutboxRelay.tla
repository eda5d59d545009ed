---------------------------- MODULE MCOutboxRelay ----------------------------
(***************************************************************************)
(* Model values for OutboxRelay.                                           *)
(***************************************************************************)
EXTENDS OutboxRelay

CONSTANTS r1, r2, p1

MCEvents == 1..2
MCRelays == {r1, r2}
MCOneRelay == {r1}
MCEndpoints == {p1}
NoPoison == {}
FirstIsPoison == {1}
==============================================================================
