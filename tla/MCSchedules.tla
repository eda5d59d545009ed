----------------------------- MODULE MCSchedules -----------------------------
(***************************************************************************)
(* Model values for Schedules: two schedules, two sweeping processes.      *)
(***************************************************************************)
EXTENDS Schedules, TLC

CONSTANTS s1, s2, w1, w2

MCSchedules == {s1, s2}
MCSweepers == {w1, w2}
==============================================================================
