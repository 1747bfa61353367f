------------------------- MODULE MCFixedSupervisor -------------------------
(* Two threads, and two owner objects that compete for the boot: enough    *)
(* for every pair of calls to interleave.                                  *)
EXTENDS FixedSupervisor

CONSTANTS t1, t2, o1, o2

MCThreads == {t1, t2}
MCOwners == {o1, o2}
=============================================================================
