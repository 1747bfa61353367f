--------------------------- MODULE MCPublication ---------------------------
(* A tick stands for the shortest sample interval.  Marks and ages are      *)
(* relative, so the period only has to leave room for an outage and the     *)
(* recovery from it on one side of the wrap (MCPublication), or to be short *)
(* enough for an outage to outlast half of it (MCPublicationWrap).          *)
EXTENDS Publication

\* The instance whose outages stay under half the period has the margins that
\* the theorems on recovery ask for.
ASSUME MCTimely == MaxOutage < Half => Timely
=============================================================================
