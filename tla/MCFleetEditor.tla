--------------------------- MODULE MCFleetEditor ---------------------------
(* Two devices, so that a change may be lost beside another one, and two   *)
(* changes by anyone: a submission that meets another editor's, or its own *)
(* late predecessor.                                                       *)
EXTENDS FleetEditor

CONSTANTS d1, d2

MCDevices == {d1, d2}
=============================================================================
