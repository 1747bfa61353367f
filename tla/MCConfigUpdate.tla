--------------------------- MODULE MCConfigUpdate ---------------------------
(* The provisioned configuration and two changes after it: the second one  *)
(* meets the payloads, the consumed ids and the quarantine that the first  *)
(* one, promoted, rejected or rolled back, left behind.                    *)
EXTENDS ConfigUpdate

CONSTANTS base, c1, c2

MCChanges == {base, c1, c2}
=============================================================================
