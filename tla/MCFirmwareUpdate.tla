-------------------------- MODULE MCFirmwareUpdate --------------------------
(* Three releases: the factory one and two candidates, so that a second    *)
(* update meets the slots, the retained claim and the high-waters that the *)
(* first one, promoted or failed, left behind.                             *)
EXTENDS FirmwareUpdate

CONSTANTS Nothing, m1, m2

MCMarkers == {m1, m2}
=============================================================================
