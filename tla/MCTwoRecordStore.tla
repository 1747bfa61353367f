-------------------------- MODULE MCTwoRecordStore --------------------------
(* Two values and a short sequence space: the journal alternates between   *)
(* its files several times and then meets the end of the sequence numbers. *)
EXTENDS TwoRecordStore

CONSTANTS v1, v2, None

MCValues == {v1, v2}
=============================================================================
