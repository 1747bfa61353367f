-------------------------- MODULE DurableRegister --------------------------
(***************************************************************************)
(* What the two-record metadata stores of the Pico firmware promise to     *)
(* their callers: one durable value that a commit replaces atomically.     *)
(* UpdateStateStore (update_state.py) and ConfigTrialStore                 *)
(* (config_trial.py) both implement it; TwoRecordStore is the detailed     *)
(* model of that implementation and refines this one.                      *)
(*                                                                         *)
(* A caller sees a commit end in one of two ways.  It returns, and then    *)
(* the value is durable; or it raises StateWriteError, and then the        *)
(* outcome is ambiguous and the RAM copy is gone until the next load.  The *)
(* value a commit replaces stays behind in the other record, which is what *)
(* a load falls back to when it cannot read the newer one.                 *)
(***************************************************************************)
CONSTANTS
  Values,     \* the states a record can carry (those that pass validation)
  NoValue     \* not in Values: no valid record, or no state loaded in RAM

VARIABLES
  newest,     \* value of the valid record with the highest sequence
  older,      \* value of the other record, when that one is valid too
  ram         \* the store's loaded state

vars == <<newest, older, ram>>

TypeOK ==
  /\ newest \in Values \cup {NoValue}
  /\ older \in Values \cup {NoValue}
  /\ ram \in Values \cup {NoValue}

Init ==
  /\ newest = NoValue
  /\ older = NoValue
  /\ ram = NoValue

-----------------------------------------------------------------------------
\* The commit is durable and acknowledged.
CommitOk(v) ==
  /\ ram # NoValue
  /\ newest' = v
  /\ older' = ram
  /\ ram' = v

\* StateWriteError, or a power cut inside the commit: the target record is
\* untouched, unreadable, or complete, and the RAM copy is discarded.
CommitAmbiguous(v) ==
  /\ ram # NoValue
  /\ ram' = NoValue
  /\ \/ UNCHANGED <<newest, older>>
     \/ newest' = ram /\ older' = NoValue
     \/ newest' = v /\ older' = ram

\* First installation: only when no record exists.
InitializeOk(v) ==
  /\ newest = NoValue
  /\ ram = NoValue
  /\ newest' = v
  /\ older' = NoValue
  /\ ram' = v

InitializeAmbiguous(v) ==
  /\ newest = NoValue
  /\ ram = NoValue
  /\ newest' \in {NoValue, v}
  /\ older' = NoValue
  /\ ram' = NoValue

LoadNewest ==
  /\ newest # NoValue
  /\ ram' = newest
  /\ UNCHANGED <<newest, older>>

\* The newest record could not be read this time: OSError is swallowed per
\* record, so the load selects the one it could read.
LoadOlder ==
  /\ older # NoValue
  /\ ram' = older
  /\ UNCHANGED <<newest, older>>

\* Power cut, failed load, or an invalidation: the RAM copy is gone.
Drop ==
  /\ ram' = NoValue
  /\ UNCHANGED <<newest, older>>

Next ==
  \/ \E v \in Values : \/ CommitOk(v) \/ CommitAmbiguous(v)
                       \/ InitializeOk(v) \/ InitializeAmbiguous(v)
  \/ LoadNewest
  \/ LoadOlder
  \/ Drop

Spec == Init /\ [][Next]_vars
=============================================================================
