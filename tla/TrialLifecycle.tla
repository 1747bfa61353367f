--------------------------- MODULE TrialLifecycle ---------------------------
(***************************************************************************)
(* What UpdateState (update_state.py) promises to whoever reports a trial: *)
(* a release above the admission floor is staged, put on trial, and then   *)
(* promoted inside the deadline or never again.  The slots, the journal    *)
(* and the boot are abstracted away; FirmwareUpdate implements this, and   *)
(* TrialProof builds on it.                                                *)
(***************************************************************************)
EXTENDS Integers

CONSTANTS
  MaxReleaseId,  \* MAX_RELEASE_ID
  Markers,       \* trial markers
  TrialMs,       \* TRIAL_MS, in ticks of the model
  Unknown        \* no state is loaded

VARIABLES
  life,  \* the loaded state, as far as a trial is concerned
  age    \* ticks since trial_started, NoTick when that is None

lifecycle == <<life, age>>

NoId == 0
NoTick == -1

\* The admission floor is the greater of the two high-waters.
Lives ==
  {l \in [phase : {"none", "writing", "trial_entered"},
          id : 0..MaxReleaseId, marker : Markers \cup {"none"},
          applied : 1..MaxReleaseId, floor : 1..MaxReleaseId] :
     /\ l.applied <= l.floor
     /\ IF l.phase = "none" THEN l.id = NoId /\ l.marker = "none"
                            ELSE l.id > l.floor /\ l.marker # "none"}

Known == life # Unknown

Init ==
  /\ life = Unknown
  /\ age = NoTick

Settled(applied, floor) ==
  [phase |-> "none", id |-> NoId, marker |-> "none", applied |-> applied, floor |-> floor]

\* A load at boot finds any valid state; the trial's clock is not persisted.
Reload ==
  /\ ~Known
  /\ life' \in Lives
  /\ age' = NoTick

Stage(id, marker) ==
  /\ Known
  /\ life.phase = "none"
  /\ id > life.floor
  /\ life' = [phase |-> "writing", id |-> id, marker |-> marker,
               applied |-> life.applied, floor |-> life.floor]
  /\ UNCHANGED age

EnterTrial ==
  /\ Known
  /\ life.phase = "writing"
  /\ life' = [life EXCEPT !.phase = "trial_entered"]
  /\ age' = 0

Promote ==
  /\ Known
  /\ life.phase = "trial_entered"
  /\ age \in 0..TrialMs - 1
  /\ life' = Settled(life.id, life.id)
  /\ age' = NoTick

Suppress ==
  /\ Known
  /\ life.phase # "none"
  /\ life' = Settled(life.applied, life.id)
  /\ age' = NoTick

\* A boot falls back to the retained release.
Reselect ==
  /\ Known
  /\ life.phase = "none"
  /\ \E r \in 1..life.floor : life' = Settled(r, life.floor)
  /\ UNCHANGED age

\* A commit whose outcome is not known, or a power cut.
Lose ==
  /\ Known
  /\ life' = Unknown
  /\ age' = NoTick

Advance ==
  /\ age \in 0..TrialMs - 1
  /\ age' = age + 1
  /\ UNCHANGED life

Next ==
  \/ Reload
  \/ \E id \in 1..MaxReleaseId, marker \in Markers : Stage(id, marker)
  \/ EnterTrial \/ Promote \/ Suppress \/ Reselect \/ Lose \/ Advance

Spec == Init /\ [][Next]_lifecycle
=============================================================================
