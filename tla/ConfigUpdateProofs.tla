------------------------- MODULE ConfigUpdateProofs -------------------------
(***************************************************************************)
(* A configuration change keeps its promises for any set of changes, any   *)
(* capacity and any length of a trial: what the two records refer to stays *)
(* readable, publications use the applied configuration, an idle device is *)
(* settled, only a proven candidate is promoted, and no change is tried    *)
(* twice.                                                                  *)
(***************************************************************************)
EXTENDS ConfigUpdate, FiniteSetTheorems, TLAPS

Down == {"off", "loaded", "verify", "halt"}
Timed == TrialPlaces \cup {"handover", "rollback", "restore"}
Records == {newest, older} \ {NoState}

\* What a record refers to can be read, and it remembers what was tried.
Stored(c) == Intact(c) \/ c \in rotted
Kept(s) ==
  /\ Stored(s.applied)
  /\ s.candidate # NoChange => Stored(s.candidate)
  /\ tried \subseteq s.consumed

DataInv ==
  /\ newest \in ConfigStates
  /\ older \in ConfigStates \cup {NoState}
  /\ \/ ram \in {NoState, newest}
     \/ ReadFaults /\ ram = older
  /\ payload \in [Changes -> {"absent", "torn", "whole"}]
  /\ tried \subseteq Changes
  /\ rotted \subseteq Changes
  /\ \A s \in Records : Kept(s)

Settled ==
  /\ Loaded /\ ~Active(ram)
  /\ link = ram.applied /\ reader = ram.applied /\ writer = ram.applied

\* The fence: up in a run, and afterwards only on a device that gave up.
FenceInv ==
  /\ pc \in Down \cup {"idle"} \cup RunPlaces
  /\ suspended \in BOOLEAN /\ publishing \in BOOLEAN /\ quarantined \in BOOLEAN
  /\ pc \in Down => ~suspended /\ ~publishing /\ ~quarantined
  /\ pc \in {"loaded", "verify"} => Loaded
  /\ pc = "verify" => ~Active(ram)
  /\ pc = "idle" => IF suspended THEN quarantined /\ ~publishing ELSE Settled
  /\ pc \in RunPlaces => Loaded /\ suspended /\ ~publishing /\ ~quarantined

ClockInv ==
  /\ age \in {NoTick} \cup 0..TrialMs
  /\ age # NoTick <=> pc \in Timed

\* What is on record, and what is installed, at each place of a run.
PlaceInv ==
  /\ pc = "fetch" => ~Active(ram)
  /\ pc \in {"reserved", "owned"} => ram.status = "received"
  /\ pc = "staged" => ram.status = "staged" /\ ram.candidate = ram.change
  /\ pc \in TrialPlaces \cup {"rollback"} => ram.status = "trial"
  /\ pc = "handover" => ram.status = "applied"
  /\ pc = "restore" => ram.status = "rolled_back"
  /\ pc \in RunPlaces \ {"fetch"} => ram = newest

CapInv ==
  /\ server \in Changes
  /\ link \in Changes \cup {NoChange}
  /\ reader \in Changes \cup {NoChange}
  /\ writer \in Changes \cup {NoChange}
  /\ pc \in {"fetch", "reserved", "owned", "staged", "connect", "handover"}
       => link = ram.applied
  /\ pc \in TrialPlaces \ {"connect"} => link = ram.candidate
  /\ pc \in RunPlaces \ {"handover"} => reader = ram.applied /\ writer = ram.applied

EvidenceInv ==
  /\ evidence \subseteq Proofs
  /\ pc \in {"prove", "measure", "report", "final", "confirm"} => "wifi" \in evidence
  /\ pc \in {"measure", "report", "final", "confirm"} => "fleet" \in evidence
  /\ pc \in {"report", "final", "confirm"} => "temperature" \in evidence
  /\ pc \in {"final", "confirm"} => "diagnostics" \in evidence

\* A change that is being staged is in no record yet, and was never tried.
FreshInv ==
  /\ pc \in {"reserved", "owned"} =>
       \A s \in Records : s.applied # ram.change /\ s.candidate = NoChange
  /\ pc \in {"reserved", "owned", "staged"} => ram.change \notin tried

RestInv == FenceInv /\ ClockInv /\ PlaceInv /\ CapInv /\ EvidenceInv /\ FreshInv

IInv == DataInv /\ RestInv

-----------------------------------------------------------------------------
\* What each transition of the journal makes of a state that is valid.
LEMMA ShapeOfState ==
  ASSUME ConfigAssumption, NEW s \in ConfigStates
  PROVE  /\ s \in Fields /\ ValidConfig(s)
         /\ s.applied \in Changes /\ s.change \in Changes
         /\ s.applied # NoChange /\ s.change # NoChange
         /\ s.candidate \in Changes \cup {NoChange}
         /\ s.consumed \subseteq Changes /\ s.status \in Statuses
         /\ ~Active(s) => s.candidate = NoChange
         /\ s.status = "received" => s.candidate = NoChange
  BY DEF ConfigAssumption, ConfigStates, Fields, ValidConfig, Active, ActiveStatuses

LEMMA ReceivedValid ==
  ASSUME ConfigAssumption, NEW s \in ConfigStates, NEW c \in Changes,
         c \notin s.consumed, Cardinality(s.consumed) < Capacity
  PROVE  /\ Received(s, c) \in ConfigStates
         /\ Received(s, c).applied = s.applied
         /\ Received(s, c).candidate = NoChange
         /\ Received(s, c).status = "received"
         /\ Received(s, c).change = c
         /\ Received(s, c).consumed = s.consumed \cup {c}
<1> DEFINE t == Received(s, c)
<1>1. s \in Fields /\ ValidConfig(s)
  BY ShapeOfState
<1>2. /\ t.applied = s.applied /\ t.candidate = NoChange /\ t.status = "received"
      /\ t.change = c /\ t.consumed = s.consumed \cup {c} /\ t \in Fields
  BY <1>1 DEF Received, Fields, Statuses, ActiveStatuses
<1>3. /\ IsFiniteSet(s.consumed \cup {c})
      /\ Cardinality(s.consumed \cup {c}) = Cardinality(s.consumed) + 1
  BY <1>1, FS_AddElement DEF ValidConfig
<1>4. Cardinality(s.consumed) \in Nat
  BY <1>1, FS_CardinalityType DEF ValidConfig
<1>5. ValidConfig(t)
  <2>1. Cardinality(t.consumed) <= Capacity
    BY <1>2, <1>3, <1>4 DEF ConfigAssumption
  <2>2. QED
    BY <1>2, <1>3, <2>1 DEF ValidConfig, Active
<1>6. QED
  BY <1>2, <1>5 DEF ConfigStates

LEMMA StagedValid ==
  ASSUME ConfigAssumption, NEW s \in ConfigStates, s.status = "received"
  PROVE  /\ Staged(s) \in ConfigStates
         /\ Staged(s).applied = s.applied
         /\ Staged(s).candidate = s.change
         /\ Staged(s).status = "staged"
         /\ Staged(s).change = s.change
         /\ Staged(s).consumed = s.consumed
  BY DEF ConfigAssumption, Staged, ConfigStates, Fields, ValidConfig, Active, ActiveStatuses,
         Statuses

LEMMA TrialingValid ==
  ASSUME ConfigAssumption, NEW s \in ConfigStates, s.status = "staged"
  PROVE  /\ Trialing(s) \in ConfigStates
         /\ Trialing(s).applied = s.applied
         /\ Trialing(s).candidate = s.candidate
         /\ Trialing(s).status = "trial"
         /\ Trialing(s).change = s.change
         /\ Trialing(s).consumed = s.consumed
  BY DEF ConfigAssumption, Trialing, ConfigStates, Fields, ValidConfig, Active, ActiveStatuses,
         Statuses

LEMMA PromotedValid ==
  ASSUME ConfigAssumption, NEW s \in ConfigStates, s.status = "trial"
  PROVE  /\ Promoted(s) \in ConfigStates
         /\ s.candidate \in Changes
         /\ Promoted(s).applied = s.candidate
         /\ Promoted(s).candidate = NoChange
         /\ Promoted(s).status = "applied"
         /\ Promoted(s).consumed = s.consumed
  BY DEF ConfigAssumption, Promoted, ConfigStates, Fields, ValidConfig, Active, ActiveStatuses,
         Statuses

LEMMA FinishedValid ==
  ASSUME ConfigAssumption, NEW s \in ConfigStates, NEW status \in {"rejected", "rolled_back"}
  PROVE  /\ Finished(s, status) \in ConfigStates
         /\ Finished(s, status).applied = s.applied
         /\ Finished(s, status).candidate = NoChange
         /\ Finished(s, status).status = status
         /\ Finished(s, status).consumed = s.consumed
         /\ ~Active(Finished(s, status))
  BY DEF ConfigAssumption, Finished, ConfigStates, Fields, ValidConfig, Active, ActiveStatuses,
         Statuses

-----------------------------------------------------------------------------
LEMMA LoadedState ==
  ASSUME ConfigAssumption, DataInv, Loaded
  PROVE  ram \in ConfigStates /\ ram \in Records
  BY NoStateAssumption DEF DataInv, Loaded, Records

\* The records after a commit are among those before it and the new one.
LEMMA Committed ==
  ASSUME ConfigAssumption, DataInv, NEW v \in ConfigStates,
         Store!CommitOk(v) \/ Store!CommitAmbiguous(v)
  PROVE  /\ newest' \in ConfigStates /\ older' \in ConfigStates \cup {NoState}
         /\ ram' \in {NoState, newest'}
         /\ Records' \subseteq Records \cup {v}
         /\ Store!CommitOk(v) => ram' = v /\ newest' = v /\ ram' # NoState
  BY LoadedState, NoStateAssumption
     DEF DataInv, Records, Loaded, Store!CommitOk, Store!CommitAmbiguous

\* A commit of a state that refers to nothing new keeps what it refers to.
LEMMA CommitKeeps ==
  ASSUME ConfigAssumption, DataInv, NEW v \in ConfigStates,
         Store!CommitOk(v) \/ Store!CommitAmbiguous(v),
         UNCHANGED <<payload, rotted, tried>>, Kept(v)
  PROVE  DataInv'
<1>1. \A s \in Records \cup {v} : Kept(s)'
  BY DEF DataInv, Kept, Stored, Intact
<1>2. \A s \in Records' : Kept(s)'
  BY <1>1, Committed
<1>3. QED
  BY <1>2, Committed DEF DataInv

\* The fields of a state, and nothing else, decide what it refers to.
LEMMA KeptByFields ==
  ASSUME NEW s, NEW t, Kept(s), t.applied = s.applied,
         t.candidate \in {s.candidate, NoChange}, s.consumed \subseteq t.consumed
  PROVE  Kept(t)
  BY DEF Kept

-----------------------------------------------------------------------------
LEMMA InitInv == ASSUME ConfigAssumption, Init PROVE IInv
<1>1. newest \in ConfigStates
  <2>1. IsFiniteSet({Baseline}) /\ Cardinality({Baseline}) = 1
    BY FS_Singleton
  <2>2. QED
    BY <2>1 DEF ConfigAssumption, Init, ConfigStates, Fields, ValidConfig, Active,
                ActiveStatuses, Statuses
<1>2. DataInv
  BY <1>1 DEF ConfigAssumption, Init, DataInv, Records, Kept, Stored, Intact
<1>3. QED
  BY <1>2 DEF Init, IInv, RestInv, FenceInv, ClockInv, PlaceInv, CapInv, EvidenceInv,
              FreshInv, Down, Timed, TrialPlaces, RunPlaces, NoTick, Proofs, ConfigAssumption

-----------------------------------------------------------------------------
\* The ways out of a run.
Installable ==
  /\ server \in Changes
  /\ link \in Changes \cup {NoChange}
  /\ reader \in Changes \cup {NoChange}
  /\ writer \in Changes \cup {NoChange}
  /\ evidence \subseteq Proofs

LEMMA AfterQuarantine ==
  ASSUME RestInv, pc \in RunPlaces, Quarantine, Installable'
  PROVE  RestInv'
  BY DEF RestInv, FenceInv, ClockInv, PlaceInv, CapInv, EvidenceInv, FreshInv, Quarantine,
         Installable, Down, Timed, TrialPlaces, RunPlaces

LEMMA AfterResume ==
  ASSUME RestInv, pc \in RunPlaces, Resume, Installable', Settled'
  PROVE  RestInv'
  BY DEF RestInv, FenceInv, ClockInv, PlaceInv, CapInv, EvidenceInv, FreshInv, Resume,
         Installable, Down, Timed, TrialPlaces, RunPlaces

LEMMA InRun ==
  ASSUME ConfigAssumption, IInv, pc \in RunPlaces
  PROVE  /\ Loaded /\ ram \in ConfigStates /\ ram \in Records /\ Kept(ram) /\ Installable
         /\ ram.applied \in Changes /\ ram.change \in Changes
         /\ ram.candidate \in Changes \cup {NoChange}
<1>1. Loaded
  BY DEF IInv, RestInv, FenceInv
<1>2. ram \in ConfigStates /\ ram \in Records
  BY <1>1, LoadedState DEF IInv
<1>3. Kept(ram)
  BY <1>2 DEF IInv, DataInv
<1>4. QED
  BY <1>1, <1>2, <1>3, ShapeOfState DEF IInv, RestInv, CapInv, EvidenceInv, Installable

\* A step that leaves the journal and the payloads alone.
LEMMA DataUntouched ==
  ASSUME DataInv, UNCHANGED <<metaVars, payload, tried, rotted>>
  PROVE  DataInv' /\ Records' = Records
  BY DEF DataInv, metaVars, Records, Kept, Stored, Intact

-----------------------------------------------------------------------------
LEMMA BootStep == ASSUME ConfigAssumption, IInv, Boot PROVE IInv'
<1>1. CASE BootLoad
  <2>1. DataInv'
    BY <1>1, NoStateAssumption
       DEF BootLoad, IInv, DataInv, envVars, Records, Kept, Stored, Intact,
           Store!LoadNewest, Store!LoadOlder, Store!Drop
  <2>2. pc' = "loaded" => Loaded'
    BY <1>1, NoStateAssumption DEF BootLoad, Loaded, Store!LoadNewest, Store!LoadOlder
  <2>3. RestInv'
    BY <1>1, <2>2
       DEF BootLoad, IInv, RestInv, FenceInv, ClockInv, PlaceInv, CapInv, EvidenceInv, FreshInv,
           capVars, fenceVars, envVars, Down, Timed, TrialPlaces, RunPlaces
  <2>4. QED
    BY <2>1, <2>3 DEF IInv
<1>2. CASE BootRecover
  <2>1. Loaded /\ ram \in ConfigStates /\ Kept(ram)
    BY <1>2, LoadedState DEF BootRecover, IInv, RestInv, FenceInv, DataInv
  <2>2. /\ Finished(ram, "rolled_back") \in ConfigStates
        /\ Kept(Finished(ram, "rolled_back"))
        /\ ~Active(Finished(ram, "rolled_back"))
    BY <2>1, FinishedValid, KeptByFields
  <2>3. UNCHANGED <<payload, rotted, tried>>
    BY <1>2 DEF BootRecover, envVars
  <2>4. DataInv'
    <3>1. CASE UNCHANGED metaVars
      BY <2>3, <3>1, DataUntouched DEF IInv
    <3>2. CASE Store!CommitOk(Finished(ram, "rolled_back"))
               \/ Store!CommitAmbiguous(Finished(ram, "rolled_back"))
      BY <2>2, <2>3, <3>2, CommitKeeps DEF IInv
    <3>3. QED
      BY <1>2, <3>1, <3>2 DEF BootRecover
  <2>5. pc' = "verify" => Loaded' /\ ~Active(ram)'
    <3>1. CASE UNCHANGED metaVars /\ ~Active(ram)
      BY <2>1, <3>1 DEF metaVars, Loaded, Active
    <3>2. CASE Store!CommitOk(Finished(ram, "rolled_back"))
      BY <2>2, <3>2, NoStateAssumption DEF Store!CommitOk, Loaded, Active
    <3>3. QED
      BY <1>2, <3>1, <3>2 DEF BootRecover
  <2>6. RestInv'
    BY <1>2, <2>5
       DEF BootRecover, IInv, RestInv, FenceInv, ClockInv, PlaceInv, CapInv, EvidenceInv, FreshInv,
           capVars, fenceVars, envVars, Down, Timed, TrialPlaces, RunPlaces
  <2>7. QED
    BY <2>4, <2>6 DEF IInv
<1>3. CASE BootVerified \/ BootRefused
  <2>1. Loaded /\ ~Active(ram) /\ ram.applied \in Changes
    BY <1>3, LoadedState, ShapeOfState DEF BootVerified, BootRefused, IInv, RestInv, FenceInv
  <2>2. DataInv'
    BY <1>3, DataUntouched DEF BootVerified, BootRefused, IInv, envVars
  <2>3. RestInv'
    BY <1>3, <2>1
       DEF BootVerified, BootRefused, IInv, RestInv, FenceInv, ClockInv, PlaceInv, CapInv,
           EvidenceInv, FreshInv, Settled, Loaded, Active, metaVars, capVars, fenceVars, envVars,
           Down, Timed, TrialPlaces, RunPlaces
  <2>4. QED
    BY <2>2, <2>3 DEF IInv
<1>4. QED
  BY <1>1, <1>2, <1>3 DEF Boot

\* RunOnce and what other callbacks, the clock and the environment do.
LEMMA OutsideStep ==
  ASSUME ConfigAssumption, IInv,
         \/ RunOnce \/ PublishBegins \/ PublishEnds \/ ClockAdvances \/ PowerCut
         \/ \E c \in Changes : ServerChanges(c) \/ Rot(c)
  PROVE  IInv'
<1>1. CASE RunOnce
  <2>1. DataInv'
    BY <1>1, DataUntouched DEF RunOnce, IInv, envVars
  <2>2. RestInv'
    BY <1>1
       DEF RunOnce, IInv, RestInv, FenceInv, ClockInv, PlaceInv, CapInv, EvidenceInv, FreshInv,
           Settled, Loaded, Active, metaVars, capVars, envVars, Down, Timed, TrialPlaces, RunPlaces
  <2>3. QED
    BY <2>1, <2>2 DEF IInv
<1>2. CASE PublishBegins \/ PublishEnds
  <2>1. DataInv' /\ Records' = Records
    BY <1>2, DataUntouched DEF PublishBegins, PublishEnds, IInv, envVars
  <2>2. UNCHANGED <<metaVars, age, capVars, suspended, quarantined, pc, evidence, server, tried>>
    BY <1>2 DEF PublishBegins, PublishEnds, envVars
  <2>3. FenceInv'
    BY <1>2, <2>2
       DEF PublishBegins, PublishEnds, IInv, RestInv, FenceInv, Settled, Loaded, Active, metaVars,
           capVars, Down
  <2>4. QED
    BY <2>1, <2>2, <2>3
       DEF IInv, RestInv, ClockInv, PlaceInv, CapInv, EvidenceInv, FreshInv, Active, metaVars,
           capVars
<1>3. CASE ClockAdvances
  <2>1. DataInv' /\ Records' = Records
    BY <1>3, DataUntouched DEF ClockAdvances, IInv, envVars
  <2>2. ClockInv'
    BY <1>3 DEF ClockAdvances, IInv, RestInv, ClockInv, NoTick, ConfigAssumption
  <2>3. QED
    BY <1>3, <2>1, <2>2
       DEF ClockAdvances, IInv, RestInv, FenceInv, PlaceInv, CapInv, EvidenceInv, FreshInv,
           Settled, Loaded, Active, metaVars, capVars, fenceVars, envVars
<1>4. CASE PowerCut
  <2>1. DataInv'
    BY <1>4 DEF PowerCut, IInv, DataInv, envVars, Records, Kept, Stored, Intact, Store!Drop
  <2>2. RestInv'
    BY <1>4
       DEF PowerCut, IInv, RestInv, FenceInv, ClockInv, PlaceInv, CapInv, EvidenceInv, FreshInv,
           envVars, Down, Timed, TrialPlaces, RunPlaces
  <2>3. QED
    BY <2>1, <2>2 DEF IInv
<1>5. ASSUME NEW c \in Changes, ServerChanges(c)
      PROVE  IInv'
  <2>1. DataInv' /\ Records' = Records
    BY <1>5, DataUntouched DEF ServerChanges, IInv
  <2>2. QED
    BY <1>5, <2>1
       DEF ServerChanges, IInv, RestInv, FenceInv, ClockInv, PlaceInv, CapInv, EvidenceInv,
           FreshInv, Settled, Loaded, Active, metaVars, capVars, fenceVars
<1>6. ASSUME NEW c \in Changes, Rot(c)
      PROVE  IInv'
  <2>1. DataInv' /\ Records' = Records
    BY <1>6 DEF Rot, IInv, DataInv, metaVars, Records, Kept, Stored, Intact
  <2>2. QED
    BY <1>6, <2>1
       DEF Rot, IInv, RestInv, FenceInv, ClockInv, PlaceInv, CapInv, EvidenceInv,
           FreshInv, Settled, Loaded, Active, metaVars, capVars, fenceVars
<1>7. QED
  BY <1>1, <1>2, <1>3, <1>4, <1>5, <1>6

-----------------------------------------------------------------------------
\* Staging: the change that is reserved is in neither record.
LEMMA ReserveStep == ASSUME ConfigAssumption, IInv, Reserve PROVE IInv'
<1>0. PICK v : v = Received(ram, server)
  OBVIOUS
<1>1. /\ pc = "fetch" /\ pc \in RunPlaces /\ ~Active(ram) /\ server \in Changes
      /\ link = ram.applied /\ reader = ram.applied /\ writer = ram.applied
      /\ server \notin ram.consumed /\ server # ram.applied
      /\ Cardinality(ram.consumed) < Capacity
  BY DEF Reserve, IInv, RestInv, PlaceInv, CapInv, RunPlaces
<1>2. ram \in ConfigStates /\ Kept(ram) /\ Installable /\ ram.candidate = NoChange
  BY <1>1, InRun, ShapeOfState
<1>3. /\ v \in ConfigStates /\ v.applied = ram.applied /\ v.candidate = NoChange
      /\ v.status = "received" /\ v.change = server
      /\ v.consumed = ram.consumed \cup {server}
  BY <1>0, <1>1, <1>2, ReceivedValid
<1>4. /\ Kept(v) /\ UNCHANGED <<payload, rotted, tried, server, capVars, evidence>>
      /\ \/ Store!CommitOk(v) /\ GoTo("reserved")
         \/ Store!CommitAmbiguous(v) /\ Quarantine
  BY <1>0, <1>2, <1>3, KeptByFields DEF Reserve, CommitThen, envVars
<1>5. DataInv'
  BY <1>3, <1>4, CommitKeeps DEF IInv
<1>6. CASE Store!CommitAmbiguous(v) /\ Quarantine
  <2>1. Installable'
    BY <1>2, <1>4 DEF Installable, capVars
  <2>2. QED
    BY <1>1, <1>5, <1>6, <2>1, AfterQuarantine DEF IInv
<1>7. CASE Store!CommitOk(v) /\ GoTo("reserved")
  <2>1. ram' = v /\ newest' = v /\ older' = ram /\ Loaded'
    BY <1>3, <1>7, NoStateAssumption DEF Store!CommitOk, Loaded
  <2>2. FreshInv'
    <3>1. Records' \subseteq {v, ram}
      BY <2>1 DEF Records
    <3>2. \A s \in Records' : s.applied # ram'.change /\ s.candidate = NoChange
      BY <1>1, <1>2, <1>3, <2>1, <3>1
    <3>3. ram'.change \notin tried'
      BY <1>1, <1>2, <1>3, <1>4, <2>1 DEF Kept
    <3>4. QED
      BY <3>2, <3>3 DEF FreshInv
  <2>3. QED
    BY <1>1, <1>2, <1>3, <1>4, <1>5, <1>7, <2>1, <2>2
       DEF IInv, RestInv, FenceInv, ClockInv, PlaceInv, CapInv, EvidenceInv, GoTo, fenceVars,
           capVars, Installable, Down, Timed, TrialPlaces, RunPlaces
<1>8. QED
  BY <1>4, <1>6, <1>7

\* What is written under the name of the reserved change is in no record.
LEMMA NotOnRecord ==
  ASSUME ConfigAssumption, IInv, pc \in {"reserved", "owned"},
         NEW x \in {"absent", "torn", "whole"},
         payload' = [payload EXCEPT ![ram.change] = x],
         UNCHANGED <<rotted, tried>>
  PROVE  \A s \in Records : Kept(s)'
<1>1. ram.change \in Changes
  BY InRun DEF RunPlaces
<1>2. SUFFICES ASSUME NEW s \in Records
               PROVE  Kept(s)'
  OBVIOUS
<1>3. s.applied # ram.change /\ s.candidate = NoChange /\ Kept(s)
  BY DEF IInv, RestInv, FreshInv, DataInv
<1>4. Stored(s.applied)'
  <2>1. CASE s.applied \in rotted
    BY <2>1 DEF Stored
  <2>2. CASE Intact(s.applied)
    <3>1. s \in ConfigStates
      BY DEF Records, IInv, DataInv
    <3>2. s.applied \in Changes
      BY <3>1, ShapeOfState
    <3>3. QED
      BY <1>1, <1>3, <2>2, <3>2 DEF Intact, Stored, IInv, DataInv
  <2>3. QED
    BY <1>3, <2>1, <2>2 DEF Kept, Stored
<1>5. QED
  BY <1>3, <1>4 DEF Kept

LEMMA WriteStep == ASSUME ConfigAssumption, IInv, WritePayload PROVE IInv'
<1>1. pc = "reserved" /\ pc \in RunPlaces /\ payload' = [payload EXCEPT ![ram.change] = "whole"]
  BY DEF WritePayload, RunPlaces
<1>2. UNCHANGED <<newest, older, ram, rotted, tried>> /\ Records' = Records
  BY DEF WritePayload, metaVars, envVars, Records
<1>3. \A s \in Records : Kept(s)'
  BY <1>1, <1>2, NotOnRecord
<1>4. DataInv'
  BY <1>1, <1>2, <1>3, InRun DEF IInv, DataInv
<1>5. RestInv'
  BY <1>1, <1>2
     DEF WritePayload, GoTo, IInv, RestInv, FenceInv, ClockInv, PlaceInv, CapInv, EvidenceInv,
         FreshInv, Loaded, Active, fenceVars, capVars, envVars, Down, Timed, TrialPlaces, RunPlaces
<1>6. QED
  BY <1>4, <1>5 DEF IInv

LEMMA StagingFailsStep == ASSUME ConfigAssumption, IInv, StagingFails PROVE IInv'
<1>0. PICK v : v = Finished(ram, "rejected")
  OBVIOUS
<1>1. /\ pc \in {"reserved", "owned"} /\ pc \in RunPlaces
      /\ link = ram.applied /\ reader = ram.applied /\ writer = ram.applied
      /\ ram.status = "received"
  BY DEF StagingFails, IInv, RestInv, CapInv, PlaceInv, RunPlaces
<1>2. ram \in ConfigStates /\ ram \in Records /\ Kept(ram) /\ Installable /\ ram.change \in Changes
  BY <1>1, InRun
<1>3. PICK x \in {"absent", "torn", "whole"} : payload' = [payload EXCEPT ![ram.change] = x]
  BY <1>2 DEF StagingFails, IInv, DataInv
<1>4. /\ v \in ConfigStates /\ v.applied = ram.applied /\ v.candidate = NoChange
      /\ ~Active(v) /\ v.consumed = ram.consumed
  BY <1>0, <1>2, FinishedValid
<1>5. /\ UNCHANGED <<rotted, tried, server, capVars, evidence>>
      /\ \/ Store!CommitOk(v) /\ Resume
         \/ Store!CommitAmbiguous(v) /\ Quarantine
  BY <1>0 DEF StagingFails, CommitThen, envVars
<1>6. \A s \in Records \cup {v} : Kept(s)'
  <2>1. \A s \in Records : Kept(s)'
    BY <1>1, <1>3, <1>5, NotOnRecord
  <2>2. Kept(v)'
    BY <1>2, <1>4, <2>1 DEF Kept
  <2>3. QED
    BY <2>1, <2>2
<1>7. DataInv'
  <2>1. /\ newest' \in ConfigStates /\ older' \in ConfigStates \cup {NoState}
        /\ ram' \in {NoState, newest'} /\ Records' \subseteq Records \cup {v}
    BY <1>4, <1>5, Committed DEF IInv
  <2>2. payload' \in [Changes -> {"absent", "torn", "whole"}]
    BY <1>3 DEF IInv, DataInv
  <2>3. tried' \subseteq Changes /\ rotted' \subseteq Changes
    BY <1>5 DEF IInv, DataInv
  <2>4. QED
    BY <1>6, <2>1, <2>2, <2>3 DEF DataInv
<1>8. Installable'
  BY <1>2, <1>5 DEF Installable, capVars
<1>9. CASE Store!CommitAmbiguous(v) /\ Quarantine
  BY <1>1, <1>7, <1>8, <1>9, AfterQuarantine DEF IInv
<1>10. CASE Store!CommitOk(v) /\ Resume
  <2>1. ram' = v /\ Loaded'
    BY <1>4, <1>10, NoStateAssumption DEF Store!CommitOk, Loaded
  <2>2. Settled'
    BY <1>1, <1>4, <1>5, <2>1 DEF Settled, Active, capVars
  <2>3. QED
    BY <1>1, <1>7, <1>8, <1>10, <2>2, AfterResume DEF IInv
<1>11. QED
  BY <1>5, <1>9, <1>10

-----------------------------------------------------------------------------
\* A commit in the middle of a run: where it fails the run is over, and where
\* it succeeds the run goes on from the state it wrote.
LEMMA CommitInRun ==
  ASSUME ConfigAssumption, IInv, pc \in RunPlaces, NEW v \in ConfigStates, Kept(v),
         Store!CommitOk(v) \/ Store!CommitAmbiguous(v),
         UNCHANGED <<payload, rotted, tried>>, Installable'
  PROVE  /\ DataInv'
         /\ Quarantine => IInv'
         /\ Store!CommitOk(v) => ram' = v /\ newest' = v /\ Loaded'
<1>1. DataInv'
  BY CommitKeeps DEF IInv
<1>2. Quarantine => IInv'
  BY <1>1, AfterQuarantine DEF IInv
<1>3. QED
  BY <1>1, <1>2, NoStateAssumption DEF Store!CommitOk, Loaded

LEMMA StageStep == ASSUME ConfigAssumption, IInv, StageCandidate PROVE IInv'
<1>0. PICK v : v = Staged(ram)
  OBVIOUS
<1>1. /\ pc = "owned" /\ pc \in RunPlaces /\ ram.status = "received" /\ Stored(ram.change)
      /\ link = ram.applied /\ reader = ram.applied /\ writer = ram.applied
      /\ ram.change \notin tried
  BY DEF StageCandidate, Stored, IInv, RestInv, PlaceInv, CapInv, FreshInv, RunPlaces
<1>2. ram \in ConfigStates /\ Kept(ram) /\ Installable
  BY <1>1, InRun
<1>3. /\ v \in ConfigStates /\ v.applied = ram.applied /\ v.candidate = ram.change
      /\ v.status = "staged" /\ v.change = ram.change /\ v.consumed = ram.consumed
  BY <1>0, <1>1, <1>2, StagedValid
<1>4. /\ Kept(v) /\ UNCHANGED <<payload, rotted, tried, server, capVars, evidence>>
      /\ \/ Store!CommitOk(v) /\ GoTo("staged")
         \/ Store!CommitAmbiguous(v) /\ Quarantine
  BY <1>0, <1>1, <1>2, <1>3 DEF StageCandidate, CommitThen, envVars, Kept
<1>5. Installable'
  BY <1>2, <1>4 DEF Installable, capVars
<1>6. CASE Store!CommitAmbiguous(v) /\ Quarantine
  BY <1>1, <1>3, <1>4, <1>5, <1>6, CommitInRun
<1>7. CASE Store!CommitOk(v) /\ GoTo("staged")
  <2>1. DataInv' /\ ram' = v /\ newest' = v /\ Loaded'
    BY <1>1, <1>3, <1>4, <1>5, <1>7, CommitInRun
  <2>2. RestInv'
    BY <1>1, <1>3, <1>4, <1>5, <1>7, <2>1
       DEF IInv, RestInv, FenceInv, ClockInv, PlaceInv, CapInv, EvidenceInv, FreshInv, GoTo,
           fenceVars, capVars, Installable, Down, Timed, TrialPlaces, RunPlaces
  <2>3. QED
    BY <2>1, <2>2 DEF IInv
<1>8. QED
  BY <1>4, <1>6, <1>7

\* The coordinator gives the change up before its trial, or does not begin.
LEMMA NoTrialStep ==
  ASSUME ConfigAssumption, IInv, BaselineInvalid \/ NothingToStage \/ RejectStaged
  PROVE  IInv'
<1>1. /\ pc \in {"fetch", "staged"} /\ pc \in RunPlaces
      /\ link = ram.applied /\ reader = ram.applied /\ writer = ram.applied
      /\ pc = "fetch" => ~Active(ram)
      /\ UNCHANGED <<payload, rotted, tried, server, capVars, evidence>>
  BY DEF BaselineInvalid, NothingToStage, RejectStaged, IInv, RestInv, PlaceInv, CapInv, RunPlaces,
         envVars
<1>2. ram \in ConfigStates /\ Kept(ram) /\ Installable /\ Loaded
  BY <1>1, InRun
<1>3. Installable'
  BY <1>1, <1>2 DEF Installable, capVars
<1>4. CASE BaselineInvalid
  <2>1. DataInv'
    BY <1>1, <1>4, DataUntouched DEF BaselineInvalid, IInv
  <2>2. QED
    BY <1>1, <1>3, <1>4, <2>1, AfterQuarantine DEF BaselineInvalid, IInv
<1>5. CASE NothingToStage
  <2>1. DataInv' /\ UNCHANGED metaVars /\ pc = "fetch" /\ Resume
    BY <1>1, <1>5, DataUntouched DEF NothingToStage, IInv
  <2>2. Settled'
    BY <1>1, <1>2, <2>1 DEF Settled, Loaded, Active, metaVars, capVars
  <2>3. QED
    BY <1>1, <1>3, <2>1, <2>2, AfterResume DEF IInv
<1>6. CASE RejectStaged
  <2>0. PICK v : v = Finished(ram, "rejected")
    OBVIOUS
  <2>1. /\ v \in ConfigStates /\ v.applied = ram.applied /\ v.candidate = NoChange
        /\ v.consumed = ram.consumed /\ ~Active(v)
    BY <1>2, <2>0, FinishedValid
  <2>2. /\ Kept(v)
        /\ \/ Store!CommitOk(v) /\ Resume
           \/ Store!CommitAmbiguous(v) /\ Quarantine
    BY <1>2, <1>6, <2>0, <2>1, KeptByFields DEF RejectStaged, CommitThen
  <2>3. CASE Store!CommitAmbiguous(v) /\ Quarantine
    BY <1>1, <1>3, <2>1, <2>2, <2>3, CommitInRun
  <2>4. CASE Store!CommitOk(v) /\ Resume
    <3>1. DataInv' /\ ram' = v /\ Loaded'
      BY <1>1, <1>3, <2>1, <2>2, <2>4, CommitInRun
    <3>2. Settled'
      BY <1>1, <2>1, <3>1 DEF Settled, Active, capVars
    <3>3. QED
      BY <1>1, <1>3, <2>4, <3>1, <3>2, AfterResume DEF IInv
  <2>5. QED
    BY <2>2, <2>3, <2>4
<1>7. QED
  BY <1>4, <1>5, <1>6

\* The trial begins: its change is counted as tried, on both records.
LEMMA EnterTrialStep == ASSUME ConfigAssumption, IInv, EnterTrial PROVE IInv'
<1>0. PICK v : v = Trialing(ram)
  OBVIOUS
<1>1. /\ pc = "staged" /\ pc \in RunPlaces /\ ram.status = "staged"
      /\ ram.candidate = ram.change
      /\ link = ram.applied /\ reader = ram.applied /\ writer = ram.applied
      /\ UNCHANGED <<payload, rotted, server, capVars>> /\ evidence' = {}
  BY DEF EnterTrial, IInv, RestInv, PlaceInv, CapInv, RunPlaces
<1>2. /\ ram \in ConfigStates /\ Kept(ram) /\ Installable /\ Loaded
      /\ ram.change \in Changes
  BY <1>1, InRun
<1>3. ram.change \in ram.consumed
  BY <1>1, <1>2, ShapeOfState DEF ValidConfig, Active, ActiveStatuses
<1>4. /\ v \in ConfigStates /\ v.applied = ram.applied /\ v.candidate = ram.candidate
      /\ v.status = "trial" /\ v.consumed = ram.consumed
  BY <1>0, <1>1, <1>2, TrialingValid
<1>5. /\ Kept(v)
      /\ \/ /\ Store!CommitOk(v) /\ pc' = "connect" /\ age' = 0
            /\ tried' = tried \cup {ram.candidate} /\ UNCHANGED fenceVars
         \/ Store!CommitAmbiguous(v) /\ Quarantine /\ UNCHANGED tried
  BY <1>0, <1>2, <1>4, KeptByFields DEF EnterTrial
<1>6. Installable'
  BY <1>1, <1>2 DEF Installable, capVars
<1>7. CASE Store!CommitAmbiguous(v) /\ Quarantine /\ UNCHANGED tried
  BY <1>1, <1>4, <1>5, <1>6, <1>7, CommitInRun
<1>8. CASE /\ Store!CommitOk(v) /\ pc' = "connect" /\ age' = 0
           /\ tried' = tried \cup {ram.candidate} /\ UNCHANGED fenceVars
  <2>1. ram' = v /\ newest' = v /\ older' = ram /\ Loaded' /\ Records' \subseteq {v, ram}
    BY <1>4, <1>8, NoStateAssumption DEF Store!CommitOk, Loaded, Records
  <2>2. \A s \in {v, ram} : Kept(s)'
    BY <1>1, <1>2, <1>3, <1>4, <1>5, <1>8 DEF Kept, Stored, Intact
  <2>3. DataInv'
    BY <1>1, <1>2, <1>4, <1>8, <2>1, <2>2 DEF IInv, DataInv
  <2>4. RestInv'
    BY <1>1, <1>4, <1>6, <1>8, <2>1
       DEF IInv, RestInv, FenceInv, ClockInv, PlaceInv, CapInv, EvidenceInv, FreshInv, fenceVars,
           capVars, Installable, Down, Timed, TrialPlaces, RunPlaces, NoTick, ConfigAssumption
  <2>5. QED
    BY <2>3, <2>4 DEF IInv
<1>9. QED
  BY <1>5, <1>7, <1>8

-----------------------------------------------------------------------------
\* The bounded calls of the trial, up to its last check.
LEMMA ProofStep ==
  ASSUME ConfigAssumption, IInv,
         Connect \/ ReadExact \/ ProveSample \/ ProveReport \/ FinalCheck \/ TrialFails
  PROVE  IInv'
<1>1. /\ pc \in TrialPlaces /\ pc \in RunPlaces /\ ram.status = "trial"
      /\ reader = ram.applied /\ writer = ram.applied
  BY DEF Connect, ReadExact, ProveSample, ProveReport, FinalCheck, TrialFails, Prove, TrialPlaces,
         RunPlaces, IInv, RestInv, PlaceInv, CapInv
<1>2. /\ ram \in ConfigStates /\ Installable /\ Loaded /\ ram.candidate \in Changes
  BY <1>1, InRun, PromotedValid
<1>3. /\ UNCHANGED <<newest, older, ram, payload, reader, writer, age, suspended, publishing,
                     quarantined, server, tried, rotted>>
      /\ link' \in {link, ram.candidate, NoChange}
      /\ evidence' \subseteq Proofs
  BY <1>2
     DEF Connect, ReadExact, ProveSample, ProveReport, FinalCheck, TrialFails, Prove, GoTo,
         metaVars, fenceVars, capVars, envVars, Proofs, Installable
<1>4. DataInv'
  BY <1>3, DataUntouched DEF IInv, metaVars
<1>5. CapInv' /\ EvidenceInv'
  BY <1>1, <1>2, <1>3
     DEF Connect, ReadExact, ProveSample, ProveReport, FinalCheck, TrialFails, Prove, GoTo, capVars,
         IInv, RestInv, CapInv, EvidenceInv, TrialPlaces, RunPlaces, Installable
<1>6. pc' \in TrialPlaces \cup {"rollback"}
  BY DEF Connect, ReadExact, ProveSample, ProveReport, FinalCheck, TrialFails, Prove, GoTo,
         TrialPlaces
<1>7. FenceInv' /\ ClockInv' /\ PlaceInv' /\ FreshInv'
  BY <1>1, <1>2, <1>3, <1>6
     DEF IInv, RestInv, FenceInv, ClockInv, PlaceInv, FreshInv, TrialPlaces, RunPlaces, Timed, Down,
         Loaded
<1>8. QED
  BY <1>4, <1>5, <1>7 DEF IInv, RestInv

LEMMA PromoteStep == ASSUME ConfigAssumption, IInv, Promote PROVE IInv'
<1>0. PICK v : v = Promoted(ram)
  OBVIOUS
<1>1. /\ pc = "confirm" /\ pc \in RunPlaces /\ ram.status = "trial" /\ link = ram.candidate
      /\ UNCHANGED <<payload, rotted, tried, server, capVars, evidence>>
  BY DEF Promote, IInv, RestInv, PlaceInv, CapInv, RunPlaces, TrialPlaces, envVars
<1>2. ram \in ConfigStates /\ Kept(ram) /\ Installable
  BY <1>1, InRun
<1>3. /\ v \in ConfigStates /\ v.applied = ram.candidate /\ v.candidate = NoChange
      /\ v.status = "applied" /\ v.consumed = ram.consumed /\ ram.candidate \in Changes
  BY <1>0, <1>1, <1>2, PromotedValid
<1>4. /\ Kept(v)
      /\ \/ Store!CommitOk(v) /\ GoTo("handover")
         \/ Store!CommitAmbiguous(v) /\ Quarantine
  BY <1>0, <1>2, <1>3 DEF Promote, CommitThen, Kept, ConfigAssumption
<1>5. Installable'
  BY <1>1, <1>2 DEF Installable, capVars
<1>6. CASE Store!CommitAmbiguous(v) /\ Quarantine
  BY <1>1, <1>3, <1>4, <1>5, <1>6, CommitInRun
<1>7. CASE Store!CommitOk(v) /\ GoTo("handover")
  <2>1. DataInv' /\ ram' = v /\ newest' = v /\ Loaded'
    BY <1>1, <1>3, <1>4, <1>5, <1>7, CommitInRun
  <2>2. RestInv'
    BY <1>1, <1>3, <1>5, <1>7, <2>1
       DEF IInv, RestInv, FenceInv, ClockInv, PlaceInv, CapInv, EvidenceInv, FreshInv, GoTo,
           fenceVars, capVars, Installable, Down, Timed, TrialPlaces, RunPlaces
  <2>3. QED
    BY <2>1, <2>2 DEF IInv
<1>8. QED
  BY <1>4, <1>6, <1>7

\* The change is rolled back, by the commit that came too late or after it.
LEMMA RollbackStep ==
  ASSUME ConfigAssumption, IInv, ConfirmTooLate \/ Rollback PROVE IInv'
<1>0. PICK v : v = Finished(ram, "rolled_back")
  OBVIOUS
<1>1. /\ pc \in {"confirm", "rollback"} /\ pc \in RunPlaces
      /\ reader = ram.applied /\ writer = ram.applied
      /\ UNCHANGED <<payload, rotted, tried, server, capVars, evidence>>
  BY DEF ConfirmTooLate, Rollback, IInv, RestInv, CapInv, RunPlaces, TrialPlaces, envVars
<1>2. ram \in ConfigStates /\ Kept(ram) /\ Installable
  BY <1>1, InRun
<1>3. /\ v \in ConfigStates /\ v.applied = ram.applied /\ v.candidate = NoChange
      /\ v.status = "rolled_back" /\ v.consumed = ram.consumed
  BY <1>0, <1>2, FinishedValid
<1>4. /\ Kept(v)
      /\ \/ /\ Store!CommitOk(v)
            /\ pc = "rollback" /\ GoTo("restore")
         \/ /\ Store!CommitOk(v) \/ Store!CommitAmbiguous(v)
            /\ Quarantine
  BY <1>0, <1>2, <1>3, KeptByFields DEF ConfirmTooLate, Rollback, CommitThen
<1>5. Installable'
  BY <1>1, <1>2 DEF Installable, capVars
<1>6. CASE /\ Store!CommitOk(v) \/ Store!CommitAmbiguous(v)
           /\ Quarantine
  BY <1>1, <1>3, <1>4, <1>5, <1>6, CommitInRun
<1>7. CASE Store!CommitOk(v) /\ pc = "rollback" /\ GoTo("restore")
  <2>1. DataInv' /\ ram' = v /\ newest' = v /\ Loaded'
    BY <1>1, <1>3, <1>4, <1>5, <1>7, CommitInRun
  <2>2. RestInv'
    BY <1>1, <1>3, <1>5, <1>7, <2>1
       DEF IInv, RestInv, FenceInv, ClockInv, PlaceInv, CapInv, EvidenceInv, FreshInv, GoTo,
           fenceVars, capVars, Installable, Down, Timed, TrialPlaces, RunPlaces
  <2>3. QED
    BY <2>1, <2>2 DEF IInv
<1>8. QED
  BY <1>4, <1>6, <1>7

\* After the hand-over or the restoration the fence is down only on a device
\* that has all of the applied configuration.
LEMMA EndStep ==
  ASSUME ConfigAssumption, IInv, HandOver \/ HandOverFails \/ Restore \/ RestoreFails
  PROVE  IInv'
<1>1. /\ pc \in {"handover", "restore"} /\ pc \in RunPlaces
      /\ pc = "handover" => link = ram.applied /\ ram.status = "applied"
      /\ pc = "restore" => /\ reader = ram.applied /\ writer = ram.applied
                           /\ ram.status = "rolled_back"
      /\ UNCHANGED <<newest, older, ram, payload, server, tried, rotted, evidence>>
  BY DEF HandOver, HandOverFails, Restore, RestoreFails, IInv, RestInv, PlaceInv, CapInv, RunPlaces,
         metaVars, envVars
<1>2. /\ ram.applied \in Changes /\ Installable /\ Loaded /\ ~Active(ram)
  BY <1>1, InRun DEF Active, ActiveStatuses
<1>3. DataInv'
  BY <1>1, DataUntouched DEF IInv, metaVars
<1>4. Installable'
  BY <1>1, <1>2 DEF HandOver, HandOverFails, Restore, RestoreFails, Installable
<1>5. HandOver \/ Restore => Settled'
  BY <1>1, <1>2 DEF HandOver, Restore, Settled, Loaded, Active
<1>6. CASE Quarantine
  BY <1>1, <1>3, <1>4, <1>6, AfterQuarantine DEF IInv
<1>7. CASE (HandOver \/ Restore) /\ Resume
  BY <1>1, <1>3, <1>4, <1>5, <1>7, AfterResume DEF IInv
<1>8. CASE HandOver /\ pc' = "idle" /\ suspended' = FALSE /\ quarantined' = TRUE
           /\ age' = NoTick /\ UNCHANGED publishing
  <2>1. RestInv'
    BY <1>1, <1>4, <1>5, <1>8
       DEF IInv, RestInv, FenceInv, ClockInv, PlaceInv, CapInv, EvidenceInv, FreshInv, Installable,
           Down, Timed, TrialPlaces, RunPlaces
  <2>2. QED
    BY <1>3, <2>1 DEF IInv
<1>9. QED
  BY <1>6, <1>7, <1>8 DEF HandOver, HandOverFails, Restore, RestoreFails

LEMMA StepInv == ASSUME ConfigAssumption, IInv, [Next]_vars PROVE IInv'
<1>1. CASE Boot
  BY <1>1, BootStep
<1>2. CASE \/ RunOnce \/ PublishBegins \/ PublishEnds \/ ClockAdvances \/ PowerCut
           \/ \E c \in Changes : ServerChanges(c) \/ Rot(c)
  BY <1>2, OutsideStep
<1>3. CASE Staging
  BY <1>3, ReserveStep, WriteStep, StagingFailsStep, StageStep, NoTrialStep, EnterTrialStep
     DEF Staging
<1>4. CASE Trial \/ Ending
  BY <1>4, ProofStep, PromoteStep, RollbackStep, EndStep DEF Trial, Ending
<1>5. CASE UNCHANGED vars
  BY <1>5, DataUntouched
     DEF vars, metaVars, IInv, RestInv, FenceInv, ClockInv, PlaceInv, CapInv, EvidenceInv, FreshInv,
         Settled, Loaded, Active
<1>6. QED
  BY <1>1, <1>2, <1>3, <1>4, <1>5 DEF Next

-----------------------------------------------------------------------------
THEOREM Invariance == Spec => []IInv
<1>1. Init => IInv
  BY InitInv, ConfigAssumption
<1>2. IInv /\ [Next]_vars => IInv'
  BY StepInv, ConfigAssumption
<1>3. QED
  BY <1>1, <1>2, PTL DEF Spec

\* Whatever the journal went through, its records pass _validate, the trial's
\* clock runs exactly during a trial, and the fence is up during every run.
THEOREM TypeCorrect == Spec => []TypeOK
<1>1. IInv => TypeOK
  <2> SUFFICES ASSUME IInv PROVE TypeOK
    OBVIOUS
  <2>1. Store!TypeOK
    BY DEF IInv, DataInv, Store!TypeOK
  <2>2. /\ {link, reader, writer} \subseteq Changes \cup {NoChange} /\ server \in Changes
        /\ {suspended, publishing, quarantined} \subseteq BOOLEAN
        /\ {tried, rotted} \subseteq SUBSET Changes
    BY DEF IInv, DataInv, RestInv, FenceInv, CapInv
  <2>3. QED
    BY <2>1, <2>2
       DEF IInv, DataInv, RestInv, FenceInv, ClockInv, EvidenceInv, TypeOK, Down, Timed
<1>2. QED
  BY <1>1, Invariance, PTL

\* No failed staging and no ambiguous commit deletes a payload that a record
\* refers to, whichever record a load selects.
THEOREM PayloadsStayIntact == Spec => []PayloadsIntact
<1>1. IInv => PayloadsIntact
  BY DEF IInv, DataInv, Records, Kept, Stored, PayloadsIntact
<1>2. QED
  BY <1>1, Invariance, PTL

\* A publication never runs with the network or the writer of a candidate.
THEOREM PublicationsAsApplied == Spec => []PublishesAsApplied
<1>1. IInv => PublishesAsApplied
  BY DEF IInv, RestInv, FenceInv, Settled, PublishesAsApplied
<1>2. QED
  BY <1>1, Invariance, PTL

\* A run that leaves the device in service leaves it settled.
THEOREM IdleIsSettled == Spec => []IdleSettled
<1>1. IInv => IdleSettled
  BY DEF IInv, RestInv, FenceInv, Settled, IdleSettled
<1>2. QED
  BY <1>1, Invariance, PTL

\* No id is tried again, although a load may fall back by one record.
THEOREM NoChangeTriedTwice == Spec => NoSecondTrial
<1>1. IInv /\ [Next]_vars => [pc = "staged" /\ pc' = "connect" => ram.candidate \notin tried]_vars
  BY DEF IInv, RestInv, PlaceInv, FreshInv
<1>2. QED
  BY <1>1, Invariance, PTL DEF Spec, NoSecondTrial

\* What a step makes the applied configuration: the one that was, or the
\* candidate that has all four proofs.
Proven(c) ==
  /\ c = newest.candidate /\ link = newest.candidate
  /\ evidence = Proofs
  /\ age \in 0..(TrialMs - 1)

LEMMA AppliedBy ==
  ASSUME ConfigAssumption, IInv, NEW v,
         Store!CommitOk(v) \/ Store!CommitAmbiguous(v),
         v.applied = ram.applied \/ Proven(v.applied)
  PROVE  \/ newest'.applied = newest.applied
         \/ Proven(newest'.applied)
         \/ ReadFaults /\ older # NoState /\ newest'.applied = older.applied
  BY DEF Store!CommitOk, Store!CommitAmbiguous, IInv, DataInv

\* Only the trial of a candidate, with its four proofs, inside its deadline
\* and on its network, makes it the applied configuration.
THEOREM PromotionIsProven == Spec => PromotionProven
<1> DEFINE Change == \/ newest'.applied = newest.applied
                     \/ Proven(newest'.applied)
                     \/ ReadFaults /\ older # NoState /\ newest'.applied = older.applied
<1>1. ASSUME IInv, [Next]_vars, newest' # newest
      PROVE  Change
  <2>1. pc \in RunPlaces => ram \in ConfigStates
    BY <1>1, InRun, ConfigAssumption
  <2>2. CASE Boot
    <3>1. ram \in ConfigStates /\ BootRecover
      BY <1>1, <2>2, LoadedState, ConfigAssumption
         DEF Boot, BootLoad, BootRecover, BootVerified, BootRefused, metaVars, IInv, RestInv,
             FenceInv, Store!LoadNewest, Store!LoadOlder, Store!Drop
    <3>2. QED
      BY <1>1, <3>1, FinishedValid, AppliedBy, ConfigAssumption DEF BootRecover, metaVars
  <2>3. CASE Reserve
    <3>1. ram \in ConfigStates /\ server \in Changes
      BY <1>1, <2>1, <2>3 DEF Reserve, RunPlaces, IInv, RestInv, CapInv
    <3>2. QED
      BY <1>1, <2>3, <3>1, ReceivedValid, AppliedBy, ConfigAssumption DEF Reserve, CommitThen
  <2>4. CASE StagingFails \/ RejectStaged \/ Rollback \/ ConfirmTooLate
    <3>1. ram \in ConfigStates
      BY <2>1, <2>4
         DEF StagingFails, RejectStaged, Rollback, ConfirmTooLate, RunPlaces, TrialPlaces
    <3>2. QED
      BY <1>1, <2>4, <3>1, FinishedValid, AppliedBy, ConfigAssumption
         DEF StagingFails, RejectStaged, Rollback, ConfirmTooLate, CommitThen
  <2>5. CASE StageCandidate
    <3>1. ram \in ConfigStates /\ ram.status = "received"
      BY <1>1, <2>1, <2>5 DEF StageCandidate, RunPlaces, IInv, RestInv, PlaceInv
    <3>2. QED
      BY <1>1, <2>5, <3>1, StagedValid, AppliedBy, ConfigAssumption DEF StageCandidate, CommitThen
  <2>6. CASE EnterTrial
    <3>1. ram \in ConfigStates /\ ram.status = "staged"
      BY <1>1, <2>1, <2>6 DEF EnterTrial, RunPlaces, IInv, RestInv, PlaceInv
    <3>2. QED
      BY <1>1, <2>6, <3>1, TrialingValid, AppliedBy, ConfigAssumption DEF EnterTrial
  <2>7. CASE Promote
    <3>1. /\ ram \in ConfigStates /\ ram.status = "trial" /\ ram = newest
          /\ link = ram.candidate /\ age # NoTick /\ ~Expired
          /\ evidence \subseteq Proofs
          /\ "wifi" \in evidence /\ "fleet" \in evidence
          /\ "temperature" \in evidence /\ "diagnostics" \in evidence
          /\ age \in {NoTick} \cup 0..TrialMs
      BY <1>1, <2>1, <2>7
         DEF Promote, RunPlaces, TrialPlaces, Timed, IInv, RestInv, ClockInv, PlaceInv, CapInv,
             EvidenceInv
    <3>2. age \in 0..(TrialMs - 1)
      BY <3>1, ConfigAssumption DEF Expired, NoTick, ConfigAssumption
    <3>3. evidence = Proofs
      BY <3>1 DEF Proofs
    <3>4. Proven(Promoted(ram).applied)
      BY <3>1, <3>2, <3>3, PromotedValid, ConfigAssumption DEF Proven
    <3>5. QED
      BY <1>1, <2>7, <3>4, AppliedBy, ConfigAssumption DEF Promote, CommitThen
  <2>8. QED
    BY <1>1, <2>2, <2>3, <2>4, <2>5, <2>6, <2>7
       DEF Next, vars, metaVars, Staging, Trial, Ending, RunOnce, BaselineInvalid, NothingToStage,
           WritePayload, Connect, ReadExact, ProveSample, ProveReport, FinalCheck,
           TrialFails, Prove, HandOver, HandOverFails, Restore, RestoreFails, PublishBegins, PublishEnds,
           ServerChanges, ClockAdvances, PowerCut, Rot, Store!Drop
<1>2. IInv /\ [Next]_vars => [Change]_newest
  BY <1>1
<1>3. [Change]_newest =>
        [ \/ newest'.applied = newest.applied
          \/ /\ newest'.applied = newest.candidate
             /\ link = newest.candidate
             /\ evidence = Proofs
             /\ age \in 0..(TrialMs - 1)
          \/ ReadFaults /\ older # NoState /\ newest'.applied = older.applied ]_newest
  BY DEF Proven
<1>4. QED
  BY <1>2, <1>3, Invariance, PTL DEF Spec, PromotionProven
=============================================================================
