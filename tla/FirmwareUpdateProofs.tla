------------------------ MODULE FirmwareUpdateProofs ------------------------
(***************************************************************************)
(* The selection of firmware slots is safe for every number of releases,   *)
(* every trial length and with or without transient read faults.           *)
(***************************************************************************)
EXTENDS FirmwareUpdate, TLAPS

\* The loaded state is one of the two records.
RamOnDisk ==
  /\ newest # NoState
  /\ ram \in {NoState, newest, older}

BootInv ==
  /\ pc = "off" => ram = NoState
  /\ pc \in {"loaded", "select"} => ram # NoState
  /\ pc = "select" => ram.phase = "none"

\* Past recovery, a pending phase means both records apply the same slot:
\* it is this that makes the RAM check of stage_writer sufficient.
PendingInv ==
  Loaded /\ pc # "loaded" /\ ram.phase # "none" =>
    \A s \in OnDisk : s.applied_slot = ram.applied_slot

\* A trial is entered only with the verified candidate in its slot, and
\* nothing writes that slot until the trial ends.
TrialInv ==
  Loaded /\ pc # "loaded" /\ ram.phase = "trial_entered" /\ ram.pending_slot \notin rotted
    => Authentic(ram.pending_slot, ram.pending_id)

\* The admission in progress is the one the durable state reserves.
JobInv ==
  /\ pc \in {"staged", "writing", "written"} /\ Loaded /\ ram.phase = "writing" =>
       ram.pending_slot = job.slot /\ ram.pending_id = job.id
  /\ pc \in {"staged", "writing", "written", "entered"} => job.id \in ReleaseIds

IInv ==
  /\ TypeOK
  /\ RamOnDisk
  /\ BootInv
  /\ PendingInv
  /\ TrialInv
  /\ JobInv
  /\ AppliedIntact
  /\ OnlyProvenSelected

-----------------------------------------------------------------------------
\* The state transitions map valid states to valid states.
LEMMA FactoryValid ==
  ASSUME FirmwareAssumption, NEW retained \in BOOLEAN
  PROVE  Factory(retained) \in UpdateStates
BY DEF FirmwareAssumption, Factory, UpdateStates, Fields, ValidState, ReleaseIds, Slots, NoId

LEMMA ShapeOfState ==
  ASSUME FirmwareAssumption, NEW s \in UpdateStates
  PROVE  /\ s \in Fields
         /\ ValidState(s)
         /\ HighWater(s) \in 0..MaxReleaseId
BY DEF FirmwareAssumption, UpdateStates, Fields, HighWater, MaxOf

LEMMA StagedValid ==
  ASSUME FirmwareAssumption, NEW s \in UpdateStates, s.phase = "none",
         NEW id \in ReleaseIds, NEW marker \in Markers, id > HighWater(s)
  PROVE  /\ Staged(s, id, marker) \in UpdateStates
         /\ Staged(s, id, marker).applied_slot = s.applied_slot
         /\ Staged(s, id, marker).applied_id = s.applied_id
         /\ Staged(s, id, marker).retained_slot # "none" =>
              /\ s.retained_slot # "none"
              /\ Staged(s, id, marker).retained_id = s.retained_id
         /\ Staged(s, id, marker).phase = "writing"
<1> DEFINE t == Staged(s, id, marker)
<1>1. s \in Fields /\ ValidState(s) /\ HighWater(s) \in 0..MaxReleaseId
  BY ShapeOfState
<1>2. OtherSlot(s.applied_slot) \in Slots /\ OtherSlot(s.applied_slot) # s.applied_slot
  BY <1>1 DEF Fields, Slots, OtherSlot
<1>3. /\ t.applied_slot = s.applied_slot /\ t.applied_id = s.applied_id
      /\ t.installed_high_water = s.installed_high_water
      /\ t.failed_high_water = s.failed_high_water
      /\ t.pending_slot = OtherSlot(s.applied_slot) /\ t.pending_id = id
      /\ t.trial_marker = marker /\ t.phase = "writing"
  BY <1>1 DEF Staged, Fields
<1>4. CASE s.retained_slot = OtherSlot(s.applied_slot)
  <2>1. t.retained_slot = "none" /\ t.retained_id = NoId
    BY <1>1, <1>4 DEF Staged, Fields
  <2>2. t \in Fields
    BY <1>1, <1>2, <2>1 DEF Staged, Fields, NoId
  <2>3. /\ HighWater(t) = HighWater(s) /\ marker # "none"
        /\ t.pending_slot # "none" /\ t.applied_slot # "none"
    BY <1>1, <1>2, <1>3 DEF HighWater, Fields, Slots, FirmwareAssumption
  <2>4. ValidState(t)
    BY <1>1, <1>2, <1>3, <2>1, <2>3 DEF ValidState, Fields
  <2>5. QED
    BY <1>3, <2>1, <2>2, <2>4 DEF UpdateStates
<1>5. CASE s.retained_slot # OtherSlot(s.applied_slot)
  <2>1. t.retained_slot = s.retained_slot /\ t.retained_id = s.retained_id
    BY <1>1, <1>5 DEF Staged, Fields
  <2>2. t \in Fields
    BY <1>1, <1>2, <1>5 DEF Staged, Fields
  <2>3. ValidState(t)
    BY <1>1, <1>2, <1>3, <1>5, <2>1, FirmwareAssumption
       DEF ValidState, HighWater, Slots, FirmwareAssumption
  <2>4. QED
    BY <1>3, <2>1, <2>2, <2>3 DEF UpdateStates
<1>6. QED
  BY <1>4, <1>5

LEMMA TrialingValid ==
  ASSUME FirmwareAssumption, NEW s \in UpdateStates, s.phase = "writing"
  PROVE  /\ Trialing(s) \in UpdateStates
         /\ Trialing(s).applied_slot = s.applied_slot
         /\ Trialing(s).applied_id = s.applied_id
         /\ Trialing(s).retained_slot = s.retained_slot
         /\ Trialing(s).retained_id = s.retained_id
         /\ Trialing(s).pending_slot = s.pending_slot
         /\ Trialing(s).pending_id = s.pending_id
BY DEF FirmwareAssumption, Trialing, UpdateStates, Fields, ValidState, HighWater, MaxOf,
       OtherSlot, Slots

LEMMA SuppressedValid ==
  ASSUME FirmwareAssumption, NEW s \in UpdateStates, s.phase # "none"
  PROVE  /\ Suppressed(s) \in UpdateStates
         /\ Suppressed(s).applied_slot = s.applied_slot
         /\ Suppressed(s).applied_id = s.applied_id
         /\ Suppressed(s).retained_slot = s.retained_slot
         /\ Suppressed(s).retained_id = s.retained_id
         /\ Suppressed(s).phase = "none"
         /\ Recovered(s) = Suppressed(s)
<1> DEFINE t == [s EXCEPT !.failed_high_water = MaxOf(@, s.pending_id)]
<1>1. t \in Fields /\ t.applied_slot = s.applied_slot /\ t.applied_id = s.applied_id
      /\ t.retained_slot = s.retained_slot /\ t.retained_id = s.retained_id
      /\ t.installed_high_water = s.installed_high_water
  BY DEF FirmwareAssumption, UpdateStates, Fields, ReleaseIds, NoId, MaxOf
<1>2. Cleared(t) \in UpdateStates
  BY <1>1 DEF FirmwareAssumption, Cleared, UpdateStates, Fields, ValidState, NoId
<1>3. Recovered(s) = Suppressed(s)
  <2>1. s.pending_slot # s.retained_slot
    BY DEF UpdateStates, ValidState
  <2>2. [s EXCEPT !.retained_slot = s.retained_slot, !.retained_id = s.retained_id] = s
    BY DEF UpdateStates, Fields
  <2>3. QED
    BY <2>1, <2>2 DEF Recovered
<1>4. QED
  BY <1>1, <1>2, <1>3 DEF Suppressed, Cleared, Fields

LEMMA PromotedValid ==
  ASSUME FirmwareAssumption, NEW s \in UpdateStates, s.phase = "trial_entered"
  PROVE  /\ Promoted(s) \in UpdateStates
         /\ Promoted(s).applied_slot = s.pending_slot
         /\ Promoted(s).applied_id = s.pending_id
         /\ Promoted(s).retained_slot = s.applied_slot
         /\ Promoted(s).retained_id = s.applied_id
         /\ Promoted(s).phase = "none"
<1> DEFINE t == Promoted(s)
<1>1. s \in Fields /\ ValidState(s)
  BY ShapeOfState
<1>2. /\ s.pending_slot \in Slots /\ s.pending_slot # s.applied_slot
      /\ s.pending_id \in ReleaseIds
  BY <1>1 DEF Fields, ValidState, Slots, OtherSlot, NoId, ReleaseIds, HighWater, MaxOf
<1>3. /\ t.applied_slot = s.pending_slot /\ t.applied_id = s.pending_id
      /\ t.retained_slot = s.applied_slot /\ t.retained_id = s.applied_id
      /\ t.installed_high_water = MaxOf(s.installed_high_water, s.pending_id)
      /\ t.pending_slot = "none" /\ t.pending_id = NoId
      /\ t.trial_marker = "none" /\ t.phase = "none"
  BY <1>1 DEF Promoted, Cleared, Fields
<1>4. /\ MaxOf(s.installed_high_water, s.pending_id) \in 0..MaxReleaseId
      /\ MaxOf(s.installed_high_water, s.pending_id) >= s.pending_id
      /\ MaxOf(s.installed_high_water, s.pending_id) >= s.installed_high_water
  BY <1>1, <1>2, FirmwareAssumption DEF FirmwareAssumption, MaxOf, Fields, ReleaseIds
<1>5. t \in Fields
  BY <1>1, <1>2, <1>4 DEF Promoted, Cleared, Fields
<1>6. ValidState(t)
  BY <1>1, <1>2, <1>3, <1>4, FirmwareAssumption
     DEF ValidState, Fields, ReleaseIds, Slots, FirmwareAssumption
<1>7. QED
  BY <1>3, <1>5, <1>6 DEF UpdateStates

LEMMA ReselectedValid ==
  ASSUME FirmwareAssumption, NEW s \in UpdateStates, s.phase = "none",
         s.retained_slot \in Slots
  PROVE  /\ Reselected(s) \in UpdateStates
         /\ Reselected(s).applied_slot = s.retained_slot
         /\ Reselected(s).applied_id = s.retained_id
         /\ Reselected(s).retained_slot = "none"
         /\ Reselected(s).phase = "none"
<1> DEFINE t == Reselected(s)
<1>1. s \in Fields /\ ValidState(s) /\ s.retained_id \in ReleaseIds
  BY ShapeOfState, FirmwareAssumption
     DEF Fields, ValidState, Slots, ReleaseIds, FirmwareAssumption
<1>2. /\ t.applied_slot = s.retained_slot /\ t.applied_id = s.retained_id
      /\ t.retained_slot = "none" /\ t.retained_id = NoId
      /\ t.installed_high_water = MaxOf(s.installed_high_water, s.applied_id)
      /\ t.pending_slot = "none" /\ t.pending_id = NoId
      /\ t.trial_marker = "none" /\ t.phase = "none"
  BY <1>1 DEF Reselected, Fields, ValidState
<1>3. /\ MaxOf(s.installed_high_water, s.applied_id) \in 0..MaxReleaseId
      /\ MaxOf(s.installed_high_water, s.applied_id) >= s.installed_high_water
  BY <1>1, FirmwareAssumption DEF FirmwareAssumption, MaxOf, Fields, ReleaseIds
<1>4. t \in Fields
  BY <1>1, <1>3 DEF Reselected, Fields
<1>5. ValidState(t)
  BY <1>1, <1>2, <1>3, FirmwareAssumption
     DEF ValidState, Fields, ReleaseIds, Slots, FirmwareAssumption
<1>6. QED
  BY <1>2, <1>4, <1>5 DEF UpdateStates

-----------------------------------------------------------------------------
LEMMA InitIInv == ASSUME FirmwareAssumption, Init PROVE IInv
<1>1. PICK retained \in BOOLEAN :
        /\ newest = Factory(retained)
        /\ slot = [s \in Slots |-> IF s = "A" \/ retained THEN FactoryId ELSE Junk]
  BY DEF Init
<1>2. newest \in UpdateStates
  BY <1>1, FactoryValid
<1>3. newest # NoState /\ OnDisk = {newest}
  BY <1>2, NoStateAssumption DEF Init, OnDisk
<1>4. TypeOK
  BY <1>1, <1>2 DEF Init, TypeOK, Store!TypeOK, FirmwareAssumption, PcValues, NoJob, NoClaim,
                    Slots, ReleaseIds, Junk, NoId, NoTick
<1>5. AppliedIntact /\ OnlyProvenSelected
  BY <1>1, <1>3 DEF Init, AppliedIntact, OnlyProvenSelected, Authentic, Factory, Slots
<1>6. RamOnDisk /\ BootInv /\ PendingInv /\ TrialInv /\ JobInv
  BY <1>3 DEF Init, RamOnDisk, BootInv, PendingInv, TrialInv, JobInv, Loaded
<1>7. QED
  BY <1>4, <1>5, <1>6 DEF IInv

(***************************************************************************)
(* What one commit of a state v leaves behind, whatever its outcome.       *)
(***************************************************************************)
LEMMA CommitEffect ==
  ASSUME FirmwareAssumption, IInv, Loaded, NEW v \in UpdateStates,
         Store!CommitOk(v) \/ Store!CommitAmbiguous(v)
  PROVE  /\ Store!TypeOK'
         /\ RamOnDisk'
         /\ ram' \in {v, NoState}
         /\ OnDisk' \subseteq OnDisk \cup {v}
         /\ Loaded' => OnDisk' = {ram, v}
<1>1. ram \in UpdateStates /\ ram \in OnDisk /\ v # NoState
  BY NoStateAssumption DEF IInv, TypeOK, Store!TypeOK, RamOnDisk, Loaded, OnDisk
<1>2. Store!TypeOK'
  BY <1>1 DEF IInv, TypeOK, Store!TypeOK, Store!CommitOk, Store!CommitAmbiguous
<1>3. CASE Store!CommitOk(v)
  BY <1>1, <1>2, <1>3 DEF Store!CommitOk, RamOnDisk, OnDisk, Loaded
<1>4. CASE Store!CommitAmbiguous(v)
  BY <1>1, <1>2, <1>4 DEF Store!CommitAmbiguous, IInv, RamOnDisk, OnDisk, Loaded
<1>5. QED
  BY <1>3, <1>4

\* Invariance of the conjuncts that look at the records, under a commit that
\* leaves the slots alone: it suffices that the committed state is sound.
LEMMA CommitKeepsRecords ==
  ASSUME FirmwareAssumption, IInv, Loaded, NEW v \in UpdateStates,
         Store!CommitOk(v) \/ Store!CommitAmbiguous(v),
         slot' = slot, rotted' = rotted, proven \subseteq proven',
         v.applied_slot \notin rotted => Authentic(v.applied_slot, v.applied_id),
         v.applied_id \in proven',
         v.retained_slot # "none" => v.retained_id \in proven'
  PROVE  AppliedIntact' /\ OnlyProvenSelected'
<1>1. OnDisk' \subseteq OnDisk \cup {v}
  BY CommitEffect
<1>2. AppliedIntact /\ OnlyProvenSelected
  BY DEF IInv
<1>3. AppliedIntact'
  BY <1>1, <1>2 DEF AppliedIntact, Authentic
<1>4. OnlyProvenSelected'
  BY <1>1, <1>2 DEF OnlyProvenSelected
<1>5. QED
  BY <1>3, <1>4

\* What the invariant says of the loaded state.
LEMMA LoadedState ==
  ASSUME FirmwareAssumption, IInv, Loaded
  PROVE  /\ ram \in UpdateStates
         /\ ram \in Fields
         /\ ram \in OnDisk
         /\ ram.applied_slot \in Slots
         /\ ram.applied_slot \notin rotted => Authentic(ram.applied_slot, ram.applied_id)
         /\ ram.applied_id \in proven
         /\ ram.retained_slot # "none" => ram.retained_id \in proven
<1>1. ram \in UpdateStates /\ ram \in OnDisk
  BY DEF IInv, TypeOK, Store!TypeOK, RamOnDisk, Loaded, OnDisk
<1>2. QED
  BY <1>1, ShapeOfState DEF IInv, AppliedIntact, OnlyProvenSelected, Fields

\* Suppression of a pending candidate: fail_trial and recover_after_boot.
LEMMA SuppressKeeps ==
  ASSUME FirmwareAssumption, IInv, Loaded, ram.phase # "none",
         Store!CommitOk(Suppressed(ram)) \/ Store!CommitAmbiguous(Suppressed(ram)),
         slot' = slot, rotted' = rotted, proven' = proven
  PROVE  /\ Store!TypeOK' /\ RamOnDisk' /\ AppliedIntact' /\ OnlyProvenSelected'
         /\ Loaded' => ram'.phase = "none"
<1>1. /\ Suppressed(ram) \in UpdateStates
      /\ Suppressed(ram).applied_slot = ram.applied_slot
      /\ Suppressed(ram).applied_id = ram.applied_id
      /\ Suppressed(ram).retained_slot = ram.retained_slot
      /\ Suppressed(ram).retained_id = ram.retained_id
      /\ Suppressed(ram).phase = "none"
  BY LoadedState, SuppressedValid
<1>2. Store!TypeOK' /\ RamOnDisk' /\ (Loaded' => ram'.phase = "none")
  BY <1>1, CommitEffect DEF Loaded
<1>3. AppliedIntact' /\ OnlyProvenSelected'
  BY <1>1, LoadedState, CommitKeepsRecords
<1>4. QED
  BY <1>2, <1>3

\* Steps that leave the records and the slots alone keep everything but the
\* program counter's conjuncts.
LEMMA QuietStep ==
  ASSUME IInv, UNCHANGED metaVars, slot' = slot, rotted' = rotted, proven' = proven,
         pc # "loaded", TypeOK', BootInv', JobInv'
  PROVE  IInv'
BY DEF IInv, metaVars, TypeOK, Store!TypeOK, RamOnDisk, PendingInv, TrialInv, Loaded,
       AppliedIntact, OnlyProvenSelected, OnDisk, Authentic

-----------------------------------------------------------------------------
LEMMA BootStep ==
  ASSUME FirmwareAssumption, IInv, Boot
  PROVE  IInv'
<1>0. TypeOK /\ RamOnDisk /\ BootInv
  BY DEF IInv
<1>1. CASE BootLoad
  <2>1. UNCHANGED <<newest, older, slot, rotted, proven>> /\ OnDisk' = OnDisk
    BY <1>1 DEF BootLoad, Store!LoadNewest, Store!LoadOlder, Store!Drop, historyVars, OnDisk
  <2>2. RamOnDisk' /\ Store!TypeOK'
    BY <1>0, <1>1 DEF BootLoad, Store!LoadNewest, Store!LoadOlder, Store!Drop, RamOnDisk,
                      TypeOK, Store!TypeOK
  <2>3. TypeOK'
    BY <1>0, <1>1, <2>2 DEF BootLoad, TypeOK, PcValues, historyVars
  <2>4. pc' \in {"loaded", "halt"} /\ (pc' = "halt" => ram' = NoState)
        /\ (pc' = "loaded" => ram' # NoState)
    BY <1>1 DEF BootLoad, Store!LoadNewest, Store!LoadOlder, Store!Drop
  <2>5. BootInv' /\ PendingInv' /\ TrialInv' /\ JobInv'
    BY <2>4 DEF BootInv, PendingInv, TrialInv, JobInv, Loaded
  <2>6. AppliedIntact' /\ OnlyProvenSelected'
    BY <2>1 DEF IInv, AppliedIntact, OnlyProvenSelected, Authentic
  <2>7. QED
    BY <2>2, <2>3, <2>5, <2>6 DEF IInv
<1>2. CASE BootRecover
  <2>0. Loaded
    BY <1>0, <1>2 DEF BootRecover, BootInv, Loaded
  <2>1. CASE ram.phase = "none"
    <3>1. UNCHANGED metaVars /\ slot' = slot /\ rotted' = rotted /\ proven' = proven
          /\ pc' = "select"
      BY <1>2, <2>1 DEF BootRecover, historyVars
    <3>2. TypeOK'
      BY <1>0, <1>2, <3>1 DEF BootRecover, TypeOK, Store!TypeOK, metaVars, PcValues, historyVars
    <3>3. BootInv' /\ PendingInv' /\ TrialInv' /\ JobInv'
      BY <2>0, <2>1, <3>1 DEF BootInv, PendingInv, TrialInv, JobInv, metaVars, Loaded
    <3>4. RamOnDisk' /\ AppliedIntact' /\ OnlyProvenSelected'
      BY <3>1 DEF IInv, RamOnDisk, metaVars, AppliedIntact, OnlyProvenSelected, OnDisk,
                  Authentic
    <3>5. QED
      BY <3>2, <3>3, <3>4 DEF IInv
  <2>2. CASE ram.phase # "none"
    <3>1. \/ Store!CommitOk(Suppressed(ram)) /\ pc' = "select"
          \/ Store!CommitAmbiguous(Suppressed(ram)) /\ pc' = "halt"
      BY <1>2, <2>0, <2>2, LoadedState, SuppressedValid DEF BootRecover
    <3>2. slot' = slot /\ rotted' = rotted /\ proven' = proven /\ trialAge' = NoTick
      BY <1>2, <2>2 DEF BootRecover, historyVars
    <3>3. /\ Store!TypeOK' /\ RamOnDisk' /\ AppliedIntact' /\ OnlyProvenSelected'
          /\ Loaded' => ram'.phase = "none"
      BY <2>0, <2>2, <3>1, <3>2, SuppressKeeps
    <3>4. TypeOK'
      BY <1>0, <1>2, <3>1, <3>2, <3>3
         DEF BootRecover, TypeOK, PcValues, historyVars, NoTick
    <3>5. BootInv'
      BY <1>0, <3>1, <3>3
         DEF BootInv, RamOnDisk, Loaded, Store!CommitOk, Store!CommitAmbiguous
    <3>6. PendingInv' /\ TrialInv' /\ JobInv'
      BY <3>1, <3>3 DEF PendingInv, TrialInv, JobInv
    <3>7. QED
      BY <3>3, <3>4, <3>5, <3>6 DEF IInv
  <2>3. QED
    BY <2>1, <2>2
<1>3. CASE BootApplied \/ BootRefused
  <2>1. Loaded /\ ram.applied_id \in ReleaseIds
    BY <1>0, <1>3, LoadedState DEF BootApplied, BootRefused, BootInv, Loaded, Fields
  <2>2. TypeOK' /\ BootInv' /\ JobInv'
    BY <1>0, <1>3, <2>1
       DEF BootApplied, BootRefused, TypeOK, Store!TypeOK, metaVars, PcValues, historyVars,
           BootInv, JobInv
  <2>3. QED
    BY <1>3, <2>2, QuietStep DEF BootApplied, BootRefused, historyVars
<1>4. CASE BootRetained
  <2>0. Loaded /\ ram.phase = "none"
    BY <1>0, <1>4 DEF BootRetained, BootInv, Loaded
  <2>1. /\ ram \in UpdateStates /\ ram.retained_slot \in Slots
        /\ Authentic(ram.retained_slot, ram.retained_id)
    BY <1>4, <2>0, LoadedState DEF BootRetained, Authentic
  <2>2. /\ Reselected(ram) \in UpdateStates
        /\ Reselected(ram).applied_slot = ram.retained_slot
        /\ Reselected(ram).applied_id = ram.retained_id
        /\ Reselected(ram).retained_slot = "none"
        /\ Reselected(ram).phase = "none"
    BY <2>0, <2>1, ReselectedValid
  <2>3. Store!CommitOk(Reselected(ram)) \/ Store!CommitAmbiguous(Reselected(ram))
    BY <1>4 DEF BootRetained
  <2>4. slot' = slot /\ rotted' = rotted /\ proven' = proven
    BY <1>4 DEF BootRetained, historyVars
  <2>5. ram.retained_id \in proven
    BY <2>0, <2>1, LoadedState DEF Slots
  <2>6. AppliedIntact' /\ OnlyProvenSelected'
    BY <2>0, <2>1, <2>2, <2>3, <2>4, <2>5, CommitKeepsRecords
  <2>7. Store!TypeOK' /\ RamOnDisk' /\ (Loaded' => ram'.phase = "none")
    BY <2>0, <2>2, <2>3, CommitEffect DEF Loaded
  <2>8. ram.retained_id \in ReleaseIds /\ pc' \in {"run", "halt"}
    BY <1>0, <1>4, <2>2 DEF BootRetained, UpdateStates, Fields
  <2>9. TypeOK' /\ BootInv'
    BY <1>0, <1>4, <2>7, <2>8
       DEF BootRetained, TypeOK, PcValues, historyVars, BootInv
  <2>10. PendingInv' /\ TrialInv' /\ JobInv'
    BY <2>7, <2>8 DEF PendingInv, TrialInv, JobInv
  <2>11. QED
    BY <2>6, <2>7, <2>9, <2>10 DEF IInv
<1>5. QED
  BY <1>1, <1>2, <1>3, <1>4 DEF Boot

LEMMA AdmitStep ==
  ASSUME FirmwareAssumption, IInv, NEW id \in ReleaseIds, NEW marker \in Markers,
         Admit(id, marker)
  PROVE  IInv'
<1> DEFINE staged == Staged(ram, id, marker)
<1>0. TypeOK /\ RamOnDisk /\ Loaded /\ ram.phase = "none" /\ id > HighWater(ram)
      /\ pc = "run"
  BY DEF IInv, Admit
<1>1. /\ staged \in UpdateStates
      /\ staged.applied_slot = ram.applied_slot
      /\ staged.applied_id = ram.applied_id
      /\ staged.retained_slot # "none" =>
           ram.retained_slot # "none" /\ staged.retained_id = ram.retained_id
      /\ staged.phase = "writing"
  BY <1>0, LoadedState, StagedValid
<1>2. Store!CommitOk(staged) \/ Store!CommitAmbiguous(staged)
  BY DEF Admit
<1>3. slot' = slot /\ rotted' = rotted /\ proven' = proven /\ pc' \in {"run", "staged"}
  BY DEF Admit, historyVars
<1>4. AppliedIntact' /\ OnlyProvenSelected'
  BY <1>0, <1>1, <1>2, <1>3, LoadedState, CommitKeepsRecords
<1>5. /\ Store!TypeOK' /\ RamOnDisk' /\ ram' \in {staged, NoState}
      /\ Loaded' => OnDisk' = {ram, staged}
  BY <1>0, <1>1, <1>2, CommitEffect
<1>6. staged.pending_slot \in Slots
  BY <1>1 DEF UpdateStates, ValidState, Fields, Slots, OtherSlot
<1>7. TypeOK'
  BY <1>0, <1>3, <1>5, <1>6 DEF Admit, TypeOK, PcValues, historyVars, NoTick
<1>8. BootInv' /\ PendingInv' /\ TrialInv'
  BY <1>1, <1>3, <1>5 DEF BootInv, PendingInv, TrialInv, Loaded
<1>9. JobInv'
  <2>1. CASE Store!CommitOk(staged) /\ job' = [slot |-> staged.pending_slot, id |-> id]
    <3>1. staged.pending_id = id
      BY <1>0, LoadedState DEF Staged, Fields
    <3>2. QED
      BY <2>1, <3>1, <1>5 DEF JobInv, Loaded
  <2>2. CASE ram' = NoState /\ pc' = "run"
    BY <2>2 DEF JobInv, Loaded
  <2>3. QED
    BY <1>0, <2>1, <2>2 DEF Admit, Store!CommitAmbiguous
<1>10. QED
  BY <1>4, <1>5, <1>7, <1>8, <1>9 DEF IInv

\* stage_writer's RAM check keeps it off the applied slot of both records.
LEMMA WriterAvoidsApplied ==
  ASSUME FirmwareAssumption, IInv, pc # "loaded", Authorized
  PROVE  /\ job.slot \in Slots
         /\ job.id \in ReleaseIds
         /\ \A s \in OnDisk : s.applied_slot # job.slot
<1>1. Loaded /\ ram.phase = "writing" /\ job.slot = ram.pending_slot /\ job.id = ram.pending_id
      /\ job.slot # ram.applied_slot
  BY DEF Authorized
<1>2. ram \in Fields /\ ValidState(ram)
  BY <1>1, LoadedState, ShapeOfState
<1>3. job.slot \in Slots /\ job.id \in ReleaseIds
  BY <1>1, <1>2, FirmwareAssumption
     DEF Fields, ValidState, OtherSlot, Slots, NoId, HighWater, MaxOf, ReleaseIds,
         FirmwareAssumption
<1>4. QED
  BY <1>1, <1>3 DEF IInv, PendingInv

LEMMA WriteStep ==
  ASSUME FirmwareAssumption, IInv, EraseSlot \/ WriteSlot
  PROVE  IInv'
<1>0. TypeOK /\ RamOnDisk /\ BootInv /\ pc \in {"staged", "writing"} /\ Authorized
  BY DEF IInv, EraseSlot, WriteSlot
<1>1. /\ job.slot \in Slots /\ job.id \in ReleaseIds
      /\ \A s \in OnDisk : s.applied_slot # job.slot
  BY <1>0, WriterAvoidsApplied
<1>2. /\ UNCHANGED <<metaVars, proven>> /\ OnDisk' = OnDisk
      /\ pc' \in {"writing", "written"}
  BY DEF EraseSlot, WriteSlot, historyVars, metaVars, OnDisk
<1>3. \A s \in Slots : s # job.slot => slot'[s] = slot[s] /\ (s \in rotted <=> s \in rotted')
  BY <1>0, <1>1 DEF EraseSlot, WriteSlot, TypeOK
<1>4. AppliedIntact'
  <2>1. \A s \in OnDisk : s.applied_slot \in Slots
    BY DEF IInv, TypeOK, Store!TypeOK, OnDisk, UpdateStates, Fields
  <2>2. QED
    BY <1>1, <1>2, <1>3, <2>1 DEF IInv, AppliedIntact, Authentic
<1>5. OnlyProvenSelected' /\ RamOnDisk'
  BY <1>2 DEF IInv, OnlyProvenSelected, RamOnDisk, metaVars
<1>6. TypeOK'
  BY <1>0, <1>1, <1>2 DEF EraseSlot, WriteSlot, TypeOK, Store!TypeOK, metaVars, PcValues,
                          historyVars, Junk
<1>7. BootInv' /\ PendingInv' /\ TrialInv' /\ JobInv'
  BY <1>0, <1>1, <1>2 DEF IInv, Authorized, EraseSlot, WriteSlot, BootInv, PendingInv, TrialInv,
                    JobInv, Loaded, metaVars
<1>8. QED
  BY <1>4, <1>5, <1>6, <1>7 DEF IInv

LEMMA EnterStep ==
  ASSUME FirmwareAssumption, IInv, EnterTrial
  PROVE  IInv'
<1> DEFINE trialing == Trialing(ram)
<1>0. TypeOK /\ RamOnDisk /\ Loaded /\ ram.phase = "writing" /\ pc = "written"
      /\ Authentic(job.slot, job.id)
  BY DEF IInv, EnterTrial
<1>1. /\ trialing \in UpdateStates
      /\ trialing.applied_slot = ram.applied_slot
      /\ trialing.applied_id = ram.applied_id
      /\ trialing.retained_slot = ram.retained_slot
      /\ trialing.retained_id = ram.retained_id
      /\ trialing.pending_slot = ram.pending_slot
      /\ trialing.pending_id = ram.pending_id
  BY <1>0, LoadedState, TrialingValid
<1>2. Store!CommitOk(trialing) \/ Store!CommitAmbiguous(trialing)
  BY DEF EnterTrial
<1>3. slot' = slot /\ rotted' = rotted /\ proven' = proven /\ pc' \in {"run", "entered"}
  BY DEF EnterTrial, historyVars
<1>4. AppliedIntact' /\ OnlyProvenSelected'
  BY <1>0, <1>1, <1>2, <1>3, LoadedState, CommitKeepsRecords
<1>5. /\ Store!TypeOK' /\ RamOnDisk' /\ ram' \in {trialing, NoState}
      /\ Loaded' => OnDisk' = {ram, trialing}
  BY <1>0, <1>1, <1>2, CommitEffect
<1>6. TypeOK'
  BY <1>0, <1>3, <1>5, FirmwareAssumption
     DEF EnterTrial, TypeOK, PcValues, historyVars, NoTick, FirmwareAssumption
<1>7. BootInv' /\ PendingInv' /\ JobInv'
  <2>1. job' = job /\ job.id \in ReleaseIds
    BY <1>0 DEF EnterTrial, IInv, JobInv
  <2>2. QED
    BY <1>1, <1>3, <1>5, <2>1 DEF BootInv, PendingInv, JobInv, Loaded, Trialing
<1>8. TrialInv'
  BY <1>0, <1>1, <1>3, <1>5 DEF IInv, JobInv, TrialInv, Loaded, Authentic
<1>9. QED
  BY <1>4, <1>5, <1>6, <1>7, <1>8 DEF IInv

LEMMA QuietActions ==
  ASSUME FirmwareAssumption, IInv,
         \/ LaunchTrial \/ StagingRaises \/ ReportFails \/ ClockAdvances
         \/ \E id \in ReleaseIds, marker \in Markers : ReportTrial(id, marker)
  PROVE  IInv'
<1>0. TypeOK /\ BootInv /\ JobInv
  BY DEF IInv
<1>1. /\ UNCHANGED metaVars /\ slot' = slot /\ rotted' = rotted /\ proven' = proven
      /\ pc' # "loaded" => pc # "loaded"
      /\ pc' \in PcValues /\ BootInv' /\ JobInv'
  BY <1>0 DEF LaunchTrial, StagingRaises, ReportFails, ClockAdvances, ReportTrial, metaVars,
              historyVars, TypeOK, PcValues, BootInv, JobInv, Loaded
<1>2. TypeOK'
  <2>1. Store!TypeOK'
    BY <1>0, <1>1 DEF TypeOK, Store!TypeOK, metaVars
  <2>2. CASE LaunchTrial
    <3>1. job.id \in ReleaseIds
      BY <1>0, <2>2 DEF LaunchTrial, JobInv
    <3>2. QED
      BY <1>0, <1>1, <2>1, <2>2, <3>1 DEF LaunchTrial, TypeOK, NoJob, NoId
  <2>3. CASE StagingRaises \/ ReportFails
    BY <1>0, <1>1, <2>1, <2>3
       DEF StagingRaises, ReportFails, TypeOK, historyVars, NoClaim
  <2>4. CASE ClockAdvances
    BY <1>0, <1>1, <2>1, <2>4, FirmwareAssumption
       DEF ClockAdvances, TypeOK, historyVars, NoTick, FirmwareAssumption
  <2>5. CASE \E id \in ReleaseIds, marker \in Markers : ReportTrial(id, marker)
    BY <1>0, <1>1, <2>1, <2>5 DEF ReportTrial, TypeOK, historyVars
  <2>6. QED
    BY <2>2, <2>3, <2>4, <2>5
<1>3. CASE pc # "loaded"
  BY <1>1, <1>2, <1>3, QuietStep
<1>4. CASE pc = "loaded" /\ pc' = "loaded"
  BY <1>1, <1>2, <1>4
     DEF IInv, metaVars, RamOnDisk, PendingInv, TrialInv, AppliedIntact,
         OnlyProvenSelected, OnDisk, Authentic
<1>5. QED
  BY <1>1, <1>3, <1>4

-----------------------------------------------------------------------------
LEMMA EndStagingStep ==
  ASSUME FirmwareAssumption, IInv, SuppressStaged
  PROVE  IInv'
<1>0. TypeOK /\ RamOnDisk /\ BootInv /\ pc = "failing" /\ pc' = "run" /\ job' = NoJob
  BY DEF IInv, SuppressStaged
<1>1. slot' = slot /\ rotted' = rotted /\ proven' = proven /\ launched' = launched
      /\ claim' = claim /\ running' = running /\ fellBack' = fellBack
  BY DEF SuppressStaged, historyVars
<1>2. BootInv' /\ JobInv'
  BY <1>0 DEF BootInv, JobInv
<1>3. trialAge' \in {NoTick, trialAge}
  BY DEF SuppressStaged, Suppress
<1>4. CASE Loaded /\ ram.phase # "none"
  <2>1. Store!CommitOk(Suppressed(ram)) \/ Store!CommitAmbiguous(Suppressed(ram))
    BY <1>4 DEF SuppressStaged, Suppress
  <2>2. /\ Store!TypeOK' /\ RamOnDisk' /\ AppliedIntact' /\ OnlyProvenSelected'
        /\ Loaded' => ram'.phase = "none"
    BY <1>1, <1>4, <2>1, SuppressKeeps
  <2>3. TypeOK'
    BY <1>0, <1>1, <1>3, <2>2 DEF TypeOK, PcValues, NoJob
  <2>4. PendingInv' /\ TrialInv'
    BY <2>2 DEF PendingInv, TrialInv
  <2>5. QED
    BY <1>2, <2>2, <2>3, <2>4 DEF IInv
<1>5. CASE ~(Loaded /\ ram.phase # "none")
  <2>1. UNCHANGED metaVars
    BY <1>5 DEF SuppressStaged
  <2>2. TypeOK'
    BY <1>0, <1>1, <1>3, <2>1 DEF TypeOK, Store!TypeOK, metaVars, PcValues, NoJob
  <2>3. QED
    BY <1>0, <1>1, <1>2, <2>1, <2>2, QuietStep
<1>6. QED
  BY <1>4, <1>5

\* tick past the deadline, and fail_trial.
LEMMA EndTrialStep ==
  ASSUME FirmwareAssumption, IInv, Tick \/ FailTrial
  PROVE  IInv'
<1>0. TypeOK /\ RamOnDisk /\ BootInv /\ JobInv /\ Loaded /\ ram.phase # "none" /\ Serviced
  BY DEF IInv, Tick, TickAt, FailTrial
<1>1. UNCHANGED <<slot, pc, job, claim, running, rotted, proven, launched, fellBack>>
      /\ trialAge' = NoTick
  BY DEF Tick, TickAt, FailTrial, Suppress, historyVars
<1>2. Store!CommitOk(Suppressed(ram)) \/ Store!CommitAmbiguous(Suppressed(ram))
  BY DEF Tick, TickAt, FailTrial, Suppress
<1>3. /\ Store!TypeOK' /\ RamOnDisk' /\ AppliedIntact' /\ OnlyProvenSelected'
      /\ Loaded' => ram'.phase = "none"
  BY <1>0, <1>1, <1>2, SuppressKeeps
<1>4. TypeOK'
  BY <1>0, <1>1, <1>3 DEF TypeOK
<1>5. BootInv' /\ PendingInv' /\ TrialInv' /\ JobInv'
  BY <1>0, <1>1, <1>3 DEF BootInv, PendingInv, TrialInv, JobInv, Serviced
<1>6. QED
  BY <1>3, <1>4, <1>5 DEF IInv

\* Promotion selects the pending slot, whose image the trial verified.
LEMMA ConfirmStep ==
  ASSUME FirmwareAssumption, IInv, ConfirmTrial
  PROVE  IInv'
<1>0. TypeOK /\ RamOnDisk /\ BootInv /\ pc = "report" /\ pc' = "run" /\ claim' = NoClaim
  BY DEF IInv, ConfirmTrial
<1>1. UNCHANGED <<slot, job, running, rotted, launched, fellBack>>
  BY DEF ConfirmTrial
<1>2. BootInv' /\ JobInv'
  BY <1>0 DEF BootInv, JobInv
<1>3. CASE UNCHANGED <<metaVars, trialAge, proven>>
  <2>1. TypeOK'
    BY <1>0, <1>1, <1>3 DEF TypeOK, Store!TypeOK, metaVars, PcValues, NoClaim
  <2>2. QED
    BY <1>0, <1>1, <1>2, <1>3, <2>1, QuietStep
<1>4. CASE Loaded /\ ram.phase = "trial_entered" /\ Suppress /\ UNCHANGED proven
  <2>1. /\ Store!TypeOK' /\ RamOnDisk' /\ AppliedIntact' /\ OnlyProvenSelected'
        /\ Loaded' => ram'.phase = "none"
    BY <1>1, <1>4, SuppressKeeps DEF Suppress
  <2>2. TypeOK'
    BY <1>0, <1>1, <1>4, <2>1 DEF TypeOK, PcValues, NoClaim, Suppress
  <2>3. PendingInv' /\ TrialInv'
    BY <2>1 DEF PendingInv, TrialInv
  <2>4. QED
    BY <1>2, <2>1, <2>2, <2>3 DEF IInv
<1>5. CASE /\ Loaded /\ ram.phase = "trial_entered" /\ claim.id = ram.pending_id
           /\ Store!CommitOk(Promoted(ram)) \/ Store!CommitAmbiguous(Promoted(ram))
           /\ trialAge' = NoTick
           /\ proven' = proven \cup {claim.id}
  <2>1. /\ Promoted(ram) \in UpdateStates
        /\ Promoted(ram).applied_slot = ram.pending_slot
        /\ Promoted(ram).applied_id = ram.pending_id
        /\ Promoted(ram).retained_slot = ram.applied_slot
        /\ Promoted(ram).retained_id = ram.applied_id
        /\ Promoted(ram).phase = "none"
    BY <1>5, LoadedState, PromotedValid
  <2>2. ram.pending_slot \notin rotted => Authentic(ram.pending_slot, ram.pending_id)
    BY <1>0, <1>5 DEF IInv, TrialInv
  <2>3. ram.applied_id \in proven /\ ram.pending_id \in ReleaseIds
    BY <1>5, <2>1, LoadedState DEF UpdateStates, Fields
  <2>4. AppliedIntact' /\ OnlyProvenSelected'
    BY <1>1, <1>5, <2>1, <2>2, <2>3, CommitKeepsRecords
  <2>5. /\ Store!TypeOK' /\ RamOnDisk'
        /\ Loaded' => ram'.phase = "none"
    BY <1>5, <2>1, CommitEffect DEF Loaded
  <2>6. TypeOK'
    BY <1>0, <1>1, <1>5, <2>3, <2>5 DEF TypeOK, PcValues, NoClaim
  <2>7. PendingInv' /\ TrialInv'
    BY <2>5 DEF PendingInv, TrialInv
  <2>8. QED
    BY <1>2, <2>4, <2>5, <2>6, <2>7 DEF IInv
<1>6. QED
  <2>1. CASE ~Loaded \/ ram.phase # "trial_entered" \/ trialAge = NoTick
    BY <1>3, <2>1 DEF ConfirmTrial
  <2>2. CASE Loaded /\ ram.phase = "trial_entered" /\ trialAge # NoTick
    <3>1. PICK e \in Elapsed :
            \/ Expired(e) /\ Suppress /\ UNCHANGED proven
            \/ /\ ~Expired(e)
               /\ IF claim.id = ram.pending_id /\ claim.marker = ram.trial_marker
                    THEN /\ \/ Store!CommitOk(Promoted(ram))
                            \/ Store!CommitAmbiguous(Promoted(ram))
                         /\ trialAge' = NoTick
                         /\ proven' = IF trialAge < TrialMs THEN proven \cup {claim.id}
                                                            ELSE proven
                    ELSE UNCHANGED <<metaVars, trialAge, proven>>
      BY <2>2 DEF ConfirmTrial
    <3>2. ~Expired(e) => trialAge < TrialMs
      BY <1>0, <3>1, FirmwareAssumption
         DEF Elapsed, Expired, NoTick, TypeOK, FirmwareAssumption
    <3>3. CASE Expired(e) /\ Suppress /\ UNCHANGED proven
      BY <1>4, <2>2, <3>3
    <3>4. CASE ~Expired(e)
      BY <1>3, <1>5, <2>2, <3>1, <3>2, <3>4
    <3>5. QED
      BY <3>1, <3>3, <3>4
  <2>3. QED
    BY <2>1, <2>2

LEMMA EnvironmentStep ==
  ASSUME FirmwareAssumption, IInv, PowerCut \/ \E s \in Slots : Rot(s)
  PROVE  IInv'
<1>0. TypeOK /\ RamOnDisk /\ BootInv /\ JobInv
  BY DEF IInv
<1>1. CASE PowerCut
  <2>1. UNCHANGED <<newest, older, slot, rotted, proven, launched, fellBack>> /\ ram' = NoState
        /\ pc' = "off" /\ OnDisk' = OnDisk
    BY <1>1 DEF PowerCut, Store!Drop, historyVars, OnDisk
  <2>2. Store!TypeOK'
    BY <1>0, <2>1 DEF TypeOK, Store!TypeOK
  <2>3. TypeOK'
    BY <1>0, <1>1, <2>1, <2>2 DEF PowerCut, TypeOK, PcValues, NoJob, NoClaim
  <2>4. RamOnDisk' /\ BootInv' /\ PendingInv' /\ TrialInv' /\ JobInv'
    BY <1>0, <2>1 DEF RamOnDisk, BootInv, PendingInv, TrialInv, JobInv, Loaded
  <2>5. AppliedIntact' /\ OnlyProvenSelected'
    BY <2>1 DEF IInv, AppliedIntact, OnlyProvenSelected, Authentic
  <2>6. QED
    BY <2>3, <2>4, <2>5 DEF IInv
<1>2. CASE \E s \in Slots : Rot(s)
  <2>1. PICK s \in Slots : Rot(s)
    BY <1>2
  <2>2. UNCHANGED <<metaVars, pc, job, proven>> /\ OnDisk' = OnDisk
        /\ rotted' = rotted \cup {s}
        /\ \A t \in Slots : t # s => slot'[t] = slot[t]
    BY <1>0, <2>1 DEF Rot, historyVars, metaVars, OnDisk, TypeOK
  <2>3. TypeOK'
    BY <1>0, <2>1 DEF Rot, TypeOK, Store!TypeOK, metaVars, historyVars, Junk
  <2>4. RamOnDisk' /\ BootInv' /\ PendingInv' /\ JobInv' /\ OnlyProvenSelected'
    BY <2>2 DEF IInv, RamOnDisk, BootInv, PendingInv, JobInv, OnlyProvenSelected, metaVars,
                Loaded
  <2>5. AppliedIntact' /\ TrialInv'
    BY <2>2 DEF IInv, AppliedIntact, TrialInv, Authentic, metaVars, Loaded
  <2>6. QED
    BY <2>3, <2>4, <2>5 DEF IInv
<1>3. QED
  BY <1>1, <1>2

LEMMA StepIInv ==
  ASSUME FirmwareAssumption, IInv, [Next]_vars
  PROVE  IInv'
<1>1. CASE Next
  BY <1>1, BootStep, AdmitStep, WriteStep, EnterStep, QuietActions, EndStagingStep,
     EndTrialStep, ConfirmStep, EnvironmentStep DEF Next, Staging
<1>2. CASE UNCHANGED vars
  BY <1>2 DEF vars, IInv, TypeOK, Store!TypeOK, RamOnDisk, BootInv, PendingInv, TrialInv,
              JobInv, AppliedIntact, OnlyProvenSelected, OnDisk, Authentic, Loaded
<1>3. QED
  BY <1>1, <1>2

-----------------------------------------------------------------------------
\* The strengthened invariant holds of every run of the device.
THEOREM Invariance == Spec => []IInv
<1>1. Init => IInv
  BY InitIInv, FirmwareAssumption
<1>2. IInv /\ [Next]_vars => IInv'
  BY StepIInv, FirmwareAssumption
<1>3. QED
  BY <1>1, <1>2, PTL DEF Spec

\* Every state that the firmware updater persists passes _validate_state.
THEOREM TypeCorrect == Spec => []TypeOK
<1>1. IInv => TypeOK
  BY DEF IInv
<1>2. QED
  BY <1>1, Invariance, PTL

\* Staging never damages the slot a record applies, whichever record a
\* restart selects.
THEOREM AppliedStaysIntact == Spec => []AppliedIntact
<1>1. IInv => AppliedIntact
  BY DEF IInv
<1>2. QED
  BY <1>1, Invariance, PTL

\* No release is applied or retained before its proof came in time.
THEOREM OnlyProvenReleasesSelected == Spec => []OnlyProvenSelected
<1>1. IInv => OnlyProvenSelected
  BY DEF IInv
<1>2. QED
  BY <1>1, Invariance, PTL

-----------------------------------------------------------------------------
(***************************************************************************)
(* What the updater remembers across power cuts, ambiguous commits and     *)
(* transient read faults: the retained slot can be fallen back to, unproven*)
(* code runs on the record, and no candidate is tried twice.  Seen from    *)
(* outside it is the life cycle of a trial, whatever the boot, the staging,*)
(* the ticks and the failing commits do.                                   *)
(***************************************************************************)

\* The state in RAM, when there is one, is that of the newest record.
Current == ram \in {NoState, newest}

\* A restart now would suppress release r, or did already.
Recorded(r) ==
  \/ newest.phase = "trial_entered" /\ newest.pending_id = r
  \/ r <= newest.failed_high_water

\* Release r is at or below the admission floor, or on trial.
Tried(r) ==
  \/ newest.phase = "trial_entered" /\ newest.pending_id = r
  \/ r <= HighWater(newest)

Follows == ~fellBack => Current

\* Code that was not proven runs only on a current state that names it.
UnprovenInv ==
  running \notin proven \cup {NoId} => Current /\ Recorded(running)

EnteredInv == pc = "entered" => Current /\ Recorded(job.id)

RunInv == running # NoId => pc \notin {"off", "loaded", "select", "halt"}

LaunchedInv == ~fellBack => \A r \in launched : Tried(r)

\* An admission in progress is of a release that was not tried before.
FreshInv ==
  ~fellBack /\ pc \in {"staged", "writing", "written", "entered"} => job.id \notin launched

HInv ==
  /\ Follows
  /\ RetainedIntact
  /\ UnprovenInv
  /\ EnteredInv
  /\ RunInv
  /\ LaunchedInv
  /\ FreshInv

-----------------------------------------------------------------------------
\* How the state transitions move the high-waters.
LEMMA StateTypes ==
  ASSUME FirmwareAssumption, NEW s \in UpdateStates
  PROVE  /\ s \in Fields /\ ValidState(s)
         /\ s.installed_high_water \in Nat /\ s.failed_high_water \in Nat
         /\ s.pending_id \in Nat /\ HighWater(s) \in Nat
         /\ s.installed_high_water <= HighWater(s) /\ s.failed_high_water <= HighWater(s)
BY DEF FirmwareAssumption, UpdateStates, Fields, HighWater, MaxOf, ReleaseIds, NoId

LEMMA StagedHigh ==
  ASSUME FirmwareAssumption, NEW s \in UpdateStates, NEW id, NEW marker
  PROVE  /\ Staged(s, id, marker).failed_high_water = s.failed_high_water
         /\ HighWater(Staged(s, id, marker)) = HighWater(s)
         /\ Staged(s, id, marker).retained_slot # "none" =>
              /\ Staged(s, id, marker).retained_slot = s.retained_slot
              /\ Staged(s, id, marker).retained_id = s.retained_id
<1>1. s \in Fields
  BY StateTypes
<1>2. /\ Staged(s, id, marker).failed_high_water = s.failed_high_water
      /\ Staged(s, id, marker).installed_high_water = s.installed_high_water
  BY <1>1 DEF Staged, Fields
<1>3. CASE OtherSlot(s.applied_slot) = s.retained_slot
  <2>1. Staged(s, id, marker).retained_slot = "none"
    BY <1>1, <1>3 DEF Staged, Fields
  <2>2. QED
    BY <1>2, <2>1 DEF HighWater
<1>4. CASE OtherSlot(s.applied_slot) # s.retained_slot
  <2>1. /\ Staged(s, id, marker).retained_slot = s.retained_slot
        /\ Staged(s, id, marker).retained_id = s.retained_id
    BY <1>1, <1>4 DEF Staged, Fields
  <2>2. QED
    BY <1>2, <2>1 DEF HighWater
<1>5. QED
  BY <1>3, <1>4

LEMMA TrialingHigh ==
  ASSUME FirmwareAssumption, NEW s \in UpdateStates
  PROVE  /\ Trialing(s).failed_high_water = s.failed_high_water
         /\ HighWater(Trialing(s)) = HighWater(s)
         /\ Trialing(s).retained_slot = s.retained_slot
         /\ Trialing(s).retained_id = s.retained_id
         /\ Trialing(s).pending_id = s.pending_id
         /\ Trialing(s).phase = "trial_entered"
BY StateTypes DEF Trialing, HighWater, Fields

LEMMA SuppressedHigh ==
  ASSUME FirmwareAssumption, NEW s \in UpdateStates
  PROVE  /\ Suppressed(s).failed_high_water = MaxOf(s.failed_high_water, s.pending_id)
         /\ Suppressed(s).installed_high_water = s.installed_high_water
         /\ Suppressed(s).failed_high_water >= s.failed_high_water
         /\ Suppressed(s).failed_high_water >= s.pending_id
         /\ HighWater(Suppressed(s)) >= HighWater(s)
         /\ HighWater(Suppressed(s)) >= s.pending_id
<1>1. /\ s \in Fields /\ s.failed_high_water \in Nat /\ s.pending_id \in Nat
      /\ s.installed_high_water \in Nat
  BY StateTypes
<1>2. /\ Suppressed(s).failed_high_water = MaxOf(s.failed_high_water, s.pending_id)
      /\ Suppressed(s).installed_high_water = s.installed_high_water
  BY <1>1 DEF Suppressed, Cleared, Fields
<1>3. QED
  BY <1>1, <1>2 DEF MaxOf, HighWater

LEMMA PromotedHigh ==
  ASSUME FirmwareAssumption, NEW s \in UpdateStates
  PROVE  /\ Promoted(s).failed_high_water = s.failed_high_water
         /\ HighWater(Promoted(s)) >= HighWater(s)
         /\ HighWater(Promoted(s)) >= s.pending_id
<1>1. /\ s \in Fields /\ s.failed_high_water \in Nat /\ s.pending_id \in Nat
      /\ s.installed_high_water \in Nat
  BY StateTypes
<1>2. /\ Promoted(s).failed_high_water = s.failed_high_water
      /\ Promoted(s).installed_high_water = MaxOf(s.installed_high_water, s.pending_id)
  BY <1>1 DEF Promoted, Cleared, Fields
<1>3. QED
  BY <1>1, <1>2 DEF MaxOf, HighWater

LEMMA ReselectedHigh ==
  ASSUME FirmwareAssumption, NEW s \in UpdateStates
  PROVE  /\ Reselected(s).failed_high_water = s.failed_high_water
         /\ HighWater(Reselected(s)) >= HighWater(s)
         /\ Reselected(s).retained_slot = "none"
<1>1. /\ s \in Fields /\ ValidState(s) /\ s.failed_high_water \in Nat
      /\ s.installed_high_water \in Nat /\ s.applied_id \in Nat
  BY StateTypes DEF Fields, ReleaseIds
<1>2. /\ Reselected(s).failed_high_water = s.failed_high_water
      /\ Reselected(s).installed_high_water = MaxOf(s.installed_high_water, s.applied_id)
      /\ Reselected(s).retained_slot = "none"
  BY <1>1 DEF Reselected, Fields
<1>3. QED
  BY <1>1, <1>2 DEF MaxOf, HighWater

-----------------------------------------------------------------------------
LEMMA NewestState ==
  ASSUME IInv
  PROVE  newest \in UpdateStates /\ (Loaded => ram \in UpdateStates)
BY DEF IInv, TypeOK, Store!TypeOK, RamOnDisk, Loaded

LEMMA CommitNewest ==
  ASSUME NEW v, Store!CommitOk(v) \/ Store!CommitAmbiguous(v)
  PROVE  newest' \in {newest, ram, v} /\ Current'
BY DEF Store!CommitOk, Store!CommitAmbiguous, Current

\* A commit that suppresses the trial of r, or none, leaves r recorded.
LEMMA RecordedKept ==
  ASSUME FirmwareAssumption, IInv, Loaded, Current, NEW v \in UpdateStates,
         Store!CommitOk(v) \/ Store!CommitAmbiguous(v),
         NEW r \in Nat, Recorded(r),
         v.failed_high_water >= ram.failed_high_water,
         ram.phase = "trial_entered" /\ ram.pending_id = r => v.failed_high_water >= r
  PROVE  Recorded(r)'
<1>1. ram = newest /\ newest' \in {newest, v}
  BY CommitNewest DEF Current, Loaded
<1>2. newest.failed_high_water \in Nat /\ v.failed_high_water \in Nat
  BY StateTypes, NewestState
<1>3. QED
  BY <1>1, <1>2 DEF Recorded

\* What the commit of v must respect to keep the history truthful.
LEMMA CommitKeepsHistory ==
  ASSUME FirmwareAssumption, IInv, HInv, Loaded, NEW v \in UpdateStates,
         Store!CommitOk(v) \/ Store!CommitAmbiguous(v),
         UNCHANGED <<slot, rotted, launched, fellBack>>, proven \subseteq proven',
         running' \in proven' \cup {NoId, running},
         v.failed_high_water >= ram.failed_high_water,
         HighWater(v) >= HighWater(ram),
         ram.phase = "trial_entered" =>
           /\ HighWater(v) >= ram.pending_id
           /\ v.failed_high_water >= ram.pending_id \/ ram.pending_id \in proven',
         ~fellBack /\ v.retained_slot # "none" /\ v.retained_slot \notin rotted
           => Authentic(v.retained_slot, v.retained_id)
  PROVE  Follows' /\ RetainedIntact' /\ UnprovenInv' /\ LaunchedInv'
<1>1. newest' \in {newest, ram, v} /\ Current'
  BY CommitNewest
<1>2. Follows'
  BY <1>1 DEF Follows
<1>3. ~fellBack => newest' \in {newest, v}
  BY <1>1 DEF HInv, Follows, Current, Loaded
<1>4. RetainedIntact'
  BY <1>3 DEF HInv, RetainedIntact, Authentic
<1>5. UnprovenInv'
  <2>1. SUFFICES ASSUME running' \notin proven' \cup {NoId}
                 PROVE  Recorded(running)'
    BY <1>1 DEF UnprovenInv
  <2>2. running' = running /\ running \notin proven \cup {NoId} /\ running \in Nat
    BY <2>1 DEF IInv, TypeOK, ReleaseIds
  <2>3. Current /\ Recorded(running)
    BY <2>2 DEF HInv, UnprovenInv
  <2>4. ram.phase = "trial_entered" /\ ram.pending_id = running
          => v.failed_high_water >= running
    BY <2>1, <2>2
  <2>5. \A r \in Nat : r = running => Recorded(r)'
    BY <2>3, <2>4, RecordedKept
  <2>6. QED
    BY <2>2, <2>5 DEF Recorded
<1>6. LaunchedInv'
  <2>1. SUFFICES ASSUME ~fellBack, NEW r \in launched
                 PROVE  Tried(r)'
    BY DEF LaunchedInv
  <2>2. ram = newest /\ Tried(r) /\ r \in Nat
    BY <2>1 DEF HInv, Follows, Current, Loaded, LaunchedInv, IInv, TypeOK, ReleaseIds
  <2>3. HighWater(newest) \in Nat /\ HighWater(v) \in Nat
    BY StateTypes, NewestState
  <2>4. CASE newest' = newest
    BY <2>2, <2>4 DEF Tried, HighWater
  <2>5. CASE newest' = v
    <3>1. r <= HighWater(v)
      BY <2>2, <2>3 DEF Tried
    <3>2. QED
      BY <2>5, <3>1 DEF Tried, HighWater
  <2>6. QED
    BY <1>3, <2>1, <2>4, <2>5
<1>7. QED
  BY <1>2, <1>4, <1>5, <1>6

LEMMA SuppressKeepsHistory ==
  ASSUME FirmwareAssumption, IInv, HInv, Loaded, ram.phase # "none",
         Store!CommitOk(Suppressed(ram)) \/ Store!CommitAmbiguous(Suppressed(ram)),
         UNCHANGED <<slot, rotted, job, historyVars, running>>
  PROVE  /\ Follows' /\ RetainedIntact' /\ UnprovenInv' /\ LaunchedInv'
         /\ pc = "entered" => Current' /\ Recorded(job.id)'
<1>1. ram \in UpdateStates /\ Suppressed(ram) \in UpdateStates
  BY NewestState, SuppressedValid
<1>2. /\ Suppressed(ram).retained_slot = ram.retained_slot
      /\ Suppressed(ram).retained_id = ram.retained_id
  BY <1>1, SuppressedValid
<1>3. /\ Suppressed(ram).failed_high_water >= ram.failed_high_water
      /\ Suppressed(ram).failed_high_water >= ram.pending_id
      /\ HighWater(Suppressed(ram)) >= HighWater(ram)
      /\ HighWater(Suppressed(ram)) >= ram.pending_id
  BY <1>1, SuppressedHigh
<1>4. ~fellBack /\ ram.retained_slot # "none" /\ ram.retained_slot \notin rotted
        => Authentic(ram.retained_slot, ram.retained_id)
  BY DEF HInv, Follows, Current, Loaded, RetainedIntact
<1>5. Follows' /\ RetainedIntact' /\ UnprovenInv' /\ LaunchedInv'
  BY <1>1, <1>2, <1>3, <1>4, CommitKeepsHistory DEF historyVars
<1>6. ASSUME pc = "entered"
      PROVE  Current' /\ Recorded(job.id)'
  <2>1. Current /\ Recorded(job.id) /\ job.id \in Nat
    BY <1>6 DEF HInv, EnteredInv, IInv, JobInv, ReleaseIds
  <2>2. \A r \in Nat : r = job.id => Recorded(r)'
    BY <1>1, <1>3, <2>1, RecordedKept
  <2>3. QED
    BY <1>1, <2>1, <2>2, CommitNewest DEF Recorded
<1>7. QED
  BY <1>5, <1>6

-----------------------------------------------------------------------------
\* A step that leaves the records, the slots and the history alone.
LEMMA QuietHistory ==
  ASSUME HInv, UNCHANGED <<newest, ram, slot, rotted, launched, fellBack, proven>>,
         running' \in proven \cup {NoId, running},
         RunInv', EnteredInv', FreshInv'
  PROVE  HInv'
BY DEF HInv, Follows, Current, RetainedIntact, Authentic, UnprovenInv, Recorded, LaunchedInv,
       Tried, HighWater

LEMMA BootHistory ==
  ASSUME FirmwareAssumption, IInv, HInv, Boot
  PROVE  HInv'
<1>0. running = NoId /\ pc \notin {"staged", "writing", "written", "entered"}
  BY DEF HInv, RunInv, Boot, BootLoad, BootRecover, BootApplied, BootRetained, BootRefused
<1>1. CASE BootLoad
  <2>1. /\ UNCHANGED <<newest, slot, rotted, launched, proven, running>>
        /\ pc' \in {"loaded", "halt"}
        /\ \/ ram' \in {NoState, newest} /\ fellBack' = fellBack
           \/ fellBack' = TRUE
    BY <1>1 DEF BootLoad, Store!LoadNewest, Store!LoadOlder, Store!Drop
  <2>2. QED
    BY <1>0, <2>1 DEF HInv, Follows, Current, RetainedIntact, Authentic, UnprovenInv,
                      EnteredInv, RunInv, LaunchedInv, Tried, HighWater, FreshInv
<1>2. CASE BootRecover
  <2>0. /\ UNCHANGED <<slot, rotted, job, historyVars, running>> /\ pc' \in {"select", "halt"}
        /\ Loaded
    BY <1>2 DEF BootRecover, IInv, BootInv, Loaded
  <2>1. RunInv' /\ EnteredInv' /\ FreshInv'
    BY <1>0, <2>0 DEF RunInv, EnteredInv, FreshInv
  <2>2. CASE ram.phase = "none"
    BY <1>2, <2>0, <2>1, <2>2, QuietHistory DEF BootRecover, metaVars, historyVars
  <2>3. CASE ram.phase # "none"
    <3>1. Recovered(ram) = Suppressed(ram)
      BY <2>0, <2>3, NewestState, SuppressedValid
    <3>2. Store!CommitOk(Suppressed(ram)) \/ Store!CommitAmbiguous(Suppressed(ram))
      BY <1>2, <2>3, <3>1 DEF BootRecover
    <3>3. QED
      BY <2>0, <2>1, <2>3, <3>2, SuppressKeepsHistory DEF HInv
  <2>4. QED
    BY <2>2, <2>3
<1>3. CASE BootRetained
  <2>1. /\ Loaded /\ ram.phase = "none" /\ ram.retained_slot \in Slots
        /\ UNCHANGED <<slot, rotted, launched, fellBack, proven, job>>
        /\ Store!CommitOk(Reselected(ram)) \/ Store!CommitAmbiguous(Reselected(ram))
        /\ \/ pc' = "run" /\ running' = ram.retained_id
           \/ pc' = "halt" /\ running' = running
    BY <1>3 DEF BootRetained, IInv, BootInv, Loaded, Authentic, historyVars
  <2>2. ram \in UpdateStates /\ Reselected(ram) \in UpdateStates
    BY <2>1, NewestState, ReselectedValid
  <2>3. ram.retained_id \in proven
    BY <2>1, LoadedState DEF Slots
  <2>4. Follows' /\ RetainedIntact' /\ UnprovenInv' /\ LaunchedInv'
    BY <2>1, <2>2, <2>3, ReselectedHigh, StateTypes, CommitKeepsHistory
  <2>5. RunInv' /\ EnteredInv' /\ FreshInv'
    BY <1>0, <2>1 DEF RunInv, EnteredInv, FreshInv
  <2>6. QED
    BY <2>4, <2>5 DEF HInv
<1>4. CASE BootApplied
  <2>1. Loaded /\ ram.applied_id \in proven
    BY <1>4, LoadedState DEF BootApplied, IInv, BootInv, Loaded
  <2>2. QED
    BY <1>4, <2>1, QuietHistory DEF BootApplied, metaVars, historyVars, RunInv, EnteredInv,
                                    FreshInv
<1>5. CASE BootRefused
  BY <1>0, <1>5, QuietHistory DEF BootRefused, metaVars, historyVars, RunInv, EnteredInv,
                                  FreshInv
<1>6. QED
  BY <1>1, <1>2, <1>3, <1>4, <1>5 DEF Boot

LEMMA AdmitHistory ==
  ASSUME FirmwareAssumption, IInv, HInv, NEW id \in ReleaseIds, NEW marker \in Markers,
         Admit(id, marker)
  PROVE  HInv'
<1> DEFINE v == Staged(ram, id, marker)
<1>1. /\ Loaded /\ ram.phase = "none" /\ id > HighWater(ram) /\ pc = "run"
      /\ UNCHANGED <<slot, rotted, running, proven, launched, fellBack>>
      /\ Store!CommitOk(v) \/ Store!CommitAmbiguous(v)
      /\ \/ pc' = "staged" /\ job'.id = id
         \/ pc' = pc
  BY DEF Admit, historyVars
<1>2. ram \in UpdateStates /\ v \in UpdateStates
  BY <1>1, NewestState, StagedValid
<1>3. /\ v.failed_high_water = ram.failed_high_water /\ HighWater(v) = HighWater(ram)
      /\ v.retained_slot # "none" =>
           v.retained_slot = ram.retained_slot /\ v.retained_id = ram.retained_id
  BY <1>2, StagedHigh
<1>4. /\ ram.failed_high_water \in Nat /\ HighWater(ram) \in Nat
  BY <1>2, StateTypes
<1>5. ~fellBack => ram = newest
  BY <1>1 DEF HInv, Follows, Current, Loaded
<1>6. Follows' /\ RetainedIntact' /\ UnprovenInv' /\ LaunchedInv'
  <2>1. ~fellBack /\ v.retained_slot # "none" /\ v.retained_slot \notin rotted
          => Authentic(v.retained_slot, v.retained_id)
    BY <1>3, <1>5 DEF HInv, RetainedIntact
  <2>2. QED
    BY <1>1, <1>2, <1>3, <1>4, <2>1, CommitKeepsHistory
<1>7. ~fellBack => id \notin launched
  <2>1. SUFFICES ASSUME ~fellBack, id \in launched
                 PROVE  FALSE
    OBVIOUS
  <2>2. Tried(id) /\ ram = newest
    BY <1>5, <2>1 DEF HInv, LaunchedInv
  <2>3. QED
    BY <1>1, <1>4, <2>2 DEF Tried, ReleaseIds
<1>8. RunInv' /\ EnteredInv' /\ FreshInv'
  BY <1>1, <1>7 DEF RunInv, EnteredInv, FreshInv
<1>9. QED
  BY <1>6, <1>8 DEF HInv

LEMMA WriteHistory ==
  ASSUME FirmwareAssumption, IInv, HInv, EraseSlot \/ WriteSlot
  PROVE  HInv'
<1>1. /\ UNCHANGED <<newest, ram, running, proven, launched, fellBack, job>>
      /\ \A s \in Slots \ {job.slot} : slot'[s] = slot[s] /\ (s \in rotted' <=> s \in rotted)
      /\ Loaded /\ ram.phase # "none" /\ ram.pending_slot = job.slot
      /\ pc \in {"staged", "writing"} /\ pc' \in {"writing", "written"}
  BY DEF EraseSlot, WriteSlot, Authorized, metaVars, historyVars, IInv, TypeOK
<1>2. ~fellBack /\ newest.retained_slot # "none" => newest.retained_slot \in Slots \ {job.slot}
  <2>1. newest \in Fields /\ ValidState(newest)
    BY NewestState, StateTypes
  <2>2. ~fellBack => ram = newest
    BY <1>1 DEF HInv, Follows, Current, Loaded
  <2>3. QED
    BY <1>1, <2>1, <2>2 DEF Fields, ValidState
<1>3. RetainedIntact'
  BY <1>1, <1>2 DEF HInv, RetainedIntact, Authentic
<1>4. QED
  BY <1>1, <1>3 DEF HInv, Follows, Current, UnprovenInv, Recorded, EnteredInv, RunInv,
                    LaunchedInv, Tried, HighWater, FreshInv

LEMMA EnterHistory ==
  ASSUME FirmwareAssumption, IInv, HInv, EnterTrial
  PROVE  HInv'
<1> DEFINE v == Trialing(ram)
<1>1. /\ Loaded /\ ram.phase = "writing" /\ pc = "written"
      /\ UNCHANGED <<slot, rotted, running, proven, launched, fellBack, job>>
      /\ \/ Store!CommitOk(v) /\ pc' = "entered"
         \/ Store!CommitAmbiguous(v) /\ pc' = "run"
  BY DEF EnterTrial, historyVars
<1>2. ram \in UpdateStates /\ v \in UpdateStates
  BY <1>1, NewestState, TrialingValid
<1>3. /\ v.failed_high_water = ram.failed_high_water /\ HighWater(v) = HighWater(ram)
      /\ v.retained_slot = ram.retained_slot /\ v.retained_id = ram.retained_id
      /\ v.pending_id = ram.pending_id /\ v.phase = "trial_entered"
      /\ ram.failed_high_water \in Nat /\ HighWater(ram) \in Nat
  BY <1>2, TrialingHigh, StateTypes
<1>4. ~fellBack => ram = newest
  BY <1>1 DEF HInv, Follows, Current, Loaded
<1>5. Follows' /\ RetainedIntact' /\ UnprovenInv' /\ LaunchedInv'
  <2>1. ~fellBack /\ v.retained_slot # "none" /\ v.retained_slot \notin rotted
          => Authentic(v.retained_slot, v.retained_id)
    BY <1>3, <1>4 DEF HInv, RetainedIntact
  <2>2. QED
    BY <1>1, <1>2, <1>3, <2>1, CommitKeepsHistory
<1>6. EnteredInv'
  <2>1. ram.pending_id = job.id
    BY <1>1 DEF IInv, JobInv
  <2>2. QED
    BY <1>1, <1>3, <2>1 DEF EnteredInv, Current, Recorded, Store!CommitOk
<1>7. RunInv' /\ FreshInv'
  BY <1>1 DEF HInv, RunInv, FreshInv
<1>8. QED
  BY <1>5, <1>6, <1>7 DEF HInv

LEMMA LaunchHistory ==
  ASSUME FirmwareAssumption, IInv, HInv, LaunchTrial
  PROVE  HInv'
<1>1. /\ UNCHANGED <<newest, ram, slot, rotted, proven, fellBack>>
      /\ running' = job.id /\ launched' = launched \cup {job.id}
      /\ pc = "entered" /\ pc' = "run"
  BY DEF LaunchTrial, metaVars
<1>2. Current /\ Recorded(job.id) /\ job.id \in Nat
  BY <1>1 DEF HInv, EnteredInv, IInv, JobInv, ReleaseIds
<1>3. newest.failed_high_water <= HighWater(newest) /\ newest.failed_high_water \in Nat
      /\ HighWater(newest) \in Nat
  BY NewestState, StateTypes
<1>4. Tried(job.id)
  BY <1>2, <1>3 DEF Recorded, Tried
<1>5. LaunchedInv'
  BY <1>1, <1>4 DEF HInv, LaunchedInv, Tried, HighWater
<1>6. UnprovenInv'
  BY <1>1, <1>2 DEF UnprovenInv, Current, Recorded
<1>7. QED
  BY <1>1, <1>5, <1>6 DEF HInv, Follows, Current, RetainedIntact, Authentic, EnteredInv,
                          RunInv, FreshInv

LEMMA EndsHistory ==
  ASSUME FirmwareAssumption, IInv, HInv, SuppressStaged \/ Tick \/ FailTrial
  PROVE  HInv'
<1>1. CASE SuppressStaged /\ ~(Loaded /\ ram.phase # "none")
  BY <1>1, QuietHistory DEF SuppressStaged, metaVars, historyVars, HInv, RunInv, EnteredInv,
                            FreshInv
<1>2. CASE SuppressStaged /\ Loaded /\ ram.phase # "none"
  <2> DEFINE v == Suppressed(ram)
  <2>1. /\ UNCHANGED <<slot, rotted, running, proven, launched, fellBack>>
        /\ Store!CommitOk(v) \/ Store!CommitAmbiguous(v)
        /\ pc' = "run"
    BY <1>2 DEF SuppressStaged, Suppress, historyVars
  <2>2. ram \in UpdateStates /\ v \in UpdateStates
    BY <1>2, NewestState, SuppressedValid
  <2>3. v.retained_slot = ram.retained_slot /\ v.retained_id = ram.retained_id
    BY <1>2, <2>2, SuppressedValid
  <2>4. ~fellBack /\ v.retained_slot # "none" /\ v.retained_slot \notin rotted
          => Authentic(v.retained_slot, v.retained_id)
    BY <1>2, <2>3 DEF HInv, Follows, Current, Loaded, RetainedIntact
  <2>5. Follows' /\ RetainedIntact' /\ UnprovenInv' /\ LaunchedInv'
    BY <1>2, <2>1, <2>2, <2>4, SuppressedHigh, CommitKeepsHistory
  <2>6. QED
    BY <2>1, <2>5 DEF HInv, RunInv, EnteredInv, FreshInv
<1>3. CASE Tick \/ FailTrial
  <2>1. /\ Loaded /\ ram.phase # "none"
        /\ Store!CommitOk(Suppressed(ram)) \/ Store!CommitAmbiguous(Suppressed(ram))
        /\ UNCHANGED <<slot, rotted, job, historyVars, running, pc>>
    BY <1>3 DEF Tick, TickAt, FailTrial, Suppress
  <2>2. Follows' /\ RetainedIntact' /\ UnprovenInv' /\ LaunchedInv' /\ EnteredInv'
    BY <2>1, SuppressKeepsHistory DEF EnteredInv
  <2>3. RunInv' /\ FreshInv'
    BY <2>1 DEF HInv, RunInv, FreshInv, historyVars
  <2>4. QED
    BY <2>2, <2>3 DEF HInv
<1>4. QED
  BY <1>1, <1>2, <1>3

LEMMA ConfirmHistory ==
  ASSUME FirmwareAssumption, IInv, HInv, ConfirmTrial
  PROVE  HInv'
<1>1. /\ pc = "report" /\ pc' = "run"
      /\ UNCHANGED <<slot, job, running, rotted, launched, fellBack>>
  BY DEF ConfirmTrial
<1>2. RunInv' /\ EnteredInv' /\ FreshInv'
  BY <1>1 DEF RunInv, EnteredInv, FreshInv
<1>3. CASE UNCHANGED <<metaVars, trialAge, proven>>
  BY <1>1, <1>2, <1>3, QuietHistory DEF metaVars
<1>4. CASE ~UNCHANGED <<metaVars, trialAge, proven>>
  <2>0. Loaded /\ ram.phase = "trial_entered"
    BY <1>4 DEF ConfirmTrial
  <2>1. PICK e \in Elapsed :
          \/ Suppress /\ UNCHANGED proven
          \/ /\ ~Expired(e) /\ claim.id = ram.pending_id
             /\ Store!CommitOk(Promoted(ram)) \/ Store!CommitAmbiguous(Promoted(ram))
             /\ proven' = IF trialAge < TrialMs THEN proven \cup {claim.id} ELSE proven
    BY <1>4, <2>0 DEF ConfirmTrial
  <2>2. CASE Suppress /\ UNCHANGED proven
    <3>1. Follows' /\ RetainedIntact' /\ UnprovenInv' /\ LaunchedInv'
      BY <1>1, <2>0, <2>2, SuppressKeepsHistory DEF Suppress, historyVars
    <3>2. QED
      BY <1>2, <3>1 DEF HInv
  <2>3. CASE /\ ~Expired(e) /\ claim.id = ram.pending_id
             /\ Store!CommitOk(Promoted(ram)) \/ Store!CommitAmbiguous(Promoted(ram))
             /\ proven' = IF trialAge < TrialMs THEN proven \cup {claim.id} ELSE proven
    <3> DEFINE v == Promoted(ram)
    <3>1. proven \subseteq proven' /\ ram.pending_id \in proven'
      BY <2>3 DEF Expired, Elapsed, NoTick, IInv, TypeOK, FirmwareAssumption
    <3>2. ram \in UpdateStates /\ v \in UpdateStates
      BY <2>0, NewestState, PromotedValid
    <3>3. v.retained_slot = ram.applied_slot /\ v.retained_id = ram.applied_id
      BY <2>0, <3>2, PromotedValid
    <3>4. v.retained_slot \notin rotted => Authentic(v.retained_slot, v.retained_id)
      BY <2>0, <3>3, LoadedState
    <3>5. /\ v.failed_high_water >= ram.failed_high_water
          /\ HighWater(v) >= HighWater(ram) /\ HighWater(v) >= ram.pending_id
      BY <3>2, PromotedHigh, StateTypes
    <3>6. Follows' /\ RetainedIntact' /\ UnprovenInv' /\ LaunchedInv'
      BY <1>1, <2>0, <2>3, <3>1, <3>2, <3>4, <3>5, CommitKeepsHistory
    <3>7. QED
      BY <1>2, <3>6 DEF HInv
  <2>4. QED
    BY <2>1, <2>2, <2>3
<1>5. QED
  BY <1>3, <1>4

LEMMA EnvironmentHistory ==
  ASSUME FirmwareAssumption, IInv, HInv, PowerCut \/ \E s \in Slots : Rot(s)
  PROVE  HInv'
<1>1. CASE PowerCut
  BY <1>1 DEF PowerCut, Store!Drop, historyVars, HInv, Follows, Current, RetainedIntact,
              Authentic, UnprovenInv, EnteredInv, RunInv, LaunchedInv, Tried, HighWater,
              FreshInv
<1>2. CASE \E s \in Slots : Rot(s)
  <2>1. PICK s \in Slots : Rot(s)
    BY <1>2
  <2>2. RetainedIntact'
    BY <2>1 DEF Rot, metaVars, historyVars, HInv, RetainedIntact, Authentic, IInv, TypeOK
  <2>3. QED
    BY <2>1, <2>2 DEF Rot, metaVars, historyVars, HInv, Follows, Current, UnprovenInv, Recorded,
                      EnteredInv, RunInv, LaunchedInv, Tried, HighWater, FreshInv
<1>3. QED
  BY <1>1, <1>2

LEMMA StepHistory ==
  ASSUME FirmwareAssumption, IInv, HInv, [Next]_vars
  PROVE  HInv'
<1>1. CASE StagingRaises \/ ReportFails \/ ClockAdvances
  BY <1>1, QuietHistory DEF StagingRaises, ReportFails, ClockAdvances, metaVars, historyVars,
                            HInv, RunInv, EnteredInv, Current, Recorded, FreshInv
<1>2. CASE \/ \E id \in ReleaseIds, marker \in Markers : ReportTrial(id, marker)
           \/ UNCHANGED vars
  BY <1>2, QuietHistory DEF ReportTrial, vars, metaVars, historyVars, HInv, RunInv, EnteredInv,
                            Current, Recorded, FreshInv
<1>3. QED
  BY <1>1, <1>2, BootHistory, AdmitHistory, WriteHistory, EnterHistory, LaunchHistory,
     EndsHistory, ConfirmHistory, EnvironmentHistory DEF Next, Staging

LEMMA InitHistory ==
  ASSUME FirmwareAssumption, Init
  PROVE  HInv
<1>1. PICK retained \in BOOLEAN :
        /\ newest = Factory(retained)
        /\ slot = [s \in Slots |-> IF s = "A" \/ retained THEN FactoryId ELSE Junk]
  BY DEF Init
<1>2. RetainedIntact
  BY <1>1 DEF Init, RetainedIntact, Authentic, Factory, Slots
<1>3. QED
  BY <1>2 DEF Init, HInv, Follows, Current, UnprovenInv, EnteredInv, RunInv, LaunchedInv,
              FreshInv

-----------------------------------------------------------------------------
THEOREM HistoryInvariance == Spec => [](IInv /\ HInv)
<1>1. Init => HInv
  BY InitHistory, FirmwareAssumption
<1>2. IInv /\ HInv /\ [Next]_vars => HInv'
  BY StepHistory, FirmwareAssumption
<1>3. QED
  BY <1>1, <1>2, Invariance, PTL DEF Spec

\* The slot that the newest record retains can be fallen back to: staging
\* withdraws the claim durably before it erases the slot.
THEOREM RetainedStaysIntact == Spec => []RetainedIntact
<1>1. HInv => RetainedIntact
  BY DEF HInv
<1>2. QED
  BY <1>1, HistoryInvariance, PTL

\* At any moment at which unproven code runs, a power cut finds a record that
\* makes the next boot suppress it.
THEOREM UnprovenStaysOnRecord == Spec => []UnprovenOnRecord
<1>1. HInv => UnprovenOnRecord
  BY DEF HInv, UnprovenInv, UnprovenOnRecord, Recorded
<1>2. QED
  BY <1>1, HistoryInvariance, PTL

\* No candidate is launched a second time without proof, whatever the power
\* cuts and ambiguous commits, unless a load fell back to an older record.
THEOREM NoReleaseTriedTwice == Spec => NoSecondTrial
<1>1. ASSUME IInv, HInv, [Next]_vars,
             running' # running, running' # NoId, running' \notin proven, ~fellBack
      PROVE  running' \notin launched
  <2>1. CASE LaunchTrial
    BY <1>1, <2>1 DEF LaunchTrial, HInv, FreshInv
  <2>2. CASE Boot
    BY <1>1, <2>2, FirmwareAssumption, LoadedState
       DEF Boot, BootLoad, BootRecover, BootApplied, BootRetained, BootRefused, IInv, BootInv,
           Loaded, Authentic, Slots
  <2>3. QED
    BY <1>1, <2>1, <2>2
       DEF Next, vars, Staging, Admit, EraseSlot, WriteSlot, EnterTrial, SuppressStaged,
           StagingRaises, Tick, TickAt, FailTrial, ReportTrial, ReportFails, ConfirmTrial,
           ClockAdvances, PowerCut, Rot
<1>2. IInv /\ HInv /\ [Next]_vars =>
        [running' # running /\ running' # NoId /\ running' \notin proven /\ ~fellBack
           => running' \notin launched]_vars
  BY <1>1
<1>3. QED
  BY <1>2, HistoryInvariance, PTL DEF Spec, NoSecondTrial

-----------------------------------------------------------------------------
\* FirmwareUpdate implements TrialLifecycle.
\* The trial's clock runs only while the loaded state is on trial.
AgeInv == trialAge # NoTick => Loaded /\ ram.phase = "trial_entered"

LInv == IInv /\ AgeInv

-----------------------------------------------------------------------------
\* What a state transition looks like from outside.
LEMMA LifeOfValid ==
  ASSUME FirmwareAssumption, NEW s \in UpdateStates
  PROVE  /\ LifeOf(s) \in Lifecycle!Lives
         /\ LifeOf(s).phase = s.phase
         /\ LifeOf(s).id = s.pending_id
         /\ LifeOf(s).marker = s.trial_marker
         /\ LifeOf(s).applied = s.applied_id
         /\ LifeOf(s).floor = HighWater(s)
<1>1. s \in Fields /\ ValidState(s) /\ HighWater(s) \in 0..MaxReleaseId
  BY ShapeOfState
<1>2. HighWater(s) \in 1..MaxReleaseId /\ s.applied_id <= HighWater(s)
  BY <1>1, FirmwareAssumption DEF FirmwareAssumption, Fields, ValidState, HighWater, MaxOf,
                                  ReleaseIds
<1>3. s.pending_id \in 0..MaxReleaseId
  BY <1>1, FirmwareAssumption DEF FirmwareAssumption, Fields, ReleaseIds, NoId
<1>4. QED
  BY <1>1, <1>2, <1>3 DEF LifeOf, Lifecycle!Lives, Lifecycle!NoId, NoId, Fields, ValidState,
                          ReleaseIds

LEMMA LifeKnown ==
  ASSUME FirmwareAssumption, IInv
  PROVE  /\ Lifecycle!Known <=> Loaded
         /\ Loaded => /\ Life = LifeOf(ram)
                      /\ Life \in Lifecycle!Lives
                      /\ Life.phase = ram.phase
<1>1. CASE Loaded
  <2>1. Life = LifeOf(ram) /\ Life \in Lifecycle!Lives /\ Life.phase = ram.phase
    BY <1>1, LoadedState, LifeOfValid DEF Life
  <2>2. QED
    BY <1>1, <2>1, NoLifeAssumption DEF Lifecycle!Known
<1>2. CASE ~Loaded
  BY <1>2 DEF Life, Lifecycle!Known
<1>3. QED
  BY <1>1, <1>2

\* A commit of v leaves v loaded or nothing, and so is one of two steps.
LEMMA CommitSeen ==
  ASSUME NEW v, Store!CommitOk(v) \/ Store!CommitAmbiguous(v), v # NoState
  PROVE  Life' = LifeOf(v) \/ Life' = NoState
<1>1. CASE Store!CommitOk(v)
  BY <1>1 DEF Store!CommitOk, Life, LifeOf, Loaded
<1>2. CASE Store!CommitAmbiguous(v)
  BY <1>2 DEF Store!CommitAmbiguous, Life, Loaded
<1>3. QED
  BY <1>1, <1>2

LEMMA StagedSeen ==
  ASSUME FirmwareAssumption, NEW s \in UpdateStates, NEW id \in ReleaseIds,
         NEW marker \in Markers
  PROVE  LifeOf(Staged(s, id, marker)) =
           [phase |-> "writing", id |-> id, marker |-> marker,
            applied |-> s.applied_id, floor |-> HighWater(s)]
<1>1. s \in Fields
  BY ShapeOfState
<1>2. /\ Staged(s, id, marker).applied_id = s.applied_id
      /\ Staged(s, id, marker).installed_high_water = s.installed_high_water
      /\ Staged(s, id, marker).failed_high_water = s.failed_high_water
      /\ Staged(s, id, marker).pending_id = id
      /\ Staged(s, id, marker).trial_marker = marker
      /\ Staged(s, id, marker).phase = "writing"
  BY <1>1 DEF Staged, Fields
<1>3. HighWater(Staged(s, id, marker)) = HighWater(s)
  BY <1>2 DEF HighWater
<1>4. QED
  BY <1>2, <1>3 DEF LifeOf

LEMMA TrialingSeen ==
  ASSUME FirmwareAssumption, NEW s \in UpdateStates
  PROVE  LifeOf(Trialing(s)) = [LifeOf(s) EXCEPT !.phase = "trial_entered"]
BY ShapeOfState DEF LifeOf, HighWater, Trialing, Fields

LEMMA SuppressedSeen ==
  ASSUME FirmwareAssumption, NEW s \in UpdateStates, s.phase # "none"
  PROVE  LifeOf(Suppressed(s)) = Lifecycle!Settled(s.applied_id, s.pending_id)
<1>1. s \in Fields /\ ValidState(s)
  BY ShapeOfState
<1>2. /\ Suppressed(s).applied_id = s.applied_id
      /\ Suppressed(s).installed_high_water = s.installed_high_water
      /\ Suppressed(s).failed_high_water = MaxOf(s.failed_high_water, s.pending_id)
      /\ Suppressed(s).pending_id = NoId
      /\ Suppressed(s).trial_marker = "none"
      /\ Suppressed(s).phase = "none"
  BY <1>1 DEF Suppressed, Cleared, Fields
<1>3. MaxOf(s.installed_high_water, MaxOf(s.failed_high_water, s.pending_id)) = s.pending_id
  BY <1>1, FirmwareAssumption DEF FirmwareAssumption, ValidState, HighWater, MaxOf, Fields,
                                  ReleaseIds, NoId
<1>4. QED
  BY <1>2, <1>3 DEF LifeOf, HighWater, Lifecycle!Settled, Lifecycle!NoId, NoId

LEMMA PromotedSeen ==
  ASSUME FirmwareAssumption, NEW s \in UpdateStates, s.phase = "trial_entered"
  PROVE  LifeOf(Promoted(s)) = Lifecycle!Settled(s.pending_id, s.pending_id)
<1>1. s \in Fields /\ ValidState(s)
  BY ShapeOfState
<1>2. /\ Promoted(s).applied_id = s.pending_id
      /\ Promoted(s).installed_high_water = MaxOf(s.installed_high_water, s.pending_id)
      /\ Promoted(s).failed_high_water = s.failed_high_water
      /\ Promoted(s).pending_id = NoId
      /\ Promoted(s).trial_marker = "none"
      /\ Promoted(s).phase = "none"
  BY <1>1 DEF Promoted, Cleared, Fields
<1>3. MaxOf(MaxOf(s.installed_high_water, s.pending_id), s.failed_high_water) = s.pending_id
  BY <1>1, FirmwareAssumption DEF FirmwareAssumption, ValidState, HighWater, MaxOf, Fields,
                                  ReleaseIds, NoId
<1>4. QED
  BY <1>2, <1>3 DEF LifeOf, HighWater, Lifecycle!Settled, Lifecycle!NoId, NoId

LEMMA ReselectedSeen ==
  ASSUME FirmwareAssumption, NEW s \in UpdateStates, s.phase = "none",
         s.retained_slot \in Slots
  PROVE  /\ s.retained_id \in 1..HighWater(s)
         /\ LifeOf(Reselected(s)) = Lifecycle!Settled(s.retained_id, HighWater(s))
<1>1. s \in Fields /\ ValidState(s)
  BY ShapeOfState
<1>2. s.retained_id \in 1..s.installed_high_water
  BY <1>1 DEF ValidState, Slots
<1>3. s.retained_id \in 1..HighWater(s)
  BY <1>1, <1>2, FirmwareAssumption DEF FirmwareAssumption, HighWater, MaxOf, Fields
<1>4. /\ Reselected(s).applied_id = s.retained_id
      /\ Reselected(s).installed_high_water = MaxOf(s.installed_high_water, s.applied_id)
      /\ Reselected(s).failed_high_water = s.failed_high_water
      /\ Reselected(s).pending_id = NoId
      /\ Reselected(s).trial_marker = "none"
      /\ Reselected(s).phase = "none"
  BY <1>1 DEF Reselected, Fields, ValidState
<1>5. MaxOf(s.installed_high_water, s.applied_id) = s.installed_high_water
  BY <1>1, FirmwareAssumption DEF FirmwareAssumption, ValidState, MaxOf, Fields, ReleaseIds
<1>6. QED
  BY <1>3, <1>4, <1>5 DEF LifeOf, HighWater, Lifecycle!Settled, Lifecycle!NoId, NoId

-----------------------------------------------------------------------------
\* Each step of the updater is a step of its lifecycle or is not seen at all.
Seen == [Lifecycle!Next]_(Lifecycle!lifecycle)

LEMMA QuietSeen ==
  ASSUME LInv, ram' = ram, trialAge' = trialAge
  PROVE  Seen /\ AgeInv'
BY DEF Seen, LInv, AgeInv, Lifecycle!lifecycle, Life, LifeOf, HighWater, Loaded

LEMMA LoseSeen ==
  ASSUME FirmwareAssumption, LInv, ram' = NoState, trialAge' = NoTick
  PROVE  Seen /\ AgeInv'
<1>1. Life' = NoState /\ AgeInv'
  BY DEF Life, Loaded, AgeInv
<1>2. CASE Loaded
  BY <1>1, <1>2, LifeKnown DEF LInv, Seen, Lifecycle!Next, Lifecycle!Lose, NoTick,
                               Lifecycle!NoTick
<1>3. CASE ~Loaded
  BY <1>1, <1>3 DEF LInv, AgeInv, Seen, Lifecycle!lifecycle, Life
<1>4. QED
  BY <1>1, <1>2, <1>3

LEMMA SuppressSeen ==
  ASSUME FirmwareAssumption, LInv, Loaded, ram.phase # "none", trialAge' = NoTick,
         Store!CommitOk(Suppressed(ram)) \/ Store!CommitAmbiguous(Suppressed(ram))
  PROVE  Seen /\ AgeInv'
<1>0. IInv /\ ram \in UpdateStates
  BY LoadedState DEF LInv
<1>1. AgeInv'
  BY DEF AgeInv
<1>2. CASE ram' = NoState
  BY <1>2, LoseSeen
<1>3. CASE ram' # NoState
  <2>1. ram' = Suppressed(ram)
    BY <1>3 DEF Store!CommitOk, Store!CommitAmbiguous
  <2>2. Life' = LifeOf(Suppressed(ram))
    BY <1>3, <2>1 DEF Life, Loaded, LifeOf, HighWater
  <2>3. Life' = Lifecycle!Settled(Life.applied, Life.id)
    BY <1>0, <2>2, LifeKnown, LifeOfValid, SuppressedSeen
  <2>4. QED
    BY <1>0, <1>1, <2>3, LifeKnown DEF Seen, Lifecycle!Next, Lifecycle!Suppress, NoTick,
                                       Lifecycle!NoTick
<1>4. QED
  BY <1>2, <1>3

LEMMA BootSeen ==
  ASSUME FirmwareAssumption, LInv, Boot
  PROVE  Seen /\ AgeInv'
<1>0. IInv /\ BootInv /\ AgeInv
  BY DEF LInv, IInv
<1>1. CASE BootLoad
  <2>1. ~Loaded /\ trialAge = NoTick /\ trialAge' = NoTick
    BY <1>0, <1>1 DEF BootLoad, BootInv, AgeInv, Loaded
  <2>2. ram' \in UpdateStates \cup {NoState}
    BY <1>0, <1>1 DEF BootLoad, Store!LoadNewest, Store!LoadOlder, Store!Drop, IInv, TypeOK,
                      Store!TypeOK
  <2>3. CASE ram' = NoState
    BY <2>1, <2>3, LoseSeen
  <2>4. CASE ram' # NoState
    <3>1. Life' = LifeOf(ram') /\ LifeOf(ram') \in Lifecycle!Lives
      BY <2>2, <2>4, LifeOfValid DEF Life, LifeOf, HighWater, Loaded
    <3>2. QED
      BY <1>0, <2>1, <3>1, LifeKnown DEF Seen, Lifecycle!Next, Lifecycle!Reload, NoTick,
                                         Lifecycle!NoTick, AgeInv
  <2>5. QED
    BY <2>3, <2>4
<1>2. CASE BootRecover
  <2>1. Loaded
    BY <1>0, <1>2 DEF BootRecover, BootInv, Loaded
  <2>2. CASE ram.phase = "none"
    BY <1>2, <2>2, QuietSeen DEF BootRecover, metaVars
  <2>3. CASE ram.phase # "none"
    <3>1. Recovered(ram) = Suppressed(ram)
      BY <1>0, <2>1, <2>3, LoadedState, SuppressedValid
    <3>2. QED
      BY <1>2, <2>1, <2>3, <3>1, SuppressSeen DEF BootRecover
  <2>4. QED
    BY <2>2, <2>3
<1>3. CASE BootRetained
  <2>1. /\ Loaded /\ ram.phase = "none" /\ ram.retained_slot \in Slots
        /\ trialAge = NoTick /\ trialAge' = NoTick
    BY <1>0, <1>3 DEF BootRetained, BootInv, Loaded, Authentic, AgeInv
  <2>2. ram \in UpdateStates
    BY <1>0, <2>1, LoadedState
  <2>3. CASE ram' = NoState
    BY <2>1, <2>3, LoseSeen
  <2>4. CASE ram' # NoState
    <3>1. ram' = Reselected(ram)
      BY <1>3, <2>4 DEF BootRetained, Store!CommitOk, Store!CommitAmbiguous
    <3>2. Life' = LifeOf(Reselected(ram))
      BY <2>4, <3>1 DEF Life, Loaded, LifeOf, HighWater
    <3>3. \E r \in 1..Life.floor : Life' = Lifecycle!Settled(r, Life.floor)
      BY <1>0, <2>1, <2>2, <3>2, LifeKnown, LifeOfValid, ReselectedSeen
    <3>4. QED
      BY <1>0, <2>1, <3>3, LifeKnown DEF Seen, Lifecycle!Next, Lifecycle!Reselect, AgeInv
  <2>5. QED
    BY <2>3, <2>4
<1>4. CASE BootApplied \/ BootRefused
  BY <1>4, QuietSeen DEF BootApplied, BootRefused, metaVars
<1>5. QED
  BY <1>1, <1>2, <1>3, <1>4 DEF Boot

LEMMA AdmitSeen ==
  ASSUME FirmwareAssumption, LInv, NEW id \in ReleaseIds, NEW marker \in Markers,
         Admit(id, marker)
  PROVE  Seen /\ AgeInv'
<1>0. /\ IInv /\ Loaded /\ ram \in UpdateStates /\ ram.phase = "none" /\ id > HighWater(ram)
      /\ trialAge = NoTick /\ trialAge' = NoTick
  BY LoadedState DEF LInv, Admit, AgeInv
<1>1. CASE ram' = NoState
  BY <1>0, <1>1, LoseSeen
<1>2. CASE ram' # NoState
  <2>1. ram' = Staged(ram, id, marker)
    BY <1>2 DEF Admit, Store!CommitOk, Store!CommitAmbiguous
  <2>2. Life' = LifeOf(Staged(ram, id, marker))
    BY <1>2, <2>1 DEF Life, Loaded, LifeOf, HighWater
  <2>3. Life' = [phase |-> "writing", id |-> id, marker |-> marker,
                 applied |-> Life.applied, floor |-> Life.floor]
    BY <1>0, <2>2, LifeKnown, LifeOfValid, StagedSeen
  <2>4. Lifecycle!Stage(id, marker)
    BY <1>0, <2>3, LifeKnown, LifeOfValid DEF Lifecycle!Stage
  <2>5. id \in 1..MaxReleaseId
    BY DEF ReleaseIds
  <2>6. QED
    BY <1>0, <2>4, <2>5 DEF Seen, Lifecycle!Next, AgeInv
<1>3. QED
  BY <1>1, <1>2

LEMMA EnterSeen ==
  ASSUME FirmwareAssumption, LInv, EnterTrial
  PROVE  Seen /\ AgeInv'
<1>0. IInv /\ Loaded /\ ram \in UpdateStates /\ ram.phase = "writing"
  BY LoadedState DEF LInv, EnterTrial
<1>1. CASE Store!CommitOk(Trialing(ram)) /\ trialAge' = 0
  <2>1. ram' = Trialing(ram) /\ Trialing(ram) \in UpdateStates /\ ram' # NoState
    BY <1>0, <1>1, TrialingValid, NoStateAssumption DEF Store!CommitOk
  <2>2. Life' = LifeOf(Trialing(ram)) /\ ram'.phase = "trial_entered"
    BY <1>0, <2>1, ShapeOfState DEF Life, Loaded, LifeOf, HighWater, Trialing, Fields
  <2>3. Life' = [Life EXCEPT !.phase = "trial_entered"]
    BY <1>0, <2>2, LifeKnown, TrialingSeen
  <2>4. Lifecycle!EnterTrial
    BY <1>0, <1>1, <2>3, LifeKnown DEF Lifecycle!EnterTrial
  <2>5. QED
    BY <2>1, <2>2, <2>4 DEF Seen, Lifecycle!Next, AgeInv, Loaded
<1>2. CASE Store!CommitAmbiguous(Trialing(ram)) /\ trialAge' = NoTick
  BY <1>2, LoseSeen DEF Store!CommitAmbiguous
<1>3. QED
  BY <1>1, <1>2 DEF EnterTrial

LEMMA ConfirmSeen ==
  ASSUME FirmwareAssumption, LInv, ConfirmTrial
  PROVE  Seen /\ AgeInv'
<1>0. IInv /\ AgeInv
  BY DEF LInv
<1>1. CASE ~Loaded \/ ram.phase # "trial_entered" \/ trialAge = NoTick
  BY <1>1, QuietSeen DEF ConfirmTrial, metaVars
<1>2. CASE ~(~Loaded \/ ram.phase # "trial_entered" \/ trialAge = NoTick)
  <2>1. PICK e \in Elapsed :
          \/ Expired(e) /\ Suppress
          \/ /\ ~Expired(e)
             /\ IF claim.id = ram.pending_id /\ claim.marker = ram.trial_marker
                  THEN /\ Store!CommitOk(Promoted(ram)) \/ Store!CommitAmbiguous(Promoted(ram))
                       /\ trialAge' = NoTick
                  ELSE UNCHANGED <<metaVars, trialAge>>
    BY <1>2 DEF ConfirmTrial
  <2>2. CASE Expired(e)
    BY <1>2, <2>1, <2>2, SuppressSeen DEF Suppress
  <2>3. CASE ~Expired(e) /\ UNCHANGED <<metaVars, trialAge>>
    BY <2>3, QuietSeen DEF metaVars
  <2>4. CASE /\ ~Expired(e)
             /\ Store!CommitOk(Promoted(ram)) \/ Store!CommitAmbiguous(Promoted(ram))
             /\ trialAge' = NoTick
    <3>1. trialAge \in 0..TrialMs - 1
      BY <1>0, <1>2, <2>4 DEF Expired, Elapsed, NoTick, IInv, TypeOK, FirmwareAssumption
    <3>2. CASE ram' = NoState
      BY <2>4, <3>2, LoseSeen
    <3>3. CASE ram' # NoState
      <4>1. ram' = Promoted(ram)
        BY <2>4, <3>3 DEF Store!CommitOk, Store!CommitAmbiguous
      <4>2. Life' = LifeOf(Promoted(ram))
        BY <3>3, <4>1 DEF Life, Loaded, LifeOf, HighWater
      <4>3. Life' = Lifecycle!Settled(Life.id, Life.id)
        BY <1>0, <1>2, <4>2, LoadedState, LifeKnown, LifeOfValid, PromotedSeen
      <4>4. Lifecycle!Promote
        BY <1>0, <1>2, <2>4, <3>1, <4>3, LifeKnown DEF Lifecycle!Promote, NoTick,
                                                       Lifecycle!NoTick
      <4>5. QED
        BY <2>4, <4>4 DEF Seen, Lifecycle!Next, AgeInv
    <3>4. QED
      BY <3>2, <3>3
  <2>5. QED
    BY <2>1, <2>2, <2>3, <2>4
<1>3. QED
  BY <1>1, <1>2

LEMMA EndsSeen ==
  ASSUME FirmwareAssumption, LInv, SuppressStaged \/ Tick \/ FailTrial
  PROVE  Seen /\ AgeInv'
<1>1. CASE SuppressStaged
  <2>1. CASE Loaded /\ ram.phase # "none"
    BY <1>1, <2>1, SuppressSeen DEF SuppressStaged, Suppress
  <2>2. CASE ~(Loaded /\ ram.phase # "none")
    BY <1>1, <2>2, QuietSeen DEF SuppressStaged, LInv, AgeInv, metaVars
  <2>3. QED
    BY <2>1, <2>2
<1>2. CASE Tick
  BY <1>2, SuppressSeen DEF Tick, TickAt, Suppress
<1>3. CASE FailTrial
  BY <1>3, SuppressSeen DEF FailTrial, Suppress
<1>4. QED
  BY <1>1, <1>2, <1>3

LEMMA EnvironmentSeen ==
  ASSUME FirmwareAssumption, LInv, ClockAdvances \/ PowerCut
  PROVE  Seen /\ AgeInv'
<1>1. CASE ClockAdvances
  <2>1. ram' = ram /\ trialAge \in 0..TrialMs - 1 /\ trialAge' = trialAge + 1
    BY <1>1 DEF ClockAdvances, metaVars, LInv, IInv, TypeOK, NoTick, FirmwareAssumption
  <2>2. Life' = Life /\ AgeInv'
    BY <1>1, <2>1 DEF Life, LifeOf, HighWater, Loaded, LInv, AgeInv, ClockAdvances
  <2>3. QED
    BY <2>1, <2>2 DEF Seen, Lifecycle!Next, Lifecycle!Advance
<1>2. CASE PowerCut
  BY <1>2, LoseSeen DEF PowerCut, Store!Drop
<1>3. QED
  BY <1>1, <1>2

LEMMA StepSeen ==
  ASSUME FirmwareAssumption, LInv, [Next]_vars
  PROVE  Seen /\ AgeInv'
<1>1. CASE EraseSlot \/ WriteSlot \/ LaunchTrial \/ StagingRaises \/ ReportFails
  BY <1>1, QuietSeen DEF EraseSlot, WriteSlot, LaunchTrial, StagingRaises, ReportFails,
                         metaVars
<1>2. CASE \/ \E id \in ReleaseIds, marker \in Markers : ReportTrial(id, marker)
           \/ \E s \in Slots : Rot(s)
           \/ UNCHANGED vars
  BY <1>2, QuietSeen DEF ReportTrial, Rot, vars, metaVars
<1>3. QED
  BY <1>1, <1>2, BootSeen, AdmitSeen, EnterSeen, ConfirmSeen, EndsSeen, EnvironmentSeen
     DEF Next, Staging

-----------------------------------------------------------------------------
\* The trial's clock runs only while the loaded state is on trial: it stops
\* with the promotion, the suppression and every ambiguous commit.
THEOREM ClockFollowsTrial == Spec => []AgeInv
<1>1. Init => AgeInv
  BY DEF Init, AgeInv
<1>2. IInv /\ AgeInv /\ [Next]_vars => AgeInv'
  BY StepSeen, FirmwareAssumption DEF LInv
<1>3. QED
  BY <1>1, <1>2, Invariance, PTL DEF Spec

\* The firmware updater implements the lifecycle of a trial: a release is
\* promoted at most once, inside its deadline, and from no other state.
THEOREM LifecycleRefinement == Spec => ImplementsTrialLifecycle
<1>1. Init => Lifecycle!Init
  BY DEF Init, Lifecycle!Init, Life, Loaded, NoTick, Lifecycle!NoTick
<1>2. IInv /\ AgeInv /\ [Next]_vars => [Lifecycle!Next]_(Lifecycle!lifecycle)
  BY StepSeen, FirmwareAssumption DEF LInv, Seen
<1>3. QED
  BY <1>1, <1>2, Invariance, ClockFollowsTrial, PTL
     DEF Spec, ImplementsTrialLifecycle, Lifecycle!Spec
=============================================================================
