--------------------------- MODULE FirmwareUpdate ---------------------------
(***************************************************************************)
(* A/B firmware slots of the Pico: the durable selection (UpdateState over *)
(* UpdateStateStore, update_state.py), the orchestration that authenticates*)
(* and launches slots (FirmwareSupervisor, firmware_supervisor.py) and the *)
(* writer of the inactive slot (slot_storage.py).                          *)
(*                                                                         *)
(* The metadata journal is the DurableRegister that TwoRecordStore         *)
(* implements.  A slot's files are abstracted to the release whose signed  *)
(* manifest they match, or Junk when they match none; verify_candidate and *)
(* verify_staged_assets succeed exactly on a slot that holds the expected  *)
(* release.  Time is the age of the running trial, in ticks, because the   *)
(* code only ever compares the difference of two tick readings.            *)
(***************************************************************************)
EXTENDS Integers

CONSTANTS
  MaxReleaseId,  \* MAX_RELEASE_ID
  FactoryId,     \* the release installed over USB
  Markers,       \* trial markers
  TrialMs,       \* TRIAL_MS, in ticks of the model
  ReadFaults,    \* whether a read of the flash may fail once and then succeed
  NoState        \* no metadata state

ReleaseIds == 1..MaxReleaseId

ASSUME FirmwareAssumption ==
  /\ MaxReleaseId \in Nat
  /\ FactoryId \in ReleaseIds
  /\ TrialMs \in Nat \ {0}
  /\ ReadFaults \in BOOLEAN
  /\ "none" \notin Markers

Slots == {"A", "B"}
Junk == 0         \* a slot whose files match no release
NoId == 0         \* None in a release-id field
NoTick == -1      \* trial_started is None, or the clock could not be read

MaxOf(m, n) == IF m >= n THEN m ELSE n
OtherSlot(s) == IF s = "A" THEN "B" ELSE "A"

-----------------------------------------------------------------------------
\* The persisted fields and _validate_state.
Fields == [
  applied_slot : Slots,
  applied_id : ReleaseIds,
  retained_slot : Slots \cup {"none"},
  retained_id : ReleaseIds \cup {NoId},
  installed_high_water : 0..MaxReleaseId,
  failed_high_water : 0..MaxReleaseId,
  pending_slot : Slots \cup {"none"},
  pending_id : ReleaseIds \cup {NoId},
  trial_marker : Markers \cup {"none"},
  phase : {"none", "writing", "trial_entered"}]

\* A faulty admission floor that forgets the releases that failed.
HighWaterInstalled(s) == s.installed_high_water

HighWater(s) == MaxOf(s.installed_high_water, s.failed_high_water)

ValidState(s) ==
  /\ s.retained_slot # s.applied_slot
  /\ s.installed_high_water >= s.applied_id
  /\ s.retained_slot = "none" => s.retained_id = NoId
  /\ s.retained_slot # "none" => s.retained_id \in 1..s.installed_high_water
  /\ s.phase = "none" =>
       s.pending_slot = "none" /\ s.pending_id = NoId /\ s.trial_marker = "none"
  /\ s.phase # "none" =>
       /\ s.pending_slot = OtherSlot(s.applied_slot)
       /\ s.pending_id > HighWater(s)
       /\ s.trial_marker # "none"
       /\ s.pending_slot # s.retained_slot

UpdateStates == {s \in Fields : ValidState(s)}

ASSUME NoStateAssumption == NoState \notin UpdateStates

VARIABLES
  newest, older, ram, \* the metadata journal and the loaded state
  trialAge,   \* ticks since trial_started, NoTick when that is None
  slot,       \* release each slot's files match, or Junk
  pc,         \* where the supervisor is
  job,        \* admit_and_stage's slot and candidate
  claim,      \* the id and marker trial_ok is reporting
  running,    \* release whose code was launched, NoId before a launch
  rotted,     \* environment: slots damaged by the medium since written
  proven,     \* history: releases whose proof was confirmed in time
  launched,   \* history: releases launched as trial candidates
  fellBack    \* history: a load selected the older of two good records

metaVars == <<newest, older, ram>>
historyVars == <<proven, launched, fellBack>>
vars == <<newest, older, ram, trialAge, slot, pc, job, claim, running, rotted,
          proven, launched, fellBack>>

Store == INSTANCE DurableRegister WITH Values <- UpdateStates, NoValue <- NoState

Loaded == ram # NoState
NoJob == [slot |-> "none", id |-> NoId]
NoClaim == [id |-> NoId, marker |-> "none"]

Factory(retained) == [
  applied_slot |-> "A",
  applied_id |-> FactoryId,
  retained_slot |-> IF retained THEN "B" ELSE "none",
  retained_id |-> IF retained THEN FactoryId ELSE NoId,
  installed_high_water |-> FactoryId,
  failed_high_water |-> 0,
  pending_slot |-> "none",
  pending_id |-> NoId,
  trial_marker |-> "none",
  phase |-> "none"]

\* A device leaves USB provisioning with one verified slot, or with both.
Init ==
  /\ \E retained \in BOOLEAN :
       /\ newest = Factory(retained)
       /\ slot = [s \in Slots |-> IF s = "A" \/ retained THEN FactoryId ELSE Junk]
  /\ older = NoState
  /\ ram = NoState
  /\ trialAge = NoTick
  /\ pc = "off"
  /\ job = NoJob
  /\ claim = NoClaim
  /\ running = NoId
  /\ rotted = {}
  /\ proven = {FactoryId}
  /\ launched = {}
  /\ fellBack = FALSE

-----------------------------------------------------------------------------
\* State transitions of UpdateState, as functions of the current state.

\* _clear_pending
Cleared(s) ==
  [s EXCEPT !.pending_slot = "none", !.pending_id = NoId,
            !.trial_marker = "none", !.phase = "none"]

\* A faulty reservation that keeps the retained claim on the slot it takes.
StagedKeepingClaim(s, id, marker) ==
  [s EXCEPT !.pending_slot = OtherSlot(s.applied_slot), !.pending_id = id,
            !.trial_marker = marker, !.phase = "writing"]

Staged(s, id, marker) ==
  LET target == OtherSlot(s.applied_slot)
      displaced == target = s.retained_slot
  IN [s EXCEPT !.retained_slot = IF displaced THEN "none" ELSE @,
               !.retained_id = IF displaced THEN NoId ELSE @,
               !.pending_slot = target, !.pending_id = id,
               !.trial_marker = marker, !.phase = "writing"]

Trialing(s) == [s EXCEPT !.phase = "trial_entered"]

Promoted(s) ==
  Cleared([s EXCEPT !.applied_slot = s.pending_slot,
                    !.applied_id = s.pending_id,
                    !.retained_slot = s.applied_slot,
                    !.retained_id = s.applied_id,
                    !.installed_high_water = MaxOf(@, s.pending_id)])

\* A faulty suppression that leaves no trace of the failed release.
SuppressedForgetting(s) == Cleared(s)

\* fail_trial
Suppressed(s) ==
  Cleared([s EXCEPT !.failed_high_water = MaxOf(@, s.pending_id)])

\* recover_after_boot also drops a retained claim on the overwritten slot.
Recovered(s) ==
  LET displaced == s.pending_slot = s.retained_slot
  IN Suppressed([s EXCEPT !.retained_slot = IF displaced THEN "none" ELSE @,
                          !.retained_id = IF displaced THEN NoId ELSE @])

\* A faulty fallback that takes the high-water down to the retained release.
ReselectedLowering(s) ==
  [s EXCEPT !.applied_slot = s.retained_slot, !.applied_id = s.retained_id,
            !.retained_slot = "none", !.retained_id = NoId,
            !.installed_high_water = s.retained_id]

\* recover_retained
Reselected(s) ==
  [s EXCEPT !.applied_slot = s.retained_slot, !.applied_id = s.retained_id,
            !.retained_slot = "none", !.retained_id = NoId,
            !.installed_high_water = MaxOf(@, s.applied_id)]

\* A reading of the trial clock: the age, or nothing when the clock faults.
Elapsed == {trialAge, NoTick}

\* A faulty deadline that only notices a clock fault.
ExpiredNever(e) == e < 0

Expired(e) == e < 0 \/ e >= TrialMs

\* fail_trial's commit: either outcome forgets the trial's start.
Suppress ==
  /\ Store!CommitOk(Suppressed(ram)) \/ Store!CommitAmbiguous(Suppressed(ram))
  /\ trialAge' = NoTick

-----------------------------------------------------------------------------
\* FirmwareSupervisor.boot: load the selection, ...
BootLoad ==
  /\ pc = "off"
  /\ \/ /\ Store!LoadNewest
        /\ pc' = "loaded"
        /\ UNCHANGED fellBack
     \/ /\ ReadFaults
        /\ Store!LoadOlder
        /\ pc' = "loaded"
        /\ fellBack' = TRUE
     \/ /\ newest = NoState \/ ReadFaults
        /\ Store!Drop
        /\ pc' = "halt"
        /\ UNCHANGED fellBack
  /\ UNCHANGED <<trialAge, slot, job, claim, running, rotted, proven, launched>>

\* ... suppress whatever candidate was in flight, ...
BootRecover ==
  /\ pc = "loaded"
  /\ IF ram.phase = "none"
       THEN pc' = "select" /\ UNCHANGED <<metaVars, trialAge>>
       ELSE /\ trialAge' = NoTick
            /\ \/ Store!CommitOk(Recovered(ram)) /\ pc' = "select"
               \/ Store!CommitAmbiguous(Recovered(ram)) /\ pc' = "halt"
  /\ UNCHANGED <<slot, job, claim, running, rotted, historyVars>>

\* _verify_slot: the slot is A or B and its files match the expected release.
Authentic(s, id) == s \in Slots /\ slot[s] = id

\* ... and launch the applied slot if it authenticates, ...
BootApplied ==
  /\ pc = "select"
  /\ Authentic(ram.applied_slot, ram.applied_id)
  /\ running' = ram.applied_id
  /\ pc' = "run"
  /\ UNCHANGED <<metaVars, trialAge, slot, job, claim, rotted, historyVars>>

\* ... else the retained slot, selected durably before it runs, ...
BootRetained ==
  /\ pc = "select"
  /\ ~Authentic(ram.applied_slot, ram.applied_id) \/ ReadFaults
  /\ Authentic(ram.retained_slot, ram.retained_id)
  /\ \/ /\ Store!CommitOk(Reselected(ram))
        /\ running' = ram.retained_id
        /\ pc' = "run"
     \/ /\ Store!CommitAmbiguous(Reselected(ram))
        /\ pc' = "halt"
        /\ UNCHANGED running
  /\ UNCHANGED <<trialAge, slot, job, claim, rotted, historyVars>>

\* ... else stop and wait for USB recovery.
BootRefused ==
  /\ pc = "select"
  /\ ~Authentic(ram.applied_slot, ram.applied_id) \/ ReadFaults
  /\ ReadFaults \/ ~Authentic(ram.retained_slot, ram.retained_id)
  /\ pc' = "halt"
  /\ UNCHANGED <<metaVars, trialAge, slot, job, claim, running, rotted, historyVars>>

-----------------------------------------------------------------------------
\* admit_and_stage: the signed candidate is newer than both high-waters and
\* no other trial is pending; stage_candidate reserves the inactive slot.
Admit(id, marker) ==
  /\ pc = "run"
  /\ Loaded
  /\ ram.phase = "none"
  /\ id > HighWater(ram)
  /\ LET staged == Staged(ram, id, marker) IN
     \/ /\ Store!CommitOk(staged)
        /\ pc' = "staged"
        /\ job' = [slot |-> staged.pending_slot, id |-> id]
        /\ UNCHANGED trialAge
     \/ /\ Store!CommitAmbiguous(staged)
        /\ trialAge' = NoTick
        /\ UNCHANGED <<pc, job>>
  /\ UNCHANGED <<slot, claim, running, rotted, historyVars>>

\* _authorized, repeated by stage_writer before each file it touches.
Authorized ==
  /\ Loaded
  /\ job.slot # ram.applied_slot
  /\ ram.phase = "writing"
  /\ ram.pending_slot = job.slot
  /\ ram.pending_id = job.id

\* stage_writer removes the old assets and opens the new files ...
EraseSlot ==
  /\ pc = "staged"
  /\ Authorized
  /\ slot' = [slot EXCEPT ![job.slot] = Junk]
  /\ rotted' = rotted \ {job.slot}
  /\ pc' = "writing"
  /\ UNCHANGED <<metaVars, trialAge, job, claim, running, historyVars>>

\* ... and downloads every asset; the bytes are bounded, not yet verified.
WriteSlot ==
  /\ pc = "writing"
  /\ Authorized
  /\ \E image \in {job.id, Junk} : slot' = [slot EXCEPT ![job.slot] = image]
  /\ pc' = "written"
  /\ UNCHANGED <<metaVars, trialAge, job, claim, running, rotted, historyVars>>

\* A faulty admission that trusts the download.
EnterTrialUnverified ==
  /\ pc = "written"
  /\ Loaded
  /\ ram.phase = "writing"
  /\ Store!CommitOk(Trialing(ram))
  /\ trialAge' = 0
  /\ pc' = "entered"
  /\ UNCHANGED <<slot, job, claim, running, rotted, historyVars>>

\* _verify_slot of the staged candidate, then assets_verified_and_enter_trial.
EnterTrial ==
  /\ pc = "written"
  /\ Loaded
  /\ Authentic(job.slot, job.id)
  /\ ram.phase = "writing"
  /\ \/ /\ Store!CommitOk(Trialing(ram))
        /\ trialAge' = 0
        /\ pc' = "entered"
     \/ /\ Store!CommitAmbiguous(Trialing(ram))
        /\ trialAge' = NoTick
        /\ pc' = "run"
  /\ UNCHANGED <<slot, job, claim, running, rotted, historyVars>>

LaunchTrial ==
  /\ pc = "entered"
  /\ running' = job.id
  /\ launched' = launched \cup {job.id}
  /\ pc' = "run"
  /\ job' = NoJob
  /\ UNCHANGED <<metaVars, trialAge, slot, claim, rotted, proven, fellBack>>

\* A checkpoint, the download, the verification, the clock or the launch
\* raises: control reaches admit_and_stage's except clause ...
StagingRaises ==
  /\ pc \in {"staged", "writing", "written", "entered"}
  /\ pc' = "failing"
  /\ UNCHANGED <<metaVars, trialAge, slot, job, claim, running, rotted, historyVars>>

\* ... which suppresses the candidate, unless the state is already gone.
SuppressStaged ==
  /\ pc = "failing"
  /\ IF Loaded /\ ram.phase # "none"
       THEN Suppress
       ELSE /\ trialAge' = IF Loaded THEN NoTick ELSE trialAge
            /\ UNCHANGED metaVars
  /\ pc' = "run"
  /\ job' = NoJob
  /\ UNCHANGED <<slot, claim, running, rotted, historyVars>>

-----------------------------------------------------------------------------
\* Program points at which the supervisor's owner, or a service callback of
\* a staging or a report in progress, can call tick and fail_trial.
Serviced == pc \in {"run", "staged", "writing", "written", "entered", "report"}

TickAt(e) ==
  /\ Serviced
  /\ Loaded
  /\ ram.phase = "trial_entered"
  /\ Expired(e)
  /\ Suppress
  /\ UNCHANGED <<slot, pc, job, claim, running, rotted, historyVars>>

Tick == \E e \in Elapsed : TickAt(e)

FailTrial ==
  /\ Serviced
  /\ Loaded
  /\ ram.phase # "none"
  /\ Suppress
  /\ UNCHANGED <<slot, pc, job, claim, running, rotted, historyVars>>

\* trial_ok, up to the call of the reporter; an expired trial is Tick's case.
ReportTrial(id, marker) ==
  /\ pc = "run"
  /\ Loaded
  /\ ram.phase = "trial_entered"
  /\ ram.pending_id = id
  /\ ram.trial_marker = marker
  /\ ~Expired(trialAge)
  /\ claim' = [id |-> id, marker |-> marker]
  /\ pc' = "report"
  /\ UNCHANGED <<metaVars, trialAge, slot, job, running, rotted, historyVars>>

\* The reporter raises or does not return the literal True.
ReportFails ==
  /\ pc = "report"
  /\ claim' = NoClaim
  /\ pc' = "run"
  /\ UNCHANGED <<metaVars, trialAge, slot, job, running, rotted, historyVars>>

\* The reporter confirmed: confirm_trial_ok looks at the state of now.
ConfirmTrial ==
  /\ pc = "report"
  /\ claim' = NoClaim
  /\ pc' = "run"
  /\ IF ~Loaded \/ ram.phase # "trial_entered" \/ trialAge = NoTick
       THEN UNCHANGED <<metaVars, trialAge, proven>>
       ELSE \E e \in Elapsed :
         \/ Expired(e) /\ Suppress /\ UNCHANGED proven
         \/ /\ ~Expired(e)
            /\ IF claim.id = ram.pending_id /\ claim.marker = ram.trial_marker
                 THEN /\ \/ Store!CommitOk(Promoted(ram))
                         \/ Store!CommitAmbiguous(Promoted(ram))
                      /\ trialAge' = NoTick
                      /\ proven' = IF trialAge < TrialMs THEN proven \cup {claim.id}
                                                         ELSE proven
                 ELSE UNCHANGED <<metaVars, trialAge, proven>>
  /\ UNCHANGED <<slot, job, running, rotted, launched, fellBack>>

-----------------------------------------------------------------------------
\* Environment: time passes, power fails, the medium decays.
ClockAdvances ==
  /\ trialAge # NoTick
  /\ trialAge < TrialMs
  /\ trialAge' = trialAge + 1
  /\ UNCHANGED <<metaVars, slot, pc, job, claim, running, rotted, historyVars>>

PowerCut ==
  /\ pc # "off"
  /\ Store!Drop
  /\ pc' = "off"
  /\ trialAge' = NoTick
  /\ job' = NoJob
  /\ claim' = NoClaim
  /\ running' = NoId
  /\ UNCHANGED <<slot, rotted, historyVars>>

Rot(s) ==
  /\ slot[s] # Junk
  /\ slot' = [slot EXCEPT ![s] = Junk]
  /\ rotted' = rotted \cup {s}
  /\ UNCHANGED <<metaVars, trialAge, pc, job, claim, running, historyVars>>

Boot == BootLoad \/ BootRecover \/ BootApplied \/ BootRetained \/ BootRefused
Staging == EraseSlot \/ WriteSlot \/ EnterTrial \/ LaunchTrial \/ SuppressStaged

Next ==
  \/ Boot
  \/ \E id \in ReleaseIds, marker \in Markers : Admit(id, marker)
  \/ Staging
  \/ StagingRaises
  \/ Tick
  \/ FailTrial
  \/ \E id \in ReleaseIds, marker \in Markers : ReportTrial(id, marker)
  \/ ReportFails
  \/ ConfirmTrial
  \/ ClockAdvances
  \/ PowerCut
  \/ \E s \in Slots : Rot(s)

Spec == Init /\ [][Next]_vars

(***************************************************************************)
(* The clock runs, the supervisor's owner keeps calling tick, which finds  *)
(* the clock readable, and the code of an admission in progress keeps      *)
(* executing until it raises.  That the clock faults is never assumed.     *)
(***************************************************************************)
Fairness ==
  /\ WF_vars(ClockAdvances)
  /\ WF_vars(TickAt(trialAge))
  /\ WF_vars(Staging \/ StagingRaises)

FairSpec == Spec /\ Fairness

-----------------------------------------------------------------------------
\* The state of the updater as its callers see it.
LifeOf(s) ==
  [phase |-> s.phase, id |-> s.pending_id, marker |-> s.trial_marker,
   applied |-> s.applied_id, floor |-> HighWater(s)]

Life == IF Loaded THEN LifeOf(ram) ELSE NoState

Lifecycle == INSTANCE TrialLifecycle
  WITH Unknown <- NoState, life <- Life, age <- trialAge

ASSUME NoLifeAssumption == NoState \notin Lifecycle!Lives

PcValues == {"off", "loaded", "select", "halt", "run", "staged", "writing",
             "written", "entered", "failing", "report"}

\* The persisted states pass _validate_state: the refusals of commit that
\* follow from it cannot happen.
TypeOK ==
  /\ Store!TypeOK
  /\ trialAge \in {NoTick} \cup 0..TrialMs
  /\ slot \in [Slots -> ReleaseIds \cup {Junk}]
  /\ pc \in PcValues
  /\ job \in [slot : Slots \cup {"none"}, id : ReleaseIds \cup {NoId}]
  /\ claim \in [id : ReleaseIds \cup {NoId}, marker : Markers \cup {"none"}]
  /\ running \in ReleaseIds \cup {NoId}
  /\ rotted \in SUBSET Slots
  /\ proven \in SUBSET ReleaseIds
  /\ launched \in SUBSET ReleaseIds
  /\ fellBack \in BOOLEAN

OnDisk == {newest, older} \ {NoState}

(***************************************************************************)
(* Whatever record a restart selects, the slot it applies still holds the  *)
(* release it names, unless the medium itself decayed: staging never       *)
(* writes the slot that either record depends on, although stage_writer    *)
(* consults only the state in RAM.                                         *)
(***************************************************************************)
AppliedIntact ==
  \A s \in OnDisk : s.applied_slot \notin rotted => Authentic(s.applied_slot, s.applied_id)

(***************************************************************************)
(* A retained slot named by the newest record can be fallen back to: the   *)
(* claim is withdrawn durably before the slot is erased.  (After a load    *)
(* that fell back to the older record the claim may be an outdated one.)   *)
(***************************************************************************)
RetainedIntact ==
  ~fellBack /\ newest.retained_slot # "none" /\ newest.retained_slot \notin rotted
    => Authentic(newest.retained_slot, newest.retained_id)

(***************************************************************************)
(* Only a release whose diagnostics proof was confirmed before the trial   *)
(* deadline, or the factory release, is ever applied or retained.          *)
(***************************************************************************)
OnlyProvenSelected ==
  \A s \in OnDisk : /\ s.applied_id \in proven
                    /\ s.retained_slot # "none" => s.retained_id \in proven

(***************************************************************************)
(* While unproven code runs, the medium already says so: a power cut at    *)
(* any moment lets the next boot suppress it.                              *)
(***************************************************************************)
UnprovenOnRecord ==
  running \notin proven \cup {NoId} =>
    \/ newest.phase = "trial_entered" /\ newest.pending_id = running
    \/ running <= newest.failed_high_water

(***************************************************************************)
(* A release that was launched as a candidate and not proven is never      *)
(* launched again, across power cuts and ambiguous commits, as long as no  *)
(* load fell back to a record from before its trial.                       *)
(***************************************************************************)
NoSecondTrial ==
  [][running' # running /\ running' # NoId /\ running' \notin proven /\ ~fellBack
       => running' \notin launched]_vars

(***************************************************************************)
(* Seen from outside, with the slots, the boot and the failing commits, the*)
(* updater is a TrialLifecycle: no interleaving of a tick, a failure and a *)
(* late report promotes a trial twice, revives one or lowers the floor     *)
(* while a state is loaded.                                                *)
(***************************************************************************)
ImplementsTrialLifecycle == Lifecycle!Spec

(***************************************************************************)
(* A pending candidate does not stay pending: its staging ends, and its    *)
(* trial is confirmed or suppressed even when no proof ever arrives.       *)
(***************************************************************************)
PendingResolves ==
  (Loaded /\ pc # "loaded" /\ ram.phase # "none") ~> (~Loaded \/ ram.phase = "none")
=============================================================================
