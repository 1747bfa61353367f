---------------------------- MODULE ConfigUpdate ----------------------------
(***************************************************************************)
(* One configuration change on the Pico: the durable trial state           *)
(* (ConfigTrialStore), the staging of a fetched change                     *)
(* (ConfigStageCoordinator), its trial, promotion or rollback              *)
(* (ConfigPromotionCoordinator), and the recovery at boot                  *)
(* (FixedSupervisor), beside the ordinary publications of the Monitor.     *)
(*                                                                         *)
(* A change stands for its change id, its fleet revision and its payload;  *)
(* the files that write_owned_payload creates under fresh names are        *)
(* indexed by it.  The journal is the DurableRegister that TwoRecordStore  *)
(* implements.  Reasons, telemetry and redaction are left out.             *)
(***************************************************************************)
EXTENDS Integers, FiniteSets

CONSTANTS
  Changes,      \* configuration changes
  Baseline,     \* the change provisioned over USB
  Capacity,     \* MAX_CONSUMED_IDS
  TrialMs,      \* TRIAL_MS, in ticks of the model
  Margin,       \* FINALIZATION_MARGIN_MS, in ticks of the model
  ReadFaults,   \* whether a read of the flash may fail once and then succeed
  NoChange,     \* no change: a None reference, or a capability not installed
  NoState       \* no metadata state

ASSUME ConfigAssumption ==
  /\ Baseline \in Changes
  /\ NoChange \notin Changes
  /\ Capacity \in Nat \ {0}
  /\ TrialMs \in Nat \ {0}
  /\ Margin \in 0..(TrialMs - 1)
  /\ ReadFaults \in BOOLEAN

NoTick == -1
ActiveStatuses == {"received", "staged", "trial"}
Statuses == ActiveStatuses \cup {"ready", "rejected", "rolled_back", "applied"}

\* The persisted fields and _validate.
Fields == [
  applied : Changes,
  candidate : Changes \cup {NoChange},
  status : Statuses,
  change : Changes,
  consumed : SUBSET Changes]

Active(s) == s.status \in ActiveStatuses

ValidConfig(s) ==
  /\ IsFiniteSet(s.consumed)
  /\ Cardinality(s.consumed) <= Capacity
  /\ Active(s) => s.change \in s.consumed
  /\ s.candidate # NoChange <=> s.status \in {"staged", "trial"}

ConfigStates == {s \in Fields : ValidConfig(s)}

VARIABLES
  newest, older, ram,  \* the metadata journal and the loaded state
  age,          \* ticks since the trial was entered, NoTick outside a trial
  payload,      \* what is stored for each change: "absent", "torn" or "whole"
  server,       \* the change that the private repository offers
  link,         \* the change whose Wi-Fi and network settings are in use
  reader,       \* the change whose private-repository client is installed
  writer,       \* the change whose publisher is installed in the monitor
  suspended,    \* Monitor._publication_suspended
  publishing,   \* Monitor._normal_publication_active
  quarantined,  \* FixedSupervisor._quarantined
  pc,           \* where the supervisor or the coordinator is
  evidence,     \* history: proofs gathered in the current trial
  tried,        \* history: changes whose trial was entered
  rotted        \* environment: payloads damaged by the medium since written

metaVars == <<newest, older, ram>>
capVars == <<link, reader, writer>>
fenceVars == <<suspended, publishing, quarantined>>
envVars == <<server, tried, rotted>>
vars == <<newest, older, ram, age, payload, server, link, reader, writer,
          suspended, publishing, quarantined, pc, evidence, tried, rotted>>

ASSUME NoStateAssumption == NoState \notin ConfigStates

Store == INSTANCE DurableRegister WITH Values <- ConfigStates, NoValue <- NoState

Loaded == ram # NoState
Intact(c) == payload[c] = "whole"

\* A device as provisioned over USB: initialize consumes the baseline.
Init ==
  /\ newest = [applied |-> Baseline, candidate |-> NoChange, status |-> "ready",
               change |-> Baseline, consumed |-> {Baseline}]
  /\ older = NoState
  /\ ram = NoState
  /\ age = NoTick
  /\ payload = [c \in Changes |-> IF c = Baseline THEN "whole" ELSE "absent"]
  /\ server = Baseline
  /\ link = NoChange /\ reader = NoChange /\ writer = NoChange
  /\ suspended = FALSE /\ publishing = FALSE /\ quarantined = FALSE
  /\ pc = "off"
  /\ evidence = {}
  /\ tried = {}
  /\ rotted = {}

-----------------------------------------------------------------------------
\* A faulty Received: begin_received keeps only the id of the latest change.
ReceivedForgetting(s, c) ==
  [s EXCEPT !.consumed = {c}, !.change = c, !.candidate = NoChange,
            !.status = "received"]

\* State transitions of ConfigTrialStore.
Received(s, c) ==
  [s EXCEPT !.consumed = @ \cup {c}, !.change = c, !.candidate = NoChange,
            !.status = "received"]

Staged(s) == [s EXCEPT !.candidate = s.change, !.status = "staged"]

Trialing(s) == [s EXCEPT !.status = "trial"]

\* A faulty Promoted: confirm forgets to clear the candidate.
PromotedKeepingCandidate(s) == [s EXCEPT !.applied = s.candidate, !.status = "applied"]

Promoted(s) ==
  [s EXCEPT !.applied = s.candidate, !.candidate = NoChange, !.status = "applied"]

\* _finish
Finished(s, status) == [s EXCEPT !.candidate = NoChange, !.status = status]

\* What _run_guarded does last: lift the fence, or leave it and quarantine.
Resume ==
  /\ suspended' = FALSE
  /\ pc' = "idle"
  /\ age' = NoTick
  /\ UNCHANGED <<publishing, quarantined>>

Quarantine ==
  /\ quarantined' = TRUE
  /\ pc' = "idle"
  /\ age' = NoTick
  /\ UNCHANGED <<suspended, publishing>>

\* A commit in the middle of the run: go on, or stop with the state unknown.
CommitThen(s, next) ==
  \/ Store!CommitOk(s) /\ next
  \/ Store!CommitAmbiguous(s) /\ Quarantine

GoTo(place) == pc' = place /\ UNCHANGED <<age, fenceVars>>

-----------------------------------------------------------------------------
\* _boot_claimed: load the metadata, ...
BootLoad ==
  /\ pc = "off"
  /\ \/ /\ Store!LoadNewest \/ (ReadFaults /\ Store!LoadOlder)
        /\ pc' = "loaded"
     \/ /\ newest = NoState \/ ReadFaults
        /\ Store!Drop
        /\ pc' = "halt"
  /\ UNCHANGED <<age, payload, capVars, fenceVars, evidence, envVars>>

\* ... roll an interrupted change back, ...
BootRecover ==
  /\ pc = "loaded"
  /\ IF ~Active(ram)
       THEN pc' = "verify" /\ UNCHANGED metaVars
       ELSE \/ Store!CommitOk(Finished(ram, "rolled_back")) /\ pc' = "verify"
            \/ Store!CommitAmbiguous(Finished(ram, "rolled_back")) /\ pc' = "halt"
  /\ UNCHANGED <<age, payload, capVars, fenceVars, evidence, envVars>>

\* ... verify the applied payload, and boot the firmware with it ...
BootVerified ==
  /\ pc = "verify"
  /\ Intact(ram.applied)
  /\ pc' = "idle"
  /\ link' = ram.applied /\ reader' = ram.applied /\ writer' = ram.applied
  /\ UNCHANGED <<metaVars, age, payload, fenceVars, evidence, envVars>>

\* ... or stop and wait for USB recovery.
BootRefused ==
  /\ pc = "verify"
  /\ pc' = "halt"
  /\ UNCHANGED <<metaVars, age, payload, capVars, fenceVars, evidence, envVars>>

-----------------------------------------------------------------------------
\* A faulty RunOnce: suspend_publication does not look for a publication in progress.
RunOnceUnfenced ==
  /\ pc = "idle"
  /\ ~quarantined
  /\ Loaded
  /\ suspended' = TRUE
  /\ pc' = "fetch"
  /\ UNCHANGED <<metaVars, age, payload, capVars, publishing, quarantined, evidence, envVars>>

\* run_once: the shared guard, then suspend_publication.
RunOnce ==
  /\ pc = "idle"
  /\ ~quarantined
  /\ Loaded
  /\ ~publishing
  /\ suspended' = TRUE
  /\ pc' = "fetch"
  /\ UNCHANGED <<metaVars, age, payload, capVars, publishing, quarantined, evidence, envVars>>

\* The applied payload is verified twice before the network is touched.
BaselineInvalid ==
  /\ pc \in {"fetch", "staged"}
  /\ ~Intact(ram.applied) \/ ReadFaults
  /\ Quarantine
  /\ UNCHANGED <<metaVars, payload, capVars, evidence, envVars>>

\* stage_latest finds nothing new, or fails before it reserves the change:
\* a failed download, a consumed change id, or no room for another one.
NothingToStage ==
  /\ pc = "fetch"
  /\ Intact(ram.applied)
  /\ Resume
  /\ UNCHANGED <<metaVars, payload, capVars, evidence, envVars>>

\* begin_received
Reserve ==
  /\ pc = "fetch"
  /\ Intact(ram.applied)
  /\ reader # NoChange
  /\ server # ram.applied
  /\ server \notin ram.consumed
  /\ Cardinality(ram.consumed) < Capacity
  /\ CommitThen(Received(ram, server), GoTo("reserved"))
  /\ UNCHANGED <<payload, capVars, evidence, envVars>>

\* write_owned_payload, which reads back what it wrote.
WritePayload ==
  /\ pc = "reserved"
  /\ payload' = [payload EXCEPT ![ram.change] = "whole"]
  /\ GoTo("owned")
  /\ UNCHANGED <<metaVars, capVars, evidence, envVars>>

\* The write or the second verification fails: _reject_reserved, and the
\* file is removed when that is possible.
StagingFails ==
  /\ pc \in {"reserved", "owned"}
  /\ CommitThen(Finished(ram, "rejected"), Resume)
  /\ \E left \in {"absent", IF pc = "owned" THEN payload[ram.change] ELSE "torn"} :
       payload' = [payload EXCEPT ![ram.change] = left]
  /\ UNCHANGED <<capVars, evidence, envVars>>

\* A faulty StageCandidate: stage_handoff is set after stage_candidate instead of before, so an
\* ambiguous commit removes the file.
StageCandidateThenHandOff ==
  /\ pc = "owned"
  /\ Intact(ram.change)
  /\ \/ Store!CommitOk(Staged(ram)) /\ GoTo("staged") /\ UNCHANGED payload
     \/ /\ Store!CommitAmbiguous(Staged(ram))
        /\ Quarantine
        /\ payload' = [payload EXCEPT ![ram.change] = "absent"]
  /\ UNCHANGED <<capVars, evidence, envVars>>

\* stage_candidate: from here on the file belongs to the metadata, also when
\* the outcome of the commit is unknown.
StageCandidate ==
  /\ pc = "owned"
  /\ Intact(ram.change)
  /\ CommitThen(Staged(ram), GoTo("staged"))
  /\ UNCHANGED <<payload, capVars, evidence, envVars>>

\* The scratch file cannot be removed, _verify_references finds a candidate
\* that is damaged or publishes elsewhere, or the trial clock is unusable.
RejectStaged ==
  /\ pc = "staged"
  /\ CommitThen(Finished(ram, "rejected"), Resume)
  /\ UNCHANGED <<payload, capVars, evidence, envVars>>

EnterTrial ==
  /\ pc = "staged"
  /\ Intact(ram.applied)
  /\ Intact(ram.candidate)
  /\ \/ /\ Store!CommitOk(Trialing(ram))
        /\ pc' = "connect"
        /\ age' = 0
        /\ tried' = tried \cup {ram.candidate}
        /\ UNCHANGED fenceVars
     \/ Store!CommitAmbiguous(Trialing(ram)) /\ Quarantine /\ UNCHANGED tried
  /\ evidence' = {}
  /\ UNCHANGED <<payload, capVars, server, rotted>>

-----------------------------------------------------------------------------
TrialPlaces == {"connect", "prove", "measure", "report", "final", "confirm"}

\* _check_deadline(reserve=True), around every bounded call of the trial.
InTime == age < TrialMs - Margin

Prove(place, kind, next) ==
  /\ pc = place
  /\ InTime
  /\ evidence' = evidence \cup {kind}
  /\ GoTo(next)
  /\ UNCHANGED <<metaVars, payload, reader, writer, envVars>>

Connect == Prove("connect", "wifi", "prove") /\ link' = ram.candidate

\* read_exact_candidate: the repository still offers this very candidate.
ReadExact == Prove("prove", "fleet", "measure") /\ server = ram.candidate /\ UNCHANGED link

\* A fresh sample published to the thermostat Gist, read back and recorded.
ProveSample == Prove("measure", "temperature", "report") /\ UNCHANGED link

\* The diagnostics that name the sample, published and read back.
ProveReport == Prove("report", "diagnostics", "final") /\ UNCHANGED link

\* _assert_trial_unchanged and the last deadline check before the commit.
FinalCheck ==
  /\ pc = "final"
  /\ InTime
  /\ GoTo("confirm")
  /\ UNCHANGED <<metaVars, payload, capVars, evidence, envVars>>

\* Any of those calls fails, is late, or finds the clock unreadable.  A
\* connection attempt may have left the network of the applied change.
TrialFails ==
  /\ pc \in TrialPlaces
  /\ GoTo("rollback")
  /\ link' \in {link} \cup (IF pc = "connect" THEN {ram.candidate, NoChange} ELSE {})
  /\ UNCHANGED <<metaVars, payload, reader, writer, evidence, envVars>>

\* A faulty Expired: the clock is not read again at the commit.
ExpiredNever == FALSE

\* The deadline, at the clock reading that expire_or_confirm gets.
Expired == age >= TrialMs

\* expire_or_confirm, with a receipt that matches.
Promote ==
  /\ pc = "confirm"
  /\ ~Expired
  /\ CommitThen(Promoted(ram), GoTo("handover"))
  /\ UNCHANGED <<payload, capVars, evidence, envVars>>

\* expire_or_confirm, past the deadline or with a clock reading it cannot
\* use: it rolls the change back itself, so the coordinator's own rollback
\* finds no active change, and the device is quarantined.
ConfirmTooLate ==
  /\ pc = "confirm"
  /\ \/ Store!CommitOk(Finished(ram, "rolled_back"))
     \/ Store!CommitAmbiguous(Finished(ram, "rolled_back"))
  /\ Quarantine
  /\ UNCHANGED <<payload, capVars, evidence, envVars>>

\* After the commit: detach_after_commit, the new reader, the new publisher,
\* the retirement of the old ones.  Only a hand-over that put both in place
\* lifts the fence.
HandOver ==
  /\ pc = "handover"
  /\ reader' = ram.applied
  /\ writer' = ram.applied
  /\ \/ Resume
     \/ /\ suspended' = FALSE      \* the old reader was not retired cleanly
        /\ quarantined' = TRUE
        /\ pc' = "idle"
        /\ age' = NoTick
        /\ UNCHANGED publishing
     \/ Quarantine                 \* the old publisher could not be closed
  /\ UNCHANGED <<metaVars, payload, link, evidence, envVars>>

HandOverFails ==
  /\ pc = "handover"
  /\ reader' \in {reader, ram.applied}
  /\ Quarantine
  /\ UNCHANGED <<metaVars, payload, link, writer, evidence, envVars>>

Rollback ==
  /\ pc = "rollback"
  /\ CommitThen(Finished(ram, "rolled_back"), GoTo("restore"))
  /\ UNCHANGED <<payload, capVars, evidence, envVars>>

\* A faulty Restore: the publications resume without restore_applied.
RestoreSkipped ==
  /\ pc = "restore"
  /\ Intact(ram.applied)
  /\ Resume
  /\ UNCHANGED <<metaVars, payload, capVars, evidence, envVars>>

\* The applied payload is intact, restore_applied returns True, and it did
\* so inside the trial's window.
Restore ==
  /\ pc = "restore"
  /\ Intact(ram.applied)
  /\ age < TrialMs
  /\ link' = ram.applied
  /\ Resume
  /\ UNCHANGED <<metaVars, payload, reader, writer, evidence, envVars>>

\* A faulty RestoreFails: a failed restoration past the deadline is retried instead of given up.
RestoreFailsInTime ==
  /\ pc = "restore"
  /\ age < TrialMs
  /\ link' \in {link, ram.applied, NoChange}
  /\ Quarantine
  /\ UNCHANGED <<metaVars, payload, reader, writer, evidence, envVars>>

RestoreFails ==
  /\ pc = "restore"
  /\ link' \in {link, ram.applied, NoChange}
  /\ Quarantine
  /\ UNCHANGED <<metaVars, payload, reader, writer, evidence, envVars>>

-----------------------------------------------------------------------------
\* Monitor.poll or step, from another callback of the process.
PublishBegins ==
  /\ pc \notin {"off", "loaded", "verify", "halt"}
  /\ ~suspended
  /\ ~publishing
  /\ publishing' = TRUE
  /\ UNCHANGED <<metaVars, age, payload, capVars, suspended, quarantined, pc, evidence, envVars>>

PublishEnds ==
  /\ publishing
  /\ publishing' = FALSE
  /\ UNCHANGED <<metaVars, age, payload, capVars, suspended, quarantined, pc, evidence, envVars>>

ServerChanges(c) ==
  /\ server' = c
  /\ UNCHANGED <<metaVars, age, payload, capVars, fenceVars, pc, evidence, tried, rotted>>

ClockAdvances ==
  /\ age # NoTick
  /\ age < TrialMs
  /\ age' = age + 1
  /\ UNCHANGED <<metaVars, payload, capVars, fenceVars, pc, evidence, envVars>>

PowerCut ==
  /\ pc # "off"
  /\ Store!Drop
  /\ pc' = "off"
  /\ age' = NoTick
  /\ link' = NoChange /\ reader' = NoChange /\ writer' = NoChange
  /\ suspended' = FALSE /\ publishing' = FALSE /\ quarantined' = FALSE
  /\ evidence' = {}
  /\ UNCHANGED <<payload, envVars>>

Rot(c) ==
  /\ Intact(c)
  /\ payload' = [payload EXCEPT ![c] = "torn"]
  /\ rotted' = rotted \cup {c}
  /\ UNCHANGED <<metaVars, age, capVars, fenceVars, pc, evidence, server, tried>>

Boot == BootLoad \/ BootRecover \/ BootVerified \/ BootRefused
Staging == BaselineInvalid \/ NothingToStage \/ Reserve \/ WritePayload \/ StagingFails
           \/ StageCandidate \/ RejectStaged \/ EnterTrial
Trial == Connect \/ ReadExact \/ ProveSample \/ ProveReport \/ FinalCheck \/ TrialFails
         \/ Promote \/ ConfirmTooLate
Ending == HandOver \/ HandOverFails \/ Rollback \/ Restore \/ RestoreFails

Next ==
  \/ Boot
  \/ RunOnce
  \/ Staging
  \/ Trial
  \/ Ending
  \/ PublishBegins
  \/ PublishEnds
  \/ \E c \in Changes : ServerChanges(c)
  \/ ClockAdvances
  \/ PowerCut
  \/ \E c \in Changes : Rot(c)

Spec == Init /\ [][Next]_vars

\* The coordinator is synchronous code with bounded calls: it goes on until
\* it returns.
Fairness == WF_vars(Staging \/ Trial \/ Ending)

FairSpec == Spec /\ Fairness

-----------------------------------------------------------------------------
Proofs == {"wifi", "fleet", "temperature", "diagnostics"}
RunPlaces == {"fetch", "reserved", "owned", "staged", "handover", "rollback", "restore"}
             \cup TrialPlaces

\* The records carry states that _validate accepts, the clock of a trial runs
\* exactly between its commit and the end of the run, and the publication
\* fence is up during the whole run.
TypeOK ==
  /\ Store!TypeOK
  /\ age \in {NoTick} \cup 0..TrialMs
  /\ age # NoTick <=> pc \in TrialPlaces \cup {"handover", "rollback", "restore"}
  /\ payload \in [Changes -> {"absent", "torn", "whole"}]
  /\ server \in Changes
  /\ {link, reader, writer} \subseteq Changes \cup {NoChange}
  /\ {suspended, publishing, quarantined} \subseteq BOOLEAN
  /\ pc \in {"off", "loaded", "verify", "halt", "idle"} \cup RunPlaces
  /\ pc \in RunPlaces => Loaded /\ suspended
  /\ evidence \subseteq Proofs
  /\ {tried, rotted} \subseteq SUBSET Changes

\* Whatever record a later load selects, and however the writes before it
\* ended, the payloads it refers to were written completely and nothing has
\* deleted them: only the medium can have damaged one.
PayloadsIntact ==
  \A s \in {newest, older} \ {NoState} :
    \A c \in {s.applied, s.candidate} \ {NoChange} : Intact(c) \/ c \in rotted

\* An ordinary publication runs with the network and the writer of the
\* applied configuration, never inside a trial and never with the settings
\* of a candidate that has not been promoted, or that was rolled back.
PublishesAsApplied ==
  publishing => /\ Loaded
                /\ ~Active(ram)
                /\ writer = ram.applied
                /\ link = ram.applied

\* Between two runs a device that is not quarantined is settled: the change is
\* finished in the metadata, the fence is down, and the network, the
\* reader and the writer all belong to the applied configuration.
IdleSettled ==
  pc = "idle" /\ ~quarantined =>
    /\ Loaded
    /\ ~Active(ram)
    /\ ~suspended
    /\ link = ram.applied /\ reader = ram.applied /\ writer = ram.applied

\* A configuration becomes the applied one only by its own trial: the device
\* is on the candidate's network, has all four proofs from this trial, and
\* the five minutes are not over.  (A load that fell back to the older
\* record may also bring back what that one had applied.)
PromotionProven ==
  [][ \/ newest'.applied = newest.applied
      \/ /\ newest'.applied = newest.candidate
         /\ link = newest.candidate
         /\ evidence = Proofs
         /\ age \in 0..(TrialMs - 1)
      \/ ReadFaults /\ older # NoState /\ newest'.applied = older.applied ]_newest

\* A change that was on trial once never is again, across reboots and
\* ambiguous commits: its id stays consumed.
NoSecondTrial ==
  [][pc = "staged" /\ pc' = "connect" => ram.candidate \notin tried]_vars

\* A run that fenced off the publications ends: telemetry resumes, or the
\* device is quarantined for a reboot or a USB recovery.
FenceResolves == suspended ~> ~suspended \/ quarantined
=============================================================================
