-------------------------- MODULE FixedSupervisor --------------------------
(***************************************************************************)
(* The owner of boot and of all updates on the Pico (fixed_supervisor.py): *)
(* boot_once, which at most one owner object of a process completes, and   *)
(* run_operation, which lets one configuration or firmware operation run   *)
(* at a time and refuses each kind while the other is unfinished.          *)
(*                                                                         *)
(* It composes the two durable stores, each a DurableRegister.  Their      *)
(* states are reduced to what the guards read: whether a configuration     *)
(* change is active, and whether a firmware candidate is staged or on      *)
(* trial.  What the operations do to the stores is what ConfigUpdate and   *)
(* FirmwareUpdate let them do.  Threads are those of _thread.              *)
(***************************************************************************)
EXTENDS Naturals

CONSTANTS
  Threads,    \* threads of the process
  Owners,     \* FixedSupervisor objects of the process
  Nobody      \* no thread, no owner, no state

ConfigPhases == {"settled", "active"}
FirmwarePhases == {"settled", "staged", "trial"}

ASSUME SupervisorAssumption ==
  Nobody \notin Threads \cup Owners \cup ConfigPhases \cup FirmwarePhases

VARIABLES
  configNewest, configOlder, configRam,        \* ConfigTrialStore
  firmwareNewest, firmwareOlder, firmwareRam,  \* UpdateStateStore
  attempted,    \* owners with _attempted
  claimed,      \* _PROCESS_LOCK and _BOOT_CLAIMED: the owner that got it
  booted,       \* _booted of the claiming owner
  quarantined,  \* _quarantined of the claiming owner
  holder,       \* the thread that holds _OPERATION_LOCK
  pc,           \* where each thread is
  kind,         \* the kind of the operation that a thread asked for
  own,          \* the owner on which a thread called boot_once
  launches,     \* history: firmware boots begun in this process
  passedOver    \* history: stores of which a load took the older record, and
                \* of which no commit was acknowledged since

configVars == <<configNewest, configOlder, configRam>>
firmwareVars == <<firmwareNewest, firmwareOlder, firmwareRam>>
storeVars == <<configVars, firmwareVars, passedOver>>
bootVars == <<attempted, claimed, booted, own, launches>>
vars == <<configNewest, configOlder, configRam, firmwareNewest, firmwareOlder,
          firmwareRam, attempted, claimed, booted, quarantined, holder, pc, kind,
          own, launches, passedOver>>

Config == INSTANCE DurableRegister WITH
  Values <- ConfigPhases, NoValue <- Nobody,
  newest <- configNewest, older <- configOlder, ram <- configRam

Firmware == INSTANCE DurableRegister WITH
  Values <- FirmwarePhases, NoValue <- Nobody,
  newest <- firmwareNewest, older <- firmwareOlder, ram <- firmwareRam

Init ==
  /\ configNewest = "settled" /\ configOlder = Nobody /\ configRam = Nobody
  /\ firmwareNewest = "settled" /\ firmwareOlder = Nobody /\ firmwareRam = Nobody
  /\ attempted = {}
  /\ claimed = Nobody
  /\ booted = FALSE
  /\ quarantined = FALSE
  /\ holder = Nobody
  /\ pc = [t \in Threads |-> "out"]
  /\ kind = [t \in Threads |-> "config"]
  /\ own = [t \in Threads |-> Nobody]
  /\ launches = 0
  /\ passedOver = {}

Go(t, place) == pc' = [pc EXCEPT ![t] = place]

\* A load of either store selects the older record when it cannot read the
\* newer one.
ConfigLoad ==
  \/ Config!LoadNewest /\ UNCHANGED passedOver
  \/ Config!LoadOlder /\ passedOver' = passedOver \cup {"config"}

FirmwareLoad ==
  \/ Firmware!LoadNewest /\ UNCHANGED passedOver
  \/ Firmware!LoadOlder /\ passedOver' = passedOver \cup {"firmware"}

\* A commit of either store: done, or ambiguous and then the RAM copy is gone.
ConfigCommit(v) ==
  \/ Config!CommitOk(v) /\ passedOver' = passedOver \ {"config"}
  \/ Config!CommitAmbiguous(v) /\ UNCHANGED passedOver

FirmwareCommit(v) ==
  \/ Firmware!CommitOk(v) /\ passedOver' = passedOver \ {"firmware"}
  \/ Firmware!CommitAmbiguous(v) /\ UNCHANGED passedOver

-----------------------------------------------------------------------------
\* boot_once reads _attempted ...
BootOnce(t, o) ==
  /\ pc[t] = "out"
  /\ o \notin attempted
  /\ Go(t, "claim")
  /\ own' = [own EXCEPT ![t] = o]
  /\ UNCHANGED <<storeVars, attempted, claimed, booted, launches,
                 quarantined, holder, kind>>

\* A faulty Claim: an owner relies on its own _attempted flag alone.
ClaimUnlocked(t) ==
  /\ pc[t] = "claim"
  /\ attempted' = attempted \cup {own[t]}
  /\ claimed' = own[t]
  /\ Go(t, "recover")
  /\ UNCHANGED <<storeVars, booted, own, launches, quarantined, holder, kind>>

\* ... sets it, and takes the process lock without waiting for it.
Claim(t) ==
  /\ pc[t] = "claim"
  /\ attempted' = attempted \cup {own[t]}
  /\ IF claimed = Nobody
       THEN claimed' = own[t] /\ Go(t, "recover")
       ELSE UNCHANGED claimed /\ Go(t, "out")
  /\ UNCHANGED <<storeVars, booted, own, launches, quarantined, holder, kind>>

\* _boot_claimed: load the configuration metadata, ...
LoadConfig(t) ==
  /\ pc[t] = "recover"
  /\ configRam = Nobody
  /\ \/ ConfigLoad /\ UNCHANGED pc
     \/ Config!Drop /\ Go(t, "out") /\ UNCHANGED passedOver
  /\ UNCHANGED <<firmwareVars, bootVars, quarantined, holder, kind>>

\* A faulty RecoverConfig: the payload is verified without recover_after_boot.
RecoverConfigSkipped(t) ==
  /\ pc[t] = "recover"
  /\ configRam # Nobody
  /\ UNCHANGED <<configVars, passedOver>>
  /\ Go(t, "launch") \/ Go(t, "out")
  /\ UNCHANGED <<firmwareVars, bootVars, quarantined, holder, kind>>

\* ... roll an active change back and verify the applied payload, ...
RecoverConfig(t) ==
  /\ pc[t] = "recover"
  /\ configRam # Nobody
  /\ \/ /\ configRam = "active"
        /\ ConfigCommit("settled")
        /\ Go(t, IF configRam' = Nobody THEN "out" ELSE "recover")
     \/ /\ configRam = "settled"
        /\ UNCHANGED <<configVars, passedOver>>
        /\ Go(t, "launch") \/ Go(t, "out")
  /\ UNCHANGED <<firmwareVars, bootVars, quarantined, holder, kind>>

\* ... and only then boot the firmware, ...
Launch(t) ==
  /\ pc[t] = "launch"
  /\ launches' = launches + 1
  /\ \/ FirmwareLoad /\ Go(t, "suppress")
     \/ Firmware!Drop /\ Go(t, "out") /\ UNCHANGED passedOver
  /\ UNCHANGED <<configVars, attempted, claimed, booted, own, quarantined, holder, kind>>

\* ... which suppresses an unfinished candidate first.
BootFirmware(t) ==
  /\ pc[t] = "suppress"
  /\ \/ /\ firmwareRam # "settled"
        /\ FirmwareCommit("settled")
        /\ Go(t, IF firmwareRam' = Nobody THEN "out" ELSE "suppress")
        /\ UNCHANGED booted
     \/ /\ firmwareRam = "settled"
        /\ UNCHANGED <<firmwareVars, passedOver>>
        /\ \/ booted' = TRUE
           \/ UNCHANGED booted    \* no authentic slot
        /\ Go(t, "out")
  /\ UNCHANGED <<configVars, attempted, claimed, own, launches, quarantined, holder, kind>>

-----------------------------------------------------------------------------
\* run_operation: the checks of _booted and _quarantined come first, ...
RunOperation(t, k) ==
  /\ pc[t] = "out"
  /\ booted
  /\ ~quarantined
  /\ Go(t, "acquire")
  /\ kind' = [kind EXCEPT ![t] = k]
  /\ UNCHANGED <<storeVars, bootVars, quarantined, holder>>

\* A faulty Acquire: the lock is not taken.
AcquireNothing(t) ==
  /\ pc[t] = "acquire"
  /\ Go(t, "check")
  /\ UNCHANGED <<storeVars, bootVars, quarantined, holder, kind>>

\* ... then the lock, which is not waited for, ...
Acquire(t) ==
  /\ pc[t] = "acquire"
  /\ IF holder = Nobody
       THEN holder' = t /\ Go(t, "check")
       ELSE UNCHANGED holder /\ Go(t, "out")
  /\ UNCHANGED <<storeVars, bootVars, quarantined, kind>>

StatesLoaded == configRam # Nobody /\ firmwareRam # Nobody

\* A faulty Admissible: a configuration operation does not look at the firmware state.
AdmissibleAlways(k) == k = "firmware" => configRam # "active"

\* What an operation requires of the store that it does not work on.
Admissible(k) ==
  IF k = "config" THEN firmwareRam = "settled" ELSE configRam # "active"

\* A faulty Check: a refused operation keeps the lock: no finally around the checks.
CheckKeepingLock(t) ==
  /\ pc[t] = "check"
  /\ IF StatesLoaded /\ Admissible(kind[t])
       THEN Go(t, kind[t]) /\ UNCHANGED <<holder, quarantined>>
       ELSE /\ quarantined' = (quarantined \/ ~StatesLoaded)
            /\ UNCHANGED holder
            /\ Go(t, "out")
  /\ UNCHANGED <<storeVars, bootVars, kind>>

\* ... then, holding the lock, the state of both stores.
Check(t) ==
  /\ pc[t] = "check"
  /\ IF StatesLoaded /\ Admissible(kind[t])
       THEN Go(t, kind[t]) /\ UNCHANGED <<holder, quarantined>>
       ELSE /\ quarantined' = (quarantined \/ ~StatesLoaded)
            /\ holder' = Nobody
            /\ Go(t, "out")
  /\ UNCHANGED <<storeVars, bootVars, kind>>

\* A configuration operation reserves at most one change, and finishes it.
\* (Between the two commits it is received, staged or on trial.)
ConfigStep(t) ==
  /\ kind[t] = "config"
  /\ \/ pc[t] = "config" /\ ConfigCommit("active") /\ Go(t, "finishing")
     \/ /\ pc[t] = "finishing" /\ configRam = "active"
        /\ ConfigCommit("settled")
        /\ UNCHANGED pc
  /\ UNCHANGED <<firmwareVars, bootVars, quarantined, holder, kind>>

\* quarantine_operations, called by the promotion coordinator.
QuarantineOperations(t) ==
  /\ kind[t] = "config" /\ pc[t] \in {"config", "finishing"}
  /\ quarantined' = TRUE
  /\ UNCHANGED <<storeVars, bootVars, holder, pc, kind>>

\* A firmware operation stages at most one candidate, and puts it on trial
\* or suppresses it.
FirmwareStep(t) ==
  /\ kind[t] = "firmware"
  /\ \/ /\ pc[t] = "firmware" /\ firmwareRam = "settled"
        /\ FirmwareCommit("staged")
        /\ Go(t, "finishing")
     \/ /\ pc[t] = "finishing" /\ firmwareRam = "staged"
        /\ FirmwareCommit("trial") \/ FirmwareCommit("settled")
        /\ UNCHANGED pc
     \/ /\ pc[t] = "finishing" /\ firmwareRam = "trial"    \* the launch failed
        /\ FirmwareCommit("settled")
        /\ UNCHANGED pc
  /\ UNCHANGED <<configVars, bootVars, quarantined, holder, kind>>

\* The callback returns or raises.  The coordinator leaves a change active
\* only together with a quarantine; a firmware trial outlives its operation,
\* a staged candidate does not.
Return(t) ==
  /\ pc[t] \in {"config", "firmware", "finishing"}
  /\ kind[t] = "config" /\ configRam = "active" => quarantined
  /\ kind[t] = "firmware" => firmwareRam # "staged"
  /\ quarantined' = (quarantined \/ ~StatesLoaded)
  /\ holder' = Nobody
  /\ Go(t, "out")
  /\ UNCHANGED <<storeVars, bootVars, kind>>

\* FirmwareSupervisor.tick, fail_trial and trial_ok end a trial outside of
\* run_operation.
TrialResolves ==
  /\ firmwareRam = "trial"
  /\ FirmwareCommit("settled")
  /\ UNCHANGED <<configVars, bootVars, quarantined, holder, pc, kind>>

PowerCut ==
  /\ attempted # {}
  /\ Config!Drop
  /\ Firmware!Drop
  /\ attempted' = {} /\ claimed' = Nobody /\ booted' = FALSE /\ launches' = 0
  /\ quarantined' = FALSE /\ holder' = Nobody
  /\ pc' = [t \in Threads |-> "out"]
  /\ kind' = [t \in Threads |-> "config"]
  /\ own' = [t \in Threads |-> Nobody]
  /\ UNCHANGED passedOver

Booting(t) == Claim(t) \/ LoadConfig(t) \/ RecoverConfig(t) \/ Launch(t) \/ BootFirmware(t)

Operating(t) ==
  \/ Acquire(t)
  \/ Check(t)
  \/ ConfigStep(t)
  \/ QuarantineOperations(t)
  \/ FirmwareStep(t)
  \/ Return(t)

Next ==
  \/ \E t \in Threads : \/ \E o \in Owners : BootOnce(t, o)
                        \/ Booting(t)
                        \/ \E k \in {"config", "firmware"} : RunOperation(t, k)
                        \/ Operating(t)
  \/ TrialResolves
  \/ PowerCut

Spec == Init /\ [][Next]_vars

\* Callbacks are synchronous and bounded, so a call of run_operation goes on
\* to its return, whatever the other threads do in between.
Fairness == \A t \in Threads : WF_vars(Operating(t))

FairSpec == Spec /\ Fairness

-----------------------------------------------------------------------------
Critical == {"check", "config", "firmware", "finishing"}
BootPlaces == {"claim", "recover", "launch", "suppress"}

\* The stores hold states, and a thread is inside run_operation's guarded
\* part exactly when it holds the lock.
TypeOK ==
  /\ Config!TypeOK
  /\ Firmware!TypeOK
  /\ attempted \subseteq Owners
  /\ claimed \in Owners \cup {Nobody}
  /\ booted \in BOOLEAN /\ quarantined \in BOOLEAN
  /\ holder \in Threads \cup {Nobody}
  /\ pc \in [Threads -> {"out", "acquire"} \cup Critical \cup BootPlaces]
  /\ kind \in [Threads -> {"config", "firmware"}]
  /\ own \in [Threads -> Owners \cup {Nobody}]
  /\ launches \in Nat
  /\ passedOver \subseteq {"config", "firmware"}
  /\ \A t \in Threads : pc[t] \in Critical <=> holder = t

\* The firmware is launched at most once in a process, however many owners
\* and threads try to boot it.
OneLaunch == launches <= 1

\* No process has an unfinished configuration change and an unfinished
\* firmware candidate loaded, whatever records its loads selected: neither is
\* tried out on top of the other.  The flash does not hold both either, so
\* that a reboot has one to undo, unless a load passed the newer record of a
\* store over: the candidate in it is unfinished, and nobody knows of it.
NeverBothUnfinished ==
  /\ configRam = "active" => firmwareRam \in {"settled", Nobody}
  /\ passedOver = {} /\ configNewest = "active" => firmwareNewest = "settled"

\* The firmware is launched only after a configuration change that a reset
\* interrupted has been rolled back on the flash, unless boot could not read
\* the record of that change and went by the older one.
LaunchedOnSettledConfig ==
  \A t \in Threads : pc[t] \in {"launch", "suppress"} =>
    /\ configRam = "settled"
    /\ configNewest = "settled" \/ "config" \in passedOver

\* run_operation gives the lock back, also when it refuses the operation.
OperationsEnd == \A t \in Threads : holder = t ~> holder # t
=============================================================================
