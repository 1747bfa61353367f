----------------------- MODULE FixedSupervisorProofs -----------------------
(***************************************************************************)
(* The fixed supervisor is safe for every number of threads and of owner   *)
(* objects: the locks it takes and the states it checks suffice.           *)
(***************************************************************************)
EXTENDS FixedSupervisor, TLAPS

\* Both journals always hold a record, and what is loaded is the newest one
\* unless a load passed it over.
RecordsInv ==
  /\ configNewest # Nobody
  /\ "config" \notin passedOver => configRam \in {Nobody, configNewest}
  /\ firmwareNewest # Nobody
  /\ "firmware" \notin passedOver => firmwareRam \in {Nobody, firmwareNewest}

Claimed == {"recover", "launch", "suppress"}
InOperation == Critical \cup {"acquire"}

\* One thread boots, it launches once, and operations wait until it is done.
BootInv ==
  /\ \A t \in Threads : pc[t] = "claim" => own[t] \in Owners
  /\ \A t \in Threads : pc[t] \in Claimed => claimed # Nobody /\ ~booted
  /\ \A t, u \in Threads : pc[t] \in Claimed /\ pc[u] \in Claimed => t = u
  /\ \A t \in Threads : pc[t] \in {"recover", "launch"} => launches = 0 /\ firmwareRam = Nobody
  /\ \A t \in Threads : pc[t] \in InOperation => booted
  /\ claimed = Nobody => launches = 0 /\ ~booted /\ firmwareRam = Nobody

\* What Check read of the other store stays true while the operation runs.
OperationInv ==
  \A t \in Threads :
    /\ pc[t] = "config" => kind[t] = "config"
    /\ pc[t] = "firmware" => kind[t] = "firmware"
    /\ pc[t] \in {"config", "finishing"} /\ kind[t] = "config" => firmwareRam = "settled"
    /\ pc[t] \in {"firmware", "finishing"} /\ kind[t] = "firmware" => configRam = "settled"

IInv ==
  /\ TypeOK
  /\ RecordsInv
  /\ BootInv
  /\ OperationInv
  /\ OneLaunch
  /\ NeverBothUnfinished
  /\ LaunchedOnSettledConfig

-----------------------------------------------------------------------------
\* A commit of the configuration journal leaves the value that is on the
\* flash, the one that was loaded, or the new one; once it is acknowledged, or
\* when nothing was passed over, the second of these is no other value.
LEMMA ConfigCommitted ==
  ASSUME SupervisorAssumption, TypeOK, RecordsInv, NEW v \in ConfigPhases, ConfigCommit(v)
  PROVE  /\ configNewest' # Nobody
         /\ configRam' \in {Nobody, v}
         /\ configRam' \in {Nobody, configNewest'}
         /\ passedOver' \subseteq {"config", "firmware"}
         /\ "firmware" \in passedOver' <=> "firmware" \in passedOver
         /\ "config" \notin passedOver' =>
              configNewest' = v \/ ("config" \notin passedOver /\ configNewest' = configNewest)
         /\ Config!TypeOK'
<1> USE DEF TypeOK, RecordsInv, Config!TypeOK, SupervisorAssumption
<1>1. CASE Config!CommitOk(v) /\ passedOver' = passedOver \ {"config"}
  BY <1>1 DEF Config!CommitOk
<1>2. CASE Config!CommitAmbiguous(v) /\ UNCHANGED passedOver
  BY <1>2 DEF Config!CommitAmbiguous
<1>3. QED
  BY <1>1, <1>2 DEF ConfigCommit

LEMMA FirmwareCommitted ==
  ASSUME SupervisorAssumption, TypeOK, RecordsInv, NEW v \in FirmwarePhases, FirmwareCommit(v)
  PROVE  /\ firmwareNewest' # Nobody
         /\ firmwareRam' \in {Nobody, v}
         /\ firmwareRam' \in {Nobody, firmwareNewest'}
         /\ passedOver' \subseteq {"config", "firmware"}
         /\ "config" \in passedOver' <=> "config" \in passedOver
         /\ "firmware" \notin passedOver' =>
              firmwareNewest' = v \/ ("firmware" \notin passedOver /\ firmwareNewest' = firmwareNewest)
         /\ Firmware!TypeOK'
<1> USE DEF TypeOK, RecordsInv, Firmware!TypeOK, SupervisorAssumption
<1>1. CASE Firmware!CommitOk(v) /\ passedOver' = passedOver \ {"firmware"}
  BY <1>1 DEF Firmware!CommitOk
<1>2. CASE Firmware!CommitAmbiguous(v) /\ UNCHANGED passedOver
  BY <1>2 DEF Firmware!CommitAmbiguous
<1>3. QED
  BY <1>1, <1>2 DEF FirmwareCommit

LEMMA Initial ==
  ASSUME SupervisorAssumption, Init
  PROVE  IInv
<1>1. \A t \in Threads : /\ pc[t] = "out" /\ kind[t] = "config" /\ own[t] = Nobody
                        /\ holder # t
  BY DEF SupervisorAssumption, Init
<1>2. TypeOK
  BY <1>1 DEF SupervisorAssumption, Init, TypeOK, Config!TypeOK, Firmware!TypeOK, ConfigPhases,
              FirmwarePhases, Critical, BootPlaces
<1>3. RecordsInv /\ OneLaunch /\ NeverBothUnfinished
  BY DEF SupervisorAssumption, Init, RecordsInv, OneLaunch, NeverBothUnfinished, ConfigPhases,
         FirmwarePhases
<1>4. BootInv /\ OperationInv /\ LaunchedOnSettledConfig
  BY <1>1 DEF Init, BootInv, OperationInv, LaunchedOnSettledConfig, Claimed, InOperation, Critical
<1>5. QED
  BY <1>2, <1>3, <1>4 DEF IInv

\* The claim of the process lets one thread into the boot.
LEMMA BootStarts ==
  ASSUME SupervisorAssumption, IInv, NEW t \in Threads,
         (\E o \in Owners : BootOnce(t, o)) \/ Claim(t)
  PROVE  IInv'
<1> USE DEF storeVars, configVars, firmwareVars, Go, Config!TypeOK, Firmware!TypeOK, TypeOK,
            Critical, BootPlaces, Claimed, InOperation, SupervisorAssumption
<1>1. TypeOK'
  <2>1. CASE \E o \in Owners : BootOnce(t, o)
    BY <2>1 DEF IInv, BootOnce
  <2>2. CASE Claim(t)
    BY <2>2 DEF IInv, BootInv, Claim
  <2>3. QED
    BY <2>1, <2>2
<1>2. RecordsInv' /\ OneLaunch' /\ NeverBothUnfinished'
  BY DEF IInv, RecordsInv, OneLaunch, NeverBothUnfinished, BootOnce, Claim
<1>3. BootInv'
  BY DEF IInv, BootInv, BootOnce, Claim
<1>4. OperationInv' /\ LaunchedOnSettledConfig'
  BY DEF IInv, OperationInv, LaunchedOnSettledConfig, BootOnce, Claim
<1>5. QED
  BY <1>1, <1>2, <1>3, <1>4 DEF IInv

\* The claiming thread settles the configuration before it launches.
LEMMA BootContinues ==
  ASSUME SupervisorAssumption, IInv, NEW t \in Threads, LoadConfig(t) \/ RecoverConfig(t)
  PROVE  IInv'
<1> USE DEF storeVars, configVars, firmwareVars, bootVars, Go, Config!TypeOK, Firmware!TypeOK, TypeOK,
            Critical, BootPlaces, Claimed, InOperation, SupervisorAssumption, ConfigPhases
<1>1. /\ UNCHANGED <<firmwareVars, bootVars, quarantined, holder, kind>>
      /\ pc[t] = "recover"
      /\ \/ pc' = pc
         \/ pc' = [pc EXCEPT ![t] = "out"]
         \/ pc' = [pc EXCEPT ![t] = "recover"]
         \/ /\ configRam = "settled" /\ UNCHANGED <<configVars, passedOver>>
            /\ pc' = [pc EXCEPT ![t] = "launch"]
  BY DEF IInv, LoadConfig, RecoverConfig
<1>2. /\ configNewest' # Nobody
      /\ "config" \notin passedOver' => configRam' \in {Nobody, configNewest'}
      /\ passedOver' \subseteq {"config", "firmware"}
      /\ "firmware" \in passedOver' <=> "firmware" \in passedOver
      /\ "config" \notin passedOver' =>
           configNewest' = "settled" \/ ("config" \notin passedOver /\ configNewest' = configNewest)
      /\ Config!TypeOK'
  <2>1. CASE LoadConfig(t)
    <3>1. CASE ConfigLoad
      BY <3>1 DEF IInv, RecordsInv, ConfigLoad, Config!LoadNewest, Config!LoadOlder
    <3>2. CASE Config!Drop /\ UNCHANGED passedOver
      BY <3>2 DEF IInv, RecordsInv, Config!Drop
    <3>3. QED
      BY <2>1, <3>1, <3>2 DEF LoadConfig
  <2>2. CASE RecoverConfig(t) /\ UNCHANGED <<configVars, passedOver>>
    BY <2>2 DEF IInv, RecordsInv
  <2>3. CASE ConfigCommit("settled")
    BY <2>3, ConfigCommitted DEF IInv
  <2>4. QED
    BY <2>1, <2>2, <2>3 DEF RecoverConfig
<1>3. TypeOK'
  BY <1>1, <1>2 DEF IInv
<1>4. RecordsInv' /\ OneLaunch'
  BY <1>1, <1>2 DEF IInv, RecordsInv, OneLaunch
<1>5. BootInv'
  BY <1>1 DEF IInv, BootInv
<1>6. NeverBothUnfinished'
  BY <1>1, <1>2 DEF IInv, BootInv, NeverBothUnfinished
<1>7. OperationInv'
  BY <1>1 DEF IInv, BootInv, OperationInv
<1>8. LaunchedOnSettledConfig'
  <2> SUFFICES ASSUME NEW u \in Threads, pc'[u] \in {"launch", "suppress"}
               PROVE  configRam' = "settled" /\ (configNewest' = "settled" \/ "config" \in passedOver')
    BY DEF LaunchedOnSettledConfig
  <2>1. u = t
    BY <1>1 DEF IInv, BootInv
  <2>2. configRam = "settled" /\ UNCHANGED <<configVars, passedOver>>
    BY <1>1, <2>1 DEF IInv
  <2>3. QED
    BY <2>2 DEF IInv, RecordsInv
<1>9. QED
  BY <1>3, <1>4, <1>5, <1>6, <1>7, <1>8 DEF IInv

LEMMA BootLaunches ==
  ASSUME SupervisorAssumption, IInv, NEW t \in Threads, Launch(t)
  PROVE  IInv'
<1> USE DEF configVars, Go, Config!TypeOK, Firmware!TypeOK, TypeOK, Critical, BootPlaces,
            Claimed, InOperation, SupervisorAssumption, FirmwarePhases
<1>1. /\ pc[t] = "launch" /\ launches = 0 /\ launches' = 1
      /\ UNCHANGED <<configVars, attempted, claimed, booted, own, quarantined, holder, kind>>
      /\ UNCHANGED <<firmwareNewest, firmwareOlder>>
      /\ pc' = [pc EXCEPT ![t] = "suppress"] \/ pc' = [pc EXCEPT ![t] = "out"]
  BY DEF IInv, BootInv, Launch, FirmwareLoad, Firmware!LoadNewest, Firmware!LoadOlder, Firmware!Drop
<1>2. /\ firmwareRam' \in FirmwarePhases \cup {Nobody}
      /\ passedOver' \in {passedOver, passedOver \cup {"firmware"}}
      /\ "firmware" \notin passedOver' => firmwareRam' \in {Nobody, firmwareNewest}
  BY DEF IInv, RecordsInv, Launch, FirmwareLoad, Firmware!LoadNewest, Firmware!LoadOlder, Firmware!Drop
<1>3. configRam = "settled" /\ claimed # Nobody
  BY <1>1 DEF IInv, LaunchedOnSettledConfig, BootInv
<1>4. TypeOK'
  BY <1>1, <1>2 DEF IInv
<1>5. RecordsInv' /\ OneLaunch' /\ NeverBothUnfinished'
  BY <1>1, <1>2, <1>3 DEF IInv, RecordsInv, OneLaunch, NeverBothUnfinished
<1>6. BootInv'
  BY <1>1, <1>3 DEF IInv, BootInv
<1>7. OperationInv' /\ LaunchedOnSettledConfig'
  BY <1>1, <1>2, <1>3 DEF IInv, BootInv, OperationInv, LaunchedOnSettledConfig
<1>8. QED
  BY <1>4, <1>5, <1>6, <1>7 DEF IInv

\* The boot of the firmware suppresses an unfinished candidate.
LEMMA BootEnds ==
  ASSUME SupervisorAssumption, IInv, NEW t \in Threads, BootFirmware(t)
  PROVE  IInv'
<1> USE DEF storeVars, configVars, firmwareVars, Go, Config!TypeOK, Firmware!TypeOK, TypeOK, Critical,
            BootPlaces, Claimed, InOperation, SupervisorAssumption, FirmwarePhases
<1>1. /\ pc[t] = "suppress"
      /\ UNCHANGED <<configVars, attempted, claimed, launches, own, quarantined, holder, kind>>
      /\ \/ pc' = [pc EXCEPT ![t] = "suppress"] /\ booted' = booted
         \/ pc' = [pc EXCEPT ![t] = "out"] /\ booted' \in BOOLEAN
  BY DEF IInv, BootFirmware
<1>2. /\ firmwareNewest' # Nobody
      /\ firmwareRam' \in {Nobody, "settled"}
      /\ "firmware" \notin passedOver' => firmwareRam' \in {Nobody, firmwareNewest'}
      /\ passedOver' \subseteq {"config", "firmware"}
      /\ "config" \in passedOver' <=> "config" \in passedOver
      /\ "firmware" \notin passedOver' =>
           firmwareNewest' = "settled" \/ ("firmware" \notin passedOver /\ firmwareNewest' = firmwareNewest)
      /\ Firmware!TypeOK'
  <2>1. CASE firmwareRam = "settled" /\ UNCHANGED <<firmwareVars, passedOver>>
    BY <2>1 DEF IInv, RecordsInv
  <2>2. CASE FirmwareCommit("settled")
    BY <2>2, FirmwareCommitted DEF IInv
  <2>3. QED
    BY <2>1, <2>2 DEF BootFirmware
<1>3. configRam = "settled" /\ claimed # Nobody
  BY <1>1 DEF IInv, LaunchedOnSettledConfig, BootInv
<1>4. TypeOK'
  BY <1>1, <1>2 DEF IInv
<1>5. RecordsInv' /\ OneLaunch' /\ NeverBothUnfinished'
  BY <1>1, <1>2, <1>3 DEF IInv, RecordsInv, OneLaunch, NeverBothUnfinished
<1>6. BootInv'
  BY <1>1, <1>3 DEF IInv, BootInv
<1>7. OperationInv' /\ LaunchedOnSettledConfig'
  BY <1>1, <1>2, <1>3 DEF IInv, BootInv, OperationInv, LaunchedOnSettledConfig
<1>8. QED
  BY <1>4, <1>5, <1>6, <1>7 DEF IInv

\* Taking the lock, reading both states, quarantining and returning.
LEMMA OperationControl ==
  ASSUME SupervisorAssumption, IInv, NEW t \in Threads,
         \/ \E k \in {"config", "firmware"} : RunOperation(t, k)
         \/ Acquire(t) \/ Check(t) \/ QuarantineOperations(t) \/ Return(t)
  PROVE  IInv'
<1> USE DEF storeVars, configVars, firmwareVars, bootVars, Go, Config!TypeOK, Firmware!TypeOK, TypeOK,
            Critical, BootPlaces, Claimed, InOperation, SupervisorAssumption, ConfigPhases,
            FirmwarePhases, StatesLoaded
<1>1. UNCHANGED <<storeVars, bootVars>>
  BY DEF RunOperation, Acquire, Check, QuarantineOperations, Return
<1>2. CASE \E k \in {"config", "firmware"} : RunOperation(t, k)
  <2>1. PICK k \in {"config", "firmware"} : RunOperation(t, k)
    BY <1>2
  <2>2. /\ pc[t] = "out" /\ booted /\ pc' = [pc EXCEPT ![t] = "acquire"]
        /\ kind' = [kind EXCEPT ![t] = k] /\ UNCHANGED <<quarantined, holder>>
    BY <2>1 DEF RunOperation
  <2>3. TypeOK'
    BY <1>1, <2>2 DEF IInv
  <2>4. BootInv'
    BY <1>1, <2>2 DEF IInv, BootInv
  <2>5. OperationInv'
    BY <1>1, <2>2 DEF IInv, OperationInv
  <2>6. QED
    BY <1>1, <2>2, <2>3, <2>4, <2>5
       DEF IInv, RecordsInv, OneLaunch, NeverBothUnfinished, LaunchedOnSettledConfig
<1>3. CASE Acquire(t)
  <2>1. /\ pc[t] = "acquire" /\ UNCHANGED <<quarantined, kind>>
        /\ \/ holder = Nobody /\ holder' = t /\ pc' = [pc EXCEPT ![t] = "check"]
           \/ holder' = holder /\ pc' = [pc EXCEPT ![t] = "out"]
    BY <1>3 DEF Acquire
  <2>2. TypeOK'
    BY <1>1, <2>1 DEF IInv
  <2>3. BootInv'
    BY <1>1, <2>1 DEF IInv, BootInv
  <2>4. OperationInv'
    BY <1>1, <2>1 DEF IInv, OperationInv
  <2>5. QED
    BY <1>1, <2>1, <2>2, <2>3, <2>4
       DEF IInv, RecordsInv, OneLaunch, NeverBothUnfinished, LaunchedOnSettledConfig
<1>4. CASE Check(t)
  <2>1. /\ pc[t] = "check" /\ UNCHANGED kind /\ quarantined' \in BOOLEAN
        /\ \/ /\ configRam # Nobody /\ firmwareRam # Nobody /\ Admissible(kind[t])
              /\ holder' = holder /\ pc' = [pc EXCEPT ![t] = kind[t]]
           \/ holder' = Nobody /\ pc' = [pc EXCEPT ![t] = "out"]
    BY <1>4 DEF Check, IInv
  <2>2. TypeOK'
    BY <1>1, <2>1 DEF IInv
  <2>3. BootInv'
    BY <1>1, <2>1 DEF IInv, BootInv
  <2>4. OperationInv'
    BY <1>1, <2>1 DEF IInv, RecordsInv, OperationInv, Admissible
  <2>5. QED
    BY <1>1, <2>1, <2>2, <2>3, <2>4
       DEF IInv, RecordsInv, OneLaunch, NeverBothUnfinished, LaunchedOnSettledConfig
<1>5. CASE QuarantineOperations(t)
  BY <1>1, <1>5 DEF IInv, QuarantineOperations, RecordsInv, BootInv, OperationInv, OneLaunch,
     NeverBothUnfinished, LaunchedOnSettledConfig
<1>6. CASE Return(t)
  <2>1. /\ pc[t] \in {"config", "firmware", "finishing"} /\ UNCHANGED kind
        /\ quarantined' \in BOOLEAN /\ holder' = Nobody /\ pc' = [pc EXCEPT ![t] = "out"]
    BY <1>6 DEF Return, IInv
  <2>2. TypeOK'
    BY <1>1, <2>1 DEF IInv
  <2>3. BootInv'
    BY <1>1, <2>1 DEF IInv, BootInv
  <2>4. OperationInv'
    BY <1>1, <2>1 DEF IInv, OperationInv
  <2>5. QED
    BY <1>1, <2>1, <2>2, <2>3, <2>4
       DEF IInv, RecordsInv, OneLaunch, NeverBothUnfinished, LaunchedOnSettledConfig
<1>7. QED
  BY <1>2, <1>3, <1>4, <1>5, <1>6

\* A configuration operation commits only while no candidate is unfinished.
LEMMA ConfigOperates ==
  ASSUME SupervisorAssumption, IInv, NEW t \in Threads, ConfigStep(t)
  PROVE  IInv'
<1> USE DEF firmwareVars, bootVars, Go, Config!TypeOK, Firmware!TypeOK, TypeOK, Critical,
            BootPlaces, Claimed, InOperation, SupervisorAssumption, ConfigPhases
<1>1. /\ UNCHANGED <<firmwareVars, bootVars, quarantined, holder, kind>>
      /\ kind[t] = "config" /\ pc[t] \in {"config", "finishing"}
      /\ pc' = [pc EXCEPT ![t] = "finishing"]
  BY DEF IInv, ConfigStep
<1>2. firmwareRam = "settled"
  BY <1>1 DEF IInv, OperationInv
<1>3. /\ configNewest' # Nobody
      /\ configRam' \in {Nobody, configNewest'}
      /\ passedOver' \subseteq {"config", "firmware"}
      /\ "firmware" \in passedOver' <=> "firmware" \in passedOver
      /\ Config!TypeOK'
  BY ConfigCommitted DEF IInv, ConfigStep
<1>4. /\ holder = t /\ claimed # Nobody
      /\ \A u \in Threads : pc[u] \notin Claimed
  BY <1>1 DEF IInv, BootInv
<1>5. TypeOK'
  BY <1>1, <1>3 DEF IInv
<1>6. RecordsInv' /\ OneLaunch'
  BY <1>1, <1>3 DEF IInv, RecordsInv, OneLaunch
<1>7. NeverBothUnfinished'
  BY <1>1, <1>2, <1>3 DEF IInv, RecordsInv, NeverBothUnfinished
<1>8. BootInv'
  BY <1>1 DEF IInv, BootInv
<1>9. OperationInv' /\ LaunchedOnSettledConfig'
  BY <1>1, <1>2, <1>4 DEF IInv, OperationInv, LaunchedOnSettledConfig
<1>10. QED
  BY <1>5, <1>6, <1>7, <1>8, <1>9 DEF IInv

\* A firmware operation commits only while the configuration is settled.
LEMMA FirmwareOperates ==
  ASSUME SupervisorAssumption, IInv, NEW t \in Threads, FirmwareStep(t)
  PROVE  IInv'
<1> USE DEF configVars, bootVars, Go, Config!TypeOK, Firmware!TypeOK, TypeOK, Critical,
            BootPlaces, Claimed, InOperation, SupervisorAssumption, FirmwarePhases
<1>1. /\ UNCHANGED <<configVars, bootVars, quarantined, holder, kind>>
      /\ kind[t] = "firmware" /\ pc[t] \in {"firmware", "finishing"}
      /\ pc' = [pc EXCEPT ![t] = "finishing"]
  BY DEF IInv, FirmwareStep
<1>2. configRam = "settled"
  BY <1>1 DEF IInv, OperationInv
<1>3. /\ firmwareNewest' # Nobody
      /\ firmwareRam' \in {Nobody, firmwareNewest'}
      /\ passedOver' \subseteq {"config", "firmware"}
      /\ "config" \in passedOver' <=> "config" \in passedOver
      /\ Firmware!TypeOK'
  BY FirmwareCommitted DEF IInv, FirmwareStep
<1>4. /\ holder = t /\ claimed # Nobody
      /\ \A u \in Threads : pc[u] \notin Claimed
  BY <1>1 DEF IInv, BootInv
<1>5. TypeOK'
  BY <1>1, <1>3 DEF IInv
<1>6. RecordsInv' /\ OneLaunch'
  BY <1>1, <1>3 DEF IInv, RecordsInv, OneLaunch
<1>7. NeverBothUnfinished'
  BY <1>1, <1>2, <1>3 DEF IInv, RecordsInv, NeverBothUnfinished
<1>8. BootInv'
  BY <1>1, <1>4 DEF IInv, BootInv
<1>9. OperationInv' /\ LaunchedOnSettledConfig'
  BY <1>1, <1>2, <1>4 DEF IInv, OperationInv, LaunchedOnSettledConfig
<1>10. QED
  BY <1>5, <1>6, <1>7, <1>8, <1>9 DEF IInv

LEMMA TrialEnds ==
  ASSUME SupervisorAssumption, IInv, TrialResolves
  PROVE  IInv'
<1> USE DEF configVars, bootVars
<1>1. /\ UNCHANGED <<configVars, bootVars, quarantined, holder, pc, kind>>
      /\ firmwareRam = "trial"
      /\ firmwareNewest' # Nobody
      /\ firmwareRam' \in {Nobody, "settled"}
      /\ firmwareRam' \in {Nobody, firmwareNewest'}
      /\ passedOver' \subseteq {"config", "firmware"}
      /\ "config" \in passedOver' <=> "config" \in passedOver
      /\ "firmware" \notin passedOver' =>
           firmwareNewest' = "settled" \/ ("firmware" \notin passedOver /\ firmwareNewest' = firmwareNewest)
      /\ Firmware!TypeOK'
  BY FirmwareCommitted DEF IInv, TrialResolves, FirmwarePhases
<1>2. RecordsInv'
  BY <1>1 DEF IInv, RecordsInv
<1>3. TypeOK'
  BY <1>1 DEF IInv, TypeOK, Config!TypeOK, Critical
<1>4. BootInv' /\ OneLaunch' /\ LaunchedOnSettledConfig'
  BY <1>1 DEF IInv, BootInv, OneLaunch, LaunchedOnSettledConfig, Claimed, InOperation, Critical,
              SupervisorAssumption, FirmwarePhases
<1>5. OperationInv'
  BY <1>1 DEF IInv, OperationInv
<1>6. NeverBothUnfinished'
  <2>1. ASSUME passedOver' = {}, configNewest = "active"
        PROVE  firmwareNewest' = "settled"
    <3>1. "config" \notin passedOver /\ "firmware" \notin passedOver'
      BY <1>1, <2>1
    <3>2. CASE "firmware" \notin passedOver
      <4>1. passedOver = {}
        BY <3>1, <3>2 DEF IInv, TypeOK
      <4>2. firmwareNewest = "settled"
        BY <2>1, <4>1 DEF IInv, NeverBothUnfinished
      <4>3. QED
        BY <1>1, <3>1, <4>2
    <3>3. QED
      BY <1>1, <3>1, <3>2
  <2>2. QED
    BY <1>1, <2>1 DEF IInv, NeverBothUnfinished
<1>7. QED
  BY <1>2, <1>3, <1>4, <1>5, <1>6 DEF IInv

LEMMA PowerFails ==
  ASSUME SupervisorAssumption, IInv, PowerCut
  PROVE  IInv'
<1>1. /\ UNCHANGED <<configNewest, configOlder, firmwareNewest, firmwareOlder, passedOver>>
      /\ configRam' = Nobody /\ firmwareRam' = Nobody
      /\ \A t \in Threads : pc'[t] = "out" /\ own'[t] = Nobody /\ holder' # t
  BY DEF SupervisorAssumption, PowerCut, Config!Drop, Firmware!Drop
<1>2. TypeOK'
  BY <1>1 DEF IInv, PowerCut, TypeOK, Config!TypeOK, Firmware!TypeOK, Critical
<1>3. RecordsInv' /\ NeverBothUnfinished'
  BY <1>1 DEF IInv, RecordsInv, NeverBothUnfinished, SupervisorAssumption, ConfigPhases
<1>4. BootInv' /\ OperationInv' /\ OneLaunch' /\ LaunchedOnSettledConfig'
  BY <1>1 DEF PowerCut, BootInv, OperationInv, OneLaunch, LaunchedOnSettledConfig, Claimed,
              InOperation, Critical
<1>5. QED
  BY <1>2, <1>3, <1>4 DEF IInv

-----------------------------------------------------------------------------
\* The strengthened invariant holds in every reachable state.
THEOREM Inductive == Spec => []IInv
<1> USE SupervisorAssumption
<1>1. Init => IInv
  BY Initial
<1>2. IInv /\ [Next]_vars => IInv'
  <2> SUFFICES ASSUME IInv, [Next]_vars
               PROVE  IInv'
    OBVIOUS
  <2>1. ASSUME NEW t \in Threads, NEW o \in Owners, BootOnce(t, o)
        PROVE  IInv'
    BY <2>1, BootStarts
  <2>2. ASSUME NEW t \in Threads, Booting(t)
        PROVE  IInv'
    BY <2>2, BootStarts, BootContinues, BootLaunches, BootEnds DEF Booting
  <2>3. ASSUME NEW t \in Threads, NEW k \in {"config", "firmware"}, RunOperation(t, k)
        PROVE  IInv'
    BY <2>3, OperationControl
  <2>4. ASSUME NEW t \in Threads, Operating(t)
        PROVE  IInv'
    BY <2>4, OperationControl, ConfigOperates, FirmwareOperates DEF Operating
  <2>5. CASE TrialResolves
    BY <2>5, TrialEnds
  <2>6. CASE PowerCut
    BY <2>6, PowerFails
  <2>7. CASE UNCHANGED vars
    BY <2>7 DEF vars, IInv, TypeOK, Config!TypeOK, Firmware!TypeOK, RecordsInv, BootInv,
       OperationInv, OneLaunch, NeverBothUnfinished, LaunchedOnSettledConfig, Claimed,
       InOperation, Critical
  <2>8. QED
    BY <2>1, <2>2, <2>3, <2>4, <2>5, <2>6, <2>7 DEF Next
<1>3. QED
  BY <1>1, <1>2, PTL DEF Spec

\* The journals hold states and a thread is inside the guarded part of
\* run_operation exactly when it holds the lock (fixed_supervisor.py).
THEOREM TypeCorrect == Spec => []TypeOK
BY Inductive, PTL DEF IInv

\* boot_once launches the firmware at most once in a process, for every
\* number of threads and owner objects.
THEOREM LaunchesOnce == Spec => []OneLaunch
BY Inductive, PTL DEF IInv

\* No interleaving of operations, boots, trials and power cuts leaves a
\* process with an unfinished change of both kinds loaded, nor the flash unless
\* a load passed a newer record over.
THEOREM UpdatesExclusive == Spec => []NeverBothUnfinished
BY Inductive, PTL DEF IInv

\* The firmware is launched on a configuration that boot has settled; on the
\* flash it is settled too, unless boot went by an older record.
THEOREM RecoveryFirst == Spec => []LaunchedOnSettledConfig
BY Inductive, PTL DEF IInv
=============================================================================
