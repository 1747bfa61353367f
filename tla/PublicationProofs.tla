-------------------------- MODULE PublicationProofs --------------------------
(***************************************************************************)
(* Proofs about Publication, for every value of its intervals.             *)
(*                                                                         *)
(* What GistPublisher's marks mean (Waits) is inductive by itself, and     *)
(* keeps every request back for as long as the device owes it.             *)
(*                                                                         *)
(* That the phone sees a recovery in time needs much more: IInv bounds the *)
(* time for which all has been well (WellFor) by what is still owed, by    *)
(* how long ago the last attempt was made and by the age of the step in    *)
(* progress.  The same bounds keep every mark younger than half the ticks' *)
(* period, which is what makes ticks_diff read them as the true ages; so   *)
(* the two have to be proved together.                                     *)
(***************************************************************************)
EXTENDS Publication, TLAPS

Ticks == {None} \cup 0 .. (Period - 1)

Monitors == [step : Ticks, sample : Ticks, published : Ticks, attempt : Ticks, report : Ticks,
             sensor : Sensed]
Backoffs == [base : 0 .. (Half - 1), delay : 0 .. (Half - 1), since : Ticks]
Calls == [at : {"idle"} \cup Files, start : Nat, report : BOOLEAN, sent : BOOLEAN, spent : Nat]
Worlds == [sensor : BOOLEAN, service : {"ok", "limited", "down"}]

TypeOK ==
  /\ monitor \in Monitors
  /\ publisher \in [backoff : [Files -> Backoffs], notBefore : Ticks]
  /\ call \in Calls
  /\ suspended \in BOOLEAN
  /\ world \in Worlds
  /\ told \in Sensed
  /\ owed \in [shared : 0 .. (Half - 1), file : [Files -> 0 .. (Half - 1)]]
  /\ age \in [published : 0 .. Half, report : 0 .. Half]
  /\ calm \in 0 .. Patience

-----------------------------------------------------------------------------
LEMMA Constants ==
  /\ Period \in Nat /\ Half \in Nat /\ Period = 2 * Half /\ Half > 1
  /\ SampleInterval \in 1 .. (Half - 1) /\ PublicationInterval \in 1 .. (Half - 1)
  /\ Heartbeat \in 1 .. (Half - 1) /\ InitialDelay \in 1 .. (Half - 1)
  /\ MaxDelay \in 1 .. (Half - 1) /\ Cooldown \in 1 .. (Half - 1) /\ MaxHint \in 1 .. (Half - 1)
  /\ SampleInterval <= PublicationInterval
  /\ Timeout \in Nat /\ 2 * Timeout < Half /\ MaxSuspension \in 0 .. (Half - 1)
  /\ MaxOutage \in Nat /\ Patience \in Nat
  /\ None \notin Int
<1>1. Half \in Nat
  BY PublicationAssumption DEF PublicationAssumption, Half
<1>2. QED
  BY <1>1, PublicationAssumption DEF PublicationAssumption

LEMMA Modulo ==
  ASSUME NEW p \in Nat \ {0}
  PROVE  p % p = 0 /\ \A x \in 0 .. (p - 1) : x % p = x
OBVIOUS

\* A mark moves on by one, and comes back to 0 after a whole period.
LEMMA LaterMark ==
  ASSUME NEW m \in Ticks
  PROVE  /\ Later(m) \in Ticks
         /\ Later(m) = None <=> m = None
         /\ m # None => Later(m) = IF m = Period - 1 THEN 0 ELSE m + 1
<1>1. CASE m = None
  BY <1>1 DEF Later, Ticks
<1>2. CASE m # None
  <2>1. m \in 0 .. (Period - 1) /\ Later(m) = (m + 1) % Period
    BY <1>2 DEF Later, Ticks
  <2>2. Period \in Nat \ {0} /\ None \notin Int
    BY Constants
  <2>3. CASE m = Period - 1
    <3>1. m + 1 = Period
      BY <2>2, <2>3
    <3>2. Later(m) = 0
      BY <2>1, <2>2, <3>1, Modulo
    <3>3. QED
      BY <1>2, <2>2, <2>3, <3>2 DEF Ticks
  <2>4. CASE m # Period - 1
    <3>1. m + 1 \in 0 .. (Period - 1)
      BY <2>1, <2>2, <2>4
    <3>2. Later(m) = m + 1
      BY <2>1, <2>2, <3>1, Modulo
    <3>3. QED
      BY <1>2, <2>2, <2>4, <3>1, <3>2 DEF Ticks
  <2>5. QED
    BY <2>3, <2>4
<1>3. QED
  BY <1>1, <1>2

\* How a failure escalates.
LEMMA EscalatedType ==
  ASSUME NEW b \in Backoffs, NEW least \in 0 .. (Half - 1)
  PROVE  /\ Escalated(b, least) \in Backoffs
         /\ Escalated(b, least).since = 0
         /\ Escalated(b, least).delay <= MaxOf(MaxDelay, least)
<1>1. Doubled(b.base) \in 0 .. (Half - 1) /\ Doubled(b.base) <= MaxDelay
  BY Constants DEF Doubled, MinOf, Backoffs
<1>2. MaxOf(Doubled(b.base), least) \in 0 .. (Half - 1)
  BY <1>1 DEF MaxOf
<1>3. 0 \in Ticks
  BY Constants DEF Ticks
<1>4. QED
  BY <1>1, <1>2, <1>3, Constants DEF Escalated, Backoffs, MaxOf

-----------------------------------------------------------------------------
LEMMA GoesType ==
  ASSUME NEW stage \in Files, NEW report \in BOOLEAN
  PROVE  LET k == Goes(stage, report)
         IN  /\ k \in Calls /\ k.start = 0 /\ k.spent = 0 /\ ~k.sent
             /\ k.at \in {"idle", stage}
             /\ k.at = "idle" <=> stage = Diagnostics /\ ~report
             /\ k.report <=> report
<1>1. NoCall \in Calls
  BY DEF NoCall, Calls
<1>2. \A s \in Files, b \in BOOLEAN : [NoCall EXCEPT !.at = s, !.report = b] \in Calls
  BY <1>1 DEF Calls
<1>3. CASE stage = Diagnostics /\ ~report
  BY <1>1, <1>3 DEF Goes, NoCall
<1>4. CASE ~(stage = Diagnostics /\ ~report)
  <2>1. Goes(stage, report) = [NoCall EXCEPT !.at = stage, !.report = report]
    BY <1>4 DEF Goes
  <2>2. stage # "idle"
    BY DEF Files, Temperature, Diagnostics
  <2>3. QED
    BY <1>2, <1>4, <2>1, <2>2 DEF NoCall
<1>5. QED
  BY <1>3, <1>4

LEMMA NoCallType ==
  /\ NoCall \in Calls /\ NoCall.at = "idle" /\ NoCall.start = 0 /\ NoCall.spent = 0
  /\ ~NoCall.sent /\ ~NoCall.report
BY DEF NoCall, Calls

CallOK ==
  /\ call.sent => call.at \in Files
  /\ ~call.sent => call.spent = 0
  /\ call.spent <= Timeout /\ call.spent <= call.start /\ call.start <= call.spent + Timeout
  /\ call.at = Temperature => call.start = call.spent
  /\ call.at # "idle" => ~suspended
  /\ call.at = "idle" => call.start = 0 /\ ~call.sent
  /\ call.at = Diagnostics => call.report

LEMMA DueType == /\ ReportDue \in BOOLEAN /\ Transition \in BOOLEAN
                 /\ (ReportDue \/ Transition) \in BOOLEAN
BY DEF ReportDue, AtLeast, Transition

\* A step has done this to the monitor and the call.
Stepped(stage, report) ==
  /\ call.at = "idle" /\ ~suspended
  /\ UNCHANGED <<publisher, suspended, world, told, owed, age, calm>>
  /\ monitor'.step = 0
  /\ monitor'.published = monitor.published /\ monitor'.report = monitor.report
  /\ call'.start = 0 /\ call'.spent = 0 /\ ~call'.sent
  /\ call'.at = IF stage = Diagnostics /\ ~report THEN "idle" ELSE stage
  /\ call'.report <=> report

LEMMA StepRestsDoes ==
  ASSUME TypeOK, CallOK, StepRests
  PROVE  /\ TypeOK' /\ CallOK' /\ Stepped(Diagnostics, ReportDue)
         /\ ~SampleDue /\ ~(PublicationDue /\ RetryDue)
         /\ monitor'.sample = monitor.sample /\ monitor'.attempt = monitor.attempt
         /\ monitor'.sensor = monitor.sensor
<1>1. Callable /\ UNCHANGED <<publisher, suspended, world, told, owed, age, calm>>
  BY DEF StepRests, Stepping
<1>2. /\ monitor' \in Monitors /\ monitor'.step = 0 /\ monitor'.published = monitor.published
      /\ monitor'.report = monitor.report /\ monitor'.sample = monitor.sample
      /\ monitor'.attempt = monitor.attempt /\ monitor'.sensor = monitor.sensor
  BY Constants DEF TypeOK, StepRests, Monitors, Ticks
<1>3. /\ call' \in Calls /\ call'.start = 0 /\ call'.spent = 0 /\ ~call'.sent
      /\ call'.at = IF ~ReportDue THEN "idle" ELSE Diagnostics
      /\ call'.report <=> ReportDue
  BY DueType, GoesType DEF StepRests, Files
<1>4. TypeOK'
  BY <1>1, <1>2, <1>3 DEF TypeOK
<1>5. CallOK' /\ Stepped(Diagnostics, ReportDue)
  BY <1>1, <1>2, <1>3, Constants DEF CallOK, Stepped, Callable, Files, Temperature, Diagnostics
<1>6. QED
  BY <1>2, <1>4, <1>5 DEF StepRests

LEMMA StepSamplesDoes ==
  ASSUME TypeOK, CallOK, StepSamples
  PROVE  /\ TypeOK' /\ CallOK'
         /\ Stepped(IF world.sensor /\ PublicationDue THEN Temperature ELSE Diagnostics,
                    ReportDue \/ Transition)
         /\ SampleDue \/ (PublicationDue /\ RetryDue)
         /\ monitor'.sample = 0
         /\ monitor'.attempt = IF PublicationDue THEN 0 ELSE monitor.attempt
         /\ monitor'.sensor = SensorReads
<1> DEFINE stage == IF world.sensor /\ PublicationDue THEN Temperature ELSE Diagnostics
<1>1. Callable /\ UNCHANGED <<publisher, suspended, world, told, owed, age, calm>>
  BY DEF StepSamples, Stepping
<1>2. SensorReads \in Sensed
  BY DEF SensorReads, Sensed
<1>3. /\ monitor' \in Monitors /\ monitor'.step = 0 /\ monitor'.published = monitor.published
      /\ monitor'.report = monitor.report /\ monitor'.sample = 0
      /\ monitor'.attempt = IF PublicationDue THEN 0 ELSE monitor.attempt
      /\ monitor'.sensor = SensorReads
  <2> DEFINE tried == IF PublicationDue THEN 0 ELSE monitor.attempt
  <2>1. /\ monitor \in Monitors /\ 0 \in Ticks /\ tried \in Ticks
        /\ tried = IF PublicationDue THEN 0 ELSE monitor.attempt
    BY Constants DEF TypeOK, Monitors, Ticks
  <2>2. monitor' = [monitor EXCEPT !.step = 0, !.sample = 0, !.sensor = SensorReads,
                                   !.attempt = tried]
    BY DEF StepSamples
  <2> HIDE DEF tried
  <2>3. QED
    BY <1>2, <2>1, <2>2 DEF Monitors
<1>4. stage \in Files
  BY DEF Files
<1>5. call' = Goes(stage, ReportDue \/ Transition)
  BY DEF StepSamples
<1> HIDE DEF stage
<1>6. /\ call' \in Calls /\ call'.start = 0 /\ call'.spent = 0 /\ ~call'.sent
      /\ call'.at = IF stage = Diagnostics /\ ~(ReportDue \/ Transition) THEN "idle" ELSE stage
      /\ call'.report <=> ReportDue \/ Transition
  BY <1>4, <1>5, DueType, GoesType
<1>7. TypeOK'
  BY <1>1, <1>3, <1>6 DEF TypeOK
<1>8. CallOK' /\ Stepped(stage, ReportDue \/ Transition)
  BY <1>1, <1>3, <1>4, <1>6, Constants
     DEF CallOK, Stepped, Callable, Files, Temperature, Diagnostics
<1>9. QED
  BY <1>3, <1>7, <1>8 DEF StepSamples, stage

\* What the monitor and the call become when a request does not succeed.
Rejected ==
  /\ call.at \in Files
  /\ UNCHANGED <<monitor, suspended, world, age, calm>>
  /\ call'.at = IF call.at = Temperature THEN Diagnostics ELSE "idle"
  /\ call'.start = IF call.at = Temperature THEN call.start ELSE 0
  /\ call'.spent = 0 /\ ~call'.sent
  /\ call'.report <=> call.at = Temperature

LEMMA UnpublishedDoes ==
  ASSUME TypeOK, CallOK, call.at \in Files, Unpublished,
         UNCHANGED <<suspended, world, age, calm>>
  PROVE  call' \in Calls /\ CallOK' /\ Rejected
<1>1. call \in Calls /\ UNCHANGED monitor
  BY DEF TypeOK, Unpublished
<1>2. CASE call.at = Temperature
  <2> DEFINE k == Goes(Diagnostics, TRUE)
  <2>1. k \in Calls /\ k.start = 0 /\ k.spent = 0 /\ ~k.sent /\ k.at = Diagnostics /\ k.report
    BY GoesType DEF Files
  <2>2. call' = [k EXCEPT !.start = call.start]
    BY <1>2 DEF Unpublished
  <2> HIDE DEF k
  <2>3. /\ call' \in Calls /\ call'.start = call.start /\ call'.spent = 0 /\ ~call'.sent
        /\ call'.at = Diagnostics /\ call'.report
    BY <1>1, <2>1, <2>2 DEF Calls
  <2>4. QED
    BY <1>1, <1>2, <2>3, Constants DEF CallOK, Rejected, Files, Temperature, Diagnostics, Calls
<1>3. CASE call.at # Temperature
  <2>1. call' = NoCall
    BY <1>3 DEF Unpublished
  <2>2. QED
    BY <1>1, <1>3, <2>1, NoCallType, Constants
       DEF CallOK, Rejected, Files, Temperature, Diagnostics
<1>4. QED
  BY <1>2, <1>3

LEMMA HoldBackDoes ==
  ASSUME TypeOK, CallOK, HoldBack
  PROVE  /\ TypeOK' /\ CallOK' /\ Rejected
         /\ InBackoff(call.at) \/ CoolingDown
         /\ UNCHANGED <<publisher, told, owed>>
<1>1. /\ call.at \in Files /\ Unpublished
      /\ UNCHANGED <<publisher, suspended, world, told, owed, age, calm>>
  BY DEF HoldBack, Pending
<1>2. call' \in Calls /\ CallOK' /\ Rejected
  BY <1>1, UnpublishedDoes
<1>3. TypeOK'
  BY <1>1, <1>2 DEF TypeOK, Rejected
<1>4. QED
  BY <1>1, <1>2, <1>3 DEF HoldBack, Pending

LEMMA SendDoes ==
  ASSUME TypeOK, CallOK, Send
  PROVE  /\ TypeOK' /\ CallOK'
         /\ call.at \in Files /\ ~call.sent /\ ~InBackoff(call.at) /\ ~CoolingDown
         /\ publisher'.backoff = publisher.backoff /\ publisher'.notBefore = None
         /\ call'.sent /\ call'.at = call.at /\ call'.start = call.start
         /\ call'.report = call.report /\ call'.spent = call.spent
         /\ UNCHANGED <<monitor, suspended, world, told, owed, age, calm>>
<1>1. /\ call.at \in Files /\ ~call.sent /\ ~InBackoff(call.at) /\ ~CoolingDown
      /\ UNCHANGED <<monitor, suspended, world, told, owed, age, calm>>
  BY DEF Send, Pending
<1>2. /\ publisher' \in [backoff : [Files -> Backoffs], notBefore : Ticks]
      /\ publisher'.backoff = publisher.backoff /\ publisher'.notBefore = None
  BY DEF TypeOK, Send, Ticks
<1>3. /\ call' \in Calls /\ call'.sent /\ call'.at = call.at /\ call'.start = call.start
      /\ call'.report = call.report /\ call'.spent = call.spent
  BY DEF TypeOK, Send, Calls
<1>4. TypeOK'
  BY <1>1, <1>2, <1>3 DEF TypeOK
<1>5. CallOK'
  <2>1. suspended' = suspended /\ (call.at # "idle" => ~suspended)
    BY <1>1 DEF CallOK
  <2>2. call.at # "idle" /\ (call.at = Diagnostics => call.report)
    BY <1>1 DEF CallOK, Files, Temperature, Diagnostics
  <2>3. QED
    BY <1>1, <1>3, <2>1, <2>2 DEF CallOK
<1>6. QED
  BY <1>1, <1>2, <1>3, <1>4, <1>5

LEMMA AcceptedDoes ==
  ASSUME TypeOK, CallOK, Accepted
  PROVE  /\ TypeOK' /\ CallOK'
         /\ call.at \in Files /\ call.sent /\ world.service = "ok"
         /\ UNCHANGED <<suspended, world, calm>>
         /\ publisher'.notBefore = publisher.notBefore
         /\ \A f \in Files :
              /\ publisher'.backoff[f] = IF f = call.at THEN NoFailure ELSE publisher.backoff[f]
              /\ owed'.file[f] = IF f = call.at THEN 0 ELSE owed.file[f]
         /\ owed'.shared = owed.shared
         /\ monitor'.step = monitor.step /\ monitor'.sample = monitor.sample
         /\ monitor'.sensor = monitor.sensor
         /\ call'.spent = 0 /\ ~call'.sent
         /\ call.at = Temperature =>
              /\ monitor'.published = call.start /\ monitor'.attempt = None
              /\ monitor'.report = monitor.report
              /\ age'.published = call.start /\ age'.report = age.report /\ told' = told
              /\ call'.at = IF call.report THEN Diagnostics ELSE "idle"
              /\ call'.start = IF call.report THEN call.start ELSE 0
              /\ call'.report <=> call.report
         /\ call.at = Diagnostics =>
              /\ monitor'.report = call.start /\ monitor'.attempt = monitor.attempt
              /\ monitor'.published = monitor.published
              /\ age'.report = call.start /\ age'.published = age.published
              /\ told' = monitor.sensor
              /\ call'.at = "idle" /\ call'.start = 0 /\ ~call'.report
<1>1. /\ call \in Calls /\ monitor \in Monitors /\ call.at \in Files /\ call.sent
      /\ world.service = "ok" /\ UNCHANGED <<suspended, world, calm>>
      /\ age \in [published : 0 .. Half, report : 0 .. Half] /\ told \in Sensed
  BY DEF TypeOK, Accepted, CallOK
<1>2. call.start \in 0 .. (Half - 1) /\ call.start \in Ticks /\ call.start \in 0 .. Half
  BY <1>1, Constants DEF CallOK, Calls, Ticks
<1>3. NoFailure \in Backoffs
  BY Constants DEF NoFailure, Backoffs, Ticks
<1>4. /\ publisher' \in [backoff : [Files -> Backoffs], notBefore : Ticks]
      /\ publisher'.notBefore = publisher.notBefore
      /\ \A f \in Files :
           publisher'.backoff[f] = IF f = call.at THEN NoFailure ELSE publisher.backoff[f]
  BY <1>1, <1>3 DEF TypeOK, Accepted
<1>5. /\ owed' \in [shared : 0 .. (Half - 1), file : [Files -> 0 .. (Half - 1)]]
      /\ owed'.shared = owed.shared
      /\ \A f \in Files : owed'.file[f] = IF f = call.at THEN 0 ELSE owed.file[f]
  BY <1>1, Constants DEF TypeOK, Accepted
<1>6. CASE call.at = Temperature
  <2>1. /\ monitor' \in Monitors /\ monitor'.published = call.start /\ monitor'.attempt = None
        /\ monitor'.report = monitor.report
        /\ monitor'.step = monitor.step /\ monitor'.sample = monitor.sample
        /\ monitor'.sensor = monitor.sensor
    BY <1>1, <1>2, <1>6 DEF Accepted, Monitors, Ticks
  <2>2. /\ age' \in [published : 0 .. Half, report : 0 .. Half]
        /\ age'.published = call.start /\ age'.report = age.report
    BY <1>1, <1>2, <1>6 DEF Accepted
  <2>3. told' = told
    BY <1>6 DEF Accepted, Tell, Temperature, Diagnostics
  <2>4. /\ call' \in Calls /\ call'.spent = 0 /\ ~call'.sent
        /\ call'.at = IF call.report THEN Diagnostics ELSE "idle"
        /\ call'.start = IF call.report THEN call.start ELSE 0
        /\ call'.report <=> call.report
    <3>1. CASE call.report
      <4> DEFINE k == Goes(Diagnostics, TRUE)
      <4>1. call.report = TRUE
        BY <1>1, <3>1 DEF Calls
      <4>2. /\ k \in Calls /\ k.start = 0 /\ k.spent = 0 /\ ~k.sent /\ k.at = Diagnostics
            /\ k.report
        BY GoesType DEF Files
      <4>3. call' = [k EXCEPT !.start = call.start]
        BY <1>6, <4>1 DEF Accepted
      <4> HIDE DEF k
      <4>4. QED
        BY <1>1, <3>1, <4>2, <4>3 DEF Calls
    <3>2. CASE ~call.report
      <4>1. call.report = FALSE
        BY <1>1, <3>2 DEF Calls
      <4>2. call' = [NoCall EXCEPT !.start = 0]
        BY <1>6, <4>1 DEF Accepted, Goes
      <4>3. call' = NoCall
        BY <4>2 DEF NoCall
      <4>4. QED
        BY <3>2, <4>3, NoCallType
    <3>3. QED
      BY <3>1, <3>2
  <2>5. TypeOK'
    BY <1>1, <1>4, <1>5, <2>1, <2>2, <2>3, <2>4 DEF TypeOK
  <2>6. CallOK'
    BY <1>1, <1>6, <2>4, Constants DEF CallOK, Files, Temperature, Diagnostics, Calls
  <2>7. QED
    BY <1>1, <1>4, <1>5, <1>6, <2>1, <2>2, <2>3, <2>4, <2>5, <2>6 DEF Temperature, Diagnostics
<1>7. CASE call.at = Diagnostics
  <2>0. call.at # Temperature
    BY <1>7 DEF Temperature, Diagnostics
  <2>1. /\ monitor' \in Monitors /\ monitor'.report = call.start
        /\ monitor'.attempt = monitor.attempt /\ monitor'.published = monitor.published
        /\ monitor'.step = monitor.step /\ monitor'.sample = monitor.sample
        /\ monitor'.sensor = monitor.sensor
    BY <1>1, <1>2, <2>0 DEF Accepted, Monitors
  <2>2. /\ age' \in [published : 0 .. Half, report : 0 .. Half]
        /\ age'.report = call.start /\ age'.published = age.published
    BY <1>1, <1>2, <2>0 DEF Accepted
  <2>3. told' = monitor.sensor /\ told' \in Sensed
    BY <1>1, <1>7 DEF Accepted, Tell, Monitors
  <2>4. call' = NoCall
    BY <2>0 DEF Accepted
  <2>5. TypeOK'
    BY <1>1, <1>4, <1>5, <2>1, <2>2, <2>3, <2>4, NoCallType DEF TypeOK
  <2>6. CallOK'
    BY <2>4, NoCallType, Constants DEF CallOK, Files, Temperature, Diagnostics
  <2>7. QED
    BY <1>1, <1>4, <1>5, <2>0, <2>1, <2>2, <2>3, <2>4, <2>5, <2>6, NoCallType
<1>8. QED
  BY <1>1, <1>6, <1>7 DEF Files

LEMMA LongestWaitType ==
  /\ LongestWait \in 1 .. (Half - 1)
  /\ MaxDelay <= LongestWait /\ Cooldown <= LongestWait /\ MaxHint <= LongestWait
BY Constants DEF LongestWait, MaxOf

\* What a request that fails leaves behind.
Failure(f, least) ==
  /\ publisher'.notBefore = IF least > 0 THEN Period - least ELSE publisher.notBefore
  /\ owed'.shared = MaxOf(owed.shared, least)
  /\ publisher'.backoff[f].since = 0
  /\ publisher'.backoff[f].delay = owed'.file[f] /\ owed'.file[f] <= LongestWait
  /\ \A g \in Files \ {f} : /\ publisher'.backoff[g] = publisher.backoff[g]
                            /\ owed'.file[g] = owed.file[g]

LEMMA FailedDoes ==
  ASSUME TypeOK, NEW f \in Files, f = call.at, NEW least \in 0 .. LongestWait, Failed(least)
  PROVE  /\ publisher' \in [backoff : [Files -> Backoffs], notBefore : Ticks]
         /\ owed' \in [shared : 0 .. (Half - 1), file : [Files -> 0 .. (Half - 1)]]
         /\ Failure(f, least)
<1> DEFINE b == Escalated(publisher.backoff[f], least)
           m == IF least > 0 THEN (Period - least) % Period ELSE publisher.notBefore
           w == MaxOf(owed.shared, least)
<1>1. /\ publisher \in [backoff : [Files -> Backoffs], notBefore : Ticks]
      /\ owed \in [shared : 0 .. (Half - 1), file : [Files -> 0 .. (Half - 1)]]
      /\ least \in 0 .. (Half - 1)
  BY LongestWaitType, Constants DEF TypeOK
<1>2. b \in Backoffs /\ b.since = 0 /\ b.delay <= LongestWait /\ b.delay \in 0 .. (Half - 1)
  <2>1. publisher.backoff[f] \in Backoffs
    BY <1>1
  <2>2. b \in Backoffs /\ b.since = 0 /\ b.delay <= MaxOf(MaxDelay, least)
    BY <1>1, <2>1, EscalatedType
  <2>3. b.delay \in 0 .. (Half - 1)
    BY <2>2 DEF Backoffs
  <2>4. QED
    BY <2>2, <2>3, LongestWaitType, Constants DEF MaxOf
<1>3. m = IF least > 0 THEN Period - least ELSE publisher.notBefore
  <2>1. least > 0 => Period - least \in 0 .. (Period - 1)
    BY <1>1, Constants
  <2>2. least > 0 => (Period - least) % Period = Period - least
    BY <2>1, Modulo, Constants
  <2>3. QED
    BY <1>1, <2>2
<1>4. m \in Ticks
  BY <1>1, <1>3, Constants DEF Ticks
<1>5. w \in 0 .. (Half - 1)
  BY <1>1 DEF MaxOf
<1>6. /\ publisher' = [publisher EXCEPT !.backoff[f] = b, !.notBefore = m]
      /\ owed' = [owed EXCEPT !.file[f] = b.delay, !.shared = w]
  BY DEF Failed
<1> HIDE DEF b, m
<1>7. /\ publisher' \in [backoff : [Files -> Backoffs], notBefore : Ticks]
      /\ publisher'.notBefore = m /\ publisher'.backoff[f] = b
      /\ \A g \in Files \ {f} : publisher'.backoff[g] = publisher.backoff[g]
  BY <1>1, <1>2, <1>4, <1>6
<1>8. /\ owed' \in [shared : 0 .. (Half - 1), file : [Files -> 0 .. (Half - 1)]]
      /\ owed'.shared = w /\ owed'.file[f] = b.delay
      /\ \A g \in Files \ {f} : owed'.file[g] = owed.file[g]
  BY <1>1, <1>2, <1>5, <1>6
<1>9. QED
  BY <1>2, <1>3, <1>7, <1>8 DEF Failure

LEMMA RequestFailsDoes ==
  ASSUME TypeOK, CallOK, RateLimited \/ Fails
  PROVE  /\ TypeOK' /\ CallOK' /\ Rejected
         /\ call.sent /\ world.service # "ok"
         /\ told' \in {told, Tell}
         /\ \E least \in 0 .. LongestWait : Failure(call.at, least)
<1>1. /\ call.sent /\ call.at \in Files /\ world.service # "ok" /\ Unpublished
      /\ UNCHANGED <<suspended, world, age, calm>> /\ told' \in {told, Tell}
  BY DEF RateLimited, Fails, CallOK
<1>2. PICK least \in 0 .. LongestWait : Failed(least)
  <2>1. CASE RateLimited
    <3>1. PICK hint \in {0, MaxHint} : Failed(MaxOf(Cooldown, hint))
      BY <2>1 DEF RateLimited
    <3>2. MaxOf(Cooldown, hint) \in 0 .. LongestWait
      BY LongestWaitType, Constants DEF MaxOf
    <3>3. QED
      BY <3>1, <3>2
  <2>2. CASE Fails
    BY <2>2, LongestWaitType DEF Fails
  <2>3. QED
    BY <2>1, <2>2
<1>3. /\ publisher' \in [backoff : [Files -> Backoffs], notBefore : Ticks]
      /\ owed' \in [shared : 0 .. (Half - 1), file : [Files -> 0 .. (Half - 1)]]
      /\ Failure(call.at, least)
  BY <1>1, <1>2, FailedDoes
<1>4. call' \in Calls /\ CallOK' /\ Rejected
  BY <1>1, UnpublishedDoes
<1>5. told' \in Sensed
  BY <1>1 DEF TypeOK, Tell, Monitors
<1>6. TypeOK'
  BY <1>3, <1>4, <1>5 DEF TypeOK, Rejected
<1>7. QED
  BY <1>1, <1>3, <1>4, <1>6

-----------------------------------------------------------------------------
LEMMA SuspensionDoes ==
  ASSUME TypeOK, CallOK, Suspend \/ Resume
  PROVE  /\ TypeOK' /\ CallOK' /\ call.at = "idle" /\ calm' \in {calm, 0}
         /\ UNCHANGED <<monitor, publisher, call, world, told, owed, age>>
         /\ suspended' => calm' = 0
<1>1. /\ call.at = "idle" /\ calm' \in {calm, 0} /\ suspended' \in BOOLEAN
      /\ UNCHANGED <<monitor, publisher, call, world, told, owed, age>>
      /\ suspended' => calm' = 0
  BY DEF Suspend, Resume, CallOK
<1>2. TypeOK'
  BY <1>1, Constants DEF TypeOK
<1>3. QED
  BY <1>1, <1>2 DEF CallOK

LEMMA TakeTrialSampleDoes ==
  ASSUME TypeOK, CallOK, TakeTrialSample
  PROVE  /\ TypeOK' /\ CallOK' /\ suspended /\ call.at = "idle"
         /\ UNCHANGED <<publisher, call, suspended, world, told, owed, age, calm>>
         /\ monitor'.step = monitor.step /\ monitor'.sample = monitor.sample
         /\ monitor'.published = monitor.published /\ monitor'.attempt = monitor.attempt
         /\ monitor'.report = monitor.report
<1>1. SensorReads \in Sensed
  BY DEF SensorReads, Sensed
<1>2. monitor' \in Monitors
  BY <1>1 DEF TypeOK, TakeTrialSample, Monitors
<1>3. QED
  BY <1>1, <1>2 DEF TypeOK, CallOK, TakeTrialSample, Monitors

LEMMA ReplacePublisherDoes ==
  ASSUME TypeOK, CallOK, ReplacePublisher
  PROVE  /\ TypeOK' /\ CallOK' /\ suspended /\ call.at = "idle"
         /\ UNCHANGED <<monitor, call, suspended, world, told, age, calm>>
         /\ publisher'.notBefore = None /\ owed'.shared = 0
         /\ \A f \in Files : publisher'.backoff[f].since = None /\ owed'.file[f] = 0
<1>1. NoFailure \in Backoffs /\ NoFailure.since = None
  BY Constants DEF NoFailure, Backoffs, Ticks
<1>2. publisher' \in [backoff : [Files -> Backoffs], notBefore : Ticks]
  BY <1>1 DEF ReplacePublisher, FreshPublisher, Ticks
<1>3. owed' \in [shared : 0 .. (Half - 1), file : [Files -> 0 .. (Half - 1)]]
  BY Constants DEF ReplacePublisher
<1>4. QED
  BY <1>1, <1>2, <1>3 DEF TypeOK, CallOK, ReplacePublisher, FreshPublisher

LEMMA WorldChangesDoes ==
  ASSUME TypeOK, CallOK, WorldChanges
  PROVE  /\ TypeOK' /\ CallOK' /\ calm' = 0
         /\ Stale < MaxOutage \/ (world'.sensor /\ world'.service = "ok")
         /\ UNCHANGED <<monitor, publisher, call, suspended, told, owed, age>>
<1>1. /\ world' \in Worlds /\ calm' = 0
      /\ UNCHANGED <<monitor, publisher, call, suspended, told, owed, age>>
  BY DEF WorldChanges, Worlds
<1>2. TypeOK'
  BY <1>1, Constants DEF TypeOK
<1>3. QED
  BY <1>1, <1>2 DEF WorldChanges, CallOK

LEMMA TickDoes ==
  ASSUME TypeOK, CallOK, Tick
  PROVE  /\ TypeOK' /\ CallOK'
         /\ \/ call.sent /\ call.spent < Timeout
            \/ call.at = "idle" /\ ~suspended /\ monitor.step = 0
            \/ call.at = "idle" /\ suspended
               /\ (monitor.step # None => monitor.step < MaxSuspension)
         /\ Healthy \/ Stale < MaxOutage
         /\ UNCHANGED <<suspended, world, told>>
         /\ monitor'.step = Later(monitor.step) /\ monitor'.sample = Later(monitor.sample)
         /\ monitor'.published = Later(monitor.published)
         /\ monitor'.attempt = Later(monitor.attempt)
         /\ monitor'.report = Later(monitor.report) /\ monitor'.sensor = monitor.sensor
         /\ publisher'.notBefore = Later(publisher.notBefore)
         /\ \A f \in Files :
              /\ publisher'.backoff[f].since = Later(publisher.backoff[f].since)
              /\ publisher'.backoff[f].delay = publisher.backoff[f].delay
              /\ owed'.file[f] = Sooner(owed.file[f])
         /\ owed'.shared = Sooner(owed.shared)
         /\ call'.at = call.at /\ call'.report = call.report /\ call'.sent = call.sent
         /\ call'.start = IF call.at = "idle" THEN call.start ELSE call.start + 1
         /\ call'.spent = IF call.at = "idle" THEN call.spent ELSE call.spent + 1
         /\ age'.published = Older(age.published) /\ age'.report = Older(age.report)
         /\ calm' = IF Healthy THEN MinOf(calm + 1, Patience) ELSE 0
<1>1. /\ monitor \in Monitors
      /\ publisher \in [backoff : [Files -> Backoffs], notBefore : Ticks]
      /\ call \in Calls /\ calm \in 0 .. Patience
      /\ owed \in [shared : 0 .. (Half - 1), file : [Files -> 0 .. (Half - 1)]]
      /\ age \in [published : 0 .. Half, report : 0 .. Half]
  BY DEF TypeOK
<1>2. /\ \/ call.sent /\ call.spent < Timeout
         \/ call.at = "idle" /\ ~suspended /\ monitor.step = 0
         \/ call.at = "idle" /\ suspended
            /\ (monitor.step # None => monitor.step < MaxSuspension)
      /\ Healthy \/ Stale < MaxOutage
      /\ UNCHANGED <<suspended, world, told>>
      /\ calm' = IF Healthy THEN MinOf(calm + 1, Patience) ELSE 0
  BY DEF Tick, CallOK
<1>3. /\ monitor' \in Monitors
      /\ monitor'.step = Later(monitor.step) /\ monitor'.sample = Later(monitor.sample)
      /\ monitor'.published = Later(monitor.published)
      /\ monitor'.attempt = Later(monitor.attempt)
      /\ monitor'.report = Later(monitor.report) /\ monitor'.sensor = monitor.sensor
  <2>1. monitor' = [k \in {"step", "sample", "published", "attempt", "report", "sensor"} |->
                      IF k = "sensor" THEN monitor[k] ELSE Later(monitor[k])]
    BY <1>1 DEF Tick, Monitors
  <2>2. /\ monitor'.step = Later(monitor.step) /\ monitor'.sample = Later(monitor.sample)
        /\ monitor'.published = Later(monitor.published)
        /\ monitor'.attempt = Later(monitor.attempt)
        /\ monitor'.report = Later(monitor.report) /\ monitor'.sensor = monitor.sensor
    BY <2>1
  <2>3. monitor' = [step |-> Later(monitor.step), sample |-> Later(monitor.sample),
                    published |-> Later(monitor.published), attempt |-> Later(monitor.attempt),
                    report |-> Later(monitor.report), sensor |-> monitor.sensor]
    BY <2>1
  <2>4. /\ Later(monitor.step) \in Ticks /\ Later(monitor.sample) \in Ticks
        /\ Later(monitor.published) \in Ticks /\ Later(monitor.attempt) \in Ticks
        /\ Later(monitor.report) \in Ticks /\ monitor.sensor \in Sensed
    BY <1>1, LaterMark DEF Monitors
  <2>5. QED
    BY <2>2, <2>3, <2>4 DEF Monitors
<1>4. /\ publisher' \in [backoff : [Files -> Backoffs], notBefore : Ticks]
      /\ publisher'.notBefore = Later(publisher.notBefore)
      /\ \A f \in Files : /\ publisher'.backoff[f].since = Later(publisher.backoff[f].since)
                          /\ publisher'.backoff[f].delay = publisher.backoff[f].delay
  <2>1. publisher' = [backoff |-> [f \in Files |->
                                     [publisher.backoff[f] EXCEPT !.since = Later(@)]],
                      notBefore |-> Later(publisher.notBefore)]
    BY DEF Tick
  <2>2. ASSUME NEW f \in Files
        PROVE  /\ [publisher.backoff[f] EXCEPT !.since = Later(@)] \in Backoffs
               /\ [publisher.backoff[f] EXCEPT !.since = Later(@)].since
                    = Later(publisher.backoff[f].since)
               /\ [publisher.backoff[f] EXCEPT !.since = Later(@)].delay
                    = publisher.backoff[f].delay
    <3>1. publisher.backoff[f] \in Backoffs /\ publisher.backoff[f].since \in Ticks
      BY <1>1 DEF Backoffs
    <3>2. Later(publisher.backoff[f].since) \in Ticks
      BY <3>1, LaterMark
    <3>3. QED
      BY <3>1, <3>2 DEF Backoffs
  <2>3. Later(publisher.notBefore) \in Ticks
    BY <1>1, LaterMark
  <2>4. QED
    BY <2>1, <2>2, <2>3
<1>5. /\ call' \in Calls
      /\ call'.at = call.at /\ call'.report = call.report /\ call'.sent = call.sent
      /\ call'.start = IF call.at = "idle" THEN call.start ELSE call.start + 1
      /\ call'.spent = IF call.at = "idle" THEN call.spent ELSE call.spent + 1
  <2>1. CASE call.at = "idle"
    BY <1>1, <2>1 DEF Tick
  <2>2. CASE call.at # "idle"
    <3>1. call' = [call EXCEPT !.start = @ + 1, !.spent = @ + 1]
      BY <2>2 DEF Tick
    <3>2. call.start + 1 \in Nat /\ call.spent + 1 \in Nat
      BY <1>1 DEF Calls
    <3>3. call' \in Calls
      BY <1>1, <3>1, <3>2 DEF Calls
    <3>4. call'.at = call.at /\ call'.start = call.start + 1 /\ call'.spent = call.spent + 1
      BY <1>1, <3>1, <3>2 DEF Calls
    <3>5. call'.report = call.report /\ call'.sent = call.sent
      BY <1>1, <3>1, Zenon DEF Calls
    <3>6. QED
      BY <2>2, <3>3, <3>4, <3>5
  <2>3. QED
    BY <2>1, <2>2
<1>6. /\ owed' \in [shared : 0 .. (Half - 1), file : [Files -> 0 .. (Half - 1)]]
      /\ owed'.shared = Sooner(owed.shared)
      /\ \A f \in Files : owed'.file[f] = Sooner(owed.file[f])
  <2>1. \A n \in 0 .. (Half - 1) : Sooner(n) \in 0 .. (Half - 1)
    BY Constants DEF Sooner, MaxOf
  <2>2. owed' = [shared |-> Sooner(owed.shared),
                 file |-> [f \in Files |-> Sooner(owed.file[f])]]
    BY DEF Tick
  <2>3. QED
    BY <1>1, <2>1, <2>2
<1>7. /\ age' \in [published : 0 .. Half, report : 0 .. Half]
      /\ age'.published = Older(age.published) /\ age'.report = Older(age.report)
  <2>1. \A n \in 0 .. Half : Older(n) \in 0 .. Half
    BY Constants DEF Older, MinOf
  <2>2. age' = [k \in {"published", "report"} |-> Older(age[k])]
    BY <1>1 DEF Tick
  <2>3. age' = [published |-> Older(age.published), report |-> Older(age.report)]
    BY <2>2
  <2>4. QED
    BY <1>1, <2>1, <2>3
<1>8. calm' \in 0 .. Patience
  BY <1>1, <1>2, Constants DEF MinOf
<1>9. TypeOK'
  BY <1>2, <1>3, <1>4, <1>5, <1>6, <1>7, <1>8 DEF TypeOK
<1>10. CallOK'
  <2>1. call.at # "idle" => call.sent /\ call.spent < Timeout
    BY <1>2 DEF CallOK
  <2>2. QED
    BY <1>1, <1>2, <1>5, <2>1, Constants DEF CallOK, Calls
<1>11. QED
  BY <1>2, <1>3, <1>4, <1>5, <1>6, <1>7, <1>9, <1>10

-----------------------------------------------------------------------------
\* The marks of the publisher say how long a file has to wait: the cooldown
\* ends when notBefore comes round to 0, a backoff when it is as old as its
\* delay.
Waits ==
  /\ owed.shared > 0 => publisher.notBefore = Period - owed.shared
  /\ call.sent => publisher.notBefore = None
  /\ \A f \in Files : owed.file[f] > 0 =>
       /\ publisher.backoff[f].since # None
       /\ publisher.backoff[f].since + owed.file[f] = publisher.backoff[f].delay

BaseInv == TypeOK /\ CallOK /\ Waits

\* So what is owed holds a file back.
LEMMA OwedHoldsBack ==
  ASSUME TypeOK, Waits, NEW f \in Files, ~InBackoff(f), ~CoolingDown
  PROVE  owed.shared = 0 /\ owed.file[f] = 0
<1>1. /\ publisher.notBefore \in Ticks /\ owed.shared \in 0 .. (Half - 1)
      /\ publisher.backoff[f] \in Backoffs /\ owed.file[f] \in 0 .. (Half - 1)
  BY DEF TypeOK
<1>2. owed.shared = 0
  <2>1. SUFFICES ASSUME owed.shared > 0 PROVE FALSE
    BY <1>1
  <2>2. publisher.notBefore = Period - owed.shared
    BY <2>1 DEF Waits
  <2>3. publisher.notBefore \in Int /\ Elapsed(publisher.notBefore) < 0
    BY <1>1, <2>1, <2>2, Constants DEF Elapsed
  <2>4. QED
    BY <2>3, Constants DEF CoolingDown
<1>3. owed.file[f] = 0
  <2>1. SUFFICES ASSUME owed.file[f] > 0 PROVE FALSE
    BY <1>1
  <2>2. /\ publisher.backoff[f].since # None
        /\ publisher.backoff[f].since + owed.file[f] = publisher.backoff[f].delay
    BY <2>1 DEF Waits
  <2>3. /\ publisher.backoff[f].since \in 0 .. (Period - 1)
        /\ publisher.backoff[f].delay \in 0 .. (Half - 1)
    BY <1>1, <2>2 DEF Backoffs, Ticks
  <2>4. Elapsed(publisher.backoff[f].since) < publisher.backoff[f].delay
    BY <1>1, <2>1, <2>2, <2>3, Constants DEF Elapsed
  <2>5. QED
    BY <2>2, <2>4 DEF InBackoff
<1>4. QED
  BY <1>2, <1>3

LEMMA BaseInit == Init => BaseInv
<1> SUFFICES ASSUME Init PROVE BaseInv
  OBVIOUS
<1>1. NoFailure \in Backoffs
  BY Constants DEF NoFailure, Backoffs, Ticks
<1>2. TypeOK
  <2>1. monitor \in Monitors /\ told \in Sensed
    BY DEF Init, Monitors, Ticks, Sensed
  <2>2. publisher \in [backoff : [Files -> Backoffs], notBefore : Ticks]
    BY <1>1 DEF Init, FreshPublisher, Ticks
  <2>3. call \in Calls /\ suspended \in BOOLEAN /\ world \in Worlds
    BY NoCallType DEF Init, Worlds
  <2>4. /\ owed \in [shared : 0 .. (Half - 1), file : [Files -> 0 .. (Half - 1)]]
        /\ age \in [published : 0 .. Half, report : 0 .. Half] /\ calm \in 0 .. Patience
    BY Constants DEF Init
  <2>5. QED
    BY <2>1, <2>2, <2>3, <2>4 DEF TypeOK
<1>3. CallOK /\ Waits
  BY NoCallType, Constants DEF Init, CallOK, Waits, Files, Temperature, Diagnostics
<1>4. QED
  BY <1>2, <1>3 DEF BaseInv

LEMMA AcceptedWaits == ASSUME BaseInv, Accepted PROVE Waits'
<1>1. TypeOK /\ CallOK /\ Waits
  BY DEF BaseInv
<1>2. /\ call.at \in Files /\ call.sent /\ ~call'.sent /\ owed'.shared = owed.shared
      /\ publisher'.notBefore = publisher.notBefore
      /\ \A f \in Files :
           /\ publisher'.backoff[f] = IF f = call.at THEN NoFailure ELSE publisher.backoff[f]
           /\ owed'.file[f] = IF f = call.at THEN 0 ELSE owed.file[f]
  BY <1>1, AcceptedDoes
<1>3. QED
  BY <1>1, <1>2 DEF Waits

LEMMA FailureWaits == ASSUME BaseInv, RateLimited \/ Fails PROVE Waits'
<1>1. TypeOK /\ CallOK /\ Waits
  BY DEF BaseInv
<1>2. call.sent /\ ~call'.sent /\ call.at \in Files
  BY <1>1, RequestFailsDoes DEF Rejected
<1>3. PICK least \in 0 .. LongestWait : Failure(call.at, least)
  BY <1>1, RequestFailsDoes
<1>4. owed.shared = 0
  <2>1. owed.shared \in 0 .. (Half - 1) /\ publisher.notBefore = None
    BY <1>1, <1>2 DEF Waits, TypeOK
  <2>2. QED
    BY <1>1, <2>1, Constants DEF Waits
<1>5. owed'.shared > 0 => publisher'.notBefore = Period - owed'.shared
  BY <1>3, <1>4, LongestWaitType, Constants DEF Failure, MaxOf
<1>6. ASSUME NEW f \in Files, owed'.file[f] > 0
      PROVE  /\ publisher'.backoff[f].since # None
             /\ publisher'.backoff[f].since + owed'.file[f] = publisher'.backoff[f].delay
  <2>1. CASE f = call.at
    <3>1. /\ publisher'.backoff[f].since = 0 /\ publisher'.backoff[f].delay = owed'.file[f]
      BY <1>3, <2>1 DEF Failure
    <3>2. TypeOK'
      BY <1>1, RequestFailsDoes
    <3>3. owed'.file[f] \in Nat
      BY <3>2, Constants DEF TypeOK
    <3>4. QED
      BY <3>1, <3>3, Constants
  <2>2. CASE f # call.at
    BY <1>1, <1>3, <1>6, <2>2 DEF Failure, Waits
  <2>3. QED
    BY <2>1, <2>2
<1>7. QED
  BY <1>2, <1>5, <1>6 DEF Waits

LEMMA TickWaits == ASSUME BaseInv, Tick PROVE Waits'
<1>1. TypeOK /\ CallOK /\ Waits
  BY DEF BaseInv
<1>2. /\ owed'.shared = Sooner(owed.shared) /\ call'.sent = call.sent
      /\ publisher'.notBefore = Later(publisher.notBefore)
      /\ \A f \in Files :
           /\ publisher'.backoff[f].since = Later(publisher.backoff[f].since)
           /\ publisher'.backoff[f].delay = publisher.backoff[f].delay
           /\ owed'.file[f] = Sooner(owed.file[f])
  BY <1>1, TickDoes
<1>3. /\ publisher.notBefore \in Ticks /\ owed.shared \in 0 .. (Half - 1)
  BY <1>1 DEF TypeOK
<1>4. owed'.shared > 0 => publisher'.notBefore = Period - owed'.shared
  <2>1. SUFFICES ASSUME owed'.shared > 0 PROVE publisher'.notBefore = Period - owed'.shared
    OBVIOUS
  <2>2. owed.shared > 1 /\ owed'.shared = owed.shared - 1
    BY <1>2, <1>3, <2>1 DEF Sooner, MaxOf
  <2>3. publisher.notBefore = Period - owed.shared
    BY <1>1, <1>3, <2>2 DEF Waits
  <2>4. publisher.notBefore # None /\ publisher.notBefore # Period - 1
    BY <1>3, <2>2, <2>3, Constants
  <2>5. QED
    BY <1>2, <1>3, <2>2, <2>3, <2>4, LaterMark, Constants
<1>5. call'.sent => publisher'.notBefore = None
  BY <1>1, <1>2, <1>3, LaterMark DEF Waits
<1>6. ASSUME NEW f \in Files, owed'.file[f] > 0
      PROVE  /\ publisher'.backoff[f].since # None
             /\ publisher'.backoff[f].since + owed'.file[f] = publisher'.backoff[f].delay
  <2>1. /\ publisher.backoff[f] \in Backoffs /\ owed.file[f] \in 0 .. (Half - 1)
    BY <1>1 DEF TypeOK
  <2>2. owed.file[f] > 1 /\ owed'.file[f] = owed.file[f] - 1
    BY <1>2, <1>6, <2>1 DEF Sooner, MaxOf
  <2>3. /\ publisher.backoff[f].since # None
        /\ publisher.backoff[f].since + owed.file[f] = publisher.backoff[f].delay
    BY <1>1, <2>1, <2>2 DEF Waits
  <2>4. /\ publisher.backoff[f].since \in Ticks
        /\ publisher.backoff[f].since \in 0 .. (Period - 1)
        /\ publisher.backoff[f].delay \in 0 .. (Half - 1)
    BY <2>1, <2>3 DEF Backoffs, Ticks
  <2>5. publisher.backoff[f].since # Period - 1
    BY <2>1, <2>2, <2>3, <2>4, Constants
  <2>6. publisher'.backoff[f].since = publisher.backoff[f].since + 1
    BY <1>2, <2>3, <2>4, <2>5, LaterMark
  <2>7. publisher'.backoff[f].since # None
    BY <2>4, <2>6, Constants
  <2>8. (publisher.backoff[f].since + 1) + (owed.file[f] - 1) = publisher.backoff[f].delay
    BY <2>1, <2>3, <2>4
  <2>9. QED
    BY <1>2, <2>2, <2>6, <2>7, <2>8
<1>7. QED
  BY <1>4, <1>5, <1>6 DEF Waits

LEMMA BaseStep == ASSUME BaseInv, [Next]_vars PROVE BaseInv'
<1>1. TypeOK /\ CallOK /\ Waits
  BY DEF BaseInv
<1>2. CASE StepRests
  BY <1>1, <1>2, StepRestsDoes DEF Stepped, Waits, BaseInv
<1>3. CASE StepSamples
  BY <1>1, <1>3, StepSamplesDoes DEF Stepped, Waits, BaseInv
<1>4. CASE HoldBack
  BY <1>1, <1>4, HoldBackDoes DEF Rejected, Waits, BaseInv
<1>5. CASE Send
  <2>1. /\ TypeOK' /\ CallOK' /\ call.at \in Files /\ ~InBackoff(call.at) /\ ~CoolingDown
        /\ publisher'.backoff = publisher.backoff /\ publisher'.notBefore = None
        /\ owed' = owed
    BY <1>1, <1>5, SendDoes
  <2>2. owed.shared = 0
    BY <1>1, <2>1, OwedHoldsBack
  <2>3. QED
    BY <1>1, <2>1, <2>2 DEF Waits, BaseInv
<1>6. CASE Accepted
  BY <1>1, <1>6, AcceptedDoes, AcceptedWaits DEF BaseInv
<1>7. CASE RateLimited \/ Fails
  BY <1>1, <1>7, RequestFailsDoes, FailureWaits DEF BaseInv
<1>8. CASE Suspend \/ Resume
  BY <1>1, <1>8, SuspensionDoes DEF Waits, BaseInv
<1>9. CASE TakeTrialSample
  BY <1>1, <1>9, TakeTrialSampleDoes DEF Waits, BaseInv
<1>10. CASE ReplacePublisher
  BY <1>1, <1>10, ReplacePublisherDoes DEF Waits, BaseInv
<1>11. CASE WorldChanges
  BY <1>1, <1>11, WorldChangesDoes DEF Waits, BaseInv
<1>12. CASE Tick
  BY <1>1, <1>12, TickDoes, TickWaits DEF BaseInv
<1>13. CASE UNCHANGED vars
  BY <1>1, <1>13 DEF vars, TypeOK, CallOK, Waits, BaseInv
<1>14. QED
  BY <1>2, <1>3, <1>4, <1>5, <1>6, <1>7, <1>8, <1>9, <1>10, <1>11, <1>12, <1>13
     DEF Next, Step, Request

\* The marks, delays and debts stay in range: a failure never escalates beyond
\* the limits of _failed, nor does a call outlast its requests' timeouts.
THEOREM PublicationType == Spec => [](TypeOK /\ CallOK)
<1>1. BaseInv => TypeOK /\ CallOK
  BY DEF BaseInv
<1>2. QED
  BY <1>1, BaseInit, BaseStep, PTL DEF Spec

\* Whatever the intervals, no request leaves the device before its file's
\* backoff and the shared cooldown have run out.
THEOREM BackoffsAreKept == Spec => RequestsWait
<1>1. BaseInv /\ [Next]_vars => [Send => owed.shared = 0 /\ owed.file[call.at] = 0]_vars
  <2>1. ASSUME BaseInv, Send PROVE owed.shared = 0 /\ owed.file[call.at] = 0
    <3>1. TypeOK /\ CallOK /\ Waits
      BY <2>1 DEF BaseInv
    <3>2. call.at \in Files /\ ~InBackoff(call.at) /\ ~CoolingDown
      BY <2>1, <3>1, SendDoes
    <3>3. QED
      BY <3>1, <3>2, OwedHoldsBack
  <2>2. QED
    BY <2>1
<1>2. QED
  BY <1>1, BaseInit, BaseStep, PTL DEF Spec, RequestsWait
-----------------------------------------------------------------------------
\* For how long the sensor and GitHub have been well at least: what the phone
\* sees gets older than MaxOutage only then.
WellOf(c, a, r) == MaxOf(c, MaxOf(a, r) - MaxOutage)
WellFor == WellOf(calm, age.published, age.report)

Well ==
  /\ WellFor > 0 => world.sensor /\ world.service = "ok"
  /\ calm > 0 => ~suspended

\* Marks are true ages, a sample is at most one interval older than the last
\* step, and a publication that is being tried again is still due.
Marked ==
  /\ monitor.published # None => monitor.published = age.published
  /\ monitor.report # None => monitor.report = age.report
  /\ monitor.step = None =>
       /\ monitor.sample = None /\ monitor.published = None /\ monitor.attempt = None
       /\ monitor.report = None
       /\ call.at = "idle" /\ WellFor = 0
  /\ monitor.step # None =>
       /\ monitor.sample # None /\ monitor.sample <= SampleInterval - 1 + monitor.step
       /\ monitor.step <= MaxOf(MaxSuspension, 2 * Timeout)
       /\ WellFor > 0 => monitor.step <= 2 * Timeout
  /\ monitor.attempt # None =>
       /\ monitor.attempt = monitor.sample
       /\ monitor.published = None \/ age.published >= PublicationInterval
  /\ monitor.attempt = None /\ monitor.step # None => monitor.published # None
  /\ call.at # "idle" => monitor.step = call.start /\ call.start <= age.report
  /\ call.at = Temperature =>
       /\ monitor.attempt = call.start /\ call.start <= age.published
       /\ monitor.sensor = "ok"

OwnAge(f) == IF f = Temperature THEN age.published ELSE age.report

\* What is owed shrinks while all is well, and once nothing is, nothing holds
\* a file back; and it was held back because something went wrong since.
Backed ==
  /\ owed.shared > 0 => owed.shared + WellFor <= LongestWait
  /\ publisher.notBefore # None =>
       /\ calm <= age.published /\ calm <= age.report
       /\ owed.shared = 0 =>
            publisher.notBefore <= age.published /\ publisher.notBefore <= age.report
  /\ \A f \in Files :
       /\ owed.file[f] > 0 => owed.file[f] + WellFor <= LongestWait
       /\ publisher.backoff[f].since # None =>
            /\ calm <= publisher.backoff[f].since /\ publisher.backoff[f].since <= OwnAge(f)
            /\ publisher.backoff[f].since + owed.file[f] >= publisher.backoff[f].delay

\* A publication is at most one interval old when a step finds it not due;
\* one that is late was last tried at the last sample, and did not succeed.
Published ==
  /\ monitor.attempt # None /\ call.at # Temperature =>
       WellFor <= LongestWait - 1 + monitor.sample
  /\ monitor.attempt = None /\ monitor.step # None =>
       \/ age.published = monitor.step
       \/ /\ age.published <= PublicationInterval - 1 + monitor.step
          /\ monitor.step <= Timeout \/ WellFor = 0
          /\ call.at # "idle" => call.start = call.spent
  /\ call.at = Temperature =>
       \/ age.published <= PublicationInterval - 1 + Timeout + call.start
       \/ WellFor <= LongestWait + SampleInterval - 2 + 2 * Timeout + call.start

\* The same of the report, which the temperature's request may delay.
Reported ==
  /\ call.at = "idle" /\ monitor.step # None =>
       \/ age.report = monitor.step
       \/ /\ age.report <= Heartbeat - 1 + monitor.step
          /\ \/ monitor.step <= 1 \/ WellFor = 0
             \/ /\ monitor.attempt = None /\ age.published = monitor.step
                /\ monitor.step <= Timeout
       \/ WellFor <= LongestWait - 1 + MinOf(monitor.step, 1)
  /\ call.at # "idle" =>
       \/ age.report <= Heartbeat - 1 + call.start
       \/ /\ call.report
          /\ \/ age.report <= Heartbeat + call.start
             \/ /\ call.at = Diagnostics /\ call.start = call.spent
                /\ age.report <= Heartbeat - 1 + Timeout + call.start
             \/ WellFor <= LongestWait + call.start

\* A sensor that is not known to read was seen failing at the last sample, and
\* a state that is not told is being reported, or its report was lost to
\* something that went wrong since.
Told ==
  /\ monitor.sensor # "ok" =>
       /\ monitor.sample = None => calm = 0
       /\ monitor.sample # None => calm <= monitor.sample
       /\ monitor.step # None => monitor.step <= Timeout \/ calm = 0
       /\ call.at # "idle" => call.start = call.spent
  /\ monitor.sensor = "ok" /\ told # "ok" =>
       \/ calm <= age.report
       \/ /\ call.at # "idle" /\ call.report
          /\ calm <= SampleInterval - 1 + Timeout + call.start

IInv == Well /\ Marked /\ Backed /\ Published /\ Reported /\ Told

-----------------------------------------------------------------------------
LEMMA TimelyBounds ==
  ASSUME Timely
  PROVE  /\ Timeout \in Nat /\ Timeout >= 1 /\ Timeout < PublicationInterval
         /\ 2 * Timeout <= Heartbeat
         /\ LongestWait \in Nat /\ LongestWait >= 1 /\ LongestWait < Half
         /\ Patience >= LongestWait + SampleInterval + 3 * Timeout - 1
         /\ Patience > Heartbeat + 2 * Timeout
         /\ PublicationInterval + 2 * Timeout < Half /\ Heartbeat + 2 * Timeout < Half
         /\ MaxOutage + LongestWait + SampleInterval + 3 * Timeout <= Half
         /\ SampleInterval + MaxSuspension <= Half
BY Constants, LongestWaitType DEF Timely, MaxOf

LEMMA Numbers ==
  ASSUME TypeOK
  PROVE  /\ age.published \in 0 .. Half /\ age.report \in 0 .. Half /\ calm \in 0 .. Patience
         /\ monitor.step \in Ticks /\ monitor.sample \in Ticks /\ monitor.published \in Ticks
         /\ monitor.attempt \in Ticks /\ monitor.report \in Ticks /\ monitor.sensor \in Sensed
         /\ call.at \in {"idle", Temperature, Diagnostics}
         /\ call.start \in Nat /\ call.spent \in Nat
         /\ publisher.notBefore \in Ticks /\ owed.shared \in 0 .. (Half - 1)
         /\ \A f \in Files : /\ owed.file[f] \in 0 .. (Half - 1)
                             /\ publisher.backoff[f].since \in Ticks
                             /\ publisher.backoff[f].delay \in 0 .. (Half - 1)
<1>1. /\ monitor \in Monitors /\ call \in Calls
      /\ publisher \in [backoff : [Files -> Backoffs], notBefore : Ticks]
      /\ owed \in [shared : 0 .. (Half - 1), file : [Files -> 0 .. (Half - 1)]]
      /\ age \in [published : 0 .. Half, report : 0 .. Half] /\ calm \in 0 .. Patience
  BY DEF TypeOK
<1>2. \A f \in Files : publisher.backoff[f] \in Backoffs
  BY <1>1
<1>3. QED
  BY <1>1, <1>2 DEF Monitors, Calls, Backoffs, Files

\* Ages and calm that do not grow do not make it longer that all is well, and
\* a tick makes it one longer at most.
LEMMA WellOfGrows ==
  ASSUME NEW c \in Nat, NEW a \in Nat, NEW r \in Nat,
         NEW c2 \in Nat, NEW a2 \in Nat, NEW r2 \in Nat, NEW n \in {0, 1},
         c2 <= c + n, a2 <= a + n, r2 <= r + n
  PROVE  WellOf(c2, a2, r2) <= WellOf(c, a, r) + n
BY Constants DEF WellOf, MaxOf

LEMMA WellOfRange ==
  ASSUME NEW c \in Nat, NEW a \in Nat, NEW r \in Nat
  PROVE  /\ WellOf(c, a, r) \in Nat /\ c <= WellOf(c, a, r)
         /\ a <= MaxOutage + WellOf(c, a, r) /\ r <= MaxOutage + WellOf(c, a, r)
         /\ WellOf(c, a, r) > 0 => c > 0 \/ a > MaxOutage \/ r > MaxOutage
BY Constants DEF WellOf, MaxOf

LEMMA WellForRange ==
  ASSUME TypeOK
  PROVE  /\ WellFor \in Nat /\ calm <= WellFor
         /\ age.published <= MaxOutage + WellFor /\ age.report <= MaxOutage + WellFor
         /\ WellFor > 0 => calm > 0 \/ age.published > MaxOutage \/ age.report > MaxOutage
<1>1. calm \in Nat /\ age.published \in Nat /\ age.report \in Nat
  BY Numbers, Constants
<1>2. QED
  BY <1>1, WellOfRange DEF WellFor

LEMMA StepBounded ==
  ASSUME Timely, TypeOK, CallOK, IInv, monitor.step # None
  PROVE  /\ monitor.step \in 0 .. (Half - 1) /\ monitor.sample \in 0 .. (Half - 1)
         /\ monitor.sample <= SampleInterval - 1 + monitor.step
         /\ WellFor > 0 => monitor.step <= 2 * Timeout
<1>1. /\ monitor.sample # None /\ monitor.sample <= SampleInterval - 1 + monitor.step
      /\ monitor.step <= MaxOf(MaxSuspension, 2 * Timeout)
      /\ WellFor > 0 => monitor.step <= 2 * Timeout
  BY DEF IInv, Marked
<1>2. monitor.step \in 0 .. (Period - 1) /\ monitor.sample \in 0 .. (Period - 1)
  BY <1>1, Numbers DEF Ticks
<1>3. monitor.step <= MaxSuspension \/ monitor.step <= 2 * Timeout
  BY <1>1, <1>2, Constants DEF MaxOf
<1>4. QED
  BY <1>1, <1>2, <1>3, Constants, TimelyBounds

\* What the phone sees never gets as old as half the period.
LEMMA AgesBounded ==
  ASSUME Timely, TypeOK, CallOK, IInv
  PROVE  /\ age.published \in 0 .. (Half - 1) /\ age.report \in 0 .. (Half - 1)
<1>1. /\ age.published \in Nat /\ age.report \in Nat /\ WellFor \in Nat
      /\ age.published <= MaxOutage + WellFor /\ age.report <= MaxOutage + WellFor
      /\ call.start \in Nat /\ call.spent \in Nat
      /\ call.at \in {"idle", Temperature, Diagnostics}
  BY Numbers, WellForRange, Constants
<1>2. call.start <= 2 * Timeout /\ (call.start = call.spent => call.start <= Timeout)
  BY <1>1, Constants DEF CallOK
<1>3. ASSUME WellFor <= LongestWait + SampleInterval - 2 + 3 * Timeout
      PROVE  age.published < Half /\ age.report < Half
  BY <1>1, <1>3, TimelyBounds, Constants
<1>4. CASE monitor.step = None
  <2>1. WellFor = 0
    BY <1>4 DEF IInv, Marked
  <2>2. QED
    BY <1>1, <1>3, <2>1, TimelyBounds, Constants
<1>5. CASE monitor.step # None
  <2>0. /\ monitor.step \in 0 .. (Half - 1) /\ monitor.sample \in 0 .. (Half - 1)
        /\ monitor.sample <= SampleInterval - 1 + monitor.step
        /\ WellFor > 0 => monitor.step <= 2 * Timeout
    BY <1>5, StepBounded
  <2>1. SUFFICES ASSUME WellFor > LongestWait + SampleInterval - 2 + 3 * Timeout
                 PROVE  age.published < Half /\ age.report < Half
    BY <1>1, <1>3, TimelyBounds, Constants
  <2>2. WellFor > 0 /\ monitor.step <= 2 * Timeout
    BY <1>1, <2>0, <2>1, TimelyBounds, Constants
  <2>3. age.published < Half
    <3>1. CASE call.at = Temperature
      <4>1. call.start <= Timeout
        BY <1>2, <3>1 DEF CallOK
      <4>2. \/ age.published <= PublicationInterval - 1 + Timeout + call.start
            \/ WellFor <= LongestWait + SampleInterval - 2 + 2 * Timeout + call.start
        BY <3>1 DEF IInv, Published
      <4>3. QED
        BY <1>1, <2>1, <4>1, <4>2, TimelyBounds, Constants
    <3>2. CASE call.at # Temperature /\ monitor.attempt # None
      <4>1. WellFor <= LongestWait - 1 + monitor.sample
        BY <3>2 DEF IInv, Published
      <4>2. QED
        BY <1>1, <2>0, <2>1, <2>2, <4>1, TimelyBounds, Constants
    <3>3. CASE monitor.attempt = None
      <4>1. \/ age.published = monitor.step
            \/ age.published <= PublicationInterval - 1 + monitor.step /\ monitor.step <= Timeout
        BY <1>5, <2>2, <3>3 DEF IInv, Published
      <4>2. QED
        BY <1>1, <2>0, <2>2, <4>1, TimelyBounds, Constants
    <3>4. QED
      BY <3>1, <3>2, <3>3
  <2>4. age.report < Half
    <3>1. CASE call.at = "idle"
      <4>1. \/ age.report = monitor.step
            \/ age.report <= Heartbeat - 1 + monitor.step
            \/ WellFor <= LongestWait - 1 + MinOf(monitor.step, 1)
        BY <1>5, <3>1 DEF IInv, Reported
      <4>2. MinOf(monitor.step, 1) <= 1
        BY <2>0 DEF MinOf
      <4>3. QED
        BY <1>1, <2>0, <2>1, <2>2, <4>1, <4>2, TimelyBounds, Constants DEF MinOf
    <3>2. CASE call.at # "idle"
      <4>1. \/ age.report <= Heartbeat - 1 + call.start
            \/ age.report <= Heartbeat + call.start
            \/ call.start = call.spent /\ age.report <= Heartbeat - 1 + Timeout + call.start
            \/ WellFor <= LongestWait + call.start
        BY <3>2 DEF IInv, Reported
      <4>2. QED
        BY <1>1, <1>2, <2>1, <4>1, TimelyBounds, Constants
    <3>3. QED
      BY <3>1, <3>2
  <2>5. QED
    BY <2>3, <2>4
<1>6. QED
  BY <1>1, <1>4, <1>5, Constants

\* So the code reads its marks as the true ages.
LEMMA DueAges ==
  ASSUME Timely, TypeOK, CallOK, IInv
  PROVE  /\ PublicationDue
              <=> monitor.published = None \/ age.published >= PublicationInterval
         /\ ReportDue <=> monitor.report = None \/ age.report >= Heartbeat
         /\ SampleDue <=> monitor.sample = None \/ monitor.sample >= SampleInterval
         /\ RetryDue <=> monitor.attempt = None \/ SampleDue
         /\ monitor.sample # None => monitor.sample \in 0 .. (Half - 1)
<1>1. age.published \in 0 .. (Half - 1) /\ age.report \in 0 .. (Half - 1)
  BY AgesBounded
<1>2. monitor.sample # None => monitor.sample \in 0 .. (Half - 1)
  <2>1. monitor.sample # None => monitor.step # None
    BY DEF IInv, Marked
  <2>2. QED
    BY <2>1, StepBounded
<1>3. /\ monitor.published # None => monitor.published = age.published
      /\ monitor.report # None => monitor.report = age.report
      /\ monitor.attempt # None => monitor.attempt = monitor.sample
      /\ monitor.attempt # None => monitor.sample # None
  BY DEF IInv, Marked
<1>4. /\ monitor.published # None => Elapsed(monitor.published) = age.published
      /\ monitor.report # None => Elapsed(monitor.report) = age.report
      /\ monitor.sample # None => Elapsed(monitor.sample) = monitor.sample
  BY <1>1, <1>2, <1>3, Constants DEF Elapsed
<1>5. QED
  BY <1>1, <1>2, <1>3, <1>4
     DEF PublicationDue, ReportDue, SampleDue, RetryDue, AtLeast

-----------------------------------------------------------------------------
\* Only a tick makes the time longer for which all has been well.
LEMMA WellShrinks ==
  ASSUME TypeOK, TypeOK', calm' <= calm, age'.published <= age.published,
         age'.report <= age.report
  PROVE  WellFor' <= WellFor /\ WellFor' \in Nat
<1>1. /\ calm \in Nat /\ age.published \in Nat /\ age.report \in Nat
      /\ calm' \in Nat /\ age'.published \in Nat /\ age'.report \in Nat
  BY Constants DEF TypeOK
<1>2. WellFor = WellOf(calm, age.published, age.report)
      /\ WellFor' = WellOf(calm', age'.published, age'.report)
  BY DEF WellFor
<1>3. WellFor' <= WellFor + 0
  <2>1. /\ calm' <= calm + 0 /\ age'.published <= age.published + 0
        /\ age'.report <= age.report + 0
    BY <1>1
  <2>2. WellOf(calm', age'.published, age'.report)
          <= WellOf(calm, age.published, age.report) + 0
    BY <1>1, <2>1, WellOfGrows
  <2>3. QED
    BY <1>2, <2>2
<1>4. WellFor \in Nat /\ WellFor' \in Nat
  BY <1>1, <1>2, WellOfRange
<1>5. QED
  BY <1>3, <1>4

\* A step that only restarts the count of calm.
LEMMA CalmKeeps ==
  ASSUME Timely, TypeOK, TypeOK', IInv, Well', calm' \in {calm, 0},
         UNCHANGED <<monitor, publisher, call, told, owed, age>>
  PROVE  IInv'
<1>1. calm \in Nat /\ calm' \in Nat /\ calm' <= calm
  BY Numbers, Constants
<1>2. WellFor \in Nat /\ WellFor' \in Nat /\ WellFor' <= WellFor
  BY <1>1, WellShrinks, WellForRange, Numbers, Constants
<1>3. /\ monitor.step \in Ticks /\ monitor.sample \in Ticks /\ age.published \in Nat
      /\ age.report \in Nat /\ call.start \in Nat
  BY Numbers, Constants
<1>4. Marked'
  BY <1>2 DEF IInv, Marked
<1>5. Backed'
  <2>1. owed.shared > 0 => owed.shared + WellFor' <= LongestWait
    BY <1>2, Numbers, LongestWaitType, Constants DEF IInv, Backed
  <2>2. publisher.notBefore # None =>
          /\ calm' <= age.published /\ calm' <= age.report
          /\ owed.shared = 0 =>
               publisher.notBefore <= age.published /\ publisher.notBefore <= age.report
    BY <1>1, <1>3 DEF IInv, Backed
  <2>3. ASSUME NEW f \in Files
        PROVE  /\ owed.file[f] > 0 => owed.file[f] + WellFor' <= LongestWait
               /\ publisher.backoff[f].since # None =>
                    /\ calm' <= publisher.backoff[f].since
                    /\ publisher.backoff[f].since <= OwnAge(f)
                    /\ publisher.backoff[f].since + owed.file[f] >= publisher.backoff[f].delay
    <3>1. owed.file[f] > 0 => owed.file[f] + WellFor' <= LongestWait
      BY <1>2, Numbers, LongestWaitType, Constants DEF IInv, Backed
    <3>2. publisher.backoff[f].since # None =>
            publisher.backoff[f].since \in Nat /\ calm <= publisher.backoff[f].since
      BY Numbers, Constants DEF IInv, Backed, Ticks
    <3>3. QED
      BY <1>1, <3>1, <3>2 DEF IInv, Backed
  <2>4. QED
    BY <2>1, <2>2, <2>3 DEF Backed, OwnAge
<1>6. Published'
  <2>1. monitor.attempt # None => monitor.sample \in Nat
    BY <1>3, Constants DEF IInv, Marked, Ticks
  <2>2. QED
    BY <1>2, <1>3, <2>1, TimelyBounds, Constants DEF IInv, Published
<1>7. Reported'
  <2>1. monitor.step # None => MinOf(monitor.step, 1) \in Nat
    BY <1>3, Constants DEF Ticks, MinOf
  <2>2. QED
    BY <1>2, <1>3, <2>1, TimelyBounds, Constants DEF IInv, Reported
<1>8. Told'
  <2>1. monitor.sample # None => monitor.sample \in Nat
    BY <1>3, Constants DEF Ticks
  <2>2. QED
    BY <1>1, <1>3, <2>1, TimelyBounds, Constants DEF IInv, Told
<1>9. QED
  BY <1>4, <1>5, <1>6, <1>7, <1>8 DEF IInv

LEMMA SuspensionKeeps ==
  ASSUME Timely, BaseInv, IInv, Suspend \/ Resume PROVE IInv'
<1>1. TypeOK /\ CallOK
  BY DEF BaseInv
<1>2. /\ TypeOK' /\ calm' \in {calm, 0}
      /\ UNCHANGED <<monitor, publisher, call, world, told, owed, age>>
      /\ suspended' => calm' = 0
  BY <1>1, SuspensionDoes
<1>3. WellFor' <= WellFor /\ WellFor' \in Nat /\ WellFor \in Nat /\ calm' \in Nat
  BY <1>1, <1>2, WellShrinks, WellForRange, Numbers, Constants
<1>4. Well'
  BY <1>2, <1>3 DEF IInv, Well
<1>5. QED
  BY <1>1, <1>2, <1>4, CalmKeeps

LEMMA WorldKeeps ==
  ASSUME Timely, BaseInv, IInv, WorldChanges PROVE IInv'
<1>1. TypeOK /\ CallOK
  BY DEF BaseInv
<1>2. /\ TypeOK' /\ calm' = 0
      /\ Stale < MaxOutage \/ (world'.sensor /\ world'.service = "ok")
      /\ UNCHANGED <<monitor, publisher, call, suspended, told, owed, age>>
  BY <1>1, WorldChangesDoes
<1>3. Stale < MaxOutage => WellFor' = 0
  BY <1>1, <1>2, Numbers, Constants DEF Stale, WellFor, WellOf, MaxOf
<1>4. Well'
  BY <1>2, <1>3 DEF Well
<1>5. QED
  BY <1>1, <1>2, <1>4, CalmKeeps

LEMMA TrialSampleKeeps ==
  ASSUME Timely, BaseInv, IInv, TakeTrialSample PROVE IInv'
<1>1. TypeOK /\ CallOK
  BY DEF BaseInv
<1>2. /\ TypeOK' /\ suspended /\ call.at = "idle"
      /\ UNCHANGED <<publisher, call, suspended, world, told, owed, age, calm>>
      /\ monitor'.step = monitor.step /\ monitor'.sample = monitor.sample
      /\ monitor'.published = monitor.published /\ monitor'.attempt = monitor.attempt
      /\ monitor'.report = monitor.report
  BY <1>1, TakeTrialSampleDoes
<1>3. WellFor' = WellFor /\ calm = 0
  BY <1>1, <1>2, Numbers, Constants DEF WellFor, IInv, Well
<1>4. Well' /\ Marked' /\ Published' /\ Reported'
  BY <1>2, <1>3, Constants DEF IInv, Well, Marked, Published, Reported, Temperature
<1>5. Backed'
  BY <1>2, <1>3 DEF IInv, Backed, OwnAge
<1>6. Told'
  <2>1. monitor.sample # None => calm <= monitor.sample
    BY <1>1, <1>3, Numbers, Constants DEF Ticks
  <2>2. calm <= age.report
    BY <1>1, <1>3, Numbers, Constants
  <2>3. QED
    BY <1>2, <1>3, <2>1, <2>2 DEF Told
<1>7. QED
  BY <1>4, <1>5, <1>6 DEF IInv

LEMMA ReplaceKeeps ==
  ASSUME Timely, BaseInv, IInv, ReplacePublisher PROVE IInv'
<1>1. TypeOK /\ CallOK
  BY DEF BaseInv
<1>2. /\ TypeOK'
      /\ UNCHANGED <<monitor, call, suspended, world, told, age, calm>>
      /\ publisher'.notBefore = None /\ owed'.shared = 0
      /\ \A f \in Files : publisher'.backoff[f].since = None /\ owed'.file[f] = 0
  BY <1>1, ReplacePublisherDoes
<1>3. WellFor' = WellFor
  BY <1>2 DEF WellFor
<1>4. Well' /\ Marked' /\ Published' /\ Reported' /\ Told'
  BY <1>2, <1>3 DEF IInv, Well, Marked, Published, Reported, Told
<1>5. Backed'
  BY <1>2 DEF Backed
<1>6. QED
  BY <1>4, <1>5 DEF IInv

-----------------------------------------------------------------------------
\* The reports of a step that finds the heartbeat due.
LEMMA LateReport ==
  ASSUME Timely, BaseInv, IInv, call.at = "idle", age.report >= Heartbeat
  PROVE  \/ age.report <= Heartbeat
         \/ /\ monitor.attempt = None /\ monitor.step # None /\ age.published <= Timeout
            /\ age.report <= Heartbeat - 1 + Timeout
         \/ WellFor <= LongestWait
<1>1. TypeOK /\ CallOK /\ WellFor \in Nat /\ age.report \in Nat /\ age.published \in Nat
  BY WellForRange, Numbers, Constants DEF BaseInv
<1>2. CASE monitor.step = None
  <2>1. WellFor = 0
    BY <1>2 DEF IInv, Marked
  <2>2. QED
    BY <2>1, TimelyBounds
<1>3. CASE monitor.step # None
  <2>1. monitor.step \in Nat /\ (WellFor > 0 => monitor.step <= 2 * Timeout)
    BY <1>1, <1>3, StepBounded, Constants
  <2>2. MinOf(monitor.step, 1) \in Nat /\ MinOf(monitor.step, 1) <= 1
    BY <2>1 DEF MinOf
  <2>3. \/ age.report = monitor.step
        \/ /\ age.report <= Heartbeat - 1 + monitor.step
           /\ \/ monitor.step <= 1 \/ WellFor = 0
              \/ /\ monitor.attempt = None /\ age.published = monitor.step
                 /\ monitor.step <= Timeout
        \/ WellFor <= LongestWait - 1 + MinOf(monitor.step, 1)
    BY <1>3 DEF IInv, Reported
  <2>4. CASE age.report = monitor.step
    BY <1>1, <2>1, <2>4, TimelyBounds, Constants
  <2>5. CASE WellFor <= LongestWait - 1 + MinOf(monitor.step, 1)
    BY <1>1, <2>2, <2>5, TimelyBounds, Constants
  <2>6. CASE age.report <= Heartbeat - 1 + monitor.step /\ (monitor.step <= 1 \/ WellFor = 0)
    BY <1>1, <2>1, <2>6, TimelyBounds, Constants
  <2>7. CASE /\ age.report <= Heartbeat - 1 + monitor.step
             /\ monitor.attempt = None /\ age.published = monitor.step
             /\ monitor.step <= Timeout
    BY <1>1, <1>3, <2>1, <2>7, TimelyBounds, Constants
  <2>8. QED
    BY <2>3, <2>4, <2>5, <2>6, <2>7
<1>4. QED
  BY <1>2, <1>3

LEMMA RestsKeeps ==
  ASSUME Timely, BaseInv, IInv, StepRests PROVE IInv'
<1>1. TypeOK /\ CallOK
  BY DEF BaseInv
<1>2. /\ call.at = "idle" /\ UNCHANGED <<publisher, suspended, world, told, owed, age, calm>>
      /\ monitor'.step = 0 /\ monitor'.published = monitor.published
      /\ monitor'.report = monitor.report /\ monitor'.sample = monitor.sample
      /\ monitor'.attempt = monitor.attempt /\ monitor'.sensor = monitor.sensor
      /\ call'.start = 0 /\ call'.spent = 0
      /\ call'.at = IF ReportDue THEN Diagnostics ELSE "idle"
      /\ call'.report <=> ReportDue
  BY <1>1, StepRestsDoes DEF Stepped
<1>3. /\ monitor.sample # None /\ monitor.sample < SampleInterval
      /\ monitor.sample \in 0 .. (Half - 1)
      /\ monitor.attempt = None => monitor.published # None /\ age.published < PublicationInterval
      /\ ~ReportDue => age.report < Heartbeat
      /\ ReportDue => monitor.report = None \/ age.report >= Heartbeat
  <2>1. ~SampleDue /\ ~(PublicationDue /\ RetryDue)
    BY <1>1, StepRestsDoes
  <2>2. age.published \in Nat /\ age.report \in Nat /\ monitor.sample \in Ticks
    BY <1>1, Numbers, Constants
  <2>3. monitor.sample # None => monitor.sample \in 0 .. (Half - 1)
    BY <1>1, DueAges
  <2>4. ~(SampleDue <=> TRUE) /\ (monitor.attempt = None => ~PublicationDue)
    BY <1>1, <2>1, DueAges
  <2>5. QED
    BY <1>1, <2>2, <2>3, <2>4, DueAges, Constants
<1>4. WellFor' = WellFor /\ WellFor \in Nat /\ age.report \in Nat /\ age.published \in Nat
  BY <1>1, <1>2, WellForRange, Numbers, Constants DEF WellFor
<1>5. monitor.step # None
  BY <1>3 DEF IInv, Marked
<1>6. Well' /\ Backed'
  BY <1>2, <1>4 DEF IInv, Well, Backed, OwnAge
<1>7. Marked'
  <2>1. 0 <= MaxOf(MaxSuspension, 2 * Timeout)
    BY Constants DEF MaxOf
  <2>2. QED
    BY <1>2, <1>3, <1>4, <1>5, <2>1, Constants, TimelyBounds
       DEF IInv, Marked, Temperature, Diagnostics
<1>8. Published'
  BY <1>2, <1>3, <1>4, <1>5, Constants, TimelyBounds
     DEF IInv, Published, Temperature, Diagnostics
<1>9. Reported'
  <2>1. CASE ~ReportDue
    BY <1>2, <1>3, <1>4, <2>1, Constants DEF Reported
  <2>2. CASE ReportDue
    <3>1. call'.at = Diagnostics /\ call'.report
      BY <1>2, <2>2
    <3>2. CASE age.report < Heartbeat
      BY <1>2, <1>4, <3>1, <3>2, Constants DEF Reported, Diagnostics
    <3>3. CASE age.report >= Heartbeat
      <4>1. \/ age.report <= Heartbeat \/ age.report <= Heartbeat - 1 + Timeout
            \/ WellFor <= LongestWait
        BY <1>2, <3>3, LateReport
      <4>2. QED
        BY <1>2, <1>4, <3>1, <4>1, Constants, TimelyBounds DEF Reported, Diagnostics
    <3>4. QED
      BY <1>4, <3>2, <3>3, Constants
  <2>3. QED
    BY <2>1, <2>2
<1>10. Told'
  BY <1>2, <1>3, <1>4, <1>5, Constants, TimelyBounds DEF IInv, Told
<1>11. QED
  BY <1>6, <1>7, <1>8, <1>9, <1>10 DEF IInv

\* A publication that begins late was held up by a request, or by something
\* that went wrong.
LEMMA LatePublication ==
  ASSUME Timely, BaseInv, IInv, call.at = "idle"
  PROVE  \/ age.published <= PublicationInterval - 1 + Timeout
         \/ WellFor <= LongestWait + SampleInterval - 2 + 2 * Timeout
<1>1. TypeOK /\ CallOK /\ WellFor \in Nat /\ age.published \in Nat
  BY WellForRange, Numbers, Constants DEF BaseInv
<1>2. CASE WellFor = 0
  BY <1>2, TimelyBounds, Constants
<1>3. CASE WellFor > 0
  <2>1. monitor.step # None
    BY <1>3 DEF IInv, Marked
  <2>2. /\ monitor.step \in 0 .. (Half - 1) /\ monitor.sample \in 0 .. (Half - 1)
        /\ monitor.sample <= SampleInterval - 1 + monitor.step
        /\ monitor.step <= 2 * Timeout
    BY <1>1, <1>3, <2>1, StepBounded
  <2>3. CASE monitor.attempt # None
    <3>1. WellFor <= LongestWait - 1 + monitor.sample
      BY <2>3 DEF IInv, Published, Temperature
    <3>2. QED
      BY <1>1, <2>2, <3>1, TimelyBounds, Constants
  <2>4. CASE monitor.attempt = None
    <3>1. \/ age.published = monitor.step
          \/ age.published <= PublicationInterval - 1 + monitor.step /\ monitor.step <= Timeout
      BY <1>3, <2>1, <2>4 DEF IInv, Published
    <3>2. QED
      BY <1>1, <2>2, <3>1, TimelyBounds, Constants
  <2>5. QED
    BY <2>3, <2>4
<1>4. QED
  BY <1>1, <1>2, <1>3

LEMMA SamplesKeeps ==
  ASSUME Timely, BaseInv, IInv, StepSamples PROVE IInv'
<1>1. TypeOK /\ CallOK
  BY DEF BaseInv
<1> DEFINE goes == world.sensor /\ PublicationDue
           says == ReportDue \/ Transition
<1>2. /\ call.at = "idle" /\ UNCHANGED <<publisher, suspended, world, told, owed, age, calm>>
      /\ monitor'.step = 0 /\ monitor'.published = monitor.published
      /\ monitor'.report = monitor.report /\ monitor'.sample = 0
      /\ monitor'.attempt = IF PublicationDue THEN 0 ELSE monitor.attempt
      /\ monitor'.sensor = SensorReads
      /\ call'.start = 0 /\ call'.spent = 0
      /\ call'.at = IF goes THEN Temperature ELSE IF says THEN Diagnostics ELSE "idle"
      /\ call'.report <=> says
  BY <1>1, StepSamplesDoes DEF Stepped, Temperature, Diagnostics
<1>3. /\ PublicationDue <=> monitor.published = None \/ age.published >= PublicationInterval
      /\ ReportDue <=> monitor.report = None \/ age.report >= Heartbeat
  BY <1>1, DueAges
<1>4. /\ WellFor' = WellFor /\ WellFor \in Nat /\ age.report \in Nat /\ age.published \in Nat
      /\ calm \in Nat /\ calm <= WellFor /\ 0 # None
  BY <1>1, <1>2, WellForRange, Numbers, Constants DEF WellFor
<1>5. /\ monitor'.attempt # None <=> PublicationDue
      /\ PublicationDue => monitor'.attempt = 0
  BY <1>2, <1>3, <1>4 DEF IInv, Marked
<1>6. ~world.sensor => WellFor = 0
  BY <1>4 DEF IInv, Well
<1>7. /\ SensorReads = "ok" <=> world.sensor
      /\ goes => world.sensor /\ PublicationDue
      /\ ~goes => ~world.sensor \/ ~PublicationDue
  BY DEF SensorReads
<1> HIDE DEF goes, says
<1>8. Well' /\ Backed'
  BY <1>2, <1>4 DEF IInv, Well, Backed, OwnAge
<1>9. Marked'
  <2>1. 0 <= MaxOf(MaxSuspension, 2 * Timeout)
    BY Constants DEF MaxOf
  <2>2. /\ monitor'.published # None => monitor'.published = age'.published
        /\ monitor'.report # None => monitor'.report = age'.report
    BY <1>2 DEF IInv, Marked
  <2>3. /\ monitor'.step # None
        /\ monitor'.sample # None /\ monitor'.sample <= SampleInterval - 1 + monitor'.step
        /\ monitor'.step <= MaxOf(MaxSuspension, 2 * Timeout)
        /\ monitor'.step <= 2 * Timeout
    BY <1>2, <1>4, <2>1, Constants
  <2>4. monitor'.attempt # None =>
          /\ monitor'.attempt = monitor'.sample
          /\ monitor'.published = None \/ age'.published >= PublicationInterval
    BY <1>2, <1>3, <1>5
  <2>5. monitor'.attempt = None => monitor'.published # None
    BY <1>2, <1>3, <1>5
  <2>6. call'.at # "idle" => monitor'.step = call'.start /\ call'.start <= age'.report
    BY <1>2, <1>4
  <2>7. call'.at = Temperature =>
          /\ monitor'.attempt = call'.start /\ call'.start <= age'.published
          /\ monitor'.sensor = "ok"
    BY <1>2, <1>4, <1>5, <1>7 DEF Temperature, Diagnostics
  <2>8. QED
    BY <2>2, <2>3, <2>4, <2>5, <2>6, <2>7 DEF Marked
<1>10. Published'
  <2>1. monitor'.attempt # None /\ call'.at # Temperature => WellFor = 0
    BY <1>2, <1>5, <1>6, <1>7
  <2>2. monitor'.attempt = None => age.published <= PublicationInterval - 1
    BY <1>3, <1>4, <1>5, Constants
  <2>3. \/ age.published <= PublicationInterval - 1 + Timeout
        \/ WellFor <= LongestWait + SampleInterval - 2 + 2 * Timeout
    BY <1>2, LatePublication
  <2>4. QED
    BY <1>2, <1>4, <2>1, <2>2, <2>3, TimelyBounds, Constants DEF Published
<1>11. Reported'
  <2>1. CASE age.report < Heartbeat
    BY <1>2, <1>4, <2>1, Constants DEF Reported
  <2>2. CASE age.report >= Heartbeat
    <3>1. says /\ call'.at # "idle" /\ call'.report
      BY <1>2, <1>3, <2>2 DEF says, Temperature, Diagnostics
    <3>2. \/ age.report <= Heartbeat \/ WellFor <= LongestWait
          \/ /\ call'.at = Diagnostics /\ age.report <= Heartbeat - 1 + Timeout
      <4>1. CASE /\ monitor.attempt = None /\ monitor.step # None
                 /\ age.published <= Timeout /\ age.report <= Heartbeat - 1 + Timeout
        <5>1. ~PublicationDue
          BY <1>3, <1>4, <4>1, TimelyBounds, Constants DEF IInv, Marked
        <5>2. call'.at = Diagnostics
          BY <1>2, <1>7, <3>1, <5>1
        <5>3. QED
          BY <4>1, <5>2
      <4>2. QED
        BY <1>2, <2>2, <4>1, LateReport
    <3>3. QED
      BY <1>2, <1>4, <3>1, <3>2, TimelyBounds, Constants DEF Reported
  <2>3. QED
    BY <1>4, <2>1, <2>2, Constants
<1>12. Told'
  <2>1. monitor'.sensor # "ok" => calm = 0
    BY <1>2, <1>4, <1>6, <1>7
  <2>2. ASSUME monitor'.sensor = "ok", told # "ok"
        PROVE  \/ calm <= age.report
               \/ call'.at # "idle" /\ call'.report /\ calm <= SampleInterval - 1 + Timeout
    <3>1. CASE monitor.sensor = "ok"
      BY <1>2, <2>2, <3>1 DEF IInv, Told
    <3>2. CASE monitor.sensor # "ok"
      <4>1. says /\ call'.at # "idle" /\ call'.report
        BY <1>2, <2>2, <3>2 DEF says, Transition, Temperature, Diagnostics
      <4>2. calm = 0 \/ calm <= SampleInterval - 1 + Timeout
        <5>1. CASE monitor.step = None
          BY <1>4, <5>1 DEF IInv, Marked
        <5>2. CASE monitor.step # None
          <6>1. /\ calm <= monitor.sample /\ monitor.sample # None
                /\ monitor.step <= Timeout \/ calm = 0
            BY <3>2, <5>2 DEF IInv, Told, Marked
          <6>2. /\ monitor.step \in 0 .. (Half - 1) /\ monitor.sample \in 0 .. (Half - 1)
                /\ monitor.sample <= SampleInterval - 1 + monitor.step
            BY <1>1, <5>2, StepBounded
          <6>3. QED
            BY <1>4, <6>1, <6>2, TimelyBounds, Constants
        <5>3. QED
          BY <5>1, <5>2
      <4>3. QED
        BY <1>4, <4>1, <4>2
    <3>3. QED
      BY <3>1, <3>2
  <2>3. QED
    BY <1>2, <1>4, <2>1, <2>2, TimelyBounds, Constants DEF Told
<1>13. QED
  BY <1>8, <1>9, <1>10, <1>11, <1>12 DEF IInv

-----------------------------------------------------------------------------
\* A file is held back only while something is still owed, and only because
\* something went wrong since it was last sent.
LEMMA HeldBack ==
  ASSUME Timely, BaseInv, IInv, NEW f \in Files, InBackoff(f) \/ CoolingDown
  PROVE  WellFor <= LongestWait - 1 /\ calm <= OwnAge(f)
<1>1. TypeOK /\ CallOK /\ age.published \in 0 .. (Half - 1) /\ age.report \in 0 .. (Half - 1)
  BY AgesBounded DEF BaseInv
<1>2. OwnAge(f) \in 0 .. (Half - 1)
  BY <1>1 DEF OwnAge
<1>3. /\ WellFor \in Nat /\ calm \in Nat /\ owed.shared \in Nat /\ owed.file[f] \in Nat
      /\ publisher.backoff[f].delay \in Nat
  BY <1>1, WellForRange, Numbers, Constants
<1>4. CASE InBackoff(f)
  <2>1. /\ publisher.backoff[f].since # None
        /\ Elapsed(publisher.backoff[f].since) < publisher.backoff[f].delay
    BY <1>4 DEF InBackoff
  <2>2. /\ calm <= publisher.backoff[f].since /\ publisher.backoff[f].since <= OwnAge(f)
        /\ publisher.backoff[f].since + owed.file[f] >= publisher.backoff[f].delay
        /\ owed.file[f] > 0 => owed.file[f] + WellFor <= LongestWait
    BY <2>1 DEF IInv, Backed
  <2>3. publisher.backoff[f].since \in 0 .. (Period - 1)
    BY <1>1, <2>1, Numbers DEF Ticks
  <2>4. Elapsed(publisher.backoff[f].since) = publisher.backoff[f].since
    BY <1>2, <2>2, <2>3, Constants DEF Elapsed
  <2>5. owed.file[f] > 0
    BY <1>3, <2>1, <2>2, <2>3, <2>4
  <2>6. QED
    BY <1>2, <1>3, <2>2, <2>3, <2>5, LongestWaitType, Constants
<1>5. CASE CoolingDown
  <2>1. publisher.notBefore # None /\ Elapsed(publisher.notBefore) < 0
    BY <1>5 DEF CoolingDown
  <2>2. /\ calm <= age.published /\ calm <= age.report
        /\ owed.shared = 0 => publisher.notBefore <= age.published
        /\ owed.shared > 0 => owed.shared + WellFor <= LongestWait
    BY <2>1 DEF IInv, Backed
  <2>3. publisher.notBefore \in 0 .. (Period - 1)
    BY <1>1, <2>1, Numbers DEF Ticks
  <2>4. owed.shared > 0
    BY <1>1, <1>3, <2>1, <2>2, <2>3, Constants DEF Elapsed
  <2>5. calm <= OwnAge(f)
    BY <2>2 DEF OwnAge
  <2>6. QED
    BY <1>3, <2>2, <2>4, <2>5, LongestWaitType, Constants
<1>6. QED
  BY <1>4, <1>5

\* A request that does not succeed: held back, or lost while all is not well.
LEMMA RejectedKeeps ==
  ASSUME Timely, BaseInv, TypeOK', IInv, Rejected, Backed', WellFor <= LongestWait - 1,
         \/ told' = told /\ (call.at = Diagnostics => calm <= age.report)
         \/ calm = 0
  PROVE  IInv'
<1>1. TypeOK /\ CallOK
  BY DEF BaseInv
<1>2. /\ UNCHANGED <<monitor, suspended, world, age, calm>>
      /\ call.at = Temperature \/ call.at = Diagnostics
      /\ call'.at = IF call.at = Temperature THEN Diagnostics ELSE "idle"
      /\ call'.start = IF call.at = Temperature THEN call.start ELSE 0
      /\ call'.report <=> call.at = Temperature
      /\ Temperature # Diagnostics /\ Diagnostics # "idle" /\ Temperature # "idle"
  BY DEF Rejected, Files, Temperature, Diagnostics
<1>3. /\ WellFor' = WellFor /\ WellFor \in Nat /\ calm \in Nat /\ age.report \in Nat
      /\ call.start \in Nat /\ LongestWait \in Nat
  BY <1>1, <1>2, WellForRange, Numbers, Constants, TimelyBounds DEF WellFor
<1>4. monitor.step = call.start /\ monitor.step # None /\ monitor.step \in Nat
  BY <1>2, <1>3, Constants DEF IInv, Marked
<1>5. Well'
  BY <1>2, <1>3 DEF IInv, Well
<1>6. Marked'
  BY <1>2, <1>3, <1>4 DEF IInv, Marked
<1>7. Published'
  <2>1. monitor.attempt # None => monitor.sample \in Nat
    BY <1>1, <1>4, StepBounded, Constants
  <2>2. monitor.attempt # None => WellFor <= LongestWait - 1 + monitor.sample
    BY <1>3, <2>1
  <2>3. call.at = Temperature => monitor.attempt # None
    BY <1>3, <1>4, Constants DEF IInv, Marked
  <2>4. QED
    BY <1>2, <1>3, <1>4, <2>2, <2>3 DEF IInv, Published
<1>8. Reported'
  <2>1. MinOf(monitor.step, 1) \in Nat
    BY <1>4 DEF MinOf
  <2>2. CASE call.at = Diagnostics
    BY <1>2, <1>3, <1>4, <2>1, <2>2 DEF Reported
  <2>3. CASE call.at = Temperature
    <3>1. \/ age.report <= Heartbeat - 1 + call.start \/ age.report <= Heartbeat + call.start
          \/ WellFor <= LongestWait + call.start
      BY <1>2, <2>3 DEF IInv, Reported
    <3>2. call'.at = Diagnostics /\ call'.start = call.start /\ call'.report
      BY <1>2, <2>3
    <3>3. QED
      BY <1>2, <1>3, <3>1, <3>2 DEF Reported
  <2>4. QED
    BY <1>2, <2>2, <2>3
<1>9. Told'
  <2>1. monitor.sensor # "ok" =>
          /\ monitor.sample = None => calm = 0
          /\ monitor.sample # None => calm <= monitor.sample
          /\ monitor.step # None => monitor.step <= Timeout \/ calm = 0
    BY DEF IInv, Told
  <2>2. ASSUME monitor.sensor = "ok", told' # "ok"
        PROVE  \/ calm <= age.report
               \/ /\ call'.at # "idle" /\ call'.report
                  /\ calm <= SampleInterval - 1 + Timeout + call'.start
    <3>1. CASE calm = 0
      BY <1>3, <3>1
    <3>2. CASE told' = told /\ (call.at = Diagnostics => calm <= age.report)
      <4>1. \/ calm <= age.report
            \/ calm <= SampleInterval - 1 + Timeout + call.start
        BY <2>2, <3>2 DEF IInv, Told
      <4>2. QED
        BY <1>2, <3>2, <4>1
    <3>3. QED
      BY <3>1, <3>2
  <2>3. monitor.sensor # "ok" => call'.at = "idle"
    BY <1>2 DEF IInv, Marked
  <2>4. QED
    BY <1>2, <2>1, <2>2, <2>3 DEF Told
<1>10. QED
  BY <1>5, <1>6, <1>7, <1>8, <1>9 DEF IInv

LEMMA HoldBackKeeps == ASSUME Timely, BaseInv, IInv, HoldBack PROVE IInv'
<1>1. TypeOK /\ CallOK
  BY DEF BaseInv
<1>2. /\ TypeOK' /\ Rejected
      /\ InBackoff(call.at) \/ CoolingDown
      /\ UNCHANGED <<publisher, told, owed>>
  BY <1>1, HoldBackDoes
<1>3. call.at \in Files /\ UNCHANGED <<age, calm>>
  BY <1>2 DEF Rejected
<1>4. WellFor <= LongestWait - 1 /\ calm <= OwnAge(call.at)
  BY <1>2, <1>3, HeldBack
<1>5. call.at = Diagnostics => calm <= age.report
  BY <1>4 DEF OwnAge, Temperature, Diagnostics
<1>6. Backed'
  BY <1>2, <1>3 DEF IInv, Backed, OwnAge, WellFor
<1>7. QED
  BY <1>2, <1>4, <1>5, <1>6, RejectedKeeps

LEMMA FailureKeeps == ASSUME Timely, BaseInv, IInv, RateLimited \/ Fails PROVE IInv'
<1>1. TypeOK /\ CallOK /\ Waits
  BY DEF BaseInv
<1>2. TypeOK' /\ Rejected /\ call.sent /\ world.service # "ok"
  BY <1>1, RequestFailsDoes
<1>3. PICK least \in 0 .. LongestWait : Failure(call.at, least)
  BY <1>1, RequestFailsDoes
<1>4. call.at \in Files /\ UNCHANGED <<age, calm>> /\ publisher.notBefore = None
  BY <1>1, <1>2 DEF Rejected, Waits
<1>5. /\ WellFor = 0 /\ calm = 0 /\ WellFor' = 0 /\ calm' = 0
      /\ age.published \in Nat /\ age.report \in Nat
  BY <1>1, <1>2, <1>4, WellForRange, Numbers, Constants DEF IInv, Well, WellFor
<1>6. Backed'
  <2>1. /\ owed'.shared = MaxOf(owed.shared, least) /\ owed.shared \in Nat
        /\ owed.shared > 0 => owed.shared <= LongestWait
    BY <1>1, <1>3, <1>5, Numbers, Constants DEF Failure, IInv, Backed
  <2>2. owed'.shared + 0 <= LongestWait
    BY <2>1, LongestWaitType, Constants DEF MaxOf
  <2>3. publisher'.notBefore # None /\ owed'.shared = 0 => FALSE
    BY <1>3, <1>4, <2>1 DEF Failure, MaxOf
  <2>4. ASSUME NEW f \in Files
        PROVE  /\ owed'.file[f] > 0 => owed'.file[f] + 0 <= LongestWait
               /\ publisher'.backoff[f].since # None =>
                    /\ 0 <= publisher'.backoff[f].since
                    /\ publisher'.backoff[f].since <= OwnAge(f)
                    /\ publisher'.backoff[f].since + owed'.file[f]
                         >= publisher'.backoff[f].delay
    <3>1. CASE f = call.at
      <4>1. /\ publisher'.backoff[f].since = 0 /\ owed'.file[f] \in Nat
            /\ publisher'.backoff[f].delay = owed'.file[f] /\ owed'.file[f] <= LongestWait
        BY <1>2, <1>3, <3>1, Constants DEF Failure, TypeOK
      <4>2. OwnAge(f) \in Nat
        BY <1>5 DEF OwnAge
      <4>3. QED
        BY <4>1, <4>2, LongestWaitType, Constants
    <3>2. CASE f # call.at
      <4>1. publisher'.backoff[f] = publisher.backoff[f] /\ owed'.file[f] = owed.file[f]
        BY <1>3, <3>2 DEF Failure
      <4>2. QED
        BY <1>5, <4>1 DEF IInv, Backed
    <3>3. QED
      BY <3>1, <3>2
  <2>5. OwnAge(Temperature)' = OwnAge(Temperature) /\ OwnAge(Diagnostics)' = OwnAge(Diagnostics)
    BY <1>4 DEF OwnAge
  <2>6. QED
    BY <1>4, <1>5, <2>2, <2>3, <2>4 DEF Backed, OwnAge
<1>7. WellFor <= LongestWait - 1
  BY <1>5, TimelyBounds
<1>8. QED
  BY <1>2, <1>5, <1>6, <1>7, RejectedKeeps

LEMMA SendKeeps == ASSUME Timely, BaseInv, IInv, Send PROVE IInv'
<1>1. TypeOK /\ CallOK
  BY DEF BaseInv
<1>2. /\ publisher'.backoff = publisher.backoff /\ publisher'.notBefore = None
      /\ call'.at = call.at /\ call'.start = call.start
      /\ call'.report = call.report /\ call'.spent = call.spent
      /\ UNCHANGED <<monitor, suspended, world, told, owed, age, calm>>
  BY <1>1, SendDoes
<1>3. WellFor' = WellFor
  BY <1>2 DEF WellFor
<1>4. Well' /\ Marked' /\ Published'
  BY <1>2, <1>3 DEF IInv, Well, Marked, Published
<1>5. Backed'
  BY <1>2, <1>3 DEF IInv, Backed, OwnAge
<1>6. Reported' /\ Told'
  BY <1>2, <1>3 DEF IInv, Reported, Told
<1>7. QED
  BY <1>4, <1>5, <1>6 DEF IInv

LEMMA AcceptedKeeps == ASSUME Timely, BaseInv, IInv, Accepted PROVE IInv'
<1>1. TypeOK /\ CallOK /\ Waits
  BY DEF BaseInv
<1>2. /\ TypeOK' /\ call.at \in Files /\ call.sent /\ world.service = "ok"
      /\ UNCHANGED <<suspended, world, calm>>
      /\ publisher'.notBefore = publisher.notBefore
      /\ \A f \in Files :
           /\ publisher'.backoff[f] = IF f = call.at THEN NoFailure ELSE publisher.backoff[f]
           /\ owed'.file[f] = IF f = call.at THEN 0 ELSE owed.file[f]
      /\ owed'.shared = owed.shared
      /\ monitor'.step = monitor.step /\ monitor'.sample = monitor.sample
      /\ monitor'.sensor = monitor.sensor
  BY <1>1, AcceptedDoes
<1>3. /\ call.at = Temperature \/ call.at = Diagnostics
      /\ Temperature # Diagnostics /\ Diagnostics # "idle" /\ Temperature # "idle"
  BY <1>2 DEF Files, Temperature, Diagnostics
<1>4. call.at = Temperature =>
         /\ monitor'.published = call.start /\ monitor'.attempt = None
         /\ monitor'.report = monitor.report
         /\ age'.published = call.start /\ age'.report = age.report /\ told' = told
         /\ call'.at = IF call.report THEN Diagnostics ELSE "idle"
         /\ call'.start = IF call.report THEN call.start ELSE 0
         /\ call'.report <=> call.report
  BY <1>1, AcceptedDoes
<1>5. call.at = Diagnostics =>
         /\ monitor'.report = call.start /\ monitor'.attempt = monitor.attempt
         /\ monitor'.published = monitor.published
         /\ age'.report = call.start /\ age'.published = age.published
         /\ told' = monitor.sensor /\ call'.at = "idle"
  BY <1>1, AcceptedDoes
<1>6. /\ monitor.step = call.start /\ call.start <= age.report /\ call.start \in Nat
      /\ call.at = Temperature =>
           /\ call.start <= age.published /\ monitor.attempt = call.start
           /\ call.start = call.spent /\ call.start <= Timeout
      /\ monitor.step # None
      /\ age.report \in Nat /\ age.published \in Nat /\ calm \in Nat
  BY <1>1, <1>3, Numbers, Constants DEF IInv, Marked, CallOK
<1>7. WellFor' <= WellFor /\ WellFor' \in Nat /\ WellFor \in Nat
  <2>1. age'.published <= age.published /\ age'.report <= age.report /\ calm' <= calm
    BY <1>2, <1>3, <1>4, <1>5, <1>6
  <2>2. QED
    BY <1>1, <1>2, <2>1, WellShrinks, WellForRange
<1>8. Well'
  BY <1>2, <1>7 DEF IInv, Well
<1>9. Marked'
  <2>1. /\ monitor.sample # None /\ monitor.sample <= SampleInterval - 1 + monitor.step
        /\ monitor.step <= MaxOf(MaxSuspension, 2 * Timeout)
        /\ WellFor' > 0 => monitor.step <= 2 * Timeout
    BY <1>6, <1>7 DEF IInv, Marked
  <2>2. CASE call.at = Temperature
    BY <1>2, <1>3, <1>4, <1>6, <2>1, <2>2, Constants DEF IInv, Marked
  <2>3. CASE call.at = Diagnostics
    BY <1>2, <1>3, <1>5, <1>6, <2>1, <2>3, Constants DEF IInv, Marked
  <2>4. QED
    BY <1>3, <2>2, <2>3
<1>10. Backed'
  <2>1. publisher'.notBefore = None
    BY <1>1, <1>2 DEF Waits
  <2>2. owed'.shared > 0 => owed'.shared + WellFor' <= LongestWait
    BY <1>1, <1>2, <1>7, Numbers, LongestWaitType, Constants DEF IInv, Backed
  <2>3. ASSUME NEW f \in Files
        PROVE  /\ owed'.file[f] > 0 => owed'.file[f] + WellFor' <= LongestWait
               /\ publisher'.backoff[f].since # None =>
                    /\ calm' <= publisher'.backoff[f].since
                    /\ publisher'.backoff[f].since <= OwnAge(f)'
                    /\ publisher'.backoff[f].since + owed'.file[f]
                         >= publisher'.backoff[f].delay
    <3>1. CASE f = call.at
      BY <1>2, <3>1 DEF NoFailure
    <3>2. CASE f # call.at
      <4>1. publisher'.backoff[f] = publisher.backoff[f] /\ owed'.file[f] = owed.file[f]
        BY <1>2, <3>2
      <4>2. OwnAge(f)' = OwnAge(f)
        BY <1>3, <1>4, <1>5, <3>2 DEF OwnAge, Files
      <4>3. owed.file[f] > 0 => owed.file[f] + WellFor' <= LongestWait
        BY <1>1, <1>7, Numbers, LongestWaitType, Constants DEF IInv, Backed
      <4>4. QED
        BY <1>2, <4>1, <4>2, <4>3 DEF IInv, Backed
    <3>3. QED
      BY <3>1, <3>2
  <2>4. QED
    BY <2>1, <2>2, <2>3 DEF Backed, OwnAge
<1>11. Published'
  <2>1. CASE call.at = Temperature
    BY <1>2, <1>3, <1>4, <1>6, <2>1 DEF Published
  <2>2. CASE call.at = Diagnostics
    <3>1. monitor.attempt # None => WellFor' <= LongestWait - 1 + monitor.sample
      <4>1. monitor.sample \in Nat
        BY <1>1, <1>6, StepBounded, Constants
      <4>2. monitor.attempt # None => WellFor <= LongestWait - 1 + monitor.sample
        BY <1>3, <2>2 DEF IInv, Published
      <4>3. QED
        BY <1>7, <4>1, <4>2, TimelyBounds
    <3>2. monitor.attempt = None =>
            \/ age.published = monitor.step
            \/ /\ age.published <= PublicationInterval - 1 + monitor.step
               /\ monitor.step <= Timeout \/ WellFor' = 0
      BY <1>6, <1>7 DEF IInv, Published
    <3>3. QED
      BY <1>2, <1>3, <1>5, <1>6, <2>2, <3>1, <3>2 DEF Published
  <2>3. QED
    BY <1>3, <2>1, <2>2
<1>12. Reported'
  <2>1. CASE call.at = Diagnostics
    BY <1>2, <1>5, <1>6, <2>1 DEF Reported
  <2>2. CASE call.at = Temperature /\ call.report
    <3>1. \/ age.report <= Heartbeat - 1 + call.start \/ age.report <= Heartbeat + call.start
          \/ WellFor' <= LongestWait + call.start
      BY <1>3, <1>6, <1>7, <2>2, TimelyBounds DEF IInv, Reported
    <3>2. call'.at = Diagnostics /\ call'.start = call.start /\ call'.report
      BY <1>4, <2>2
    <3>3. QED
      BY <1>3, <1>4, <2>2, <3>1, <3>2 DEF Reported
  <2>3. CASE call.at = Temperature /\ ~call.report
    <3>1. age.report <= Heartbeat - 1 + call.start
      BY <1>3, <2>3 DEF IInv, Reported
    <3>2. call'.at = "idle"
      BY <1>4, <2>3
    <3>3. QED
      BY <1>2, <1>4, <1>6, <2>3, <3>1, <3>2 DEF Reported
  <2>4. QED
    BY <1>3, <2>1, <2>2, <2>3
<1>13. Told'
  <2>1. CASE call.at = Diagnostics
    BY <1>2, <1>5, <2>1 DEF IInv, Told
  <2>2. CASE call.at = Temperature
    <3>1. monitor.sensor = "ok"
      BY <2>2 DEF IInv, Marked
    <3>2. told # "ok" => \/ calm <= age.report
                         \/ call.report /\ calm <= SampleInterval - 1 + Timeout + call.start
      BY <3>1 DEF IInv, Told
    <3>3. QED
      BY <1>2, <1>3, <1>4, <2>2, <3>1, <3>2 DEF Told
  <2>3. QED
    BY <1>3, <2>1, <2>2
<1>14. QED
  BY <1>8, <1>9, <1>10, <1>11, <1>12, <1>13 DEF IInv

-----------------------------------------------------------------------------
LEMMA LaterSmall ==
  ASSUME NEW m \in Ticks, m # None => m < Half
  PROVE  /\ Later(m) = None <=> m = None
         /\ m # None => m \in Nat /\ Later(m) = m + 1
<1>1. /\ Later(m) = None <=> m = None
      /\ m # None => Later(m) = IF m = Period - 1 THEN 0 ELSE m + 1
  BY LaterMark
<1>2. m # None => m \in 0 .. (Period - 1) /\ m # Period - 1
  BY Constants DEF Ticks
<1>3. QED
  BY <1>1, <1>2

\* The three kinds of tick.
InRequest == call.sent /\ call.at # "idle" /\ monitor.step # None
Between == call.at = "idle" /\ monitor.step = 0
InTrial ==
  call.at = "idle" /\ suspended /\ (monitor.step # None => monitor.step < MaxSuspension)

\* A tick makes every mark and every age one older, none of them too old to be
\* read, and what the phone sees grows older than MaxOutage only while all is
\* well.
LEMMA TickNumbers ==
  ASSUME Timely, BaseInv, IInv, Tick
  PROVE  /\ TypeOK /\ CallOK /\ TypeOK' /\ CallOK'
         /\ InRequest \/ Between \/ InTrial
         /\ UNCHANGED <<suspended, world, told>>
         /\ age'.published = age.published + 1 /\ age'.report = age.report + 1
         /\ monitor'.step = None <=> monitor.step = None
         /\ monitor'.sample = None <=> monitor.sample = None
         /\ monitor'.published = None <=> monitor.published = None
         /\ monitor'.attempt = None <=> monitor.attempt = None
         /\ monitor'.report = None <=> monitor.report = None
         /\ monitor.step # None =>
              monitor.step \in Nat /\ monitor'.step = monitor.step + 1
         /\ monitor.sample # None =>
              monitor.sample \in Nat /\ monitor'.sample = monitor.sample + 1
         /\ monitor.published # None => monitor'.published = monitor.published + 1
         /\ monitor.attempt # None => monitor'.attempt = monitor.attempt + 1
         /\ monitor.report # None => monitor'.report = monitor.report + 1
         /\ monitor'.sensor = monitor.sensor
         /\ call'.at = call.at /\ (call'.report <=> call.report)
         /\ call.at # "idle" => call'.start = call.start + 1 /\ call'.spent = call.spent + 1
         /\ calm \in Nat /\ calm' \in Nat /\ calm' <= calm + 1
         /\ WellFor \in Nat /\ WellFor' \in Nat /\ WellFor' <= WellFor + 1
         /\ ~Healthy => calm' = 0 /\ WellFor' = 0
<1>1. TypeOK /\ CallOK
  BY DEF BaseInv
<1>2. /\ TypeOK' /\ CallOK'
      /\ \/ call.sent /\ call.spent < Timeout
         \/ call.at = "idle" /\ ~suspended /\ monitor.step = 0
         \/ call.at = "idle" /\ suspended
            /\ (monitor.step # None => monitor.step < MaxSuspension)
      /\ Healthy \/ Stale < MaxOutage
      /\ UNCHANGED <<suspended, world, told>>
      /\ monitor'.step = Later(monitor.step) /\ monitor'.sample = Later(monitor.sample)
      /\ monitor'.published = Later(monitor.published)
      /\ monitor'.attempt = Later(monitor.attempt)
      /\ monitor'.report = Later(monitor.report) /\ monitor'.sensor = monitor.sensor
      /\ call'.at = call.at /\ call'.report = call.report
      /\ call'.start = IF call.at = "idle" THEN call.start ELSE call.start + 1
      /\ call'.spent = IF call.at = "idle" THEN call.spent ELSE call.spent + 1
      /\ age'.published = Older(age.published) /\ age'.report = Older(age.report)
      /\ calm' = IF Healthy THEN MinOf(calm + 1, Patience) ELSE 0
  BY <1>1, TickDoes
<1>3. age.published \in 0 .. (Half - 1) /\ age.report \in 0 .. (Half - 1)
  BY <1>1, AgesBounded
<1>4. age'.published = age.published + 1 /\ age'.report = age.report + 1
  BY <1>2, <1>3, Constants DEF Older, MinOf
<1>5. /\ monitor.step # None =>
           monitor.step \in 0 .. (Half - 1) /\ monitor.sample \in 0 .. (Half - 1)
      /\ monitor.sample # None => monitor.step # None
      /\ monitor.published # None => monitor.published = age.published
      /\ monitor.report # None => monitor.report = age.report
      /\ monitor.attempt # None => monitor.attempt = monitor.sample /\ monitor.step # None
  BY <1>1, StepBounded DEF IInv, Marked
<1>6. /\ monitor.step # None => monitor.step < Half
      /\ monitor.sample # None => monitor.sample < Half
      /\ monitor.published # None => monitor.published < Half
      /\ monitor.attempt # None => monitor.attempt < Half
      /\ monitor.report # None => monitor.report < Half
  BY <1>3, <1>5, Constants
<1>7. /\ monitor.step \in Ticks /\ monitor.sample \in Ticks /\ monitor.published \in Ticks
      /\ monitor.attempt \in Ticks /\ monitor.report \in Ticks
  BY <1>1, Numbers
<1>8. /\ monitor'.step = None <=> monitor.step = None
      /\ monitor.step # None =>
           monitor.step \in Nat /\ monitor'.step = monitor.step + 1
  BY <1>2, <1>6, <1>7, LaterSmall
<1>9. /\ monitor'.sample = None <=> monitor.sample = None
      /\ monitor.sample # None =>
           monitor.sample \in Nat /\ monitor'.sample = monitor.sample + 1
  BY <1>2, <1>6, <1>7, LaterSmall
<1>10. /\ monitor'.published = None <=> monitor.published = None
       /\ monitor.published # None => monitor'.published = monitor.published + 1
  BY <1>2, <1>6, <1>7, LaterSmall
<1>11. /\ monitor'.attempt = None <=> monitor.attempt = None
       /\ monitor.attempt # None => monitor'.attempt = monitor.attempt + 1
  BY <1>2, <1>6, <1>7, LaterSmall
<1>12. /\ monitor'.report = None <=> monitor.report = None
       /\ monitor.report # None => monitor'.report = monitor.report + 1
  BY <1>2, <1>6, <1>7, LaterSmall
<1>13. /\ calm \in Nat /\ calm' \in Nat /\ calm' <= calm + 1
       /\ ~Healthy => calm' = 0
  BY <1>1, <1>2, Numbers, Constants DEF MinOf
<1>14. WellFor \in Nat /\ WellFor' \in Nat /\ WellFor' <= WellFor + 1
  <2>1. /\ age.published \in Nat /\ age.report \in Nat
        /\ age.published + 1 \in Nat /\ age.report + 1 \in Nat
    BY <1>3, Constants
  <2>2. WellOf(calm', age.published + 1, age.report + 1)
          <= WellOf(calm, age.published, age.report) + 1
    <3>1. /\ 1 \in {0, 1} /\ calm' <= calm + 1
          /\ age.published + 1 <= age.published + 1 /\ age.report + 1 <= age.report + 1
      BY <1>13, <2>1
    <3>2. QED
      BY <1>13, <2>1, <3>1, WellOfGrows
  <2>3. /\ WellFor = WellOf(calm, age.published, age.report)
        /\ WellFor' = WellOf(calm', age.published + 1, age.report + 1)
    BY <1>4 DEF WellFor
  <2>4. WellFor \in Nat /\ WellFor' \in Nat
    BY <1>13, <2>1, <2>3, WellOfRange
  <2>5. QED
    BY <2>2, <2>3, <2>4
<1>15. ~Healthy => WellFor' = 0
  <2>1. SUFFICES ASSUME ~Healthy PROVE WellFor' = 0
    OBVIOUS
  <2>2. Stale < MaxOutage /\ calm' = 0
    BY <1>2, <2>1
  <2>3. age.published < MaxOutage /\ age.report < MaxOutage
    BY <1>3, <2>2, Constants DEF Stale, MaxOf
  <2>4. WellFor' = WellOf(0, age.published + 1, age.report + 1)
    BY <1>4, <2>2 DEF WellFor
  <2>5. QED
    BY <1>3, <2>3, <2>4, Constants DEF WellOf, MaxOf
<1>16. InRequest \/ Between \/ InTrial
  <2>1. call.sent => call.at # "idle"
    BY <1>1 DEF CallOK, Files, Temperature, Diagnostics
  <2>2. call.at # "idle" => monitor.step # None
    BY DEF IInv, Marked
  <2>3. QED
    BY <1>2, <2>1, <2>2 DEF InRequest, Between, InTrial
<1>17. call.at # "idle" => call'.start = call.start + 1 /\ call'.spent = call.spent + 1
  BY <1>2
<1>18. monitor'.sensor = monitor.sensor /\ (call'.report <=> call.report)
  BY <1>2
<1>19. QED
  BY <1>1, <1>2, <1>4, <1>8, <1>9, <1>10, <1>11, <1>12, <1>13, <1>14, <1>15, <1>16,
     <1>17, <1>18

\* How old the last step is after a tick.
LEMMA TickSteps ==
  ASSUME Timely, BaseInv, IInv, Tick, monitor.step # None
  PROVE  /\ monitor'.step \in Nat /\ monitor'.step <= MaxOf(MaxSuspension, 2 * Timeout)
         /\ \/ WellFor' = 0 /\ calm' = 0
            \/ /\ monitor'.step <= 2 * Timeout
               /\ call.at = "idle" => monitor.step = 0 /\ monitor'.step = 1
               /\ (call.at # "idle" => call.start = call.spent) => monitor'.step <= Timeout
<1>1. /\ TypeOK /\ TypeOK' /\ CallOK'
      /\ InRequest \/ Between \/ InTrial
      /\ monitor.step \in Nat /\ monitor'.step = monitor.step + 1 /\ call'.at = call.at
      /\ call.at # "idle" => call'.start = call.start + 1 /\ call'.spent = call.spent + 1
      /\ ~Healthy => calm' = 0 /\ WellFor' = 0
  BY TickNumbers
<1>2. MaxSuspension \in Nat /\ 2 * Timeout \in Nat /\ Timeout \in Nat /\ Timeout >= 1
  BY TimelyBounds, Constants
<1>3. CASE InRequest
  <2>1. /\ call'.spent \in Nat /\ call'.start \in Nat
        /\ call'.spent <= Timeout /\ call'.start <= call'.spent + Timeout
    <3>1. call' \in Calls
      BY <1>1 DEF TypeOK
    <3>2. QED
      BY <1>1, <3>1 DEF CallOK, Calls
  <2>2. call.start \in Nat /\ call.spent \in Nat /\ monitor.step = call.start
    <3>1. call.start \in Nat /\ call.spent \in Nat
      BY <1>1, Numbers
    <3>2. QED
      BY <1>3, <3>1 DEF IInv, Marked, InRequest
  <2>3. call.at # "idle"
    BY <1>3 DEF InRequest
  <2>4. monitor'.step = call'.start
    BY <1>1, <2>2, <2>3
  <2>5. call.start = call.spent => call'.start = call'.spent
    BY <1>1, <2>2, <2>3
  <2>6. QED
    BY <1>1, <1>2, <2>1, <2>3, <2>4, <2>5 DEF MaxOf
<1>4. CASE Between
  BY <1>1, <1>2, <1>4 DEF Between, MaxOf
<1>5. CASE InTrial
  <2>1. ~Healthy /\ monitor.step < MaxSuspension
    BY <1>5 DEF InTrial, Healthy
  <2>2. QED
    BY <1>1, <1>2, <2>1 DEF MaxOf
<1>6. QED
  BY <1>1, <1>3, <1>4, <1>5

\* Before the first step time passes only while a trial suspends it.
LEMMA TickBeforeStep ==
  ASSUME Timely, BaseInv, IInv, Tick, monitor.step = None
  PROVE  WellFor' = 0 /\ calm' = 0 /\ call.at = "idle"
<1>1. /\ InRequest \/ Between \/ InTrial
      /\ ~Healthy => calm' = 0 /\ WellFor' = 0
  BY TickNumbers
<1>2. InTrial
  BY <1>1, Constants DEF InRequest, Between
<1>3. QED
  BY <1>1, <1>2 DEF InTrial, Healthy

LEMMA TickBacked == ASSUME Timely, BaseInv, IInv, Tick PROVE Backed'
<1>1. /\ TypeOK /\ CallOK /\ TypeOK'
      /\ age'.published = age.published + 1 /\ age'.report = age.report + 1
      /\ calm \in Nat /\ calm' \in Nat /\ calm' <= calm + 1
      /\ WellFor \in Nat /\ WellFor' \in Nat /\ WellFor' <= WellFor + 1
  BY TickNumbers
<1>2. /\ publisher'.notBefore = Later(publisher.notBefore)
      /\ owed'.shared = Sooner(owed.shared)
      /\ \A f \in Files :
           /\ publisher'.backoff[f].since = Later(publisher.backoff[f].since)
           /\ publisher'.backoff[f].delay = publisher.backoff[f].delay
           /\ owed'.file[f] = Sooner(owed.file[f])
  BY <1>1, TickDoes
<1>3. /\ publisher.notBefore \in Ticks /\ owed.shared \in 0 .. (Half - 1)
      /\ age.published \in 0 .. (Half - 1) /\ age.report \in 0 .. (Half - 1)
      /\ LongestWait \in Nat
  BY <1>1, Numbers, AgesBounded, TimelyBounds
<1>4. owed'.shared > 0 => owed'.shared + WellFor' <= LongestWait
  <2>1. owed.shared > 0 => owed.shared + WellFor <= LongestWait
    BY DEF IInv, Backed
  <2>2. owed'.shared > 0 => owed.shared > 0 /\ owed'.shared = owed.shared - 1
    BY <1>2, <1>3, Constants DEF Sooner, MaxOf
  <2>3. QED
    BY <1>1, <1>3, <2>1, <2>2, Constants
<1>5. publisher'.notBefore # None =>
        /\ calm' <= age'.published /\ calm' <= age'.report
        /\ owed'.shared = 0 =>
             publisher'.notBefore <= age'.published /\ publisher'.notBefore <= age'.report
  <2>1. SUFFICES ASSUME publisher'.notBefore # None
                 PROVE  /\ calm' <= age.published + 1 /\ calm' <= age.report + 1
                        /\ owed'.shared = 0 =>
                             /\ publisher'.notBefore <= age.published + 1
                             /\ publisher'.notBefore <= age.report + 1
    BY <1>1
  <2>2. publisher.notBefore # None
    BY <1>2, <1>3, <2>1, LaterMark
  <2>3. publisher.notBefore \in 0 .. (Period - 1)
    BY <1>3, <2>2 DEF Ticks
  <2>4. /\ calm <= age.published /\ calm <= age.report
        /\ owed.shared = 0 =>
             publisher.notBefore <= age.published /\ publisher.notBefore <= age.report
    BY <2>2 DEF IInv, Backed
  <2>5. CASE owed.shared = 0
    <3>1. publisher.notBefore < Half
      BY <1>3, <2>3, <2>4, <2>5, Constants
    <3>2. publisher'.notBefore = publisher.notBefore + 1
      BY <1>2, <1>3, <2>2, <3>1, LaterSmall
    <3>3. QED
      BY <1>1, <1>3, <2>3, <2>4, <2>5, <3>2, Constants
  <2>6. CASE owed.shared = 1
    <3>1. publisher.notBefore = Period - 1
      BY <2>6 DEF BaseInv, Waits
    <3>2. publisher'.notBefore = 0
      BY <1>2, <1>3, <2>2, <3>1, LaterMark
    <3>3. QED
      BY <1>1, <1>3, <2>4, <3>2, Constants
  <2>7. CASE owed.shared > 1
    <3>1. owed'.shared # 0
      BY <1>2, <1>3, <2>7, Constants DEF Sooner, MaxOf
    <3>2. QED
      BY <1>1, <1>3, <2>4, <3>1, Constants
  <2>8. QED
    BY <1>3, <2>5, <2>6, <2>7, Constants
<1>6. ASSUME NEW f \in Files
      PROVE  /\ owed'.file[f] > 0 => owed'.file[f] + WellFor' <= LongestWait
             /\ publisher'.backoff[f].since # None =>
                  /\ calm' <= publisher'.backoff[f].since
                  /\ publisher'.backoff[f].since <= OwnAge(f) + 1
                  /\ publisher'.backoff[f].since + owed'.file[f]
                       >= publisher'.backoff[f].delay
  <2>1. /\ owed.file[f] \in 0 .. (Half - 1) /\ publisher.backoff[f].since \in Ticks
        /\ publisher.backoff[f].delay \in 0 .. (Half - 1)
    BY <1>1, Numbers
  <2>2. \/ owed.file[f] > 0 /\ owed'.file[f] = owed.file[f] - 1
        \/ owed.file[f] = 0 /\ owed'.file[f] = 0
    BY <1>2, <2>1, Constants DEF Sooner, MaxOf
  <2>3. owed'.file[f] > 0 => owed'.file[f] + WellFor' <= LongestWait
    <3>1. owed.file[f] > 0 => owed.file[f] + WellFor <= LongestWait
      BY DEF IInv, Backed
    <3>2. QED
      BY <1>1, <1>3, <2>1, <2>2, <3>1, Constants
  <2>4. ASSUME publisher'.backoff[f].since # None
        PROVE  /\ calm' <= publisher'.backoff[f].since
               /\ publisher'.backoff[f].since <= OwnAge(f) + 1
               /\ publisher'.backoff[f].since + owed'.file[f] >= publisher'.backoff[f].delay
    <3>1. publisher.backoff[f].since # None
      BY <1>2, <2>1, <2>4, LaterMark
    <3>2. /\ calm <= publisher.backoff[f].since /\ publisher.backoff[f].since <= OwnAge(f)
          /\ publisher.backoff[f].since + owed.file[f] >= publisher.backoff[f].delay
      BY <3>1 DEF IInv, Backed
    <3>3. OwnAge(f) \in 0 .. (Half - 1)
      BY <1>3 DEF OwnAge
    <3>4. publisher.backoff[f].since \in 0 .. (Period - 1)
      BY <2>1, <3>1 DEF Ticks
    <3>5. publisher.backoff[f].since < Half
      BY <3>2, <3>3, <3>4, Constants
    <3>6. publisher'.backoff[f].since = publisher.backoff[f].since + 1
      BY <1>2, <2>1, <3>1, <3>5, LaterSmall
    <3>7. publisher'.backoff[f].delay = publisher.backoff[f].delay
      BY <1>2
    <3>8. QED
      BY <1>1, <2>1, <2>2, <3>2, <3>3, <3>4, <3>6, <3>7, Constants
  <2>5. QED
    BY <2>3, <2>4
<1>7. \A f \in Files : OwnAge(f)' = OwnAge(f) + 1
  BY <1>1 DEF OwnAge
<1>8. QED
  BY <1>4, <1>5, <1>6, <1>7 DEF Backed, OwnAge

LEMMA TickMarked == ASSUME Timely, BaseInv, IInv, Tick PROVE Marked'
<1>1. /\ TypeOK /\ CallOK
      /\ age'.published = age.published + 1 /\ age'.report = age.report + 1
      /\ monitor'.step = None <=> monitor.step = None
      /\ monitor'.sample = None <=> monitor.sample = None
      /\ monitor'.published = None <=> monitor.published = None
      /\ monitor'.attempt = None <=> monitor.attempt = None
      /\ monitor'.report = None <=> monitor.report = None
      /\ monitor.step # None =>
           monitor.step \in Nat /\ monitor'.step = monitor.step + 1
      /\ monitor.sample # None =>
           monitor.sample \in Nat /\ monitor'.sample = monitor.sample + 1
      /\ monitor.published # None => monitor'.published = monitor.published + 1
      /\ monitor.attempt # None => monitor'.attempt = monitor.attempt + 1
      /\ monitor.report # None => monitor'.report = monitor.report + 1
      /\ monitor'.sensor = monitor.sensor /\ call'.at = call.at
      /\ call.at # "idle" => call'.start = call.start + 1
      /\ WellFor' \in Nat
  BY TickNumbers
<1>2. /\ age.published \in Nat /\ age.report \in Nat /\ call.start \in Nat
  BY <1>1, Numbers, Constants
<1>3. Marked
  BY DEF IInv
<1>4. /\ monitor'.published # None => monitor'.published = age'.published
      /\ monitor'.report # None => monitor'.report = age'.report
  BY <1>1, <1>3 DEF Marked
<1>5. monitor'.step = None =>
        /\ monitor'.sample = None /\ monitor'.published = None /\ monitor'.attempt = None
        /\ monitor'.report = None
        /\ call'.at = "idle" /\ WellFor' = 0
  BY <1>1, <1>3, TickBeforeStep DEF Marked
<1>6. monitor'.step # None =>
        /\ monitor'.sample # None /\ monitor'.sample <= SampleInterval - 1 + monitor'.step
        /\ monitor'.step <= MaxOf(MaxSuspension, 2 * Timeout)
        /\ WellFor' > 0 => monitor'.step <= 2 * Timeout
  <2>1. SUFFICES ASSUME monitor.step # None
                 PROVE  /\ monitor'.sample # None
                        /\ monitor'.sample <= SampleInterval - 1 + monitor'.step
                        /\ monitor'.step <= MaxOf(MaxSuspension, 2 * Timeout)
                        /\ WellFor' > 0 => monitor'.step <= 2 * Timeout
    BY <1>1
  <2>2. monitor.sample # None /\ monitor.sample <= SampleInterval - 1 + monitor.step
    BY <1>3, <2>1 DEF Marked
  <2>3. /\ monitor'.sample # None
        /\ monitor'.sample <= SampleInterval - 1 + monitor'.step
    BY <1>1, <2>1, <2>2, Constants
  <2>4. /\ monitor'.step <= MaxOf(MaxSuspension, 2 * Timeout)
        /\ WellFor' = 0 \/ monitor'.step <= 2 * Timeout
    BY <2>1, TickSteps
  <2>5. QED
    BY <1>1, <2>3, <2>4
<1>7. monitor'.attempt # None =>
        /\ monitor'.attempt = monitor'.sample
        /\ monitor'.published = None \/ age'.published >= PublicationInterval
  <2>1. SUFFICES ASSUME monitor.attempt # None
                 PROVE  /\ monitor'.attempt = monitor'.sample
                        /\ monitor'.published = None \/ age'.published >= PublicationInterval
    BY <1>1
  <2>2. /\ monitor.attempt = monitor.sample
        /\ monitor.published = None \/ age.published >= PublicationInterval
    BY <1>3, <2>1 DEF Marked
  <2>3. QED
    BY <1>1, <1>2, <2>1, <2>2, Constants
<1>8. monitor'.attempt = None /\ monitor'.step # None => monitor'.published # None
  BY <1>1, <1>3 DEF Marked
<1>9. call'.at # "idle" => monitor'.step = call'.start /\ call'.start <= age'.report
  <2>1. SUFFICES ASSUME call.at # "idle"
                 PROVE  monitor'.step = call'.start /\ call'.start <= age'.report
    BY <1>1
  <2>2. monitor.step = call.start /\ call.start <= age.report /\ monitor.step # None
    BY <1>3, <2>1 DEF Marked
  <2>3. QED
    BY <1>1, <1>2, <2>1, <2>2
<1>10. call'.at = Temperature =>
         /\ monitor'.attempt = call'.start /\ call'.start <= age'.published
         /\ monitor'.sensor = "ok"
  <2>1. SUFFICES ASSUME call.at = Temperature
                 PROVE  /\ monitor'.attempt = call'.start /\ call'.start <= age'.published
                        /\ monitor'.sensor = "ok"
    BY <1>1
  <2>2. /\ monitor.attempt = call.start /\ call.start <= age.published
        /\ monitor.sensor = "ok" /\ call.at # "idle"
    BY <1>3, <2>1 DEF Marked, Temperature
  <2>3. monitor.attempt # None
    BY <1>2, <2>2, Constants
  <2>4. QED
    BY <1>1, <1>2, <2>2, <2>3
<1>11. QED
  BY <1>4, <1>5, <1>6, <1>7, <1>8, <1>9, <1>10 DEF Marked

LEMMA TickPublished == ASSUME Timely, BaseInv, IInv, Tick PROVE Published'
<1>1. /\ TypeOK /\ CallOK
      /\ age'.published = age.published + 1
      /\ monitor'.step = None <=> monitor.step = None
      /\ monitor'.sample = None <=> monitor.sample = None
      /\ monitor'.attempt = None <=> monitor.attempt = None
      /\ monitor.step # None =>
           monitor.step \in Nat /\ monitor'.step = monitor.step + 1
      /\ monitor.sample # None =>
           monitor.sample \in Nat /\ monitor'.sample = monitor.sample + 1
      /\ call'.at = call.at
      /\ call.at # "idle" => call'.start = call.start + 1 /\ call'.spent = call.spent + 1
      /\ WellFor \in Nat /\ WellFor' \in Nat /\ WellFor' <= WellFor + 1
  BY TickNumbers
<1>2. /\ age.published \in Nat /\ call.start \in Nat /\ call.spent \in Nat
      /\ LongestWait \in Nat /\ Timeout \in Nat /\ Timeout >= 1
  BY <1>1, Numbers, Constants, TimelyBounds
<1>3. monitor'.attempt # None /\ call'.at # Temperature =>
        WellFor' <= LongestWait - 1 + monitor'.sample
  <2>1. SUFFICES ASSUME monitor.attempt # None, call.at # Temperature
                 PROVE  WellFor' <= LongestWait - 1 + monitor'.sample
    BY <1>1
  <2>2. monitor.sample # None
    BY <2>1 DEF IInv, Marked
  <2>3. WellFor <= LongestWait - 1 + monitor.sample
    BY <2>1 DEF IInv, Published
  <2>4. QED
    BY <1>1, <1>2, <2>2, <2>3
<1>4. ASSUME monitor'.attempt = None, monitor'.step # None
      PROVE  \/ age'.published = monitor'.step
             \/ /\ age'.published <= PublicationInterval - 1 + monitor'.step
                /\ monitor'.step <= Timeout \/ WellFor' = 0
                /\ call'.at # "idle" => call'.start = call'.spent
  <2>1. monitor.attempt = None /\ monitor.step # None
    BY <1>1, <1>4
  <2>2. CASE age.published = monitor.step
    BY <1>1, <2>1, <2>2
  <2>3. CASE /\ age.published <= PublicationInterval - 1 + monitor.step
             /\ call.at # "idle" => call.start = call.spent
    <3>1. \/ WellFor' = 0
          \/ /\ call.at = "idle" => monitor.step = 0 /\ monitor'.step = 1
             /\ (call.at # "idle" => call.start = call.spent) => monitor'.step <= Timeout
      BY <2>1, TickSteps
    <3>2. monitor'.step <= Timeout \/ WellFor' = 0
      BY <2>3, <3>1
    <3>3. age'.published <= PublicationInterval - 1 + monitor'.step
      BY <1>1, <1>2, <2>1, <2>3, Constants
    <3>4. call'.at # "idle" => call'.start = call'.spent
      BY <1>1, <2>3
    <3>5. QED
      BY <3>2, <3>3, <3>4
  <2>4. QED
    BY <2>1, <2>2, <2>3 DEF IInv, Published
<1>5. call'.at = Temperature =>
        \/ age'.published <= PublicationInterval - 1 + Timeout + call'.start
        \/ WellFor' <= LongestWait + SampleInterval - 2 + 2 * Timeout + call'.start
  <2>1. SUFFICES ASSUME call.at = Temperature
                 PROVE  \/ age'.published <= PublicationInterval - 1 + Timeout + call'.start
                        \/ WellFor' <= LongestWait + SampleInterval - 2 + 2 * Timeout
                                         + call'.start
    BY <1>1
  <2>2. \/ age.published <= PublicationInterval - 1 + Timeout + call.start
        \/ WellFor <= LongestWait + SampleInterval - 2 + 2 * Timeout + call.start
    BY <2>1 DEF IInv, Published
  <2>3. call'.start = call.start + 1
    BY <1>1, <2>1 DEF Temperature
  <2>4. QED
    BY <1>1, <1>2, <2>2, <2>3, Constants
<1>6. QED
  BY <1>3, <1>4, <1>5 DEF Published

LEMMA TickReported == ASSUME Timely, BaseInv, IInv, Tick PROVE Reported'
<1>1. /\ TypeOK /\ CallOK
      /\ age'.report = age.report + 1
      /\ monitor'.step = None <=> monitor.step = None
      /\ monitor.step # None =>
           monitor.step \in Nat /\ monitor'.step = monitor.step + 1
      /\ call'.at = call.at /\ (call'.report <=> call.report)
      /\ call.at # "idle" => call'.start = call.start + 1 /\ call'.spent = call.spent + 1
      /\ WellFor \in Nat /\ WellFor' \in Nat /\ WellFor' <= WellFor + 1
  BY TickNumbers
<1>2. /\ age.report \in Nat /\ call.start \in Nat /\ call.spent \in Nat
      /\ LongestWait \in Nat /\ LongestWait >= 1 /\ Timeout \in Nat
  BY <1>1, Numbers, Constants, TimelyBounds
<1>3. ASSUME call'.at = "idle", monitor'.step # None
      PROVE  \/ age'.report = monitor'.step
             \/ /\ age'.report <= Heartbeat - 1 + monitor'.step
                /\ monitor'.step <= 1 \/ WellFor' = 0
             \/ WellFor' <= LongestWait - 1 + MinOf(monitor'.step, 1)
  <2>1. call.at = "idle" /\ monitor.step # None
    BY <1>1, <1>3
  <2>2. WellFor' = 0 \/ (monitor.step = 0 /\ monitor'.step = 1)
    BY <2>1, TickSteps
  <2>3. MinOf(monitor.step, 1) \in Nat /\ MinOf(monitor'.step, 1) \in Nat
    BY <1>1, <2>1 DEF MinOf
  <2>4. CASE age.report = monitor.step
    BY <1>1, <2>1, <2>4
  <2>5. CASE age.report <= Heartbeat - 1 + monitor.step
    <3>1. age'.report <= Heartbeat - 1 + monitor'.step
      BY <1>1, <1>2, <2>1, <2>5, Constants
    <3>2. monitor'.step <= 1 \/ WellFor' = 0
      BY <2>2
    <3>3. QED
      BY <3>1, <3>2
  <2>6. CASE WellFor <= LongestWait - 1 + MinOf(monitor.step, 1)
    <3>1. CASE WellFor' = 0
      BY <1>2, <2>3, <3>1
    <3>2. CASE monitor.step = 0 /\ monitor'.step = 1
      <4>1. MinOf(monitor.step, 1) = 0 /\ MinOf(monitor'.step, 1) = 1
        BY <3>2 DEF MinOf
      <4>2. QED
        BY <1>1, <1>2, <2>6, <4>1
    <3>3. QED
      BY <2>2, <3>1, <3>2
  <2>7. QED
    BY <2>1, <2>4, <2>5, <2>6 DEF IInv, Reported
<1>4. ASSUME call'.at # "idle"
      PROVE  \/ age'.report <= Heartbeat - 1 + call'.start
             \/ /\ call'.report
                /\ \/ age'.report <= Heartbeat + call'.start
                   \/ /\ call'.at = Diagnostics /\ call'.start = call'.spent
                      /\ age'.report <= Heartbeat - 1 + Timeout + call'.start
                   \/ WellFor' <= LongestWait + call'.start
  <2>1. /\ call.at # "idle"
        /\ call'.start = call.start + 1 /\ call'.spent = call.spent + 1
    BY <1>1, <1>4
  <2>2. \/ age.report <= Heartbeat - 1 + call.start
        \/ /\ call.report
           /\ \/ age.report <= Heartbeat + call.start
              \/ /\ call.at = Diagnostics /\ call.start = call.spent
                 /\ age.report <= Heartbeat - 1 + Timeout + call.start
              \/ WellFor <= LongestWait + call.start
    BY <2>1 DEF IInv, Reported
  <2>3. /\ age.report <= Heartbeat - 1 + call.start
             => age'.report <= Heartbeat - 1 + call'.start
        /\ age.report <= Heartbeat + call.start => age'.report <= Heartbeat + call'.start
        /\ age.report <= Heartbeat - 1 + Timeout + call.start
             => age'.report <= Heartbeat - 1 + Timeout + call'.start
        /\ WellFor <= LongestWait + call.start => WellFor' <= LongestWait + call'.start
        /\ call.start = call.spent => call'.start = call'.spent
    BY <1>1, <1>2, <2>1, Constants
  <2>4. QED
    BY <1>1, <2>2, <2>3
<1>5. QED
  BY <1>3, <1>4 DEF Reported

LEMMA TickTold == ASSUME Timely, BaseInv, IInv, Tick PROVE Told'
<1>1. /\ TypeOK /\ CallOK /\ told' = told
      /\ age'.report = age.report + 1
      /\ monitor'.step = None <=> monitor.step = None
      /\ monitor'.sample = None <=> monitor.sample = None
      /\ monitor.sample # None =>
           monitor.sample \in Nat /\ monitor'.sample = monitor.sample + 1
      /\ monitor'.sensor = monitor.sensor
      /\ call'.at = call.at /\ (call'.report <=> call.report)
      /\ call.at # "idle" => call'.start = call.start + 1 /\ call'.spent = call.spent + 1
      /\ calm \in Nat /\ calm' \in Nat /\ calm' <= calm + 1
  BY TickNumbers
<1>2. /\ age.report \in Nat /\ call.start \in Nat /\ call.spent \in Nat /\ Timeout \in Nat
  BY <1>1, Numbers, Constants
<1>3. ASSUME monitor'.sensor # "ok"
      PROVE  /\ monitor'.sample = None => calm' = 0
             /\ monitor'.sample # None => calm' <= monitor'.sample
             /\ monitor'.step # None => monitor'.step <= Timeout \/ calm' = 0
             /\ call'.at # "idle" => call'.start = call'.spent
  <2>1. /\ monitor.sample # None => calm <= monitor.sample
        /\ call.at # "idle" => call.start = call.spent
    BY <1>1, <1>3 DEF IInv, Told
  <2>2. monitor.step # None => monitor.sample # None
    BY DEF IInv, Marked
  <2>3. monitor'.sample = None => calm' = 0
    BY <1>1, <2>2, TickBeforeStep
  <2>4. monitor'.sample # None => calm' <= monitor'.sample
    BY <1>1, <2>1
  <2>5. monitor'.step # None => monitor'.step <= Timeout \/ calm' = 0
    BY <1>1, <2>1, TickSteps
  <2>6. call'.at # "idle" => call'.start = call'.spent
    BY <1>1, <2>1
  <2>7. QED
    BY <2>3, <2>4, <2>5, <2>6
<1>4. ASSUME monitor'.sensor = "ok", told' # "ok"
      PROVE  \/ calm' <= age'.report
             \/ /\ call'.at # "idle" /\ call'.report
                /\ calm' <= SampleInterval - 1 + Timeout + call'.start
  <2>1. \/ calm <= age.report
        \/ /\ call.at # "idle" /\ call.report
           /\ calm <= SampleInterval - 1 + Timeout + call.start
    BY <1>1, <1>4 DEF IInv, Told
  <2>2. CASE calm <= age.report
    BY <1>1, <1>2, <2>2
  <2>3. CASE /\ call.at # "idle" /\ call.report
             /\ calm <= SampleInterval - 1 + Timeout + call.start
    <3>1. call'.start = call.start + 1
      BY <1>1, <2>3
    <3>2. calm' <= SampleInterval - 1 + Timeout + call'.start
      BY <1>1, <1>2, <2>3, <3>1, Constants
    <3>3. QED
      BY <1>1, <2>3, <3>2
  <2>4. QED
    BY <2>1, <2>2, <2>3
<1>5. QED
  BY <1>3, <1>4 DEF Told

LEMMA TickKeeps == ASSUME Timely, BaseInv, IInv, Tick PROVE IInv'
<1>1. Well'
  <2>1. /\ UNCHANGED <<suspended, world>>
        /\ WellFor' \in Nat /\ calm' \in Nat
        /\ ~Healthy => calm' = 0 /\ WellFor' = 0
    BY TickNumbers
  <2>2. Healthy => world.sensor /\ world.service = "ok" /\ ~suspended
    BY DEF Healthy
  <2>3. QED
    BY <2>1, <2>2 DEF Well
<1>2. QED
  BY <1>1, TickMarked, TickBacked, TickPublished, TickReported, TickTold DEF IInv

-----------------------------------------------------------------------------
LEMMA IInvInit == ASSUME Timely, Init PROVE IInv
<1>1. WellFor = 0
  BY Constants DEF Init, WellFor, WellOf, MaxOf
<1>2. /\ monitor.step = None /\ monitor.sample = None /\ monitor.published = None
      /\ monitor.attempt = None /\ monitor.report = None /\ monitor.sensor = "unknown"
      /\ call.at = "idle" /\ calm = 0 /\ owed.shared = 0
      /\ publisher.notBefore = None
      /\ \A f \in Files : owed.file[f] = 0 /\ publisher.backoff[f].since = None
  BY DEF Init, NoCall, FreshPublisher, NoFailure
<1>3. Well /\ Marked /\ Backed
  BY <1>1, <1>2 DEF Well, Marked, Backed, Temperature
<1>4. Published /\ Reported /\ Told
  BY <1>1, <1>2 DEF Published, Reported, Told, Temperature
<1>5. QED
  BY <1>3, <1>4 DEF IInv

LEMMA IInvStep == ASSUME Timely, BaseInv, IInv, [Next]_vars PROVE IInv'
<1>1. CASE Step
  BY <1>1, RestsKeeps, SamplesKeeps DEF Step
<1>2. CASE Request
  BY <1>2, HoldBackKeeps, SendKeeps, AcceptedKeeps, FailureKeeps DEF Request
<1>3. CASE Suspend \/ Resume
  BY <1>3, SuspensionKeeps
<1>4. CASE TakeTrialSample
  BY <1>4, TrialSampleKeeps
<1>5. CASE ReplacePublisher
  BY <1>5, ReplaceKeeps
<1>6. CASE WorldChanges
  BY <1>6, WorldKeeps
<1>7. CASE Tick
  BY <1>7, TickKeeps
<1>8. CASE UNCHANGED vars
  <2>1. UNCHANGED <<monitor, publisher, call, suspended, world, told, owed, age, calm>>
    BY <1>8 DEF vars
  <2>2. WellFor' = WellFor
    BY <2>1 DEF WellFor
  <2>3. Well' /\ Marked' /\ Published' /\ Reported' /\ Told'
    BY <2>1, <2>2 DEF IInv, Well, Marked, Published, Reported, Told
  <2>4. Backed'
    BY <2>1, <2>2 DEF IInv, Backed, OwnAge
  <2>5. QED
    BY <2>3, <2>4 DEF IInv
<1>9. QED
  BY <1>1, <1>2, <1>3, <1>4, <1>5, <1>6, <1>7, <1>8 DEF Next

LEMMA IInvAlways == ASSUME Timely PROVE Spec => [](BaseInv /\ IInv)
<1>1. Init => BaseInv /\ IInv
  BY BaseInit, IInvInit
<1>2. (BaseInv /\ IInv) /\ [Next]_vars => (BaseInv /\ IInv)'
  BY BaseStep, IInvStep
<1>3. QED
  BY <1>1, <1>2, PTL DEF Spec

\* Patience outlasts every reason but the intervals and the requests in
\* progress.
LEMMA PatienceEnds ==
  ASSUME Timely, BaseInv, IInv, calm = Patience
  PROVE  RecoversInTime /\ told = "ok"
<1>1. TypeOK /\ CallOK
  BY DEF BaseInv
<1>2. /\ age.published \in Nat /\ age.report \in Nat /\ calm \in Nat
      /\ call.start \in Nat /\ call.spent \in Nat /\ Timeout \in Nat /\ LongestWait \in Nat
      /\ Timeout >= 1 /\ LongestWait >= 1
      /\ Patience >= LongestWait + SampleInterval + 3 * Timeout - 1
      /\ Patience > Heartbeat + 2 * Timeout
  BY <1>1, Numbers, Constants, TimelyBounds
<1>3. WellFor \in Nat /\ WellFor >= Patience /\ WellFor > 0
  BY <1>1, <1>2, WellForRange, Constants
<1>4. monitor.step # None /\ monitor.step \in Nat /\ monitor.step <= 2 * Timeout
  <2>1. monitor.step # None
    BY <1>3 DEF IInv, Marked
  <2>2. QED
    BY <1>1, <1>3, <2>1, StepBounded, Constants
<1>5. monitor.sample \in Nat /\ monitor.sample <= SampleInterval - 1 + 2 * Timeout
  <2>1. monitor.sample \in 0 .. (Half - 1) /\ monitor.sample <= SampleInterval - 1 + monitor.step
    BY <1>1, <1>4, StepBounded
  <2>2. QED
    BY <1>2, <1>4, <2>1, Constants
<1>6. /\ call.start <= 2 * Timeout /\ (call.start = call.spent => call.start <= Timeout)
      /\ call.at = Temperature => call.start <= Timeout
  BY <1>1, <1>2 DEF CallOK
<1>7. age.published <= PublicationInterval + 2 * Timeout
  <2>1. CASE call.at = Temperature
    <3>1. ~(WellFor <= LongestWait + SampleInterval - 2 + 2 * Timeout + call.start)
      BY <1>2, <1>3, <1>6, <2>1, Constants
    <3>2. age.published <= PublicationInterval - 1 + Timeout + call.start
      BY <2>1, <3>1 DEF IInv, Published
    <3>3. QED
      BY <1>2, <1>6, <2>1, <3>2, Constants
  <2>2. CASE call.at # Temperature
    <3>1. ~(WellFor <= LongestWait - 1 + monitor.sample)
      BY <1>2, <1>3, <1>5, Constants
    <3>2. monitor.attempt = None
      BY <2>2, <3>1 DEF IInv, Published
    <3>3. age.published = monitor.step
            \/ age.published <= PublicationInterval - 1 + monitor.step
      BY <1>4, <3>2 DEF IInv, Published
    <3>4. QED
      BY <1>2, <1>4, <3>3, Constants
  <2>3. QED
    BY <2>1, <2>2
<1>8. age.report <= Heartbeat + 2 * Timeout
  <2>1. CASE call.at = "idle"
    <3>1. MinOf(monitor.step, 1) <= 1 /\ MinOf(monitor.step, 1) \in Nat
      BY <1>4 DEF MinOf
    <3>2. ~(WellFor <= LongestWait - 1 + MinOf(monitor.step, 1))
      BY <1>2, <1>3, <3>1, Constants
    <3>3. age.report = monitor.step \/ age.report <= Heartbeat - 1 + monitor.step
      BY <1>4, <2>1, <3>2 DEF IInv, Reported
    <3>4. QED
      BY <1>2, <1>4, <3>3, Constants
  <2>2. CASE call.at # "idle"
    <3>1. ~(WellFor <= LongestWait + call.start)
      BY <1>2, <1>3, <1>6, Constants
    <3>2. \/ age.report <= Heartbeat - 1 + call.start
          \/ age.report <= Heartbeat + call.start
          \/ /\ call.start = call.spent
             /\ age.report <= Heartbeat - 1 + Timeout + call.start
      BY <2>2, <3>1 DEF IInv, Reported
    <3>3. QED
      BY <1>2, <1>6, <3>2, Constants
  <2>3. QED
    BY <2>1, <2>2
<1>9. monitor.sensor = "ok"
  <2>1. SUFFICES ASSUME monitor.sensor # "ok" PROVE FALSE
    OBVIOUS
  <2>2. monitor.sample # None
    BY <1>4 DEF IInv, Marked
  <2>3. calm <= monitor.sample
    BY <2>1, <2>2 DEF IInv, Told
  <2>4. QED
    BY <1>2, <1>5, <2>3, Constants
<1>10. told = "ok"
  <2>1. SUFFICES ASSUME told # "ok" PROVE FALSE
    OBVIOUS
  <2>2. calm <= age.report \/ calm <= SampleInterval - 1 + Timeout + call.start
    BY <1>9, <2>1 DEF IInv, Told
  <2>3. QED
    BY <1>2, <1>6, <1>8, <2>2, Constants
<1>11. QED
  BY <1>7, <1>8, <1>10 DEF RecoversInTime

\* However the failures, rate limits, trials and suspensions before it went:
\* once the sensor and GitHub have been well for Patience ticks, neither a
\* backoff nor a cooldown, a lost retry or a mark that wrapped keeps what the
\* phone sees from being renewed within the intervals of Monitor.step.
THEOREM RecoveryIsTimely == ASSUME Timely PROVE Spec => []RecoversInTime
<1>1. BaseInv /\ IInv => RecoversInTime
  BY PatienceEnds DEF RecoversInTime
<1>2. QED
  BY <1>1, IInvAlways, PTL

\* And by then the diagnostics in the Gist name the sensor's state: a report
\* of its recovery that GistPublisher held back or lost is made up for.
THEOREM RecoveryIsReported == ASSUME Timely PROVE Spec => []StateIsTold
<1>1. BaseInv /\ IInv => StateIsTold
  BY PatienceEnds DEF StateIsTold
<1>2. QED
  BY <1>1, IInvAlways, PTL
=============================================================================
