---------------------------- MODULE Publication ----------------------------
(***************************************************************************)
(* The Pico's telemetry: the cooperative scheduler (runtime.Monitor) that  *)
(* reads the sensor and publishes the temperature and the diagnostics, and *)
(* the GistPublisher whose backoff and shared cooldown decide whether a    *)
(* request leaves the device at all.                                       *)
(*                                                                         *)
(* The clock is MicroPython's: ticks wrap after Period, and ticks_diff     *)
(* reads a distance as signed.  A mark, which is a tick value the code     *)
(* keeps, is modelled by how far the clock has moved on since, modulo      *)
(* Period.  The application's loop, which is not part of the repository,   *)
(* is assumed to call step in every tick it is not suspended.  Payloads,   *)
(* the event log and jitter below a tick are left out, and so is poll, a    *)
(* step without intervals that only the host's tests call.                 *)
(***************************************************************************)
EXTENDS Integers

CONSTANTS
  Period,               \* of the tick counter, even
  SampleInterval,       \* of step, in ticks of the model
  PublicationInterval,  \* of step
  Heartbeat,            \* HEARTBEAT_INTERVAL_MS
  InitialDelay,         \* INITIAL_BACKOFF_MS
  MaxDelay,             \* MAX_BACKOFF_MS
  Cooldown,             \* the least shared delay after a 403 or 429
  MaxHint,              \* MAX_RETRY_HINT_MS
  Timeout,              \* of a request
  MaxSuspension,        \* bound on a configuration trial, see Tick
  MaxOutage,            \* bound on the age of what the phone sees, see Tick
  Patience,             \* ticks of undisturbed work after which all is current
  None

Half == Period \div 2
MaxOf(a, b) == IF a > b THEN a ELSE b
MinOf(a, b) == IF a < b THEN a ELSE b

ASSUME PublicationAssumption ==
  /\ Period \in Nat /\ Period = 2 * Half
  /\ {SampleInterval, PublicationInterval, Heartbeat, InitialDelay, MaxDelay, Cooldown, MaxHint}
        \subseteq 1 .. (Half - 1)
  /\ SampleInterval <= PublicationInterval
  /\ Timeout \in Nat /\ 2 * Timeout < Half /\ MaxSuspension \in 0 .. (Half - 1)
  /\ MaxOutage \in Nat /\ Patience \in Nat
  /\ None \notin Int

Temperature == "thermostat.txt"
Diagnostics == "diagnostics.json"
Files == {Temperature, Diagnostics}

VARIABLES
  monitor,    \* the marks of Monitor and the sensor's state in its diagnostics
  publisher,  \* the backoff of each file and _server_not_before
  call,       \* the step in progress, with its local variables
  suspended,  \* _publication_suspended
  world,      \* environment: whether the sensor answers, and how GitHub does
  told,       \* the sensor state in the diagnostics Gist
  owed,       \* history: ticks that must still pass before a request may be
              \* sent, for each file, and for both after a rate limit
  age,        \* history: true ages of the last publications, up to Half
  calm        \* history: ticks since anything was wrong, up to Patience

vars == <<monitor, publisher, call, suspended, world, told, owed, age, calm>>

-----------------------------------------------------------------------------
\* ticks_diff(now, m) of a mark m, and _elapsed_at_least.
Elapsed(m) == IF m < Half THEN m ELSE m - Period
\* A faulty AtLeast: one tick late.
AtLeastStrictly(m, interval) == m # None => Elapsed(m) > interval

AtLeast(m, interval) == m # None => Elapsed(m) >= interval

Later(m) == IF m = None THEN None ELSE (m + 1) % Period

Sensed == {"unknown", "ok", "error"}
NoFailure == [base |-> 0, delay |-> 0, since |-> None]
FreshPublisher == [backoff |-> [f \in Files |-> NoFailure], notBefore |-> None]
NoCall == [at |-> "idle", start |-> 0, report |-> FALSE, sent |-> FALSE, spent |-> 0]

Init ==
  /\ monitor = [step |-> None, sample |-> None, published |-> None, attempt |-> None,
                report |-> None, sensor |-> "unknown"]
  /\ publisher = FreshPublisher
  /\ call = NoCall
  /\ suspended = FALSE
  /\ world \in [sensor : BOOLEAN, service : {"ok", "limited", "down"}]
  /\ told = "unknown"
  /\ owed = [shared |-> 0, file |-> [f \in Files |-> 0]]
  /\ age = [published |-> 0, report |-> 0]
  /\ calm = 0

-----------------------------------------------------------------------------
ReportDue == AtLeast(monitor.report, Heartbeat)
SensorReads == IF world.sensor THEN "ok" ELSE "error"
Transition == SensorReads # monitor.sensor

\* The call goes on at `stage`, or ends there when it has nothing to report.
Goes(stage, report) ==
  IF stage = Diagnostics /\ ~report
  THEN NoCall
  ELSE [NoCall EXCEPT !.at = stage, !.report = report]

Callable == call.at = "idle" /\ ~suspended

SampleDue == AtLeast(monitor.sample, SampleInterval)
PublicationDue == AtLeast(monitor.published, PublicationInterval)
RetryDue == AtLeast(monitor.attempt, SampleInterval)

Stepping ==
  /\ Callable
  /\ monitor.step # None => Elapsed(monitor.step) >= 0
  /\ UNCHANGED <<publisher, suspended, world, told, owed, age, calm>>

\* step with nothing due but perhaps the heartbeat.
StepRests ==
  /\ Stepping
  /\ ~SampleDue /\ ~(PublicationDue /\ RetryDue)
  /\ monitor' = [monitor EXCEPT !.step = 0]
  /\ call' = Goes(Diagnostics, ReportDue)

\* A faulty StepSamples: a step that samples leaves the heartbeat to the others.
StepSamplesOnTransition ==
  /\ Stepping
  /\ SampleDue \/ (PublicationDue /\ RetryDue)
  /\ monitor' = [monitor EXCEPT !.step = 0, !.sample = 0, !.sensor = SensorReads,
                                !.attempt = IF PublicationDue THEN 0 ELSE @]
  /\ call' = Goes(IF world.sensor /\ PublicationDue THEN Temperature ELSE Diagnostics,
                  Transition)

\* step that samples, and goes on to publish what it read when that is due.
StepSamples ==
  /\ Stepping
  /\ SampleDue \/ (PublicationDue /\ RetryDue)
  /\ monitor' = [monitor EXCEPT !.step = 0, !.sample = 0, !.sensor = SensorReads,
                                !.attempt = IF PublicationDue THEN 0 ELSE @]
  /\ call' = Goes(IF world.sensor /\ PublicationDue THEN Temperature ELSE Diagnostics,
                  ReportDue \/ Transition)

-----------------------------------------------------------------------------
InBackoff(f) ==
  LET b == publisher.backoff[f] IN b.since # None /\ Elapsed(b.since) < b.delay

CoolingDown == publisher.notBefore # None /\ Elapsed(publisher.notBefore) < 0

Pending == call.at \in Files /\ ~call.sent

\* What the monitor does with a publication that did not succeed.
Unpublished ==
  /\ call' = IF call.at = Temperature THEN [Goes(Diagnostics, TRUE) EXCEPT !.start = call.start]
                                      ELSE NoCall
  /\ UNCHANGED monitor

\* _publish returns False before it sends anything.
HoldBack ==
  /\ Pending
  /\ InBackoff(call.at) \/ CoolingDown
  /\ Unpublished
  /\ UNCHANGED <<publisher, suspended, world, told, owed, age, calm>>

Send ==
  /\ Pending
  /\ ~InBackoff(call.at) /\ ~CoolingDown
  /\ publisher' = [publisher EXCEPT !.notBefore = None]
  /\ call' = [call EXCEPT !.sent = TRUE]
  /\ UNCHANGED <<monitor, suspended, world, told, owed, age, calm>>

Tell == IF call.at = Diagnostics THEN monitor.sensor ELSE told

\* The request is acknowledged: the marks are those of the call's beginning.
Accepted ==
  /\ call.sent /\ world.service = "ok"
  /\ publisher' = [publisher EXCEPT !.backoff[call.at] = NoFailure]
  /\ IF call.at = Temperature
       THEN /\ monitor' = [monitor EXCEPT !.published = call.start, !.attempt = None]
            /\ call' = [Goes(Diagnostics, call.report)
                        EXCEPT !.start = IF call.report THEN call.start ELSE 0]
            /\ age' = [age EXCEPT !.published = call.start]
       ELSE /\ monitor' = [monitor EXCEPT !.report = call.start]
            /\ call' = NoCall
            /\ age' = [age EXCEPT !.report = call.start]
  /\ told' = Tell
  /\ owed' = [owed EXCEPT !.file[call.at] = 0]
  /\ UNCHANGED <<suspended, world, calm>>

\* min(INITIAL_BACKOFF_MS * 2 ** (failures - 1), MAX_BACKOFF_MS), which is
\* the first delay or twice the one before, and stays at the limit.
Doubled(base) == IF base = 0 THEN MinOf(InitialDelay, MaxDelay) ELSE MinOf(2 * base, MaxDelay)

\* A faulty Escalated: stamped when the attempt begins.
EscalatedFromStart(b, least) ==
  [base |-> Doubled(b.base), delay |-> MaxOf(Doubled(b.base), least), since |-> call.start]

Escalated(b, least) ==
  [base |-> Doubled(b.base), delay |-> MaxOf(Doubled(b.base), least), since |-> 0]

\* _failed, stamped when the request ends.
Failed(least) ==
  LET b == Escalated(publisher.backoff[call.at], least)
  IN  /\ publisher' = [publisher EXCEPT !.backoff[call.at] = b,
                                        !.notBefore = IF least > 0 THEN (Period - least) % Period
                                                                    ELSE @]
      /\ owed' = [owed EXCEPT !.file[call.at] = b.delay, !.shared = MaxOf(@, least)]

\* 403 or 429, with or without a retry hint.
RateLimited ==
  /\ call.sent /\ world.service = "limited"
  /\ \E hint \in {0, MaxHint} : Failed(MaxOf(Cooldown, hint))
  /\ Unpublished
  /\ UNCHANGED <<suspended, world, told, age, calm>>

\* Any other failure; GitHub may have taken the file although no answer came.
Fails ==
  /\ call.sent /\ world.service = "down"
  /\ Failed(0)
  /\ Unpublished
  /\ told' \in {told, Tell}
  /\ UNCHANGED <<suspended, world, age, calm>>

-----------------------------------------------------------------------------
Suspend ==
  /\ call.at = "idle" /\ ~suspended
  /\ suspended' = TRUE
  /\ calm' = 0
  /\ UNCHANGED <<monitor, publisher, call, world, told, owed, age>>

Resume ==
  /\ suspended
  /\ suspended' = FALSE
  /\ UNCHANGED <<monitor, publisher, call, world, told, owed, age, calm>>

\* take_trial_sample: the sensor's state may change without a report.
TakeTrialSample ==
  /\ suspended
  /\ monitor' = [monitor EXCEPT !.sensor = SensorReads]
  /\ UNCHANGED <<publisher, call, suspended, world, told, owed, age, calm>>

\* replace_publisher, which a promoted configuration calls while suspended.
ReplacePublisher ==
  /\ suspended
  /\ publisher' = FreshPublisher
  /\ owed' = [shared |-> 0, file |-> [f \in Files |-> 0]]
  /\ UNCHANGED <<monitor, call, suspended, world, told, age, calm>>

-----------------------------------------------------------------------------
Healthy == world = [sensor |-> TRUE, service |-> "ok"] /\ ~suspended

Stale == MaxOf(age.published, age.report)

\* The sensor or GitHub changes; a bounded outage has to end for good first.
WorldChanges ==
  /\ world' \in [sensor : BOOLEAN, service : {"ok", "limited", "down"}] \ {world}
  /\ Stale < MaxOutage \/ (world'.sensor /\ world'.service = "ok")
  /\ calm' = 0
  /\ UNCHANGED <<monitor, publisher, call, suspended, told, owed, age>>

Older(n) == MinOf(n + 1, Half)
Sooner(n) == MaxOf(n - 1, 0)

\* A tick passes during a request that has not timed out, between two calls
\* of step, or while the publication is suspended.
Tick ==
  /\ \/ call.sent /\ call.spent < Timeout
     \/ call.at = "idle" /\ ~suspended /\ monitor.step = 0
     \/ suspended /\ (monitor.step # None => monitor.step < MaxSuspension)
  /\ Healthy \/ Stale < MaxOutage
  /\ monitor' = [k \in DOMAIN monitor |-> IF k = "sensor" THEN monitor[k] ELSE Later(monitor[k])]
  /\ publisher' = [backoff |-> [f \in Files |-> [publisher.backoff[f] EXCEPT !.since = Later(@)]],
                   notBefore |-> Later(publisher.notBefore)]
  /\ call' = IF call.at = "idle" THEN call ELSE [call EXCEPT !.start = @ + 1, !.spent = @ + 1]
  /\ owed' = [shared |-> Sooner(owed.shared), file |-> [f \in Files |-> Sooner(owed.file[f])]]
  /\ age' = [k \in DOMAIN age |-> Older(age[k])]
  /\ calm' = IF Healthy THEN MinOf(calm + 1, Patience) ELSE 0
  /\ UNCHANGED <<suspended, world, told>>

Step == StepRests \/ StepSamples
Request == HoldBack \/ Send \/ Accepted \/ RateLimited \/ Fails

Next ==
  \/ Step \/ Request
  \/ Suspend \/ Resume \/ TakeTrialSample \/ ReplacePublisher
  \/ WorldChanges \/ Tick

Spec == Init /\ [][Next]_vars

\* The application's loop keeps calling step, requests end, time passes
\* however often step is called, and a trial ends by resuming the publication.
Fairness ==
  /\ WF_vars(Step) /\ WF_vars(Request)
  /\ WF_vars(Resume) /\ SF_vars(Tick)

FairSpec == Spec /\ Fairness

-----------------------------------------------------------------------------
\* No request leaves the device before its file's backoff, and the cooldown a
\* rate limit started for both files, have truly run out: whatever the ticks,
\* the order of the two files' requests and the time each of them took.
RequestsWait ==
  [][Send => owed.shared = 0 /\ owed.file[call.at] = 0]_vars

\* The longest a failure may keep a file from being sent.
LongestWait == MaxOf(MaxDelay, MaxOf(Cooldown, MaxHint))

\* What the two properties below need of the constants: a request ends before
\* the next publication is due, two do before a heartbeat is; Patience covers
\* the longest wait, the sample after it and the requests around them; and no
\* mark that matters gets as old as half the period.
Timely ==
  /\ Timeout \in 1 .. (PublicationInterval - 1) /\ 2 * Timeout <= Heartbeat
  /\ Patience >= LongestWait + SampleInterval + 3 * Timeout - 1
  /\ Patience > Heartbeat + 2 * Timeout
  /\ MaxOf(PublicationInterval, Heartbeat) + 2 * Timeout < Half
  /\ MaxOutage + LongestWait + SampleInterval + 3 * Timeout <= Half
  /\ SampleInterval + MaxSuspension <= Half

\* Once the sensor and GitHub have been well for Patience ticks, what the
\* phone sees is never older than the intervals and the requests in progress
\* explain: no backoff, cooldown, earlier suspension or lost retry delays it.
\* A request takes up to Timeout, and may have to wait for the other file's.
RecoversInTime ==
  calm = Patience =>
    /\ age.published <= PublicationInterval + 2 * Timeout
    /\ age.report <= Heartbeat + 2 * Timeout

\* By then it also knows the sensor's state, although the report of the
\* transition may have been lost, held back, or due while a trial was running.
StateIsTold == calm = Patience => told = "ok"

\* However long an outage was, the temperature is published again and again
\* once it is over for good.
PublishesAgain == <>[]Healthy => []<>(call.at = Temperature /\ call.sent)
=============================================================================
