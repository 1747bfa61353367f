---------------------------- MODULE AlarmMonitor ----------------------------
(***************************************************************************)
(* The alarm of one thermostat in the Android app: the background monitor  *)
(* (ThermostatMonitorRunner), a foreground refresh of the same thermostat  *)
(* (ThermostatService.refresh) and the user's answers to the notification, *)
(* which run in different isolates and share the state row of the database *)
(* and the notification.  Every await of the code ends a step here.        *)
(*                                                                         *)
(* Times are kept as ages and countdowns, so that they need no bound.  A   *)
(* row loses everything but what the decisions read: values, etags and     *)
(* messages are left out, as are failures of the database itself.          *)
(***************************************************************************)
EXTENDS Integers

CONSTANTS
  Limit,        \* kAlarmRateLimit, in ticks of the model
  Snoozes,      \* the snooze lengths of the notification, in ticks
  Readings,     \* what the sensor may report; see Condition
  Hysteresis,   \* the thermostat's hysteresisEnabled
  NoRow         \* no state row yet

ASSUME AlarmAssumption ==
  /\ Limit \in Nat \ {0}
  /\ Snoozes \subseteq Nat \ {0}
  /\ Readings \subseteq {"out", "near", "ok", "stale"}
  /\ Hysteresis \in BOOLEAN

Monitor == "monitor"
Refresh == "refresh"
Actors == {Monitor, Refresh}

Never == -1      \* a null lastAlarmAt
NoSnooze == -1   \* a null snoozedUntil; 0 is one in the past

Statuses == {"unknown", "ok", "outOfRange", "stale"}   \* unknown: networkError, too

VARIABLES
  row,       \* the ThermostatStateEntries row
  sensor,    \* environment: what the Gist would tell now
  shown,     \* whether the alarm notification is up
  task,      \* progress and local variables of each actor
  user       \* where a notification action is

vars == <<row, sensor, shown, task, user>>

Fresh == [status |-> "unknown", alarmAge |-> Never, snooze |-> NoSnooze, silence |-> FALSE]

\* at: the next step; the snapshot's wasOut, snoozed and silenced, as long as
\* the code still needs them; got: the condition to record; quiet: history,
\* whether the row was silenced when the reading was fetched.
Idle == [at |-> "idle", wasOut |-> FALSE, snoozed |-> FALSE, silenced |-> FALSE,
         got |-> "none", quiet |-> FALSE]

Init ==
  /\ row = NoRow
  /\ sensor \in Readings
  /\ shown = FALSE
  /\ task = [a \in Actors |-> Idle]
  /\ user = "idle"

-----------------------------------------------------------------------------
\* An upsert leaves alone the columns it does not name.
Recorded(s, status) == [(IF s = NoRow THEN Fresh ELSE s) EXCEPT !.status = status]

\* A faulty RecordedOk: an OK reading clears the snooze and forgets the silence.
RecordedOkKeepingSilence(s, t) ==
  LET r == Recorded(s, "ok")
  IN  [r EXCEPT !.snooze = IF t.snoozed THEN NoSnooze ELSE @]

\* saveState of an OK reading clears what the snapshot had set.
RecordedOk(s, t) ==
  LET r == Recorded(s, "ok")
  IN  [r EXCEPT !.snooze = IF t.snoozed THEN NoSnooze ELSE @,
                !.silence = @ /\ ~t.silenced]

Snoozed(s) == s.snooze > 0

\* shouldTriggerAlarm
ShouldTrigger(s, status) ==
  \/ s = NoRow
  \/ /\ ~s.silence
     /\ ~Snoozed(s)
     /\ s.alarmAge = Never \/ s.status # status \/ s.alarmAge >= Limit

\* _recordAlarmConditionAndShouldAlarm, when it does fire.
Alarmed(s, status) == [Recorded(s, status) EXCEPT !.alarmAge = 0, !.snooze = NoSnooze]

\* isThermostatReadingOutOfRange, then isThermostatDataStale.  "near" is a
\* value inside the range that hysteresis does not yet accept.
Condition(reading, wasOut) ==
  IF reading = "out" \/ (reading = "near" /\ Hysteresis /\ wasOut) THEN "outOfRange"
  ELSE IF reading = "stale" THEN "stale"
  ELSE "ok"

-----------------------------------------------------------------------------
Goto(a, place) == task' = [task EXCEPT ![a] = [Idle EXCEPT !.at = place]]
Done(a) == task' = [task EXCEPT ![a] = Idle]

\* fetchThermostats or loadState: the snapshot of the row.
Start(a) ==
  /\ task[a].at = "idle"
  /\ task' = [task EXCEPT ![a] =
       [Idle EXCEPT !.at = "fetch",
                    !.wasOut = Hysteresis /\ row # NoRow /\ row.status = "outOfRange",
                    !.snoozed = row # NoRow /\ row.snooze # NoSnooze,
                    !.silenced = row # NoRow /\ row.silence]]
  /\ UNCHANGED <<row, sensor, shown, user>>

\* fetchCurrent
Fetch(a) ==
  /\ task[a].at = "fetch"
  /\ LET c == Condition(sensor, task[a].wasOut) IN
     task' = [task EXCEPT ![a] =
       IF c = "ok"
         THEN [@ EXCEPT !.at = "save", !.got = c, !.wasOut = FALSE,
                        !.quiet = row # NoRow /\ row.silence]
         ELSE [Idle EXCEPT !.at = "save", !.got = c]]
  /\ UNCHANGED <<row, sensor, shown, user>>

\* A faulty FetchFails: the error path of a refresh writes the row of its snapshot back.
FetchFailsWritingBack(a) ==
  /\ task[a].at = "fetch"
  /\ row' = [Recorded(row, "unknown") EXCEPT !.silence = task[a].silenced]
  /\ Done(a)
  /\ UNCHANGED <<sensor, shown, user>>

\* The fetch fails with an error of its own, or with an unexpected one.
FetchFails(a) ==
  /\ task[a].at = "fetch"
  /\ row' = Recorded(row, "unknown")
  /\ Done(a)
  /\ UNCHANGED <<sensor, shown, user>>

\* A faulty RecordAlarm: lastAlarmAt is written by every alarm-worthy reading, fired or not.
RecordAlarmAlwaysStamping ==
  LET status == task[Monitor].got IN
  /\ task[Monitor].at = "save"
  /\ status # "ok"
  /\ IF ShouldTrigger(row, status)
       THEN row' = Alarmed(row, status) /\ Goto(Monitor, "show")
       ELSE row' = [Recorded(row, status) EXCEPT !.alarmAge = 0] /\ Done(Monitor)
  /\ UNCHANGED <<sensor, shown, user>>

\* The monitor decides inside the transaction that records the reading.
RecordAlarm ==
  LET status == task[Monitor].got IN
  /\ task[Monitor].at = "save"
  /\ status # "ok"
  /\ IF ShouldTrigger(row, status)
       THEN row' = Alarmed(row, status) /\ Goto(Monitor, "show")
       ELSE row' = Recorded(row, status) /\ Done(Monitor)
  /\ UNCHANGED <<sensor, shown, user>>

\* The foreground only records what it saw.
RecordStatus ==
  LET status == task[Refresh].got IN
  /\ task[Refresh].at = "save"
  /\ status # "ok"
  /\ row' = Recorded(row, status)
  /\ Done(Refresh)
  /\ UNCHANGED <<sensor, shown, user>>

\* A faulty RecordOk: the notification is cancelled only when the row was out of range.
RecordOkGated(a) ==
  /\ task[a].at = "save"
  /\ task[a].got = "ok"
  /\ row' = RecordedOk(row, task[a])
  /\ IF row # NoRow /\ row.status = "outOfRange" THEN Goto(a, "cancel") ELSE Done(a)
  /\ UNCHANGED <<sensor, shown, user>>

RecordOk(a) ==
  /\ task[a].at = "save"
  /\ task[a].got = "ok"
  /\ row' = RecordedOk(row, task[a])
  /\ Goto(a, "cancel")
  /\ UNCHANGED <<sensor, shown, user>>

\* showAlarm, showStaleDataAlarm
Show ==
  /\ task[Monitor].at = "show"
  /\ shown' = TRUE
  /\ Done(Monitor)
  /\ UNCHANGED <<row, sensor, user>>

\* The notification plugin throws, and run's catch-all records "unknown".
ShowFails ==
  /\ task[Monitor].at = "show"
  /\ row' = Recorded(row, "unknown")
  /\ Done(Monitor)
  /\ UNCHANGED <<sensor, shown, user>>

\* cancelAlarmNotification after an OK reading, whatever was showing.
Cancel(a) ==
  /\ task[a].at = "cancel"
  /\ shown' = FALSE
  /\ Done(a)
  /\ UNCHANGED <<row, sensor, user>>

-----------------------------------------------------------------------------
\* _handleNotificationResponse and the alarm page: snooze, ...
Snooze(d) ==
  /\ user = "idle"
  /\ row # NoRow
  /\ row' = [row EXCEPT !.snooze = d]
  /\ user' = "cancel"
  /\ UNCHANGED <<sensor, shown, task>>

\* ... silence until OK, which is two writes, ...
Silence ==
  /\ user = "idle"
  /\ row # NoRow
  /\ row' = [row EXCEPT !.silence = TRUE]
  /\ user' = "unsnooze"
  /\ UNCHANGED <<sensor, shown, task>>

Unsnooze ==
  /\ user = "unsnooze"
  /\ row' = [row EXCEPT !.snooze = NoSnooze]
  /\ user' = "cancel"
  /\ UNCHANGED <<sensor, shown, task>>

\* ... or a tap or acknowledgement; each ends with cancelAlarmNotification.
Acknowledge ==
  /\ user = "idle"
  /\ shown
  /\ user' = "cancel"
  /\ UNCHANGED <<row, sensor, shown, task>>

UserCancel ==
  /\ user = "cancel"
  /\ shown' = FALSE
  /\ user' = "idle"
  /\ UNCHANGED <<row, sensor, task>>

-----------------------------------------------------------------------------
SensorChanges(r) ==
  /\ sensor' = r
  /\ UNCHANGED <<row, shown, task, user>>

Tick ==
  /\ row # NoRow
  /\ row' = [row EXCEPT
       !.alarmAge = IF @ = Never \/ @ = Limit THEN @ ELSE @ + 1,
       !.snooze = IF @ > 0 THEN @ - 1 ELSE @]
  /\ UNCHANGED <<sensor, shown, task, user>>

\* The system kills the app's process; a notification stays up.
Kill ==
  /\ task' = [a \in Actors |-> Idle]
  /\ user' = "idle"
  /\ UNCHANGED <<row, sensor, shown>>

Act(a) == Start(a) \/ Fetch(a) \/ FetchFails(a) \/ RecordOk(a) \/ Cancel(a)
MonitorStep == Act(Monitor) \/ RecordAlarm \/ Show \/ ShowFails
RefreshStep == Act(Refresh) \/ RecordStatus
UserStep == (\E d \in Snoozes : Snooze(d)) \/ Silence \/ Unsnooze \/ Acknowledge \/ UserCancel

Next ==
  \/ MonitorStep
  \/ RefreshStep
  \/ UserStep
  \/ \E r \in Readings : SensorChanges(r)
  \/ Tick
  \/ Kill

Spec == Init /\ [][Next]_vars

\* The foreground service repeats its runs, time passes, and an action that
\* was begun ends; neither the network nor the notifications fail for ever,
\* and the system does not kill every run at the same place.
Fairness ==
  /\ WF_vars(MonitorStep)
  /\ SF_vars(Fetch(Monitor))
  /\ SF_vars(RecordAlarm \/ RecordOk(Monitor))
  /\ SF_vars(Show \/ Cancel(Monitor))
  /\ WF_vars(Unsnooze \/ UserCancel)
  /\ WF_vars(Tick)

FairSpec == Spec /\ Fairness

-----------------------------------------------------------------------------
\* "Silence until back in range" survives every other write, concurrent
\* ones, errors and kills: only a reading in range, by an actor that
\* knew about the silence, lifts it.
OnlyOkLiftsSilence ==
  [][row # NoRow /\ row.silence /\ ~row'.silence =>
       \E a \in Actors : /\ task[a].at = "save" /\ task'[a].at = "cancel"
                         /\ task[a].silenced]_vars

\* While the sensor stays out of range and nothing suppresses it, the alarm
\* keeps coming back: no lost, cancelled, failed or half-recorded
\* notification mutes the thermostat for good.
AlarmsAgain ==
  <>[](sensor = "out" /\ row # NoRow /\ ~row.silence /\ ~Snoozed(row)) => []<>shown

\* When the sensor stays in range, no alarm notification stays up, even one
\* that was shown after another isolate had already recorded the recovery.
AlarmClears == <>[](sensor = "ok") => <>[]~shown

\* When the sensor stays in range, no silence outlives it to mute the next
\* alarm.
SuppressionLifts == <>[](sensor = "ok") => []<>(row # NoRow /\ ~row.silence)

\* thermostat_service.dart: "OK reading: clear any snooze/silence".  A
\* reading in range, fetched after the user silenced the alarm, ends the
\* silence when it is recorded.
OkLiftsSilence ==
  [][\A a \in Actors :
       task[a].at = "save" /\ task'[a].at = "cancel" /\ task[a].quiet => ~row'.silence]_vars
=============================================================================
