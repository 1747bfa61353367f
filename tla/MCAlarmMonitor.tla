--------------------------- MODULE MCAlarmMonitor ---------------------------
(* The ages and countdowns are relative, so two ticks of rate limit and    *)
(* one length of snooze show every order in which they run out.            *)
EXTENDS AlarmMonitor

MCAllReadings == {"out", "near", "ok", "stale"}
MCTwoReadings == {"out", "ok"}
=============================================================================
