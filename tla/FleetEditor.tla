---------------------------- MODULE FleetEditor ----------------------------
(***************************************************************************)
(* The configuration editor of the Android app: one phone's page           *)
(* (fleet_configuration_page.dart) with its edit session, the one PUT of a *)
(* submission and the one readback after it, beside other editors of the   *)
(* same file and the devices that acknowledge a change.  Every await of    *)
(* the code ends a step here.  The page may be left at any of them, and    *)
(* opened again: all it knew is gone, and a PUT may still be on its way.   *)
(*                                                                         *)
(* The file maps each device to the change id of its section.  Ids are     *)
(* unique, so that the file stands for its bytes and for its blob SHA.     *)
(* Field validation, secrets and the connection's own record are left out, *)
(* as are the clocks: a session, a draft and a compatibility report may    *)
(* run out at any time.                                                    *)
(***************************************************************************)
EXTENDS Integers

CONSTANTS
  Devices,      \* the immutable device references of the file
  MaxChanges,   \* bound on the changes made by anyone
  None          \* no session, draft, attempt, submission or pending change

ASSUME FleetAssumption ==
  /\ Devices # {} /\ MaxChanges \in Nat
  /\ None \notin [base : [Devices -> Int], active : BOOLEAN]
  /\ None \notin [base : [Devices -> Int], content : [Devices -> Int], id : Int,
                   device : Devices, seen : Int, put : {"sent", "accepted", "refused"},
                   status : {"none", "accepted", "refused", "unclear"}, current : BOOLEAN]

Gone == -1      \* another editor removed the device's section

VARIABLES
  file,         \* environment: the fleet file on GitHub
  next,         \* the next unused change id
  wire,         \* PUTs whose answer the phone has given up, not yet processed
  report,       \* environment: the change id in each device's diagnostics Gist
  acknowledged, \* history: every change id a device has reported
  fetched,      \* history: the file was fetched since the phone's last PUT
  session,      \* _session: the fetched base, and whether it is still open
  opening,      \* _openSession: not under way, under way, or interrupted
  panels,       \* whether _configuration is there, and with it the panels
  device,       \* _selectedDeviceRef
  diag,         \* whether _checkGate accepts the diagnostics shown
  refresh,      \* _refreshCompatibility under way, and for which device
  checking,     \* _checkingCompatibility
  draft,        \* _draft and the flags of its reapplication
  attempt,      \* _submit up to the PUT
  flight,       \* _submit from the PUT on: _submissionInFlight
  submitting,   \* _submitting
  pending,      \* _pendingChangeId, its device and _pendingApplied
  asks,         \* calls of _checkPendingStatus under way
  unresolved    \* _submissionOutcomeUnresolved

world == <<file, next, wire, report, acknowledged, fetched>>
view == <<panels, device, diag, refresh, checking>>
edit == <<session, opening, draft>>
submission == <<attempt, flight, submitting>>
told == <<pending, asks, unresolved>>
vars == <<world, view, edit, submission, told>>

\* initState: a page with nothing on it.
Init ==
  /\ file = [d \in Devices |-> 0]
  /\ next = 1
  /\ wire = {}
  /\ report = [d \in Devices |-> 0]
  /\ acknowledged = {0}
  /\ fetched = FALSE
  /\ session = None
  /\ opening = "no"
  /\ panels = FALSE
  /\ device \in Devices
  /\ diag = FALSE
  /\ refresh = None
  /\ checking = FALSE
  /\ draft = None
  /\ attempt = None
  /\ flight = None
  /\ submitting = FALSE
  /\ pending = None
  /\ asks = {}
  /\ unresolved = FALSE

-----------------------------------------------------------------------------
SessionActive == session # None /\ session.active
Busy == opening # "no"
Retained == draft # None /\ draft.state \in {"retained", "review"}
Editing == draft # None /\ draft.state \in {"editing", "review"}
Outdated(r) == IF r = None THEN None ELSE [r EXCEPT !.state = "outdated"]
Moved(r) == IF r # None /\ r.state = "current" THEN [r EXCEPT !.state = "moved"] ELSE r

\* The PUT of the submission under way, as long as it may be accepted.
Mine == IF flight = None \/ flight.put # "sent" \/ flight.status # "none" THEN {}
        ELSE {[base |-> flight.base, content |-> flight.content,
               device |-> flight.device, seen |-> flight.seen]}

\* _checkGate: fresh diagnostics of a compatible device.
GateAllowed == SessionActive /\ session.base[device] # Gone /\ diag /\ ~unresolved

\* A faulty EndSession: a submission that is still being checked keeps the page submitting.
EndSessionStillSubmitting(keep) ==
  /\ session' = None
  /\ panels' = FALSE
  /\ diag' = FALSE
  /\ refresh' = Outdated(refresh)
  /\ draft' = IF keep THEN [draft EXCEPT !.state = "retained", !.latest = FALSE] ELSE None
  /\ attempt' = None
  /\ flight' = IF flight = None THEN None ELSE [flight EXCEPT !.current = FALSE]
  /\ UNCHANGED submitting

\* _endSession: every generation moves on, and an attempt that has not yet
\* sent its PUT is void; one that has keeps the page submitting.
EndSession(keep) ==
  /\ session' = None
  /\ panels' = FALSE
  /\ diag' = FALSE
  /\ refresh' = Outdated(refresh)
  /\ draft' = IF keep THEN [draft EXCEPT !.state = "retained", !.latest = FALSE] ELSE None
  /\ attempt' = None
  /\ IF flight = None
       THEN submitting' = FALSE /\ flight' = None
       ELSE flight' = [flight EXCEPT !.current = FALSE] /\ UNCHANGED submitting

\* _discardDraft outdates what was begun with the draft.
DiscardDraft ==
  /\ draft' = None
  /\ attempt' = IF attempt = None THEN None ELSE [attempt EXCEPT !.current = FALSE]
  /\ flight' = IF flight = None THEN None ELSE [flight EXCEPT !.current = FALSE]

Interrupted == IF opening = "yes" THEN "cut" ELSE opening

-----------------------------------------------------------------------------
\* _openSession, up to the fetch; a draft kept for reapplication survives.
Open ==
  /\ ~Busy /\ ~submitting /\ flight = None
  /\ EndSession(Retained)
  /\ opening' = "yes"
  /\ UNCHANGED <<world, device, checking, told>>

\* The file is there, in a session of its own.
OpenReturns ==
  LET lost == Retained /\ file[device] = Gone IN
  /\ opening = "yes"
  /\ opening' = "no"
  /\ session' = [base |-> file, active |-> TRUE]
  /\ panels' = TRUE
  /\ fetched' = TRUE
  /\ diag' = FALSE
  /\ draft' = IF lost THEN None
              ELSE IF Retained /\ ~unresolved THEN [draft EXCEPT !.latest = TRUE]
              ELSE draft
  /\ IF file[device] = Gone THEN device' \in {d \in Devices : file[d] # Gone}
     ELSE UNCHANGED device
  /\ UNCHANGED <<file, next, wire, report, acknowledged, refresh, checking, submission, told>>

OpenFails ==
  /\ Busy
  /\ opening' = "no"
  /\ panels' = FALSE
  /\ UNCHANGED <<world, device, diag, refresh, checking, session, draft, submission, told>>

\* The session's own timer, and the page's ticker that notices.
SessionExpires ==
  /\ SessionActive
  /\ session' = [session EXCEPT !.active = FALSE]
  /\ UNCHANGED <<world, view, opening, draft, submission, told>>

Ticker ==
  /\ session # None /\ ~session.active
  /\ EndSession(FALSE)
  /\ UNCHANGED <<world, device, checking, opening, told>>

\* The app leaves the foreground.
Background ==
  /\ EndSession(FALSE)
  /\ opening' = Interrupted
  /\ UNCHANGED <<world, device, checking, told>>

CloseSession ==
  /\ SessionActive /\ ~Editing
  /\ EndSession(FALSE)
  /\ UNCHANGED <<world, device, checking, opening, told>>

SaveConnection ==
  /\ ~Busy /\ ~submitting /\ flight = None
  /\ EndSession(FALSE)
  /\ UNCHANGED <<world, device, checking, opening, told>>

\* The page is left (dispose) and a new one opened.  A PUT that was sent may
\* still be processed; no page hears of its outcome (the !mounted returns).
LeavePage ==
  /\ wire' = wire \cup Mine
  /\ session' = None /\ opening' = "no" /\ draft' = None
  /\ panels' = FALSE /\ device' \in Devices
  /\ diag' = FALSE /\ refresh' = None /\ checking' = FALSE
  /\ attempt' = None /\ flight' = None /\ submitting' = FALSE
  /\ pending' = None /\ asks' = {} /\ unresolved' = FALSE
  /\ UNCHANGED <<file, next, report, acknowledged, fetched>>

\* Not refused while a submission is in flight; the clearing itself may fail.
ClearConnection ==
  /\ ~Busy
  /\ EndSession(FALSE)
  /\ pending' \in {pending, None}
  /\ UNCHANGED <<world, device, checking, opening, asks, unresolved>>

SelectDevice(d) ==
  /\ d # device
  /\ panels /\ ~Editing
  /\ DiscardDraft
  /\ device' = d
  /\ diag' = FALSE
  /\ refresh' = Moved(refresh)
  /\ UNCHANGED <<world, panels, checking, session, opening, submitting, told>>

\* _refreshCompatibility
Refresh ==
  /\ panels
  /\ ~Busy /\ ~submitting /\ flight = None /\ ~checking /\ ~Editing
  /\ checking' = TRUE
  /\ refresh' = [device |-> device, state |-> "current"]
  /\ diag' = FALSE
  /\ UNCHANGED <<world, panels, device, edit, submission, told>>

\* An answer for a session that has ended, or for another device than the
\* one selected, changes nothing at all.  If the device was left and chosen
\* again, its thermostat is no longer there for the gate to accept.
RefreshReturns ==
  /\ refresh # None
  /\ refresh' = None
  /\ IF refresh.state # "outdated" /\ refresh.device = device
       THEN checking' = FALSE /\ diag' \in {FALSE, refresh.state = "current"}
       ELSE UNCHANGED <<checking, diag>>
  /\ UNCHANGED <<world, panels, device, edit, submission, told>>

DiagnosticsAge ==
  /\ diag
  /\ diag' = FALSE
  /\ UNCHANGED <<world, panels, device, refresh, checking, edit, submission, told>>

\* _beginEditing: a new draft, or the review of the retained one.
BeginEditing ==
  /\ GateAllowed /\ ~Editing /\ ~submitting
  /\ Retained => draft.latest
  /\ draft' = [state |-> IF Retained THEN "review" ELSE "editing",
               latest |-> Retained, seen |-> session.base[device]]
  /\ UNCHANGED <<world, view, session, opening, submission, told>>

\* "Cancel draft"; a dialog covers the button.
CancelDraft ==
  /\ Editing /\ ~submitting /\ attempt = None
  /\ DiscardDraft
  /\ UNCHANGED <<world, view, session, opening, submitting, told>>

\* _retainedDraftTimer
DraftExpires ==
  /\ Retained
  /\ DiscardDraft
  /\ UNCHANGED <<world, view, session, opening, submitting, told>>

-----------------------------------------------------------------------------
\* A faulty Submit: a second press is not refused.
SubmitTwice ==
  /\ Editing /\ SessionActive /\ GateAllowed
  /\ Retained => draft.latest
  /\ attempt' = [stage |-> "dialog", current |-> TRUE]
  /\ UNCHANGED <<world, view, edit, flight, submitting, told>>

\* _submit, up to the dialog, ...
Submit ==
  /\ ~submitting /\ flight = None
  /\ Editing /\ SessionActive /\ GateAllowed
  /\ Retained => draft.latest
  /\ attempt' = [stage |-> "dialog", current |-> TRUE]
  /\ UNCHANGED <<world, view, edit, flight, submitting, told>>

Dialog == attempt # None /\ attempt.stage = "dialog"
Current == attempt.current /\ SessionActive   \* _submitContextIsCurrent

\* ... which the user leaves or confirms, ...
Dismiss ==
  /\ Dialog
  /\ attempt' = None
  /\ UNCHANGED <<world, view, edit, flight, submitting, told>>

Confirm ==
  /\ Dialog
  /\ IF Current
       THEN attempt' = [attempt EXCEPT !.stage = "check"] /\ submitting' = TRUE
       ELSE attempt' = None /\ UNCHANGED submitting
  /\ UNCHANGED <<world, view, edit, flight, told>>

Check == attempt # None /\ attempt.stage = "check"

\* ... and the second look at the diagnostics: it fails, ...
CheckFails ==
  /\ Check
  /\ attempt' = None
  /\ submitting' = FALSE
  /\ UNCHANGED <<world, view, edit, flight, told>>

\* ... comes back to another page than it left, ...
CheckOutdated ==
  /\ Check /\ ~Current
  /\ attempt' = None
  /\ UNCHANGED <<world, view, edit, flight, submitting, told>>

\* ... or refuses the device.
CheckDenies ==
  /\ Check /\ Current
  /\ attempt' = None
  /\ submitting' = FALSE
  /\ diag' = FALSE
  /\ UNCHANGED <<world, panels, device, refresh, checking, edit, flight, told>>

\* A faulty Send: the blob SHA is fetched anew for the PUT.
SendOnLatest ==
  /\ Check /\ Current /\ next <= MaxChanges
  /\ flight' = [base |-> file, content |-> [session.base EXCEPT ![device] = next],
                id |-> next, device |-> device, seen |-> draft.seen,
                put |-> "sent", status |-> "none", current |-> TRUE]
  /\ next' = next + 1
  /\ fetched' = FALSE
  /\ attempt' = None
  /\ UNCHANGED <<file, wire, report, acknowledged, view, edit, submitting, told>>

\* The PUT: the session's base with the one device changed, on condition of
\* the base's own blob SHA.
Send ==
  /\ Check /\ Current /\ next <= MaxChanges
  /\ flight' = [base |-> session.base, content |-> [session.base EXCEPT ![device] = next],
                id |-> next, device |-> device, seen |-> draft.seen,
                put |-> "sent", status |-> "none", current |-> TRUE]
  /\ next' = next + 1
  /\ fetched' = FALSE
  /\ attempt' = None
  /\ UNCHANGED <<file, wire, report, acknowledged, view, edit, submitting, told>>

\* submit refuses a draft without changes before the PUT; the page's
\* catch-all takes that for a lost answer.
SendUnchanged ==
  /\ Check /\ Current
  /\ EndSession(FALSE)
  /\ unresolved' = TRUE
  /\ asks' = {}     \* outdated: they would change nothing
  /\ UNCHANGED <<world, device, checking, opening, pending>>

-----------------------------------------------------------------------------
\* GitHub processes the PUT: 409 unless the blob SHA is the file's.
Serve ==
  /\ flight # None /\ flight.put = "sent" /\ flight.status = "none"
  /\ IF file = flight.base
       THEN file' = flight.content /\ flight' = [flight EXCEPT !.put = "accepted"]
       ELSE flight' = [flight EXCEPT !.put = "refused"] /\ UNCHANGED file
  /\ UNCHANGED <<next, wire, report, acknowledged, fetched, view, edit, attempt, submitting, told>>

\* Any other refusal: a token, a redirect.
Refuse ==
  /\ flight # None /\ flight.put = "sent" /\ flight.status = "none"
  /\ flight' = [flight EXCEPT !.put = "refused"]
  /\ UNCHANGED <<world, view, edit, attempt, submitting, told>>

Answer ==
  /\ flight # None /\ flight.put # "sent" /\ flight.status = "none"
  /\ flight' = [flight EXCEPT !.status = flight.put]
  /\ UNCHANGED <<world, view, edit, attempt, submitting, told>>

\* A timeout, a closed client, a lost answer or a server error: the PUT may
\* have been accepted, and may yet be.
AnswerLost ==
  /\ flight # None /\ flight.status = "none"
  /\ flight' = [flight EXCEPT !.status = "unclear"]
  /\ wire' = wire \cup Mine
  /\ UNCHANGED <<file, next, report, acknowledged, fetched, view, edit, attempt, submitting, told>>

LatePut(p) ==
  /\ wire' = wire \ {p}
  /\ file' = IF file = p.base THEN p.content ELSE file
  /\ UNCHANGED <<next, report, acknowledged, fetched, view, edit, submission, told>>

\* submit, after the readback.
Outcome(f, latest) ==
  IF f.status = "refused" \/ latest # f.content THEN "reapply" ELSE "pending"

\* The page's part of a result; a conflict leaves the latest file on it.
Settle(outcome, latest) ==
  /\ session' = None
  /\ panels' = (outcome = "reapply")
  /\ diag' = FALSE
  /\ refresh' = Outdated(refresh)
  /\ draft' = IF /\ outcome = "reapply" /\ flight.current /\ SessionActive
                 /\ latest[flight.device] # Gone
                THEN [draft EXCEPT !.state = "retained", !.latest = FALSE] ELSE None
  /\ attempt' = None
  /\ flight' = None
  /\ submitting' = FALSE
  /\ pending' = IF outcome = "pending"
                  THEN [id |-> flight.id, device |-> flight.device, applied |-> FALSE]
                  ELSE None
  /\ unresolved' = (outcome = "unknown")
  /\ opening' = Interrupted
  /\ UNCHANGED <<world, device, checking, asks>>

Readback ==
  /\ flight # None /\ flight.status # "none"
  /\ Settle(Outcome(flight, file), file)

ReadbackFails ==
  /\ flight # None /\ flight.status # "none"
  /\ Settle("unknown", file)

-----------------------------------------------------------------------------
\* _checkPendingStatus
Ask ==
  /\ pending # None
  /\ asks' = asks \cup {[id |-> pending.id, device |-> pending.device]}
  /\ UNCHANGED <<world, view, edit, submission, pending, unresolved>>

\* A faulty AskReturns: the answer is not matched with the change on the page.
AskReturnsAnyway(a) ==
  /\ asks' = asks \ {a}
  /\ IF pending # None
       THEN pending' \in {[pending EXCEPT !.applied = FALSE],
                          [pending EXCEPT !.applied = report[a.device] = a.id]}
       ELSE UNCHANGED pending
  /\ UNCHANGED <<world, view, edit, submission, unresolved>>

\* The acknowledgement in the Gist counts if it is fresh and names the
\* change, and if the page still waits for that change.
AskReturns(a) ==
  /\ asks' = asks \ {a}
  /\ IF pending # None /\ pending.id = a.id
       THEN pending' \in {[pending EXCEPT !.applied = FALSE],
                          [pending EXCEPT !.applied = report[a.device] = a.id]}
       ELSE UNCHANGED pending
  /\ UNCHANGED <<world, view, edit, submission, unresolved>>

-----------------------------------------------------------------------------
\* Another phone, or a person on GitHub, changes or removes a device.
OtherEdits(d) ==
  /\ next <= MaxChanges
  /\ file[d] # Gone
  /\ file' = [file EXCEPT ![d] = next]
  /\ next' = next + 1
  /\ UNCHANGED <<wire, report, acknowledged, fetched, view, edit, submission, told>>

OtherRemoves(d) ==
  /\ \E e \in Devices \ {d} : file[e] # Gone
  /\ file' = [file EXCEPT ![d] = Gone]
  /\ UNCHANGED <<next, wire, report, acknowledged, fetched, view, edit, submission, told>>

\* A device fetches the file, applies its section and says so.
DeviceReports(d) ==
  /\ file[d] # Gone
  /\ report' = [report EXCEPT ![d] = file[d]]
  /\ acknowledged' = acknowledged \cup {file[d]}
  /\ UNCHANGED <<file, next, wire, fetched, view, edit, submission, told>>

World ==
  \/ \E p \in wire : LatePut(p)
  \/ \E d \in Devices : OtherEdits(d) \/ OtherRemoves(d) \/ DeviceReports(d)

Session ==
  \/ Open \/ OpenReturns \/ OpenFails \/ SessionExpires \/ Ticker
  \/ Background \/ CloseSession \/ SaveConnection \/ ClearConnection \/ LeavePage
  \/ \E d \in Devices : SelectDevice(d)
  \/ Refresh \/ RefreshReturns \/ DiagnosticsAge
  \/ BeginEditing \/ CancelDraft \/ DraftExpires

Checked == CheckFails \/ CheckOutdated \/ CheckDenies \/ Send \/ SendUnchanged
Sent == Serve \/ Refuse \/ Answer \/ AnswerLost \/ Readback \/ ReadbackFails

Submission == Submit \/ Dismiss \/ Confirm \/ Checked \/ Sent
Status == Ask \/ \E a \in asks : AskReturns(a)

Next == World \/ Session \/ Submission \/ Status

Spec == Init /\ [][Next]_vars

\* Every request has a deadline, a session a timer and the page a ticker.
FairSpec ==
  /\ Spec
  /\ WF_vars(RefreshReturns)
  /\ WF_vars(Checked)
  /\ WF_vars(Answer \/ AnswerLost)
  /\ WF_vars(Readback \/ ReadbackFails)
  /\ WF_vars(SessionExpires)
  /\ WF_vars(Ticker)

-----------------------------------------------------------------------------
\* No lost update: whenever a PUT of this phone is accepted, late ones and
\* reapplied drafts included, it leaves every other device as it is, and it
\* replaces what the user was last shown of the device it changes.
NoLostUpdate ==
  [][\A p \in wire \cup Mine : file' # file /\ file' = p.content =>
       /\ \A d \in Devices \ {p.device} : file'[d] = file[d]
       /\ file[p.device] = p.seen]_vars

\* fleet_contents_client.dart: "Callers must never retry this request
\* automatically".  A page sends no PUT beside its own one that is under way,
\* and none after its own one whose outcome is unknown.  A page opened anew
\* has forgotten both; but whatever is sent next, by any page, is made of a
\* file that was fetched after the phone's last PUT, never of the old one.
NoBlindRetry ==
  [][flight' # None /\ (flight = None \/ flight'.id # flight.id) =>
       flight = None /\ ~unresolved /\ fetched]_vars

\* "Applied" is shown only once a device has reported this very change, and
\* not when the answer to an earlier question comes late.
PendingTruthful ==
  pending # None /\ pending.applied => pending.id \in acknowledged

\* _submit always comes to an end, also when its session or draft is gone.
SubmissionSettles == submitting ~> ~submitting

\* The page's own words: "Session closed. Fetch the latest configuration to
\* edit again."  The refresh that editing needs becomes available again.
RefreshComesBack == checking ~> ~checking
=============================================================================
