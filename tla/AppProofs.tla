------------------------------- MODULE AppProofs -------------------------------
(***************************************************************************)
(* Theorems about the Android app: its Fleet editor and its alarms.        *)
(*                                                                         *)
(* The editor overwrites nothing, retries nothing blindly and calls a      *)
(* change applied only when it was, for any number of devices, editors and *)
(* changes, and however often its page is left and opened again.  What     *)
(* makes it true of a PUT that arrives late is that its change id is       *)
(* nowhere but in itself until it is accepted.                             *)
(*                                                                         *)
(* A thermostat's silence is lifted by a recovery alone: every other write *)
(* of the row names columns that leave it as it is.                        *)
(***************************************************************************)
EXTENDS FleetEditor, TLAPS

Contents == [Devices -> Int]
Puts == [base : Contents, content : Contents, device : Devices, seen : Int]
Flights == [base : Contents, content : Contents, id : Int, device : Devices, seen : Int,
            put : {"sent", "accepted", "refused"},
            status : {"none", "accepted", "refused", "unclear"}, current : BOOLEAN]
Drafts == [state : {"editing", "retained", "review"}, latest : BOOLEAN, seen : Int]

TypeOK ==
  /\ file \in Contents /\ report \in Contents
  /\ next \in Nat \ {0}
  /\ wire \subseteq Puts
  /\ session \in [base : Contents, active : BOOLEAN] \cup {None}
  /\ opening \in {"no", "yes", "cut"}
  /\ device \in Devices
  /\ draft \in Drafts \cup {None}
  /\ attempt \in [stage : {"dialog", "check"}, current : BOOLEAN] \cup {None}
  /\ flight \in Flights \cup {None}
  /\ pending \in [id : Int, device : Devices, applied : BOOLEAN] \cup {None}
  /\ asks \subseteq [id : Int, device : Devices]
  /\ unresolved \in BOOLEAN

Old(c) == \A d \in Devices : c[d] < next
Without(c, i) == \A d \in Devices : c[d] # i

Undecided == flight # None /\ flight.put = "sent" /\ flight.status = "none"

\* Every id in sight was given out.
OldInv ==
  /\ Old(file)
  /\ session # None => Old(session.base)
  /\ \A p \in wire : Old(p.content)
  /\ flight # None => Old(flight.content)

\* A PUT replaces what the user was shown by a change of its own.
ShownInv ==
  /\ \A p \in wire : /\ p.base[p.device] = p.seen /\ p.content[p.device] > 0
                     /\ \A d \in Devices \ {p.device} : p.content[d] = p.base[d]
  /\ flight # None =>
       /\ flight.base[flight.device] = flight.seen
       /\ flight.content[flight.device] = flight.id /\ flight.id > 0
       /\ \A d \in Devices \ {flight.device} : flight.content[d] = flight.base[d]

\* The change of a PUT that may still be accepted is nowhere else.
Absent(i) == Without(file, i) /\ (session # None => Without(session.base, i))

AloneInv ==
  /\ \A p \in wire :
       /\ Absent(p.content[p.device])
       /\ \A q \in wire \ {p} : Without(q.content, p.content[p.device])
  /\ Undecided =>
       /\ Absent(flight.id)
       /\ \A p \in wire : /\ Without(p.content, flight.id)
                          /\ Without(flight.content, p.content[p.device])

\* What is edited is the section that the open session shows.
EditInv ==
  /\ opening = "yes" => session = None
  /\ Editing => session # None /\ draft.seen = session.base[device]

\* An attempt is the only one, and its draft is the one on the page.
AttemptInv ==
  /\ attempt # None => /\ flight = None
                       /\ ~unresolved
                       /\ attempt.current => Editing
  /\ flight # None /\ flight.current => Editing

\* A session has sent at most the PUT that is under way.
FetchedInv == session # None /\ flight = None => fetched

StatusInv ==
  /\ \A d \in Devices : report[d] \in acknowledged
  /\ PendingTruthful

IInv ==
  /\ TypeOK
  /\ OldInv
  /\ ShownInv
  /\ AloneInv
  /\ EditInv
  /\ AttemptInv
  /\ FetchedInv
  /\ StatusInv

LEMMA FlightIsSome == \A f \in Flights : f # None
BY FleetAssumption DEF FleetAssumption, Flights, Contents

-----------------------------------------------------------------------------
\* What a step of the page alone leaves of the file, the PUTs and the base.
SameFlight ==
  flight' # None =>
    /\ flight # None
    /\ flight'.base = flight.base /\ flight'.content = flight.content
    /\ flight'.id = flight.id /\ flight'.device = flight.device
    /\ flight'.seen = flight.seen
    /\ flight'.put = flight.put /\ flight'.status = flight.status

SameBase == session' # None => session # None /\ session'.base = session.base

PutsInv == OldInv /\ ShownInv /\ AloneInv

LEMMA PagePuts ==
  ASSUME PutsInv, SameFlight, SameBase, UNCHANGED <<file, next, wire>>
  PROVE  PutsInv'
<1>1. OldInv'
  BY DEF PutsInv, OldInv, Old, SameFlight, SameBase
<1>2. ShownInv'
  BY DEF PutsInv, ShownInv, SameFlight
<1>3. \A i : Absent(i) => Absent(i)'
  BY DEF Absent, Without, SameBase
<1>4. Undecided' => Undecided /\ flight'.id = flight.id /\ flight'.content = flight.content
  BY DEF Undecided, SameFlight
<1>5. AloneInv'
  BY <1>3, <1>4 DEF PutsInv, AloneInv, Without
<1>6. QED
  BY <1>1, <1>2, <1>5 DEF PutsInv

\* The PUT under way is given up: it may still be processed.
LEMMA GivenUpPuts ==
  ASSUME TypeOK, PutsInv, flight' # None => ~Undecided' /\ flight'.base = flight.base
                            /\ flight'.content = flight.content
                            /\ flight'.id = flight.id /\ flight'.device = flight.device
                            /\ flight'.seen = flight.seen /\ flight # None,
         SameBase, wire' = wire \cup Mine, UNCHANGED <<file, next>>
  PROVE  PutsInv' /\ wire' \subseteq Puts
<1>1. OldInv /\ ShownInv /\ AloneInv
  BY DEF PutsInv
<1>2. \A i : Absent(i) => Absent(i)'
  BY DEF Absent, Without, SameBase
<1>3. ~Undecided'
  BY DEF Undecided
<1>4. CASE ~Undecided
  <2>1. wire' = wire
    BY <1>4 DEF Mine, Undecided
  <2>2. OldInv' /\ ShownInv'
    BY <1>1, <2>1 DEF OldInv, ShownInv, Old, SameBase
  <2>3. AloneInv'
    BY <1>1, <1>2, <1>3, <2>1 DEF AloneInv, Without
  <2>4. QED
    BY <2>1, <2>2, <2>3 DEF PutsInv, TypeOK
<1>5. CASE Undecided
  <2> DEFINE q == [base |-> flight.base, content |-> flight.content,
                   device |-> flight.device, seen |-> flight.seen]
  <2>1. wire' = wire \cup {q} /\ flight \in Flights
    BY <1>5 DEF Mine, Undecided, TypeOK
  <2>2. q \in Puts /\ q.content[q.device] = flight.id
    BY <1>1, <1>5, <2>1 DEF Flights, Puts, ShownInv, Undecided
  <2>3. OldInv' /\ ShownInv'
    BY <1>1, <1>5, <2>1 DEF OldInv, ShownInv, Old, SameBase, Undecided
  <2>4. \A p \in wire' : Absent(p.content[p.device])
    BY <1>1, <1>5, <2>1, <2>2 DEF AloneInv
  <2>5. \A p, r \in wire' : p # r => Without(r.content, p.content[p.device])
    BY <1>1, <1>5, <2>1, <2>2 DEF AloneInv
  <2>6. AloneInv'
    BY <1>2, <1>3, <2>4, <2>5 DEF AloneInv, Without
  <2>7. QED
    BY <2>1, <2>2, <2>3, <2>6 DEF PutsInv, TypeOK
<1>6. QED
  BY <1>4, <1>5

LEMMA EndSessionEffect ==
  ASSUME TypeOK, NEW keep \in BOOLEAN, keep => draft # None, EndSession(keep)
  PROVE  /\ session' = None /\ attempt' = None
         /\ draft' \in Drafts \cup {None} /\ ~Editing'
         /\ flight' \in Flights \cup {None}
         /\ flight' # None => ~flight'.current
         /\ SameFlight /\ SameBase
<1>1. session' = None /\ attempt' = None
  BY DEF EndSession
<1>2. draft' \in Drafts \cup {None} /\ ~Editing'
  BY DEF EndSession, TypeOK, Drafts, Editing
<1>3. CASE flight = None
  BY <1>1, <1>2, <1>3 DEF EndSession, SameFlight, SameBase
<1>4. CASE flight # None
  <2>1. flight \in Flights /\ flight' = [flight EXCEPT !.current = FALSE]
    BY <1>4 DEF TypeOK, EndSession
  <2>2. flight' \in Flights /\ SameFlight /\ ~flight'.current
    BY <1>4, <2>1 DEF Flights, SameFlight
  <2>3. QED
    BY <1>1, <1>2, <2>2 DEF SameBase
<1>5. QED
  BY <1>3, <1>4

LEMMA DiscardEffect ==
  ASSUME TypeOK, AttemptInv, DiscardDraft
  PROVE  /\ draft' = None /\ ~Editing'
         /\ attempt' \in [stage : {"dialog", "check"}, current : BOOLEAN] \cup {None}
         /\ attempt' # None => attempt # None /\ ~attempt'.current
         /\ flight' \in Flights \cup {None}
         /\ flight = None <=> flight' = None
         /\ flight' # None => ~flight'.current
         /\ SameFlight
<1>1. draft' = None /\ ~Editing'
  BY DEF DiscardDraft, Editing
<1>2. /\ attempt' \in [stage : {"dialog", "check"}, current : BOOLEAN] \cup {None}
      /\ attempt' # None => attempt # None /\ ~attempt'.current
  BY DEF DiscardDraft, TypeOK
<1>3. CASE flight = None
  BY <1>1, <1>2, <1>3 DEF DiscardDraft, SameFlight
<1>4. CASE flight # None
  <2>1. flight \in Flights /\ flight' = [flight EXCEPT !.current = FALSE]
    BY <1>4 DEF TypeOK, DiscardDraft
  <2>2. flight' \in Flights /\ SameFlight /\ ~flight'.current
    BY <1>4, <2>1 DEF Flights, SameFlight
  <2>3. QED
    BY <1>1, <1>2, <1>4, <2>2, FlightIsSome
<1>5. QED
  BY <1>3, <1>4

-----------------------------------------------------------------------------
\* The session ends.
Ends ==
  \/ Open \/ Ticker \/ Background \/ CloseSession \/ SaveConnection \/ ClearConnection
  \/ SendUnchanged

LEMMA EndsStep == ASSUME IInv, Ends PROVE IInv'
<1>1. PICK keep \in BOOLEAN : EndSession(keep) /\ (keep => draft # None)
  BY DEF Ends, Open, Ticker, Background, CloseSession, SaveConnection, ClearConnection,
         SendUnchanged, Retained
<1>2. TypeOK
  BY DEF IInv
<1>3. /\ session' = None /\ attempt' = None
      /\ draft' \in Drafts \cup {None} /\ ~Editing'
      /\ flight' \in Flights \cup {None}
      /\ flight' # None => ~flight'.current
      /\ SameFlight /\ SameBase
  BY <1>1, <1>2, EndSessionEffect
<1>4. /\ UNCHANGED <<file, next, wire, report, acknowledged, device>>
      /\ pending' \in {pending, None} /\ asks' \subseteq asks
      /\ unresolved' \in BOOLEAN
      /\ opening' \in {"no", "yes", "cut"}
  BY <1>2 DEF Ends, Open, Ticker, Background, CloseSession, SaveConnection, ClearConnection,
         SendUnchanged, world, told, Interrupted, TypeOK
<1>5. TypeOK'
  BY <1>2, <1>3, <1>4 DEF TypeOK
<1>6. PutsInv'
  BY <1>3, <1>4, PagePuts DEF IInv, PutsInv
<1>7. EditInv' /\ AttemptInv' /\ FetchedInv'
  BY <1>3 DEF EditInv, AttemptInv, FetchedInv
<1>8. StatusInv'
  BY <1>4 DEF IInv, StatusInv, PendingTruthful
<1>9. QED
  BY <1>5, <1>6, <1>7, <1>8 DEF IInv, PutsInv

\* The page is left, and with it all that it knew.
LEMMA LeaveStep == ASSUME IInv, LeavePage PROVE IInv'
<1>0. TypeOK /\ PutsInv
  BY DEF IInv, PutsInv
<1>1. /\ session' = None /\ opening' = "no" /\ draft' = None /\ device' \in Devices
      /\ attempt' = None /\ flight' = None /\ pending' = None /\ asks' = {}
      /\ unresolved' = FALSE
      /\ wire' = wire \cup Mine
      /\ UNCHANGED <<file, next, report, acknowledged>>
  BY DEF LeavePage
<1>2. PutsInv' /\ wire' \subseteq Puts
  BY <1>0, <1>1, GivenUpPuts DEF SameBase
<1>3. TypeOK'
  BY <1>0, <1>1, <1>2 DEF TypeOK
<1>4. EditInv' /\ AttemptInv' /\ FetchedInv'
  BY <1>1 DEF EditInv, AttemptInv, FetchedInv, Editing
<1>5. StatusInv'
  BY <1>1 DEF IInv, StatusInv, PendingTruthful
<1>6. QED
  BY <1>2, <1>3, <1>4, <1>5 DEF IInv, PutsInv

-----------------------------------------------------------------------------
LEMMA OpenReturnsStep == ASSUME IInv, OpenReturns PROVE IInv'
<1>1. TypeOK /\ EditInv /\ AttemptInv /\ opening = "yes" /\ session = None /\ ~Editing
  BY DEF IInv, EditInv, OpenReturns
<1>2. /\ session' = [base |-> file, active |-> TRUE] /\ opening' = "no"
      /\ fetched' = TRUE
      /\ UNCHANGED <<file, next, wire, report, acknowledged, attempt, flight, submitting, told>>
  BY DEF OpenReturns, submission
<1>3. device' \in Devices
  BY <1>1 DEF OpenReturns, TypeOK
<1>4. draft' \in Drafts \cup {None} /\ ~Editing'
  BY <1>1 DEF OpenReturns, TypeOK, Drafts, Editing, Retained
<1>5. TypeOK'
  BY <1>1, <1>2, <1>3, <1>4 DEF TypeOK, told
<1>6. session'.base = file
  BY <1>2
<1>7. OldInv' /\ ShownInv'
  BY <1>2, <1>6 DEF IInv, OldInv, ShownInv, Old
<1>8. \A i : Absent(i) => Absent(i)'
  BY <1>2, <1>6 DEF Absent, Without
<1>9. AloneInv'
  BY <1>2, <1>8 DEF IInv, AloneInv, Undecided, Without
<1>10. EditInv'
  BY <1>2, <1>4 DEF EditInv
<1>11. AttemptInv' /\ FetchedInv'
  BY <1>1, <1>2, <1>4 DEF AttemptInv, FetchedInv, told
<1>12. StatusInv'
  BY <1>2 DEF IInv, StatusInv, PendingTruthful, told
<1>13. QED
  BY <1>5, <1>7, <1>9, <1>10, <1>11, <1>12 DEF IInv

-----------------------------------------------------------------------------
\* The draft is dropped, by the user or by its timer.
LEMMA DiscardStep ==
  ASSUME IInv, (\E d \in Devices : SelectDevice(d)) \/ CancelDraft \/ DraftExpires
  PROVE  IInv'
<1>1. TypeOK /\ EditInv /\ AttemptInv /\ DiscardDraft
  BY DEF IInv, SelectDevice, CancelDraft, DraftExpires
<1>2. /\ draft' = None /\ ~Editing'
      /\ attempt' \in [stage : {"dialog", "check"}, current : BOOLEAN] \cup {None}
      /\ attempt' # None => attempt # None /\ ~attempt'.current
      /\ flight' \in Flights \cup {None}
      /\ flight = None <=> flight' = None
      /\ flight' # None => ~flight'.current
      /\ SameFlight
  BY <1>1, DiscardEffect
<1>3. UNCHANGED <<world, session, opening, told>> /\ device' \in Devices
  BY <1>1 DEF SelectDevice, CancelDraft, DraftExpires, view, TypeOK
<1>4. TypeOK'
  BY <1>1, <1>2, <1>3 DEF TypeOK, world, told
<1>5. PutsInv'
  BY <1>2, <1>3, PagePuts DEF IInv, PutsInv, SameBase, world
<1>6. EditInv' /\ AttemptInv' /\ FetchedInv'
  BY <1>1, <1>2, <1>3 DEF IInv, EditInv, AttemptInv, FetchedInv, world, told
<1>7. StatusInv'
  BY <1>3 DEF IInv, StatusInv, PendingTruthful, world, told
<1>8. QED
  BY <1>4, <1>5, <1>6, <1>7 DEF IInv, PutsInv

-----------------------------------------------------------------------------
\* Steps that leave the PUTs, the base and the told outcome alone.
Shows ==
  \/ OpenFails \/ SessionExpires \/ Refresh \/ RefreshReturns \/ DiagnosticsAge
  \/ Submit \/ Dismiss \/ Confirm \/ CheckFails \/ CheckOutdated \/ CheckDenies

LEMMA ShowsStep == ASSUME FleetAssumption, IInv, Shows PROVE IInv'
<1>0. TypeOK /\ EditInv /\ AttemptInv
  BY DEF IInv
<1>1. UNCHANGED <<world, device, draft, flight, told>>
  BY DEF Shows, OpenFails, SessionExpires, Refresh, RefreshReturns, DiagnosticsAge, Submit,
         Dismiss, Confirm, CheckFails, CheckOutdated, CheckDenies, view, edit, submission
<1>2. /\ session' \in [base : Contents, active : BOOLEAN] \cup {None}
      /\ session # None => session'.base = session.base
      /\ session # None <=> session' # None
  BY <1>0, FleetAssumption
     DEF FleetAssumption, Contents, Shows, OpenFails, SessionExpires, Refresh,
         RefreshReturns, DiagnosticsAge,
         Submit, Dismiss, Confirm, CheckFails, CheckOutdated, CheckDenies, view, edit,
         submission, TypeOK, SessionActive
<1>3. opening' \in {opening, "no"}
  BY DEF Shows, OpenFails, SessionExpires, Refresh, RefreshReturns, DiagnosticsAge, Submit,
         Dismiss, Confirm, CheckFails, CheckOutdated, CheckDenies, view, edit, submission
<1>4. /\ attempt' \in [stage : {"dialog", "check"}, current : BOOLEAN] \cup {None}
      /\ attempt' # None => flight = None /\ ~unresolved /\ (attempt'.current => Editing)
  <2>1. CASE Submit
    BY <2>1 DEF Submit, GateAllowed
  <2>2. CASE Confirm
    BY <1>0, <2>2 DEF Confirm, Dialog, TypeOK, AttemptInv
  <2>3. CASE Dismiss \/ CheckFails \/ CheckOutdated \/ CheckDenies
    BY <2>3 DEF Dismiss, CheckFails, CheckOutdated, CheckDenies
  <2>4. CASE OpenFails \/ SessionExpires \/ Refresh \/ RefreshReturns \/ DiagnosticsAge
    BY <1>0, <2>4 DEF OpenFails, SessionExpires, Refresh, RefreshReturns, DiagnosticsAge,
                      submission, TypeOK, AttemptInv
  <2>5. QED
    BY <2>1, <2>2, <2>3, <2>4 DEF Shows
<1>5. TypeOK'
  BY <1>0, <1>1, <1>2, <1>3, <1>4 DEF TypeOK, world, told
<1>6. PutsInv'
  BY <1>1, <1>2, PagePuts DEF IInv, PutsInv, SameBase, SameFlight, world
<1>7. EditInv'
  <2>1. CASE SessionExpires
    <3>1. session # None /\ opening' = opening /\ opening # "yes"
      BY <1>0, <2>1 DEF SessionExpires, SessionActive, EditInv
    <3>2. QED
      BY <1>0, <1>1, <1>2, <3>1, <2>1 DEF EditInv, Editing, SessionExpires
  <2>2. CASE session' = session
    BY <1>0, <1>1, <1>3, <2>2 DEF EditInv, Editing
  <2>3. QED
    BY <2>1, <2>2 DEF Shows, OpenFails, Refresh, RefreshReturns, DiagnosticsAge, Submit,
         Dismiss, Confirm, CheckFails, CheckOutdated, CheckDenies, edit
<1>8. AttemptInv'
  <2>1. (flight # None /\ flight.current => Editing)'
    BY <1>0, <1>1 DEF AttemptInv, Editing
  <2>2. QED
    BY <1>1, <1>4, <2>1 DEF AttemptInv, Editing, told
<1>9. StatusInv' /\ FetchedInv'
  BY <1>1, <1>2 DEF IInv, StatusInv, PendingTruthful, FetchedInv, world, told
<1>10. QED
  BY <1>5, <1>6, <1>7, <1>8, <1>9 DEF IInv, PutsInv

LEMMA BeginEditingStep == ASSUME IInv, BeginEditing PROVE IInv'
<1>1. /\ UNCHANGED <<world, view, session, opening, submission, told>>
      /\ TypeOK /\ EditInv /\ AttemptInv /\ session # None
  BY DEF IInv, BeginEditing, GateAllowed, SessionActive
<1>2. /\ draft' \in Drafts
      /\ draft'.state \in {"editing", "review"}
      /\ draft'.seen = session.base[device]
  BY <1>1 DEF BeginEditing, Drafts, TypeOK, Contents, Retained
<1>3. TypeOK'
  BY <1>1, <1>2 DEF TypeOK, world, view, submission, told
<1>4. PutsInv'
  BY <1>1, PagePuts DEF IInv, PutsInv, SameBase, SameFlight, world, submission
<1>5. EditInv'
  BY <1>1, <1>2 DEF EditInv, Editing, view
<1>6. AttemptInv'
  BY <1>1 DEF AttemptInv, submission, told, BeginEditing, Editing
<1>7. StatusInv' /\ FetchedInv'
  BY <1>1 DEF IInv, StatusInv, PendingTruthful, FetchedInv, world, submission, told
<1>8. QED
  BY <1>3, <1>4, <1>5, <1>6, <1>7 DEF IInv, PutsInv

-----------------------------------------------------------------------------
\* The end of a submission.
LEMMA SettleStep == ASSUME IInv, Readback \/ ReadbackFails PROVE IInv'
<1>0. TypeOK /\ flight \in Flights
  BY DEF IInv, TypeOK, Readback, ReadbackFails
<1>1. /\ session' = None /\ attempt' = None /\ flight' = None
      /\ UNCHANGED <<world, device, asks>>
      /\ opening' \in {opening, "cut"}
      /\ unresolved' \in BOOLEAN
  BY DEF Readback, ReadbackFails, Settle, Interrupted
<1>2. \/ pending' = None
      \/ pending' = [id |-> flight.id, device |-> flight.device, applied |-> FALSE]
  BY DEF Readback, ReadbackFails, Settle
<1>3. draft' \in Drafts \cup {None} /\ ~Editing'
  <2>1. flight.current => draft \in Drafts
    BY <1>0 DEF IInv, AttemptInv, Editing, TypeOK, Readback, ReadbackFails
  <2>2. CASE draft' = None
    BY <2>2 DEF Editing
  <2>3. CASE draft' # None
    <3>1. draft \in Drafts /\ draft' = [draft EXCEPT !.state = "retained", !.latest = FALSE]
      BY <2>1, <2>3 DEF Readback, ReadbackFails, Settle
    <3>2. QED
      BY <3>1 DEF Drafts, Editing
  <2>4. QED
    BY <2>2, <2>3
<1>4. TypeOK'
  <2>1. pending' \in [id : Int, device : Devices, applied : BOOLEAN] \cup {None}
    <3>1. flight.id \in Int /\ flight.device \in Devices
      BY <1>0 DEF Flights
    <3>2. CASE pending' = None
      BY <3>2
    <3>3. CASE pending' = [id |-> flight.id, device |-> flight.device, applied |-> FALSE]
      BY <3>1, <3>3
    <3>4. QED
      BY <1>2, <3>2, <3>3
  <2>2. QED
    BY <1>0, <1>1, <1>3, <2>1 DEF TypeOK, world
<1>5. PutsInv'
  BY <1>1, PagePuts DEF IInv, PutsInv, SameBase, SameFlight, world
<1>6. EditInv' /\ AttemptInv' /\ FetchedInv'
  BY <1>1, <1>3 DEF EditInv, AttemptInv, FetchedInv
<1>7. StatusInv'
  BY <1>1, <1>2 DEF IInv, StatusInv, PendingTruthful, world
<1>8. QED
  BY <1>4, <1>5, <1>6, <1>7 DEF IInv, PutsInv

\* The PUT goes out with an id that is nowhere yet.
LEMMA SendStep == ASSUME IInv, Send PROVE IInv'
<1>0. /\ TypeOK /\ OldInv /\ ShownInv /\ AloneInv /\ EditInv /\ AttemptInv
      /\ session # None /\ Editing
  BY DEF IInv, Send, Current, SessionActive, Check, AttemptInv
<1>1. /\ session \in [base : Contents, active : BOOLEAN]
      /\ draft.seen = session.base[device]
      /\ next \in Nat \ {0} /\ device \in Devices /\ session.base \in Contents
  BY <1>0 DEF TypeOK, EditInv
<1>2. /\ flight'.base = session.base
      /\ flight'.content = [session.base EXCEPT ![device] = next]
      /\ flight'.id = next /\ flight'.device = device
      /\ flight'.seen = session.base[device]
      /\ attempt' = None /\ next' = next + 1
      /\ UNCHANGED <<file, wire, report, acknowledged, view, edit, submitting, told>>
  BY <1>1 DEF Send
<1>3. flight' \in Flights
  BY <1>1 DEF Send, Flights, Contents
<1>4. /\ flight'.content \in Contents
      /\ flight'.content[device] = next
      /\ \A d \in Devices \ {device} : flight'.content[d] = session.base[d]
  BY <1>1, <1>2 DEF Contents
<1>5. TypeOK'
  BY <1>0, <1>2, <1>3 DEF TypeOK, view, edit, told
<1>6. \A c \in Contents : Old(c) => /\ \A d \in Devices : c[d] < next'
                                    /\ Without(c, next)
  BY <1>1, <1>2 DEF Old, Without, Contents
<1>7. Old(session.base) /\ session' = session /\ file \in Contents
  BY <1>0, <1>2 DEF OldInv, TypeOK, edit
<1>8. OldInv'
  <2>1. Old(flight.content)'
    BY <1>1, <1>2, <1>4, <1>6, <1>7 DEF Old, Contents
  <2>2. \A p \in wire : p.content \in Contents
    BY <1>0 DEF TypeOK, Puts
  <2>3. QED
    BY <1>0, <1>1, <1>2, <1>6, <1>7, <2>1, <2>2 DEF OldInv, Old
<1>9. ShownInv'
  BY <1>0, <1>1, <1>2, <1>4 DEF ShownInv
<1>10. AloneInv'
  <2>1. \A i : Absent(i)' <=> Absent(i)
    BY <1>2, <1>7 DEF Absent, Without
  <2>2. Absent(next)
    BY <1>0, <1>1, <1>6, <1>7 DEF Absent, OldInv
  <2>3. \A p \in wire : Without(p.content, next)
    BY <1>0, <1>6 DEF OldInv, TypeOK, Puts
  <2>4. ASSUME NEW p \in wire
        PROVE  Without(flight'.content, p.content[p.device])
    <3>1. p.content[p.device] # next
      BY <1>0, <2>3, <2>4 DEF Without, TypeOK, Puts
    <3>2. Without(session.base, p.content[p.device])
      BY <1>0, <2>4 DEF AloneInv, Absent
    <3>3. QED
      BY <1>4, <3>1, <3>2 DEF Without
  <2>5. QED
    BY <1>0, <1>2, <2>1, <2>2, <2>3, <2>4 DEF AloneInv, Without
<1>11. EditInv' /\ AttemptInv' /\ FetchedInv'
  BY <1>0, <1>2, <1>3, FlightIsSome
     DEF EditInv, AttemptInv, FetchedInv, Editing, view, edit
<1>12. StatusInv'
  BY <1>2 DEF IInv, StatusInv, PendingTruthful, told
<1>13. QED
  BY <1>5, <1>8, <1>9, <1>10, <1>11, <1>12 DEF IInv

-----------------------------------------------------------------------------
\* The answer to the PUT, and a PUT that is given up.
LEMMA AnswerStep == ASSUME IInv, Serve \/ Refuse \/ Answer \/ AnswerLost PROVE IInv'
<1>0. /\ TypeOK /\ OldInv /\ ShownInv /\ AloneInv /\ EditInv /\ AttemptInv /\ StatusInv
      /\ flight # None /\ flight \in Flights
  BY DEF IInv, TypeOK, Serve, Refuse, Answer, AnswerLost
<1>1. /\ flight' \in Flights /\ ~Undecided'
      /\ flight'.base = flight.base /\ flight'.content = flight.content
      /\ flight'.id = flight.id /\ flight'.device = flight.device
      /\ flight'.seen = flight.seen
  BY <1>0 DEF Serve, Refuse, Answer, AnswerLost, Flights, Undecided
<1>2. /\ UNCHANGED <<next, report, acknowledged, view, edit, attempt, told>>
      /\ attempt = None
  BY <1>0 DEF Serve, Refuse, Answer, AnswerLost, world, AttemptInv
<1>3. EditInv' /\ AttemptInv' /\ FetchedInv' /\ StatusInv'
  <2>1. flight'.current = flight.current
    BY <1>0 DEF Serve, Refuse, Answer, AnswerLost, Flights
  <2>2. AttemptInv'
    BY <1>0, <1>2, <2>1 DEF AttemptInv, Editing, edit
  <2>3. QED
    BY <1>0, <1>1, <1>2, <2>2, FlightIsSome
       DEF EditInv, FetchedInv, StatusInv, PendingTruthful, Editing, view, edit, told
<1>4. CASE Serve
  <2>1. wire' = wire /\ (file' = file \/ (Undecided /\ file' = flight.content))
    BY <1>4 DEF Serve, Undecided
  <2>2. TypeOK'
    BY <1>0, <1>1, <1>2, <2>1 DEF TypeOK, Flights, view, edit, told
  <2>3. OldInv' /\ ShownInv'
    BY <1>0, <1>1, <1>2, <2>1 DEF OldInv, ShownInv, Old, edit
  <2>4. \A p \in wire : Absent(p.content[p.device])'
    BY <1>0, <1>2, <2>1 DEF AloneInv, Absent, Without, edit
  <2>5. AloneInv'
    BY <1>0, <1>1, <2>1, <2>4 DEF AloneInv, Without
  <2>6. QED
    BY <1>3, <2>2, <2>3, <2>5 DEF IInv
<1>5. CASE Refuse \/ Answer
  <2>1. file' = file /\ wire' = wire
    BY <1>5 DEF Refuse, Answer, world
  <2>2. TypeOK'
    BY <1>0, <1>1, <1>2, <2>1 DEF TypeOK, view, edit, told
  <2>3. OldInv' /\ ShownInv'
    BY <1>0, <1>1, <1>2, <2>1 DEF OldInv, ShownInv, Old, edit
  <2>4. AloneInv'
    BY <1>0, <1>1, <1>2, <2>1 DEF AloneInv, Absent, Without, edit
  <2>5. QED
    BY <1>3, <2>2, <2>3, <2>4 DEF IInv
<1>6. CASE AnswerLost
  <2>1. file' = file /\ wire' = wire \cup Mine
    BY <1>6 DEF AnswerLost
  <2>2. PutsInv' /\ wire' \subseteq Puts
    BY <1>0, <1>1, <1>2, <2>1, GivenUpPuts DEF PutsInv, SameBase, edit
  <2>3. TypeOK'
    BY <1>0, <1>1, <1>2, <2>1, <2>2 DEF TypeOK, view, edit, told
  <2>4. QED
    BY <1>3, <2>2, <2>3 DEF IInv, PutsInv
<1>7. QED
  BY <1>4, <1>5, <1>6

-----------------------------------------------------------------------------
\* What a step of the world leaves to the page.
SamePage ==
  UNCHANGED <<fetched, session, opening, device, draft, attempt, flight, pending, asks,
              unresolved>>

LEMMA WorldPage ==
  ASSUME IInv, SamePage
  PROVE  EditInv' /\ AttemptInv' /\ FetchedInv' /\ (Undecided' <=> Undecided)
BY DEF IInv, SamePage, EditInv, AttemptInv, FetchedInv, Editing, Undecided

LEMMA LatePutStep == ASSUME IInv, NEW p \in wire, LatePut(p) PROVE IInv'
<1>0. TypeOK /\ OldInv /\ ShownInv /\ AloneInv /\ p \in Puts
  BY DEF IInv, TypeOK
<1>1. /\ wire' = wire \ {p} /\ file' \in {file, p.content}
      /\ UNCHANGED <<next, report, acknowledged>> /\ SamePage
  BY DEF LatePut, SamePage, view, edit, submission, told
<1>2. EditInv' /\ AttemptInv' /\ FetchedInv' /\ (Undecided' <=> Undecided)
  BY <1>1, WorldPage
<1>3. TypeOK'
  BY <1>0, <1>1 DEF TypeOK, Puts, SamePage
<1>4. OldInv' /\ ShownInv'
  BY <1>0, <1>1 DEF OldInv, ShownInv, Old, SamePage
<1>5. AloneInv'
  <2>1. \A q \in wire' : Without(p.content, q.content[q.device])
    BY <1>0, <1>1 DEF AloneInv
  <2>2. \A q \in wire' : Absent(q.content[q.device])'
    BY <1>0, <1>1, <2>1 DEF AloneInv, Absent, Without, SamePage
  <2>3. Undecided => Absent(flight.id)'
    BY <1>0, <1>1 DEF AloneInv, Absent, Without, SamePage
  <2>4. QED
    BY <1>0, <1>1, <1>2, <2>2, <2>3 DEF AloneInv, Without, SamePage
<1>6. StatusInv'
  BY <1>1 DEF IInv, StatusInv, PendingTruthful, SamePage
<1>7. QED
  BY <1>2, <1>3, <1>4, <1>5, <1>6 DEF IInv

LEMMA OtherEditorStep ==
  ASSUME IInv, NEW d \in Devices, OtherEdits(d) \/ OtherRemoves(d)
  PROVE  IInv'
<1>0. TypeOK /\ OldInv /\ ShownInv /\ AloneInv
  BY DEF IInv
<1>1. PICK v \in {next, Gone} :
        /\ file' = [file EXCEPT ![d] = v]
        /\ v = next => next' = next + 1
        /\ v = Gone => next' = next
        /\ UNCHANGED <<wire, report, acknowledged>> /\ SamePage
  <2>1. next # Gone
    BY <1>0 DEF TypeOK, Gone
  <2>2. QED
    BY <2>1 DEF OtherEdits, OtherRemoves, SamePage, view, edit, submission, told
<1>2. EditInv' /\ AttemptInv' /\ FetchedInv' /\ (Undecided' <=> Undecided)
  BY <1>1, WorldPage
<1>3. /\ v \in Int /\ v < next' /\ next <= next' /\ next' \in Nat \ {0}
      /\ file' \in Contents
      /\ \A e \in Devices : file'[e] = IF e = d THEN v ELSE file[e]
  BY <1>0, <1>1 DEF TypeOK, Contents, Gone
<1>4. TypeOK'
  BY <1>0, <1>1, <1>3 DEF TypeOK, SamePage
<1>5. ShownInv'
  BY <1>0, <1>1 DEF ShownInv, SamePage
<1>6. \A c \in Contents : Old(c) => \A e \in Devices : c[e] < next'
  BY <1>0, <1>3 DEF Old, Contents, TypeOK
<1>7. OldInv'
  <2>1. /\ session # None => session.base \in Contents
        /\ \A p \in wire : p.content \in Contents
        /\ flight # None => flight.content \in Contents
    BY <1>0 DEF TypeOK, Puts, Flights
  <2>2. \A e \in Devices : file'[e] < next'
    BY <1>0, <1>3, <1>6 DEF OldInv, TypeOK
  <2>3. QED
    BY <1>0, <1>1, <1>6, <2>1, <2>2 DEF OldInv, Old, SamePage
\* The section of another editor is new, or none.
<1>8. \A i \in Int : Absent(i) /\ i < next /\ i > 0 => Absent(i)'
  <2>1. \A i \in Int : i < next /\ i > 0 => v # i
    BY <1>0, <1>1 DEF TypeOK, Gone
  <2>2. QED
    BY <1>1, <1>3, <2>1 DEF Absent, Without, SamePage
<1>9. AloneInv'
  <2>1. \A p \in wire : LET i == p.content[p.device] IN i \in Int /\ i < next /\ i > 0
    BY <1>0 DEF TypeOK, Puts, Contents, OldInv, Old, ShownInv
  <2>2. Undecided => flight.id \in Int /\ flight.id < next /\ flight.id > 0
    BY <1>0 DEF TypeOK, Flights, Contents, OldInv, Old, ShownInv, Undecided
  <2>3. \A p \in wire : Absent(p.content[p.device])'
    BY <1>0, <1>8, <2>1 DEF AloneInv
  <2>4. Undecided => Absent(flight.id)'
    BY <1>0, <1>1, <1>8, <2>2 DEF AloneInv, SamePage
  <2>5. /\ wire' = wire /\ flight' = flight
        /\ \A p \in wire : \A q \in wire \ {p} : Without(q.content, p.content[p.device])
        /\ Undecided => \A p \in wire : /\ Without(p.content, flight.id)
                                        /\ Without(flight.content, p.content[p.device])
    BY <1>0, <1>1 DEF AloneInv, SamePage
  <2>6. QED
    BY <1>2, <2>3, <2>4, <2>5 DEF AloneInv, Without
<1>10. StatusInv'
  BY <1>1 DEF IInv, StatusInv, PendingTruthful, SamePage
<1>11. QED
  BY <1>2, <1>4, <1>5, <1>7, <1>9, <1>10 DEF IInv

LEMMA ReportStep ==
  ASSUME IInv, NEW d \in Devices, DeviceReports(d)
  PROVE  IInv'
<1>1. /\ UNCHANGED <<file, next, wire>> /\ SamePage
      /\ report' = [report EXCEPT ![d] = file[d]]
      /\ acknowledged' = acknowledged \cup {file[d]}
  BY DEF DeviceReports, SamePage, view, edit, submission, told
<1>2. EditInv' /\ AttemptInv' /\ FetchedInv'
  BY <1>1, WorldPage
<1>3. TypeOK'
  BY <1>1 DEF IInv, TypeOK, Contents, SamePage
<1>4. PutsInv'
  BY <1>1, PagePuts DEF IInv, PutsInv, SameBase, SameFlight, SamePage
<1>5. StatusInv'
  BY <1>1 DEF IInv, TypeOK, Contents, StatusInv, PendingTruthful, SamePage
<1>6. QED
  BY <1>2, <1>3, <1>4, <1>5 DEF IInv, PutsInv

\* An answer tells of the change it was asked for.
LEMMA StatusStep == ASSUME IInv, Status PROVE IInv'
<1>0. TypeOK /\ StatusInv
  BY DEF IInv
<1>1. UNCHANGED <<world, view, edit, submission, unresolved>>
  BY DEF Status, Ask, AskReturns
<1>2. PutsInv'
  BY <1>1, PagePuts DEF IInv, PutsInv, SameBase, SameFlight, world, edit, submission
<1>3. EditInv' /\ AttemptInv' /\ FetchedInv'
  BY <1>1 DEF IInv, EditInv, AttemptInv, FetchedInv, Editing, world, view, edit, submission
<1>4. CASE pending' = pending
  <2>1. asks' \subseteq [id : Int, device : Devices]
    <3>1. CASE Ask
      BY <1>0, <3>1 DEF Ask, TypeOK
    <3>2. CASE \E a \in asks : AskReturns(a)
      BY <1>0, <3>2 DEF AskReturns, TypeOK
    <3>3. QED
      BY <3>1, <3>2 DEF Status
  <2>2. TypeOK'
    BY <1>0, <1>1, <1>4, <2>1 DEF TypeOK, world, view, edit, submission
  <2>3. StatusInv'
    BY <1>0, <1>1, <1>4 DEF StatusInv, PendingTruthful, world
  <2>4. QED
    BY <1>2, <1>3, <2>2, <2>3 DEF IInv, PutsInv
<1>5. ASSUME NEW a \in asks, AskReturns(a), pending # None, pending.id = a.id
      PROVE  IInv'
  <2>1. a.device \in Devices /\ pending \in [id : Int, device : Devices, applied : BOOLEAN]
    BY <1>0, <1>5 DEF TypeOK
  <2>2. PICK b \in {FALSE, report[a.device] = a.id} : pending' = [pending EXCEPT !.applied = b]
    BY <1>5 DEF AskReturns
  <2>3. /\ pending' \in [id : Int, device : Devices, applied : BOOLEAN]
        /\ pending'.id = a.id
        /\ pending'.applied => report[a.device] = a.id
    BY <1>5, <2>1, <2>2
  <2>4. TypeOK'
    BY <1>0, <1>1, <1>5, <2>3 DEF AskReturns, TypeOK, world, view, edit, submission
  <2>5. StatusInv'
    BY <1>0, <1>1, <2>1, <2>3 DEF StatusInv, PendingTruthful, world
  <2>6. QED
    BY <1>2, <1>3, <2>4, <2>5 DEF IInv, PutsInv
<1>6. QED
  BY <1>4, <1>5 DEF Status, Ask, AskReturns

-----------------------------------------------------------------------------
LEMMA InitInv == Init => IInv
<1> SUFFICES ASSUME Init PROVE IInv
  OBVIOUS
<1>1. TypeOK
  <2>1. file \in Contents /\ report \in Contents /\ next \in Nat \ {0}
    BY DEF Init, Contents
  <2>2. wire \subseteq Puts /\ asks \subseteq [id : Int, device : Devices]
    BY DEF Init
  <2>3. /\ device \in Devices /\ opening \in {"no", "yes", "cut"} /\ unresolved \in BOOLEAN
        /\ session = None /\ draft = None /\ attempt = None /\ flight = None /\ pending = None
    BY DEF Init
  <2>4. QED
    BY <2>1, <2>2, <2>3 DEF TypeOK
<1>2. OldInv /\ ShownInv /\ AloneInv
  BY DEF Init, OldInv, ShownInv, AloneInv, Old, Undecided
<1>3. EditInv /\ AttemptInv /\ FetchedInv /\ StatusInv
  BY DEF Init, EditInv, AttemptInv, FetchedInv, StatusInv, PendingTruthful, Editing
<1>4. QED
  BY <1>1, <1>2, <1>3 DEF IInv

LEMMA NextInv == ASSUME FleetAssumption, IInv, [Next]_vars PROVE IInv'
<1>1. CASE World
  BY <1>1, LatePutStep, OtherEditorStep, ReportStep DEF World
<1>2. CASE Session
  BY <1>2, EndsStep, LeaveStep, OpenReturnsStep, DiscardStep, ShowsStep, BeginEditingStep
     DEF Session, Ends, Shows
<1>3. CASE Submission
  BY <1>3, EndsStep, ShowsStep, SendStep, AnswerStep, SettleStep
     DEF Submission, Checked, Sent, Ends, Shows
<1>4. CASE Status
  BY <1>4, StatusStep
<1>5. CASE UNCHANGED vars
  <2>1. SamePage /\ UNCHANGED <<file, next, wire, report, acknowledged>>
    BY <1>5 DEF vars, world, view, edit, submission, told, SamePage
  <2>2. EditInv' /\ AttemptInv' /\ FetchedInv'
    BY <2>1, WorldPage
  <2>3. PutsInv'
    BY <2>1, PagePuts DEF IInv, PutsInv, SameBase, SameFlight, SamePage
  <2>4. TypeOK' /\ StatusInv'
    BY <2>1 DEF IInv, TypeOK, StatusInv, PendingTruthful, SamePage
  <2>5. QED
    BY <2>2, <2>3, <2>4 DEF IInv, PutsInv
<1>6. QED
  BY <1>1, <1>2, <1>3, <1>4, <1>5 DEF Next

\* The inductive invariant: what is in flight, edited and told fits together.
THEOREM Invariance == Spec => []IInv
<1>1. FleetAssumption /\ IInv /\ [Next]_vars => IInv'
  BY NextInv
<1>2. QED
  BY <1>1, InitInv, FleetAssumption, PTL DEF Spec

\* "Applied" is never shown of a change that no device reported, whichever
\* question is answered late.
THEOREM PendingIsTruthful == Spec => []PendingTruthful
<1>1. IInv => PendingTruthful
  BY DEF IInv, StatusInv
<1>2. QED
  BY <1>1, Invariance, PTL

\* Nothing is retried blindly: a page sends a PUT only when no other one of
\* its own is under way and the outcome of its last one is known, and every
\* PUT is made of a file fetched since the phone's last one, by whichever page.
THEOREM NothingIsRetriedBlindly == Spec => NoBlindRetry
<1>1. ASSUME IInv, [Next]_vars, flight' # None, flight = None \/ flight'.id # flight.id
      PROVE  flight = None /\ ~unresolved /\ fetched
  <2>1. CASE Send
    BY <1>1, <2>1 DEF IInv, AttemptInv, FetchedInv, Send, Check, Current, SessionActive
  <2>2. CASE ~Send
    <3>1. SameFlight \/ (flight # None /\ flight'.id = flight.id)
      <4>1. TypeOK /\ AttemptInv
        BY <1>1 DEF IInv
      <4>2. CASE Ends
        BY <4>1, <4>2, EndSessionEffect
           DEF Ends, Open, Ticker, Background, CloseSession, SaveConnection,
               ClearConnection, SendUnchanged, Retained
      <4>3. CASE (\E d \in Devices : SelectDevice(d)) \/ CancelDraft \/ DraftExpires
        BY <4>1, <4>3, DiscardEffect DEF SelectDevice, CancelDraft, DraftExpires
      <4>4. CASE Serve \/ Refuse \/ Answer \/ AnswerLost
        BY <4>1, <4>4 DEF Serve, Refuse, Answer, AnswerLost, TypeOK, Flights
      <4>5. CASE Readback \/ ReadbackFails \/ LeavePage
        BY <1>1, <4>5 DEF Readback, ReadbackFails, Settle, LeavePage
      <4>6. CASE UNCHANGED flight
        BY <4>6 DEF SameFlight
      <4>7. CASE Shows \/ OpenReturns \/ BeginEditing
        BY <4>6, <4>7
           DEF Shows, OpenFails, SessionExpires, Refresh, RefreshReturns, DiagnosticsAge,
               Submit, Dismiss, Confirm, CheckFails, CheckOutdated, CheckDenies,
               OpenReturns, BeginEditing, submission
      <4>8. CASE World \/ Status \/ UNCHANGED vars
        BY <4>6, <4>8
           DEF World, Status, Ask, AskReturns, LatePut, OtherEdits, OtherRemoves,
               DeviceReports, submission, vars
      <4>9. QED
        BY <1>1, <2>2, <4>2, <4>3, <4>4, <4>5, <4>7, <4>8
           DEF Next, Session, Submission, Checked, Sent, Ends, Shows
    <3>2. QED
      BY <1>1, <3>1 DEF SameFlight
  <2>3. QED
    BY <2>1, <2>2
<1>2. IInv /\ [Next]_vars => [flight' # None /\ (flight = None \/ flight'.id # flight.id)
                               => flight = None /\ ~unresolved /\ fetched]_vars
  BY <1>1
<1>3. QED
  BY <1>2, Invariance, PTL DEF Spec, NoBlindRetry

-----------------------------------------------------------------------------
\* A PUT that may still be accepted, late or on its way.
LEMMA OutstandingPut ==
  ASSUME IInv, NEW p \in wire \cup Mine
  PROVE  /\ p \in Puts
         /\ p.base[p.device] = p.seen
         /\ \A d \in Devices \ {p.device} : p.content[d] = p.base[d]
         /\ p.content[p.device] > 0 /\ p.content[p.device] < next
         /\ Without(file, p.content[p.device])
<1>1. CASE p \in wire
  BY <1>1 DEF IInv, TypeOK, Puts, OldInv, Old, ShownInv, AloneInv, Absent
<1>2. CASE p \in Mine
  <2>1. Undecided /\ flight \in Flights
    BY <1>2 DEF Mine, Undecided, IInv, TypeOK
  <2>2. /\ p.base = flight.base /\ p.content = flight.content
        /\ p.device = flight.device /\ p.seen = flight.seen /\ p \in Puts
    BY <1>2, <2>1 DEF Mine, Puts, Flights
  <2>3. p.content[p.device] = flight.id
    BY <2>1, <2>2 DEF IInv, ShownInv, Undecided
  <2>4. Without(file, flight.id)
    BY <2>1 DEF IInv, AloneInv, Absent
  <2>5. QED
    BY <2>1, <2>2, <2>3, <2>4 DEF IInv, ShownInv, OldInv, Old, Undecided, Puts
<1>3. QED
  BY <1>1, <1>2

LEMMA OtherPut ==
  ASSUME IInv, NEW p \in wire \cup Mine, NEW q \in wire \cup Mine, p.content = q.content
  PROVE  p = q
<1>1. p.device \in Devices /\ q.device \in Devices
  BY OutstandingPut DEF Puts
<1>2. CASE p \in wire /\ q \in wire
  BY <1>1, <1>2 DEF IInv, AloneInv, Without
<1>3. ASSUME NEW r \in wire, NEW m \in Mine, r.device \in Devices
      PROVE  r.content # m.content
  <2>1. Undecided /\ m.content = flight.content
    BY <1>3 DEF Mine, Undecided
  <2>2. Without(flight.content, r.content[r.device])
    BY <1>3, <2>1 DEF IInv, AloneInv
  <2>3. QED
    BY <1>3, <2>1, <2>2 DEF Without
<1>4. CASE p \in Mine /\ q \in Mine
  BY <1>4 DEF Mine
<1>5. QED
  BY <1>1, <1>2, <1>3, <1>4

\* Nothing is lost: a PUT of this phone, however late, is accepted only over
\* the very file on which it was built and the section its user was shown.
THEOREM NoUpdateIsLost == Spec => NoLostUpdate
<1>1. ASSUME FleetAssumption, IInv, [Next]_vars, NEW p \in wire \cup Mine,
             file' # file, file' = p.content
      PROVE  /\ \A d \in Devices \ {p.device} : file'[d] = file[d]
             /\ file[p.device] = p.seen
  <2> DEFINE i == p.content[p.device]
  <2>1. /\ p \in Puts /\ p.device \in Devices
        /\ p.base[p.device] = p.seen
        /\ \A d \in Devices \ {p.device} : p.content[d] = p.base[d]
        /\ i > 0 /\ i < next /\ file[p.device] # i
    BY <1>1, OutstandingPut DEF Puts, Without
  <2>2. CASE file = p.base
    BY <1>1, <2>1, <2>2
  <2>3. ASSUME NEW q \in wire \cup Mine, file = q.base, file' = q.content
        PROVE  file = p.base
    BY <1>1, <2>3, OtherPut
  <2>4. ASSUME NEW q \in wire, LatePut(q) PROVE file = p.base
    BY <1>1, <2>3, <2>4 DEF LatePut
  <2>5. CASE Serve
    <3> DEFINE q == [base |-> flight.base, content |-> flight.content,
                     device |-> flight.device, seen |-> flight.seen]
    <3>1. q \in Mine /\ file = q.base /\ file' = q.content
      BY <1>1, <2>5 DEF Serve, Mine
    <3>2. QED
      BY <2>2, <2>3, <3>1
  <2>6. ASSUME NEW d \in Devices, OtherEdits(d) \/ OtherRemoves(d) PROVE FALSE
    <3>1. file \in Contents /\ next \in Nat
      BY <1>1 DEF IInv, TypeOK
    <3>2. PICK v \in {next, Gone} : file' = [file EXCEPT ![d] = v]
      BY <2>6 DEF OtherEdits, OtherRemoves
    <3>3. file'[d] # i
      BY <2>1, <3>1, <3>2 DEF Contents, Gone
    <3>4. file'[p.device] = file[p.device]
      BY <1>1, <2>1, <3>1, <3>2, <3>3 DEF Contents
    <3>5. QED
      BY <1>1, <2>1, <3>4
  <2>7. CASE UNCHANGED file
    BY <1>1, <2>7
  <2>8. CASE \/ Session \/ Status \/ UNCHANGED vars
             \/ Submission /\ ~Serve
    <3>1. UNCHANGED file
      BY <2>8
         DEF Session, Status, Submission, Checked, Sent, vars, world, Open, OpenReturns,
             OpenFails, SessionExpires, Ticker, Background, CloseSession, SaveConnection,
             ClearConnection, LeavePage, SelectDevice, Refresh, RefreshReturns,
             DiagnosticsAge, BeginEditing, CancelDraft, DraftExpires, Submit, Dismiss, Confirm, CheckFails,
             CheckOutdated, CheckDenies, Send, SendUnchanged, Refuse, Answer, AnswerLost,
             Readback, ReadbackFails, Settle, Ask, AskReturns
    <3>2. QED
      BY <2>7, <3>1
  <2>9. ASSUME NEW d \in Devices, DeviceReports(d) PROVE UNCHANGED file
    BY <2>9 DEF DeviceReports
  <2>10. QED
    BY <1>1, <2>2, <2>4, <2>5, <2>6, <2>7, <2>8, <2>9 DEF Next, World
<1>2. FleetAssumption /\ IInv /\ [Next]_vars =>
        [\A p \in wire \cup Mine : file' # file /\ file' = p.content =>
           /\ \A d \in Devices \ {p.device} : file'[d] = file[d]
           /\ file[p.device] = p.seen]_vars
  BY <1>1
<1>3. QED
  BY <1>2, Invariance, FleetAssumption, PTL DEF Spec, NoLostUpdate

-----------------------------------------------------------------------------
\* The alarm of a thermostat shares no state with the editor; its model is
\* instantiated over variables of its own.
CONSTANTS Limit, Snoozes, Readings, Hysteresis, NoRow

VARIABLES row, sensor, shown, task, user

Alarm == INSTANCE AlarmMonitor

Rows == [status : Alarm!Statuses, alarmAge : Int, snooze : Int, silence : BOOLEAN]
Tasks == [at : {"idle", "fetch", "save", "show", "cancel"}, wasOut : BOOLEAN,
          snoozed : BOOLEAN, silenced : BOOLEAN,
          got : {"none", "ok", "outOfRange", "stale"}, quiet : BOOLEAN]

\* A task that has something to record is one with a reading in hand.
Read(t) == t.at = "save" => t.got # "none"

\* Only a row that exists is silenced, and so it is there to unsnooze.
AlarmInv ==
  /\ row \in Rows \cup {NoRow}
  /\ shown \in BOOLEAN
  /\ task \in [Alarm!Actors -> Tasks]
  /\ user \in {"idle", "unsnooze", "cancel"}
  /\ user = "unsnooze" => row # NoRow
  /\ NoRow \notin Rows
  /\ \A a \in Alarm!Actors : Read(task[a])

LEMMA IdleTask ==
  /\ Alarm!Idle \in Tasks
  /\ \A place \in {"idle", "fetch", "save", "show", "cancel"} :
       /\ [Alarm!Idle EXCEPT !.at = place] \in Tasks
       /\ [Alarm!Idle EXCEPT !.at = place].at = place
  /\ Alarm!Idle.at = "idle"
BY DEF Alarm!Idle, Tasks

\* A task that goes on with a reading, or with none to record, keeps to that.
LEMMA TaskStep ==
  ASSUME AlarmInv, NEW a \in Alarm!Actors, NEW t \in Tasks, Read(t),
         task' = [task EXCEPT ![a] = t]
  PROVE  /\ task' \in [Alarm!Actors -> Tasks]
         /\ \A b \in Alarm!Actors : Read(task'[b])
         /\ task'[a] = t
<1>1. task \in [Alarm!Actors -> Tasks] /\ \A b \in Alarm!Actors : Read(task[b])
  BY DEF AlarmInv
<1>2. task' \in [Alarm!Actors -> Tasks] /\ task'[a] = t
  BY <1>1
<1>3. ASSUME NEW b \in Alarm!Actors PROVE Read(task'[b])
  <2>1. CASE b = a
    BY <1>2, <2>1
  <2>2. CASE b # a
    <3>1. task'[b] = task[b]
      BY <1>1, <2>2
    <3>2. QED
      BY <1>1, <3>1
  <2>3. QED
    BY <2>1, <2>2
<1>4. QED
  BY <1>2, <1>3

\* A write that names only the status leaves a silence alone.
LEMMA RecordedRow ==
  ASSUME AlarmInv, NEW status \in Alarm!Statuses
  PROVE  /\ Alarm!Recorded(row, status) \in Rows
         /\ row # NoRow => Alarm!Recorded(row, status).silence = row.silence
<1>1. Alarm!Fresh \in Rows
  BY DEF Alarm!Fresh, Rows, Alarm!Statuses, Alarm!Never, Alarm!NoSnooze
<1>2. \A r \in Rows : /\ [r EXCEPT !.status = status] \in Rows
                      /\ [r EXCEPT !.status = status].silence = r.silence
  BY DEF Rows
<1>3. CASE row = NoRow
  BY <1>1, <1>2, <1>3 DEF Alarm!Recorded
<1>4. CASE row # NoRow
  BY <1>2, <1>4 DEF Alarm!Recorded, AlarmInv
<1>5. QED
  BY <1>3, <1>4

LEMMA AlarmedRow ==
  ASSUME NEW r \in Rows, NEW n \in Int, NEW m \in Int
  PROVE  /\ [r EXCEPT !.alarmAge = n, !.snooze = m] \in Rows
         /\ [r EXCEPT !.alarmAge = n, !.snooze = m].silence = r.silence
BY DEF Rows

\* What a step of the app does to a row that is silenced.
KeepsSilence == row # NoRow => row' # NoRow /\ row'.silence = row.silence

LEMMA ActInv ==
  ASSUME AlarmInv, NEW a \in Alarm!Actors, Alarm!Act(a)
  PROVE  /\ AlarmInv'
         /\ \/ KeepsSilence
            \/ /\ task[a].at = "save" /\ task'[a].at = "cancel"
               /\ row.silence /\ ~row'.silence => task[a].silenced
<1>1. /\ row \in Rows \cup {NoRow} /\ task \in [Alarm!Actors -> Tasks] /\ task[a] \in Tasks
      /\ NoRow \notin Rows /\ shown \in BOOLEAN
      /\ user \in {"idle", "unsnooze", "cancel"} /\ user = "unsnooze" => row # NoRow
  BY DEF AlarmInv
<1>2. CASE Alarm!Start(a)
  <2> DEFINE wasOut == Hysteresis /\ row # NoRow /\ row.status = "outOfRange"
             snoozed == row # NoRow /\ row.snooze # Alarm!NoSnooze
             silenced == row # NoRow /\ row.silence
             t == [Alarm!Idle EXCEPT !.at = "fetch", !.wasOut = wasOut, !.snoozed = snoozed,
                                     !.silenced = silenced]
  <2>1. wasOut \in BOOLEAN /\ snoozed \in BOOLEAN /\ silenced \in BOOLEAN
    OBVIOUS
  <2>2. task' = [task EXCEPT ![a] = t] /\ row' = row /\ shown' = shown /\ user' = user
    BY <1>2 DEF Alarm!Start
  <2> HIDE DEF wasOut, snoozed, silenced
  <2>3. t \in Tasks /\ Read(t)
    BY <2>1 DEF Tasks, Alarm!Idle, Read
  <2> HIDE DEF t
  <2>4. task' \in [Alarm!Actors -> Tasks] /\ \A b \in Alarm!Actors : Read(task'[b])
    BY <2>2, <2>3, TaskStep
  <2>5. AlarmInv'
    BY <1>1, <2>2, <2>4 DEF AlarmInv
  <2>6. QED
    BY <2>2, <2>5 DEF KeepsSilence
<1>3. CASE Alarm!Fetch(a)
  <2> DEFINE c == Alarm!Condition(sensor, task[a].wasOut)
             silenced == row # NoRow /\ row.silence
             t == IF c = "ok" THEN [task[a] EXCEPT !.at = "save", !.got = c, !.wasOut = FALSE,
                                                   !.quiet = silenced]
                  ELSE [Alarm!Idle EXCEPT !.at = "save", !.got = c]
  <2>1. c \in {"ok", "outOfRange", "stale"} /\ silenced \in BOOLEAN
    BY DEF Alarm!Condition
  <2>2. task' = [task EXCEPT ![a] = t] /\ row' = row /\ shown' = shown /\ user' = user
    BY <1>3 DEF Alarm!Fetch
  <2> HIDE DEF c, silenced
  <2>3. t \in Tasks /\ Read(t)
    BY <1>1, <2>1 DEF Tasks, Alarm!Idle, Read
  <2> HIDE DEF t
  <2>4. task' \in [Alarm!Actors -> Tasks] /\ \A b \in Alarm!Actors : Read(task'[b])
    BY <2>2, <2>3, TaskStep
  <2>5. AlarmInv'
    BY <1>1, <2>2, <2>4 DEF AlarmInv
  <2>6. QED
    BY <2>2, <2>5 DEF KeepsSilence
<1>4. CASE Alarm!FetchFails(a)
  <2>1. /\ row' = Alarm!Recorded(row, "unknown") /\ task' = [task EXCEPT ![a] = Alarm!Idle]
        /\ shown' = shown /\ user' = user
    BY <1>4 DEF Alarm!FetchFails, Alarm!Done
  <2>2. row' \in Rows /\ (row # NoRow => row'.silence = row.silence)
    BY <2>1, RecordedRow DEF Alarm!Statuses
  <2>3. task' \in [Alarm!Actors -> Tasks] /\ \A b \in Alarm!Actors : Read(task'[b])
    BY <2>1, TaskStep, IdleTask DEF Read
  <2>4. AlarmInv'
    BY <1>1, <2>1, <2>2, <2>3 DEF AlarmInv
  <2>5. KeepsSilence
    BY <1>1, <2>2 DEF KeepsSilence
  <2>6. QED
    BY <2>4, <2>5
<1>5. CASE Alarm!RecordOk(a)
  <2> DEFINE r == Alarm!Recorded(row, "ok")
             snooze == IF task[a].snoozed THEN Alarm!NoSnooze ELSE r.snooze
             silence == r.silence /\ ~task[a].silenced
             t == [Alarm!Idle EXCEPT !.at = "cancel"]
  <2>1. /\ row' = [r EXCEPT !.snooze = snooze, !.silence = silence]
        /\ task[a].at = "save" /\ shown' = shown /\ user' = user
        /\ task' = [task EXCEPT ![a] = t]
    BY <1>5 DEF Alarm!RecordOk, Alarm!RecordedOk, Alarm!Goto
  <2>2. r \in Rows /\ (row # NoRow => r.silence = row.silence)
    BY RecordedRow DEF Alarm!Statuses
  <2>3. snooze \in Int /\ silence \in BOOLEAN
    BY <2>2 DEF Rows, Alarm!NoSnooze
  <2>4. silence <=> r.silence /\ ~task[a].silenced
    OBVIOUS
  <2>5. t \in Tasks /\ t.at = "cancel" /\ Read(t)
    BY IdleTask DEF Read
  <2> HIDE DEF r, snooze, silence, t
  <2>6. row' \in Rows /\ row'.silence = silence
    BY <2>1, <2>2, <2>3 DEF Rows
  <2>7. /\ task' \in [Alarm!Actors -> Tasks] /\ \A b \in Alarm!Actors : Read(task'[b])
        /\ task'[a] = t
    BY <2>1, <2>5, TaskStep
  <2>8. AlarmInv'
    BY <1>1, <2>1, <2>6, <2>7 DEF AlarmInv
  <2>9. CASE row = NoRow
    BY <2>8, <2>9 DEF KeepsSilence
  <2>10. CASE row # NoRow
    <3>1. row.silence /\ ~row'.silence => task[a].silenced
      BY <2>2, <2>4, <2>6, <2>10
    <3>2. task[a].at = "save" /\ task'[a].at = "cancel"
      BY <2>1, <2>5, <2>7
    <3>3. QED
      BY <2>8, <3>1, <3>2
  <2>11. QED
    BY <2>9, <2>10
<1>6. CASE Alarm!Cancel(a)
  <2>1. /\ task' = [task EXCEPT ![a] = Alarm!Idle] /\ row' = row /\ user' = user
        /\ shown' = FALSE
    BY <1>6 DEF Alarm!Cancel, Alarm!Done
  <2>2. task' \in [Alarm!Actors -> Tasks] /\ \A b \in Alarm!Actors : Read(task'[b])
    BY <2>1, TaskStep, IdleTask DEF Read
  <2>3. AlarmInv'
    BY <1>1, <2>1, <2>2 DEF AlarmInv
  <2>4. QED
    BY <2>1, <2>3 DEF KeepsSilence
<1>7. QED
  BY <1>2, <1>3, <1>4, <1>5, <1>6 DEF Alarm!Act

\* The monitor's record of an alarm, its notification and the foreground's.
LEMMA RecordInv ==
  ASSUME AlarmInv, Alarm!RecordAlarm \/ Alarm!RecordStatus \/ Alarm!Show \/ Alarm!ShowFails
  PROVE  AlarmInv' /\ KeepsSilence
<1>1. /\ row \in Rows \cup {NoRow} /\ NoRow \notin Rows /\ shown \in BOOLEAN
      /\ user \in {"idle", "unsnooze", "cancel"} /\ user = "unsnooze" => row # NoRow
  BY DEF AlarmInv
<1>2. \A a \in Alarm!Actors : task[a].at = "save" => task[a].got \in Alarm!Statuses
  BY DEF AlarmInv, Read, Tasks, Alarm!Statuses
<1>3. Alarm!Monitor \in Alarm!Actors /\ Alarm!Refresh \in Alarm!Actors
  BY DEF Alarm!Actors
\* A row that keeps its silence, and a task that is done or shows the alarm.
<1>4. ASSUME row' \in Rows, row # NoRow => row'.silence = row.silence,
             NEW a \in Alarm!Actors, NEW t \in {Alarm!Idle, [Alarm!Idle EXCEPT !.at = "show"]},
             task' = [task EXCEPT ![a] = t], shown' = shown, user' = user
      PROVE  AlarmInv' /\ KeepsSilence
  <2>1. t \in Tasks /\ Read(t)
    BY IdleTask DEF Read
  <2>2. task' \in [Alarm!Actors -> Tasks] /\ \A b \in Alarm!Actors : Read(task'[b])
    BY <1>4, <2>1, TaskStep
  <2>3. AlarmInv'
    BY <1>1, <1>4, <2>2 DEF AlarmInv
  <2>4. KeepsSilence
    BY <1>1, <1>4 DEF KeepsSilence
  <2>5. QED
    BY <2>3, <2>4
<1>5. CASE Alarm!RecordAlarm
  <2> DEFINE status == task[Alarm!Monitor].got
             r == Alarm!Recorded(row, status)
  <2>1. status \in Alarm!Statuses
    BY <1>2, <1>3, <1>5 DEF Alarm!RecordAlarm
  <2>2. r \in Rows /\ (row # NoRow => r.silence = row.silence)
    BY <2>1, RecordedRow
  <2>3. shown' = shown /\ user' = user
    BY <1>5 DEF Alarm!RecordAlarm
  <2>4. CASE Alarm!ShouldTrigger(row, status)
    <3>1. /\ row' = [r EXCEPT !.alarmAge = 0, !.snooze = Alarm!NoSnooze]
          /\ task' = [task EXCEPT ![Alarm!Monitor] = [Alarm!Idle EXCEPT !.at = "show"]]
      BY <1>5, <2>4 DEF Alarm!RecordAlarm, Alarm!Alarmed, Alarm!Goto
    <3> HIDE DEF r, status
    <3>2. row' \in Rows /\ row'.silence = r.silence
      <4> DEFINE age == 0
                 snooze == Alarm!NoSnooze
      <4>1. age \in Int /\ snooze \in Int
        BY DEF Alarm!NoSnooze
      <4>2. row' = [r EXCEPT !.alarmAge = age, !.snooze = snooze]
        BY <3>1
      <4> HIDE DEF age, snooze
      <4>3. QED
        BY <2>2, <4>1, <4>2, AlarmedRow
    <3>3. QED
      BY <1>3, <1>4, <2>2, <2>3, <3>1, <3>2
  <2>5. CASE ~Alarm!ShouldTrigger(row, status)
    <3>1. row' = r /\ task' = [task EXCEPT ![Alarm!Monitor] = Alarm!Idle]
      BY <1>5, <2>5 DEF Alarm!RecordAlarm, Alarm!Done
    <3> HIDE DEF r, status
    <3>2. QED
      BY <1>3, <1>4, <2>2, <2>3, <3>1
  <2>6. QED
    BY <2>4, <2>5
<1>6. CASE Alarm!RecordStatus
  <2>1. task[Alarm!Refresh].got \in Alarm!Statuses
    BY <1>2, <1>3, <1>6 DEF Alarm!RecordStatus
  <2>2. /\ row' = Alarm!Recorded(row, task[Alarm!Refresh].got)
        /\ task' = [task EXCEPT ![Alarm!Refresh] = Alarm!Idle] /\ shown' = shown /\ user' = user
    BY <1>6 DEF Alarm!RecordStatus, Alarm!Done
  <2>3. row' \in Rows /\ (row # NoRow => row'.silence = row.silence)
    BY <2>1, <2>2, RecordedRow
  <2>4. QED
    BY <1>3, <1>4, <2>2, <2>3
<1>7. CASE Alarm!ShowFails
  <2>1. /\ row' = Alarm!Recorded(row, "unknown")
        /\ task' = [task EXCEPT ![Alarm!Monitor] = Alarm!Idle] /\ shown' = shown /\ user' = user
    BY <1>7 DEF Alarm!ShowFails, Alarm!Done
  <2>2. row' \in Rows /\ (row # NoRow => row'.silence = row.silence)
    BY <2>1, RecordedRow DEF Alarm!Statuses
  <2>3. QED
    BY <1>3, <1>4, <2>1, <2>2
<1>8. CASE Alarm!Show
  <2>1. /\ task' = [task EXCEPT ![Alarm!Monitor] = Alarm!Idle] /\ row' = row /\ user' = user
        /\ shown' = TRUE
    BY <1>8 DEF Alarm!Show, Alarm!Done
  <2>2. task' \in [Alarm!Actors -> Tasks] /\ \A b \in Alarm!Actors : Read(task'[b])
    BY <1>3, <2>1, TaskStep, IdleTask DEF Read
  <2>3. AlarmInv'
    BY <1>1, <2>1, <2>2 DEF AlarmInv
  <2>4. QED
    BY <2>1, <2>3 DEF KeepsSilence
<1>9. QED
  BY <1>5, <1>6, <1>7, <1>8

\* The user and the clock; a silence is only added.
LEMMA UserInv ==
  ASSUME Alarm!AlarmAssumption, AlarmInv, Alarm!UserStep \/ Alarm!Tick
  PROVE  AlarmInv' /\ (row # NoRow /\ row.silence => row'.silence)
<1>1. /\ row \in Rows \cup {NoRow} /\ NoRow \notin Rows /\ shown \in BOOLEAN
      /\ user = "unsnooze" => row # NoRow
      /\ task \in [Alarm!Actors -> Tasks] /\ \A a \in Alarm!Actors : Read(task[a])
  BY DEF AlarmInv
<1>2. Snoozes \subseteq Int /\ Limit \in Int /\ Alarm!NoSnooze \in Int
  BY DEF Alarm!AlarmAssumption, Alarm!NoSnooze
\* A row that is there, silenced as before or more.
<1>3. ASSUME row \in Rows, row' \in Rows, row.silence => row'.silence, task' = task,
             user' \in {"idle", "unsnooze", "cancel"}, shown' \in BOOLEAN
      PROVE  AlarmInv' /\ (row # NoRow /\ row.silence => row'.silence)
  <2>1. row' # NoRow
    BY <1>1, <1>3
  <2>2. AlarmInv'
    BY <1>1, <1>3, <2>1 DEF AlarmInv
  <2>3. QED
    BY <1>3, <2>2
<1>4. ASSUME NEW d \in Snoozes, Alarm!Snooze(d)
      PROVE  AlarmInv' /\ (row # NoRow /\ row.silence => row'.silence)
  <2>1. /\ row \in Rows /\ row' = [row EXCEPT !.snooze = d] /\ d \in Int
        /\ task' = task /\ user' = "cancel" /\ shown' = shown
    BY <1>1, <1>2, <1>4 DEF Alarm!Snooze
  <2>2. row' \in Rows /\ row'.silence = row.silence
    BY <2>1 DEF Rows
  <2>3. QED
    BY <1>1, <1>3, <2>1, <2>2
<1>5. CASE Alarm!Silence
  <2>1. /\ row \in Rows /\ row' = [row EXCEPT !.silence = TRUE]
        /\ task' = task /\ user' = "unsnooze" /\ shown' = shown
    BY <1>1, <1>5 DEF Alarm!Silence
  <2>2. row' \in Rows /\ row'.silence
    BY <2>1 DEF Rows
  <2>3. QED
    BY <1>1, <1>3, <2>1, <2>2
<1>6. CASE Alarm!Unsnooze
  <2>1. /\ row \in Rows /\ row' = [row EXCEPT !.snooze = Alarm!NoSnooze]
        /\ task' = task /\ user' = "cancel" /\ shown' = shown
    BY <1>1, <1>6 DEF Alarm!Unsnooze
  <2>2. row' \in Rows /\ row'.silence = row.silence
    BY <1>2, <2>1 DEF Rows
  <2>3. QED
    BY <1>1, <1>3, <2>1, <2>2
<1>7. CASE Alarm!Acknowledge \/ Alarm!UserCancel
  <2>1. /\ row' = row /\ task' = task /\ user' \in {"idle", "cancel"} /\ shown' \in BOOLEAN
    BY <1>1, <1>7 DEF Alarm!Acknowledge, Alarm!UserCancel
  <2>2. AlarmInv'
    BY <1>1, <2>1 DEF AlarmInv
  <2>3. QED
    BY <2>1, <2>2
<1>8. CASE Alarm!Tick
  <2> DEFINE n == IF row.alarmAge = Alarm!Never \/ row.alarmAge = Limit THEN row.alarmAge
                  ELSE row.alarmAge + 1
             m == IF row.snooze > 0 THEN row.snooze - 1 ELSE row.snooze
  <2>1. /\ row \in Rows /\ row' = [row EXCEPT !.alarmAge = n, !.snooze = m]
        /\ task' = task /\ user' = user /\ shown' = shown
    BY <1>1, <1>8 DEF Alarm!Tick
  <2>2. n \in Int /\ m \in Int
    BY <2>1 DEF Rows
  <2> HIDE DEF n, m
  <2>3. row' \in Rows /\ row'.silence = row.silence
    BY <2>1, <2>2 DEF Rows
  <2>4. user' \in {"idle", "unsnooze", "cancel"}
    BY <2>1 DEF AlarmInv
  <2>5. QED
    BY <1>1, <1>3, <2>1, <2>3, <2>4
<1>9. QED
  BY <1>4, <1>5, <1>6, <1>7, <1>8 DEF Alarm!UserStep

\* What may become of a silence in one step.
Lifted ==
  row # NoRow /\ row.silence /\ ~row'.silence =>
    \E a \in Alarm!Actors : /\ task[a].at = "save" /\ task'[a].at = "cancel"
                            /\ task[a].silenced

LEMMA AlarmStep ==
  ASSUME Alarm!AlarmAssumption, AlarmInv, [Alarm!Next]_(Alarm!vars)
  PROVE  AlarmInv' /\ Lifted
<1>1. KeepsSilence => Lifted
  BY DEF KeepsSilence, Lifted
<1>2. ASSUME NEW a \in Alarm!Actors, Alarm!Act(a) PROVE AlarmInv' /\ Lifted
  BY <1>1, <1>2, ActInv DEF Lifted
<1>3. CASE Alarm!RecordAlarm \/ Alarm!RecordStatus \/ Alarm!Show \/ Alarm!ShowFails
  BY <1>1, <1>3, RecordInv
<1>4. CASE Alarm!UserStep \/ Alarm!Tick
  BY <1>4, UserInv DEF Lifted
<1>5. CASE \E r \in Readings : Alarm!SensorChanges(r)
  BY <1>1, <1>5 DEF Alarm!SensorChanges, AlarmInv, KeepsSilence
<1>6. CASE Alarm!Kill
  <2>1. task' = [a \in Alarm!Actors |-> Alarm!Idle] /\ user' = "idle" /\ row' = row
        /\ shown' = shown
    BY <1>6 DEF Alarm!Kill
  <2>2. task' \in [Alarm!Actors -> Tasks] /\ \A a \in Alarm!Actors : Read(task'[a])
    BY <2>1, IdleTask DEF Read
  <2>3. AlarmInv'
    BY <2>1, <2>2 DEF AlarmInv
  <2>4. QED
    BY <1>1, <2>1, <2>3 DEF KeepsSilence
<1>7. CASE UNCHANGED Alarm!vars
  BY <1>1, <1>7 DEF Alarm!vars, AlarmInv, KeepsSilence
<1>8. QED
  BY <1>2, <1>3, <1>4, <1>5, <1>6, <1>7
     DEF Alarm!Next, Alarm!MonitorStep, Alarm!RefreshStep, Alarm!Actors

\* "Silence until back in range" outlives every write of the monitor and the
\* foreground refresh, their errors, the rest of the user's actions and every
\* kill: only an actor that knew of the silence, and read a value in range,
\* takes it back; for any snoozes, readings and rate limit.
THEOREM SilenceIsKept ==
  ASSUME Alarm!AlarmAssumption, NoRow \notin Rows
  PROVE  Alarm!Spec => Alarm!OnlyOkLiftsSilence
<1>1. Alarm!Init => AlarmInv
  <2>1. SUFFICES ASSUME Alarm!Init PROVE AlarmInv
    OBVIOUS
  <2>2. /\ task \in [Alarm!Actors -> Tasks] /\ \A a \in Alarm!Actors : Read(task[a])
    BY <2>1, IdleTask DEF Alarm!Init, Read
  <2>3. QED
    BY <2>1, <2>2 DEF Alarm!Init, AlarmInv
<1>2. AlarmInv /\ [Alarm!Next]_(Alarm!vars) => AlarmInv'
  BY AlarmStep
<1>3. AlarmInv /\ [Alarm!Next]_(Alarm!vars) =>
        [row # NoRow /\ row.silence /\ ~row'.silence =>
           \E a \in Alarm!Actors : /\ task[a].at = "save" /\ task'[a].at = "cancel"
                                   /\ task[a].silenced]_(Alarm!vars)
  BY AlarmStep DEF Lifted
<1>4. QED
  BY <1>1, <1>2, <1>3, PTL DEF Alarm!Spec, Alarm!OnlyOkLiftsSilence
=============================================================================
