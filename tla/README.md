# FarmCtl: a verification development

FarmCtl watches thermostats. A Raspberry Pi Pico measures a temperature and publishes it, with its diagnostics, to
GitHub Gists; a phone polls the Gists and raises alarms; a private repository holds one file with the configuration
of every device, which the phone edits and the devices fetch. A device replaces its own firmware over two slots and
its own configuration over a trial, and has to come back by itself from a power cut at any point of either. It finds
new firmware by listing the releases of a public repository.

The modules here model the parts of that system that keep durable or shared state, check them with TLC on small
instances, and prove their safety with TLAPS for every value of the constants. `PROJECT.json` lists
the components, runs, hazards, theorems, and for every definition the source lines it models.

## 1. Inventory

### Pico firmware (`firmware/pico`, MicroPython)

| Part | State | Operations | Hard behaviour |
|---|---|---|---|
| `update_state.UpdateStateStore`, `config_trial.ConfigTrialStore` | two record files with sequence numbers and checksums; the loaded state | initialise, load, commit | power cut inside a commit, short writes, ambiguous outcomes, an unreadable record, the end of the sequence |
| `update_state.UpdateState`, `firmware_supervisor`, `slot_storage` | applied, retained and pending slot, two high-water marks, the trial's clock; the two slots | admit, stage, enter trial, report, confirm, suppress, boot, fall back | staging writes a slot while the records of the journal name slots; deadlines; unproven code running |
| `config_trial`, `config_stage`, `config_promotion`, `config_proof_io` | applied and candidate payload, consumed change ids; payload files; who publishes, reads and is connected with which configuration | stage, try, prove, promote, roll back, hand over, boot recovery | partial failure after the commit, publications under way, the deadline, repeated offers of a failed change |
| `fixed_supervisor` | process and operation locks, boot and quarantine flags | boot once, run an operation, quarantine | threads and owner objects; an update of one kind left unfinished while the other kind starts |
| `runtime`, `telemetry`, `gist_publisher` | tick marks, sensor state, back-off of each file, shared cool-down | step, suspend, resume, publish | the tick counter wraps, lost answers, rate limits, transitions that are reported once |
| `firmware_trial_proof` (with `gist_readback`) | the binding of a monitor to the trial it was launched for, the report in progress | bind the launch, report twice over two Gists, lift the fence after the selection | service callbacks may tick, fail or end the trial between any two steps; late and lost writes; restarts |
| `release_discovery`, `release_client`, `candidate_manifest` | a scan in progress: page, releases seen, winner | scan, admit | the list changes between two pages; one deadline over many requests |
| `private_fleet_client` | the exclusive candidate file | fetch to a stage, remove | colliding names, failed writes and removals, power cuts |
| `bounded_dns`, `native_https`, `public_release_transport` | one request: place, socket, deadline | resolve, connect, send, read, follow a redirect | doubled and late datagrams, a second name and socket inside one deadline, a server that stalls or breaks off |
| `fleet_config`, `time_bootstrap` | none that outlives a call | validation of a text, setting of the clock | none of its own: the modelled parts see a yes or no |

### App (`app`, Flutter and Kotlin)

| Part | State | Operations | Hard behaviour |
|---|---|---|---|
| background monitor, repository, alarm rule, foreground refresh | one row for each thermostat, the notification | run, refresh, snooze, silence, acknowledge | several isolates share the row and each decides from a snapshot; kills; suppression against recovery |
| fleet configuration page, service, contents client, connection store | edit session, draft, attempt, pending change, the file's blob SHA | open, check, edit, submit, reapply, ask for the status | every `await` lets the session end; lost answers and PUTs that land late; other editors |
| history synchronisation (`thermostat_service`) | samples, cursors | refresh history | overlapping runs, changed sources, budgets |
| settings, navigation, widgets, Android host | preferences, navigation | one user action each | none shared beyond the above |

### How the parts interact

The fixed supervisor orders everything at boot: configuration recovery first, then the firmware supervisor. Both
updaters keep their state in a journal of the same design. A configuration operation suspends the runtime's
publications, proves the candidate and hands the new publisher to the runtime. What the device publishes reaches
the phone through GitHub only, as does what the phone edits reach the device: the Gists and the repository are
shared state without any other synchronisation than the blob SHA of a PUT. The firmware supervisor promotes a release on
the word of the trial reporter, which runs the new monitor's publisher and reads the Gists back; every network call
of the device is one request of the transports after the other. On the phone the background isolate, the
foreground app and notification actions share the SQLite rows.

## 2. Modules

```
DurableRegister  <--refines--  TwoRecordStore                     TwoRecordStoreProofs
     |  INSTANCE
     +-- FirmwareUpdate  --refines-->  TrialLifecycle             FirmwareUpdateProofs
     |                                      |  INSTANCE
     |                                 TrialProof                 TrialProofProofs
     +-- ConfigUpdate                                             ConfigUpdateProofs
     +-- FixedSupervisor (two of them)                            FixedSupervisorProofs

Resolver  <--extends--  HttpsExchange  <--extends--  NetworkClients          NetworkClientsProofs
                                                          |  refines, INSTANCE
                                                     ReleaseDiscovery

FleetEditor        AlarmMonitor                                   AppProofs
Publication                                                       PublicationProofs
```

Each `MC*.tla` extends one of them with the constants of its runs.

**DurableRegister** is the abstract specification of a journal: a commit is acknowledged and durable, or ambiguous,
and then it left the old value, the old value alone, or the new one, and the RAM copy is gone. A load may fall back
to the older value when the newer record cannot be read.

**TwoRecordStore** is the code of both `_commit` and `load` functions at the grain of a power cut: opening the
target truncates it, the write may be short, the flush may fail, the readback may fail on a good record. Its mapping
to the register takes the record values for `newest` and `older` outside a commit; inside one, it still shows what
was there when the commit began (`before`), so that the effect takes place at the step that ends the commit.

**FirmwareUpdate** composes the register with the slots and the trial's clock: `Admit`, `EraseSlot`, `WriteSlot`,
`EnterTrial`, `LaunchTrial`, `Tick`, `ReportTrial`, `ConfirmTrial`, and the steps of a boot. A slot is the release it
holds, or junk. `Rot` damages a slot and `PowerCut` may come before every step. Three history variables remember
which releases were proven, which were launched, and whether a load ever fell back to the older of two records.

**TrialLifecycle** is that updater as the reporter of a trial sees it: a release above the floor is staged, enters its
trial, and is promoted inside the deadline or never again; a state may be loaded again at any time. FirmwareUpdate is
shown to implement it, so what is checked of a reporter above it holds above the whole updater.

**TrialProof** runs `bind_launch`, `report` and `after_confirmed_selection` above that life cycle. Each service
callback is a place at which the trial may tick, fail, be replaced by the next one or lose its state, and at which the
code reads the trial again. An ordinary publication of a monitor begins and ends in two steps (`PublishBegins`,
`PublishEnds`), and what comes between may be anything: a bind in between is refused and leaves the monitor without
a fence, so `offered` collects only the monitors that a bind found at rest. `crossed` remembers of a binding that
another trial had been entered while the slot was verified for it. The Gists take writes late, in any order, or not at
all (`wire`), and `held` remembers what they held.

**ConfigUpdate** is one configuration change from the fetch to the resumed publication, with the payload files, the
link, the reader and the writer in use, the fence, and every failure path of `config_promotion` (reject, roll back,
restore, inconclusive, quarantine), beside `PublishBegins` and `PublishEnds` of the runtime.

**Resolver**, **HttpsExchange** and **NetworkClients** are one network call of the device from the question to the
name server up to the client that wanted it. The resolver asks twice at most and follows aliases
(`Hop`, `After`); the exchange
connects, sends, reads a body chunk by chunk and follows GitHub's one redirect under a single deadline; the clients
are the discovery of a release, the download of the fleet file into an exclusively created candidate file, and the
two Gist calls. The server may answer, stall or break off at any place.

**ReleaseDiscovery** is the scan by itself, where a page arrives in one step and the list changes between any two:
`select_signed_release` with its checks of repeated ids and of full and short pages, and the admission of a candidate.
NetworkClients is shown to implement it.

**FixedSupervisor** is `boot_once` and `run_operation` with any number of threads and owner objects over two
registers, each reduced to settled or not: the guards read no more. A load of either store may fall back to the older
record (`ConfigLoad`, `FirmwareLoad`); `passedOver` remembers for which store it did and no commit followed.

**Publication** is `Monitor.step` and `GistPublisher._publish` over a wrapping tick counter: a mark is the distance
the clock has moved on modulo the period, and `Elapsed` reads it as signed, as `ticks_diff` does. `_failed` computes
a delay from the number of failures in a row; `Escalated` keeps the delay without hint of the last failure (`base`)
and doubles it up to the limit, which is the same sequence without a power of two. `owed`, `age` and `calm` are
history: how long a request must still wait, how old what the phone sees really is, how long all has been well.

**AlarmMonitor** is the run of the background monitor over one thermostat, the foreground refresh, the notification
actions and the alarm rule over one row; every `await` ends a step. Ages are relative: ticks since the last alarm,
ticks left of a snooze.

**FleetEditor** is the fleet page with its session, the one PUT and the one readback of a submission, other
editors and devices that acknowledge. The file is a function from devices to change ids; ids are unique, so it also
stands for its blob SHA. The page may be left at any `await` and opened anew (`LeavePage`): every field starts afresh,
the flags of a submission among them, while the PUT that was sent may still land; its outcome is recorded nowhere.
`fetched` remembers whether the file was fetched since the phone's last PUT.

In every module a definition whose comment calls it a faulty version of another one (`ClaimUnlocked`) is not used by
the specification: it is what a plausible bug would turn that definition into, and each property is known to catch
one of them.

## 3. Runs

| Run | Instance | Distinct states | What it shows |
|---|---|---|---|
| `two_record_store` | 2 values, sequences to 5 | 629 | the files are an atomic durable register, no step loses the last record |
| `firmware_update` | 4 release ids, 2 markers, trial of 2 ticks, read faults, fairness | 232 308 | slots that records name are intact, only proven releases are selected, unproven code is on record, no second trial, the updater is a trial life cycle, a pending candidate resolves although no proof ever arrives |
| `config_update` | 3 changes, capacity 3, trial of 3 ticks, read faults, fairness | 235 656 | payloads stay intact, publications use the applied settings, an idle device is settled, only a proven candidate is promoted, no second trial, the fence always resolves |
| `fixed_supervisor` | 2 threads, 2 owners, read faults, fairness | 160 904 | one launch, never two unfinished updates loaded, recovery before the launch unless its record was passed over, the lock comes back |
| `publication` | period of 24 ticks, intervals 1, 2 and 3 | 425 841 | recovery in time, the sensor state is told, no request before its time |
| `trial_proof` | 3 release ids, 2 monitors (symmetric) of 2 samples, trial of 2 ticks | 3 500 105 | a release is promoted only on one sample of its own monitor that both Gists held, a monitor offered at rest stays fenced until it is applied, a stale binding keeps no later trial out but the one entered while it was made |
| `network_clients` | 3 releases, pages of 2, 2 pages, 2 candidate names, bodies of 2 chunks, 2 aliases | 291 060 | a scan that ends without a deletion saw every release, a success is whole, in time and of the right host, nothing is left behind, every call ends |
| `publication_after_half_period` | period of 8 ticks | violation | finding 1 |
| `alarm_monitor` | rate limit of 2 ticks, snooze of 1, all readings, hysteresis, fairness | 409 536 | only a reading in range lifts a silence, alarms return, alarms and suppression end with the condition |
| `alarm_silence_lost_ok` | two readings | violation | finding 2 |
| `fleet_editor` | 2 devices, 2 changes by anyone, fairness | 293 866 | no lost update, nothing is retried blindly, truthful pending state, submissions settle |
| `fleet_refresh_stuck` | 2 devices, 1 change, fairness | violation | finding 3 |

### Why the bounds are enough

- Journals: five sequence numbers give both files several turns, the exhaustion, and every overlap of a torn commit
  with a fallback. `ExhaustionInvalidates = TRUE` is the configuration store; the proofs cover both values.
- Firmware: factory release plus three ids is a promotion, then a failure that falls back to a retained release,
  then an admission over both high-waters. Two markers are a marker and a stale one. A load that falls back to the
  older record revives what that one says, so `RetainedIntact` and `NoSecondTrial` are claimed until the first such
  load (`fellBack`); all other properties hold beyond it.
- Configuration: baseline and two changes is a promotion after a rollback and the reverse. The consumed ids reach the
  capacity. The trial's clock needs a tick before, at and after the finalization margin.
- Trial proof: three release ids are a trial, its failure and the next trial; two monitors are one that is bound and
  one that competes with it, or the one of the next launch; two samples are the one at the bind and a fresh one. An
  ordinary publication sends one file; a publication of both counts as two.
- Network: three releases on pages of two reach a full first page, a short second one, a repetition, a page beyond
  the last and the page limit. Only one of the two candidates is authentic, so that the greatest eligible one is
  chosen is shown by the theorem `ScanIsComplete` alone. The asset host hides behind two aliases, so
  an answer may stop before, at and after the first. One of the two candidate names is taken from the start.
  A request takes two ticks and the discovery three, so either deadline can be the first.
- Supervisor: two of each is the least that races; the proofs hold for every number. With fallback loads the older
  record of either store can be the loaded one at every place, up to the next acknowledged commit (`passedOver`).
- Publication: half the period (12 ticks) exceeds every interval together with the longest outage, suspension and
  request, so the marks wrap many times while no distance reaches half; the finding's run gives up that distance.
  `MaxOutage`, `MaxSuspension` and `Patience` are the bounds of `Tick` and of the history variables.
- Alarms: two ticks of rate limit and one of snooze give every order in which they run out; kills are unbounded.
- Fleet: two changes are mine and another's, or two of mine with the first landing late: from one page, or from a page
  and the one opened after it. Three changes take longer than a run should; the proofs hold for every number.

### Fairness

- `NetworkClients`: the clock runs, each wait ends after 250 ms at the latest and then checks the deadline (`Expires`),
  and the code between two waits goes on. Nothing is assumed of the server, the network or the repository.
- `FirmwareUpdate`: the clock runs, the owner calls `tick` again and again and sometimes finds the clock readable,
  and synchronous code goes on. No proof, report or power cut is assumed.
- `ConfigUpdate`: the coordinator's own synchronous steps go on; its I/O is bounded (`_deadline_service`).
- `FixedSupervisor`: a call of `run_operation` goes on to its return; callbacks are synchronous and bounded.
- `Publication`: the loop that calls `step` is in the application, outside the repository; it is assumed to call it in
  every tick. Requests end because the transport has a time-out, and a trial resumes or reboots. `SF(Tick)` says no
  more than that time diverges however often `step` is called. Only the violation run uses it.
- `AlarmMonitor`: the foreground service repeats its runs and time passes. Strong fairness of fetching, recording and
  showing says that the system does not kill every run, and the network does not fail every time, at the same place:
  no liveness can be claimed without it, since Android may kill any run.
- `FleetEditor`: each request has a deadline, a session has a timer, and the page has a ticker. Nothing is assumed
  of the user, the devices or other editors.

## 4. Proofs

All theorems hold for every value of the constants that satisfies the module's ASSUME. The assumptions only say what
the code validates: no value of a state, no session, request or submission is the null value, bounds are positive.

**TwoRecordStoreProofs.** `SequencesStayNeighbours`, `RamAlwaysBacked` and `LastRecordSurvives` are the properties
of the run; `Refinement` is `Spec => Register!Spec`. The invariant has to say in which shape a commit in progress
has left the target (`CommitInv`): absent or torn after opening, torn or complete after writing, and that the other
file still holds the active record and `before` what was there at the start. Refinement follows step by step: the
steps inside a commit stutter, the last one is `CommitOk` or `CommitAmbiguous`, by the case of what the file holds.

**FirmwareUpdateProofs.** `TypeCorrect`, `AppliedStaysIntact` and `OnlyProvenReleasesSelected`. `AppliedIntact` is
not inductive: `stage_writer` consults the RAM state alone, and it is `PendingInv` that makes this enough. Past the
recovery a pending phase means that both records apply the same slot, so the inactive slot of the RAM state is
inactive in the other record, too. `TrialInv` says the trial slot holds the verified candidate and `JobInv` that the
admission in progress is the one on record. `OnlyProvenSelected` rests on the same facts: promotion selects what
the trial on record names. The lemmas `StagedValid` to `ReselectedValid` show that each transition of the code maps
states that `_validate_state` accepts to such states.

The second half of the module looks back. `RetainedStaysIntact`, `UnprovenStaysOnRecord` and `NoReleaseTriedTwice`
need `HInv` beside the invariant above. Its core is `Current`: without a fallback the state in RAM is the newest record, so what the
code decides from RAM is true of the medium. `UnprovenInv` adds that unproven code runs only when that state is
current, fallback or not, and that a restart would suppress it; `LaunchedInv`, that every release ever launched
is the one on trial or is below the floor, so `admit` refuses it; `FreshInv` carries that refusal from the admission
to the launch. `LifecycleRefinement` is `Spec => Lifecycle!Spec`, from the invariant and `AgeInv` (`ClockFollowsTrial`):
the trial's clock runs only while the state in RAM has a trial.

**TrialProofProofs.** `BoundToFenced`, `OfferedStaysFenced`, `StaleBindingRetires` and `PromotionHasEvidence`, for any
monitors, samples, releases and markers. `SampleInv` says that a report names a sample taken after the bind,
`HeldInv` that what was read back was in the file, `FollowInv` that a binding which saw no commit since is to the
trial of now, unless that one was entered while the slot was verified for the binding (`crossed`), and `OfferInv` is
the fence itself. `OfferedStaysFenced` speaks of the monitors that a bind found at rest, and `StaleBindingRetires`
excepts the crossed binding until the next commit: without either restriction the code does not keep the promise
(section 5).

**NetworkClientsProofs.** `ScanIsComplete`, of ReleaseDiscovery: a scan that ends while nothing was deleted saw every
release listed at its last page, and its winner is the greatest eligible one. The code never compares lists, so the
argument is a count: pages before the last are full (`FullPages`) and repeat nothing, what was seen is still listed
(`SeenListed`), and a last page that is short brings the number seen up to the length of the list: two finite sets,
one inside the other, of one size. `SearchRefinement` is `Spec => Discovery!Spec`, every other step of the clients
being a stutter; `ClientsScanCompletely` follows from the two. `NothingIsLeft` needs that no request is in progress
between two calls (`Resting`), that a request that is over has closed its sockets, since forgetting its result closes
none (`Closed`), which file the call in progress owns (`OwnFile`) and how much of it is written (`Whole`).

`AnswersAreWhole` proves `WholeAndInTime` for any zone, hop limit, deadline and length of a body. Where the body came
from is the hard part: the address is that of the name at the end of a chain of aliases, which two questions may
have followed in two pieces, each perhaps answered by a late datagram. The invariant says that the name asked for now
is where `hops` aliases lead from the host that is wanted, so the pieces add up (`AfterAdds`) and the address at the
end is the host's (`AddressAtEnd`); and that time spent and time left make up one deadline, over the redirect as
well. What `After` does for every number of hops is an induction over the naturals. The library states induction with
an operator as its parameter, which the provers cannot instantiate, so the module argues over the least
counterexample instead (`Least`, `NoFirst`): a set of numbers has a minimum because `<` on them is well founded.

**PublicationProofs.** `BackoffsAreKept` (`RequestsWait`) holds for any intervals, from `Waits`: a mark younger than
its delay is what `owed` says, and a mark that wrapped only makes the device wait longer. `RecoveryIsTimely` and
`RecoveryIsReported` prove `RecoversInTime` and `StateIsTold`. Neither is close to inductive. The invariant `IInv` bounds
how long all has been well by what stands between now and the next accepted request: the delay still owed, the time
since the last attempt, the age of the step and of the request in progress, so that once `calm` has reached `Patience`
nothing stands in the way and the ages must be within the intervals. It needs that each mark reads as its true age,
which is so only while the mark is younger than half the period; and that it is young follows from the same bounds.
Hence the two are one invariant. The hypothesis `Timely` collects the margins on the constants: a request ends before the
next publication is due and two of them within a heartbeat, `Patience` covers the longest wait with a sample and the
requests around it, and neither the longest outage with the wait after it nor a suspension outlasts half the period. TLC checks that the
instance of the run `publication` satisfies it (`MCTimely`). So does the device: 15 s for a request, a sample every 10
to 300 s, a publication every 60 to 300 s, a heartbeat of 300 s, waits of at most 3600 s, and half a period of 2**29 ms
or 6.2 days, for outages up to about six days. Beyond that is finding 1: an outage the hypothesis
excludes, after which publications stop for good.

**ConfigUpdateProofs.** `TypeCorrect`, `PayloadsStayIntact`, `PublicationsAsApplied`, `IdleIsSettled`,
`PromotionIsProven` and `NoChangeTriedTwice`, for any changes, capacity and length of the trial, read faults
included. `DataInv` relates the two records, the payload files and the consumed ids: every payload either record
names can be read, and both records remember every change ever tried, so it does not matter which one a load
selects. The rest says, place by place of the coordinator, how far the journal is and whether publications are fenced off (`PlaceInv`, `FenceInv`),
which one is installed where (`CapInv`), that the clock runs inside a trial only (`ClockInv`), that the evidence is
from this trial (`EvidenceInv`) and that a staged change was never tried (`FreshInv`).

**FixedSupervisorProofs.** `TypeCorrect`, `LaunchesOnce`, `UpdatesExclusive` and `RecoveryFirst`, for any threads and
owners, and whichever record a load selects. `BootInv` says that one thread at most is past the claim, that it has
launched at most once, and that no operation runs while it boots. `OperationInv` says that what `Check` read of the
other store in RAM stays true until the operation returns, although a trial may end outside of the lock: that only
settles what was settled already. `RecordsInv` ties RAM to the flash: what is loaded is the newest record, unless the
load passed that one over. So `UpdatesExclusive` says of the states loaded, without exception, that never two are
unfinished, and of the records on the flash the same as long as none was passed over; and `RecoveryFirst`, that the
firmware is launched only when the configuration that is loaded is settled, and so is the newest record unless it
was passed over.

**AppProofs.** Of FleetEditor: `PendingIsTruthful`, `NothingIsRetriedBlindly` and `NoUpdateIsLost`, for any devices, editors and
changes. The service gives a PUT the blob SHA of the session's base, so an accepted PUT replaces what its user was
shown if the draft was begun from that base: `EditInv` says that a draft being edited belongs to the open session
and its selected device, through every await at which the session, the device or the draft may change. A PUT whose
answer was lost stays outstanding for ever; `AloneInv` says that the id of an outstanding PUT is in no file, base or
other PUT, so that a file which equals its content can only come from that PUT itself; that includes the PUT of a page
that was left. `AttemptInv` says that an attempt excludes a PUT under way and an unknown outcome of the same page,
`FetchedInv` that a session has sent at most the PUT under way. The two give `NothingIsRetriedBlindly`: what is sent is made of
a file that was fetched after the phone's last PUT, also by a page that has forgotten that PUT.

Of AlarmMonitor: `SilenceIsKept` (`OnlyOkLiftsSilence`), for any rate limit, snoozes and readings, with the monitor, the
refresh, the user and kills in any order. Each write names its columns, so all but one of them keep the silence or
add one (`RecordedRow`, `KeepsSilence`); the one that clears it does so with the snapshot's own `silenced`.
`AlarmInv` adds that a task about to save has a reading in hand, and that a row waiting for the second write of
a silence exists.

So every invariant and every action property of the passing runs is a theorem. Left to TLC are the properties under
fairness: `PendingResolves`, `FenceResolves`, `OperationsEnd`, `CallsEnd`, `AlarmsAgain`, `AlarmClears`,
`SuppressionLifts` and `SubmissionSettles`. Liveness and ENABLED are out of the prover's reach, and so is induction over data
with the library's theorems; no module uses a RECURSIVE operator. The other things the proofs do not say are what
the models leave out (section 6).

## 5. Findings

1. **Publications stop after a long outage** (`publication_after_half_period`, `runtime.py:200`). A signed tick
   difference makes an interval that has passed look like one that is still to come for the other half of the
   period (6.2 days). The last failure's back-off is read the same way, and that failure happened just before the
   publication stopped being due, so the two windows never meet again.
2. **A silence survives the reading that should end it** (`alarm_silence_lost_ok`, `thermostat_monitor.dart:678`).
   The decision to clear it is taken from the snapshot at the start of the run. A later in-range poll does clear it
   (`SuppressionLifts`), but until then it can mute a new alarm.
3. **The compatibility check can lock the editor** (`fleet_refresh_stuck`, `fleet_configuration_page.dart:393`). When
   the session ends during the check, its answer is dropped together with the reset of the flag that disables the
   button.

Disagreements met while modelling that no run states:

- `fixed_supervisor.py:188` reads the quarantine before it takes the lock and not again: an operation that is
  between the two lines when another thread quarantines the owner still begins, although line 176 says later
  operations are rejected.
- `thermostat_reading_utils.dart:71` lifts the rate limit when the last status differs, and a failed fetch writes a
  different one: between two readings out of range it re-arms the alarm at once, against docs/Spec.md:102.
- `fleet_configuration_page.dart:846` takes the exception of an unchanged draft for an unknown outcome and disables
  replacement submissions although nothing was sent.
- `fleet_configuration_service.dart:121` reports a PUT that was answered 200 as needing reapplication when another
  editor commits before the readback.
- `release_client.py:23` speaks of "a complete scan". Additions cannot break one, but a deletion between two pages
  moves a release onto a page already read, and nothing tells: `CompleteScan` holds for scans without a deletion.
- A power cut during the download of the fleet file leaves a `fleet-*.candidate` that nothing removes later
  (`orphans` in NetworkClients); the names are random, so the files only take room.
- `fixed_supervisor.py:133` recovers what `load` selected. When the record of an active change cannot be read, that is
  the settled one before it: nothing is recovered, the firmware is launched, and later a firmware operation is admitted,
  while the newest record on the flash is the active change (`passedOver`). The next acknowledged commit of the
  configuration store ends this.
- `firmware_trial_proof.py:44` says "A failed bind must never leave a candidate eligible for ordinary publication".
  A bind made while a publication of that monitor is under way fails two lines later, because `suspend_publication`
  refuses (`runtime.py:44`), and the monitor goes on publishing.
- `firmware_trial_proof.py:96` takes the sequence of the store after `verify_slot`, next to the id and the marker taken
  before it. A trial entered inside that call is another one, but by the sequence nothing has changed since: the
  binding is not retired, and the monitor of that trial is refused until the next commit (`crossed`).
- `fleet_contents_client.dart` asks that callers never retry a PUT, and the page never does by itself. The flags that
  say so are the page's own, though: after it is left and opened again, the user can send a second PUT, of a
  newly fetched file, while the first may still land. The blob SHA then lets one of the two through (`NoLostUpdate`).
- `config_trial.py:314` keeps every consumed change for ever: after 64 of them each further change raises.

## 6. Not modelled, and why

- The syntax of headers and DNS messages, TLS, and the parsers of JSON and of the fleet file: bounded functions of a
  text. In the models a message is well formed or ends the call, a parsed file is valid or not, and signatures and
  digests are predicates. `time_bootstrap` sets the clock once before anything else runs.
- The transfer of release assets into a slot is the staging of `FirmwareUpdate`, not a client of `NetworkClients`.
- A change of the release list during a request: the page is taken to be as the server holds it when it answers.
- The event log of the telemetry, its poll counters and the jitter of the back-off: no modelled decision reads them.
- A second `bind_launch` or `report` from inside a callback of the reporter: `_proof_active` refuses the report
  (`firmware_trial_proof.py:140`), and no caller binds from there.
- `Publication` and what others send to the same files: a PATCH that timed out and lands after a newer one (`StateIsTold`),
  the PATCHes of a trial, which do not ask the back-off, and its reset when the publisher is replaced (`RequestsWait`).
- Failures of the call that cancels a notification, which the code swallows (`AlarmClears`). `SuppressionLifts` is
  about the silence; a snooze ends by its own time.
- A name server that lies: `Zone` is fixed and truthful, so that a late reply to an earlier question is only a
  shorter piece of the same chain.
- The form of the fleet page: its fields, their validation and the masking of secrets.
- The monitor's cadence, pause and health notification, and the restart at boot: Android scheduling. Planned in part.
- History synchronisation, thermostat list editing (a state row may be written back after its thermostat was
  deleted, `thermostat_repository.dart:294`) and changes of the saved connection. Planned.
- Settings, widgets, navigation, the Kotlin host, and the release and simulation tools: one actor, no shared state.

## 7. Plan

Done, in this order: DurableRegister, TwoRecordStore and its proofs; FirmwareUpdate and its proofs; ConfigUpdate;
FixedSupervisor and its proofs; Publication; AlarmMonitor; FleetEditor; TrialLifecycle, TrialProof and their proofs;
Resolver, HttpsExchange, ReleaseDiscovery, NetworkClients and their proofs; the remaining safety of FirmwareUpdate,
ConfigUpdate and FleetEditor proved; Publication, the exchange of NetworkClients and the silence of AlarmMonitor
proved.

Next, models:

1. HistorySync: the single flight, the cursors and the budgets of `refreshHistory`, with a changed source.
2. FleetConnection: the generations of the store against sessions and repositories, composed with FleetEditor.
3. Thermostat editing and deletion beside the monitor, the health notification, and the foreground refresher.
4. The event log of the telemetry and its upload; the poll of the runtime.
5. A composition of ConfigUpdate with Publication over the fence.

Next, theorems:

1. The theorems of the models to come, and the action properties that belong to their compositions.
2. AlarmMonitor: that a shown alarm was due, as a safety property of its own.
