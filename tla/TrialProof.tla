----------------------------- MODULE TrialProof -----------------------------
(***************************************************************************)
(* The evidence for which a trial release is promoted: FirmwareTrialReporter*)
(* (firmware_trial_proof.py) binds the monitor of the launched candidate,  *)
(* has it publish one fresh sample to both Gists, reads both back and      *)
(* checks at every turn that the trial is still the one it was bound to.   *)
(*                                                                         *)
(* The trial is the one of TrialLifecycle.  A content of a Gist file is the*)
(* monitor (its boot identity) and the number of the sample that it names. *)
(* One thread runs the reporter.  Its service callbacks, and those of an   *)
(* ordinary publication, may fail the trial and begin another one between  *)
(* any two steps; they do not enter the reporter a second time.  A monitor *)
(* keeps its publisher and Gists, and a verification of the slot either    *)
(* holds or ends the attempt.                                              *)
(***************************************************************************)
EXTENDS Integers

CONSTANTS
  MaxReleaseId, Markers, TrialMs, Unknown,  \* as in TrialLifecycle
  Margin,      \* _FINALIZATION_MARGIN_MS, in ticks of the model
  Monitors,    \* monitors that a boot can construct
  MaxSamples,  \* bound on the samples of a monitor
  None         \* no monitor, no binding, nothing in progress

ASSUME TrialProofAssumption ==
  /\ MaxReleaseId \in Nat \ {0}
  /\ TrialMs \in Nat /\ Margin \in 0..TrialMs
  /\ MaxSamples \in Nat
  /\ "none" \notin Markers

Files == {"temperature", "diagnostics"}
Foreign == <<>>   \* a content that no monitor of this boot wrote
Contents == Monitors \X (1..MaxSamples)

Places == {"bind", "temperature", "confirmTemperature", "diagnostics",
           "confirmDiagnostics", "verify"}

\* _publication_suspended is fenced, _normal_publication_active is busy.
Running == [running : 1..MaxReleaseId, seq : 0..MaxSamples, fenced : BOOLEAN, busy : BOOLEAN]
Bindings == [monitor : Monitors, id : 1..MaxReleaseId, marker : Markers,
             initial : 0..MaxSamples, moved : BOOLEAN, crossed : BOOLEAN]
Tasks == [at : Places, monitor : Monitors, id : 1..MaxReleaseId, marker : Markers,
          n : 0..MaxSamples]

ASSUME NoneAssumption == None \notin Running \cup Bindings \cup Tasks

VARIABLES
  life, age,  \* the trial
  up,         \* whether this boot has loaded the updater's state
  monitor,    \* each monitor: release it runs, sequence, fence, whether it is
              \* publishing; or None
  binding,    \* what the reporter is bound to, whether a commit followed, and
              \* (history) whether another trial had been entered when it was made
  task,       \* what the reporter is doing
  gist,       \* content of each file
  wire,       \* writes that have not reached the Gist (yet)
  held,       \* history: what the files have held in this boot
  offered,    \* history: monitors that a bind found at rest, and fenced
  proven      \* history: releases applied in this boot

vars == <<life, age, up, monitor, binding, task, gist, wire, held, offered, proven>>
world == <<gist, wire, held>>
device == <<up, monitor, binding, task, offered, proven>>

Cycle == INSTANCE TrialLifecycle
ASSUME UnknownAssumption == Unknown \notin Cycle!Lives

Known == Cycle!Known
InTrial == Known /\ life.phase = "trial_entered" /\ age # Cycle!NoTick

Init ==
  /\ Cycle!Init
  /\ up = FALSE
  /\ monitor = [m \in Monitors |-> None]
  /\ binding = None /\ task = None
  /\ gist = [f \in Files |-> Foreign]
  /\ wire = {} /\ held = {} /\ offered = {} /\ proven = {}

-----------------------------------------------------------------------------
\* The updater's other operations.  Each durable one advances the sequence
\* of the store.
Moved == IF binding = None THEN None ELSE [binding EXCEPT !.moved = TRUE]

\* The state a boot leaves when it has recovered and chosen a slot.
Boot ==
  /\ ~up
  /\ Cycle!Reload
  /\ up' = TRUE
  /\ proven' = {life'.applied}
  /\ UNCHANGED <<world, monitor, binding, task, offered>>

\* admit_and_stage reserves the candidate, then enters its trial; like tick
\* and fail_trial, also from a service callback of the reporter.
Update ==
  /\ \/ \E id \in 1..MaxReleaseId, marker \in Markers : Cycle!Stage(id, marker)
     \/ Cycle!EnterTrial
  /\ binding' = Moved
  /\ UNCHANGED <<world, up, monitor, task, offered, proven>>

FailTrial ==
  /\ Cycle!Suppress
  /\ binding' = Moved
  /\ UNCHANGED <<world, up, monitor, task, offered, proven>>

CommitLost ==
  /\ Cycle!Lose
  /\ UNCHANGED <<world, device>>

ClockAdvances ==
  /\ Cycle!Advance
  /\ UNCHANGED <<world, device>>

\* Whatever this boot wrote is foreign to the next one.
PowerCut ==
  /\ up
  /\ up' = FALSE
  /\ life' = Unknown /\ age' = Cycle!NoTick
  /\ monitor' = [m \in Monitors |-> None]
  /\ binding' = None /\ task' = None
  /\ gist' = [f \in Files |-> Foreign]
  /\ wire' = {} /\ held' = {} /\ offered' = {} /\ proven' = {}

-----------------------------------------------------------------------------
\* The launcher constructs a monitor for the candidate; or somebody has one
\* that still runs the applied release.
Launch(m) ==
  /\ task = None
  /\ monitor[m] = None
  /\ InTrial
  /\ \E r \in {life.id, life.applied} :
       monitor' = [monitor EXCEPT ![m] = [running |-> r, seq |-> 0, fenced |-> FALSE,
                                      busy |-> FALSE]]
  /\ UNCHANGED <<life, age, world, up, binding, task, offered, proven>>

SameTrial(b) ==
  life.phase = "trial_entered" /\ life.id = b.id /\ life.marker = b.marker

\* A faulty retirement that waits for an updater at rest.
RetiredAtRest(b) == Known /\ b.moved /\ life.phase = "none"

\* _binding_trial_was_retired
Retired(b) == Known /\ b.moved /\ ~SameTrial(b)

\* What a bind of another monitor leaves of the binding.
Remaining(m) ==
  IF binding # None /\ binding.monitor # m /\ Retired(binding) THEN None ELSE binding

\* bind_launch fences the monitor and makes room for it, whatever follows.
\* (A monitor with a publication under way it refuses at once: that changes
\* nothing, and leaves the monitor without a fence.)
Offer(m) ==
  /\ task = None
  /\ up
  /\ monitor[m] # None
  /\ ~monitor[m].busy
  /\ monitor' = [monitor EXCEPT ![m].fenced = TRUE]
  /\ offered' = offered \cup {m}
  /\ binding' = Remaining(m)
  /\ UNCHANGED <<life, age, world, up, proven>>

BindRefused(m) ==
  /\ Offer(m)
  /\ UNCHANGED task

\* No other binding is left and the trial is the one the launcher names:
\* verify_slot is called.
Bind(m) ==
  /\ Offer(m)
  /\ binding' # None => binding'.monitor = m
  /\ InTrial
  /\ task' = [at |-> "bind", monitor |-> m, id |-> life.id, marker |-> life.marker, n |-> 0]

YoungEnough == age < TrialMs - Margin

\* The slot holds the candidate, and so does the monitor.  The age that is
\* checked is that of the trial that was there before verify_slot, and may
\* have any value once that trial is over; the sequence is the one after it.
BindEnds ==
  /\ task # None /\ task.at = "bind"
  /\ monitor[task.monitor].running = task.id
  /\ InTrial /\ SameTrial(task) => YoungEnough
  /\ binding' = [monitor |-> task.monitor, id |-> task.id, marker |-> task.marker,
                 initial |-> monitor[task.monitor].seq, moved |-> FALSE,
                 crossed |-> InTrial /\ ~SameTrial(task)]
  /\ task' = None
  /\ UNCHANGED <<life, age, world, up, monitor, offered, proven>>

\* A faulty bind that lets a refused monitor publish again.
GiveUpResuming ==
  /\ task # None
  /\ task' = None
  /\ monitor' = [monitor EXCEPT ![task.monitor].fenced = FALSE]
  /\ UNCHANGED <<life, age, world, up, binding, offered, proven>>

\* A check, the network or the slot fails: bind_launch or the report returns
\* False.  The fence stays.
GiveUp ==
  /\ task # None
  /\ task' = None
  /\ UNCHANGED <<life, age, world, up, monitor, binding, offered, proven>>

-----------------------------------------------------------------------------
\* _binding_is_current
Current(id, marker) ==
  /\ binding # None
  /\ InTrial
  /\ ~binding.moved
  /\ binding.id = id /\ life.id = id
  /\ binding.marker = marker /\ life.marker = marker
  /\ YoungEnough
  /\ monitor[binding.monitor].running = id

\* trial_ok calls the reporter, which takes a fresh sample.
Report(id, marker) ==
  /\ task = None
  /\ Current(id, marker)
  /\ monitor[binding.monitor].seq < MaxSamples
  /\ monitor' = [monitor EXCEPT ![binding.monitor].seq = @ + 1]
  /\ task' = [at |-> "temperature", monitor |-> binding.monitor, id |-> id,
              marker |-> marker, n |-> monitor'[binding.monitor].seq]
  /\ UNCHANGED <<life, age, world, up, binding, offered, proven>>

Content == <<task.monitor, task.n>>

\* patch_exact_for_trial: an answered write need not be visible yet, and one
\* without an answer (GiveUp) may still come through.
Patch(f) ==
  /\ task # None /\ task.at = f
  /\ wire' = wire \cup {<<f, Content>>}
  /\ task' = [task EXCEPT !.at = IF f = "temperature" THEN "confirmTemperature"
                                                      ELSE "confirmDiagnostics"]
  /\ UNCHANGED <<life, age, gist, held, up, monitor, binding, offered, proven>>

\* A faulty confirm_file that takes the answer of the PATCH for the content.
EchoesAny(f) == TRUE

\* confirm_file
Echoes(f) == gist[f] = Content

Confirm(f, at, next) ==
  /\ task # None /\ task.at = at
  /\ Echoes(f)
  /\ Current(task.id, task.marker)
  /\ task' = [task EXCEPT !.at = next]
  /\ UNCHANGED <<life, age, world, up, monitor, binding, offered, proven>>

ConfirmTemperature == Confirm("temperature", "confirmTemperature", "diagnostics")
ConfirmDiagnostics == Confirm("diagnostics", "confirmDiagnostics", "verify")

\* verify_slot once more; the reporter returns True, and trial_ok promotes.
Promote ==
  /\ task # None /\ task.at = "verify"
  /\ Current(task.id, task.marker)
  /\ \/ Cycle!Promote /\ binding' = Moved /\ proven' = proven \cup {task.id}
     \/ Cycle!Lose /\ UNCHANGED <<binding, proven>>
  /\ task' = None
  /\ UNCHANGED <<world, up, monitor, offered>>

\* after_confirmed_selection, whoever calls it.
AfterConfirmedSelection ==
  /\ task = None
  /\ Known
  /\ binding # None
  /\ life.phase = "none"
  /\ life.applied = binding.id
  /\ monitor' = [monitor EXCEPT ![binding.monitor].fenced = FALSE]
  /\ binding' = None
  /\ UNCHANGED <<life, age, world, up, task, offered, proven>>

-----------------------------------------------------------------------------
\* An ordinary publication of a monitor that is not fenced: poll and step
\* check both flags, take a sample and send a file (to send both counts as
\* two publications), ...
PublishBegins(m) ==
  /\ monitor[m] # None
  /\ ~monitor[m].fenced /\ ~monitor[m].busy
  /\ monitor[m].seq < MaxSamples
  /\ monitor' = [monitor EXCEPT ![m].seq = @ + 1, ![m].busy = TRUE]
  /\ \E f \in Files : wire' = wire \cup {<<f, <<m, monitor'[m].seq>>>>}
  /\ UNCHANGED <<life, age, gist, held, up, binding, task, offered, proven>>

\* ... and clear the flag in the end, however they end.
PublishEnds(m) ==
  /\ monitor[m] # None
  /\ monitor[m].busy
  /\ monitor' = [monitor EXCEPT ![m].busy = FALSE]
  /\ UNCHANGED <<life, age, world, up, binding, task, offered, proven>>

\* A write reaches its file, in any order, or never.
Lands(w) ==
  /\ wire' = wire \ {w}
  /\ gist' = [gist EXCEPT ![w[1]] = w[2]]
  /\ held' = held \cup {w}
  /\ UNCHANGED <<life, age, device>>

Updater == Boot \/ Update \/ FailTrial \/ CommitLost
Binding == \E m \in Monitors : Launch(m) \/ BindRefused(m) \/ Bind(m)
Reporting ==
  \/ \E id \in 1..MaxReleaseId, marker \in Markers : Report(id, marker)
  \/ \E f \in Files : Patch(f)
  \/ ConfirmTemperature \/ ConfirmDiagnostics
  \/ Promote \/ AfterConfirmedSelection
Environment ==
  \/ ClockAdvances \/ PowerCut
  \/ \E m \in Monitors : PublishBegins(m) \/ PublishEnds(m)
  \/ \E w \in wire : Lands(w)

Next == Updater \/ Binding \/ BindEnds \/ GiveUp \/ Reporting \/ Environment

Spec == Init /\ [][Next]_vars

-----------------------------------------------------------------------------
\* A binding is to a fenced monitor of this boot that runs the release.
TypeOK ==
  /\ life \in Cycle!Lives \cup {Unknown}
  /\ age \in {Cycle!NoTick} \cup 0..TrialMs
  /\ up \in BOOLEAN /\ (Known => up)
  /\ monitor \in [Monitors -> Running \cup {None}]
  /\ binding \in Bindings \cup {None}
  /\ task \in Tasks \cup {None}
  /\ gist \in [Files -> {Foreign} \cup Contents]
  /\ wire \subseteq Files \X Contents /\ held \subseteq Files \X Contents
  /\ offered \subseteq Monitors /\ proven \subseteq 1..MaxReleaseId
  /\ binding # None => /\ monitor[binding.monitor] # None
                       /\ monitor[binding.monitor].fenced
                       /\ monitor[binding.monitor].running = binding.id

(***************************************************************************)
(* A release is promoted only after both Gists have held reports of one    *)
(* and the same sample, which a monitor running that release took after it *)
(* was bound: not on an answer whose write was lost, on an earlier sample, *)
(* on two samples or on the reports of another monitor.                    *)
(***************************************************************************)
PromotedOnEvidence ==
  [][InTrial /\ life' # Unknown /\ life'.applied = life.id =>
       \E m \in Monitors : \E n \in 1..MaxSamples :
         /\ monitor[m] # None /\ monitor[m].running = life.id
         /\ binding # None /\ binding.monitor = m /\ n > binding.initial
         /\ \A f \in Files : <<f, <<m, n>>>> \in held]_<<life>>

(***************************************************************************)
(* A monitor that bind_launch found at rest publishes by itself again only *)
(* when its release has been applied, through refused, competing and       *)
(* retired bindings, and no ordinary publication of it is under way behind *)
(* the fence.                                                              *)
(***************************************************************************)
FencedUntilApplied ==
  \A m \in offered : \/ monitor[m].fenced /\ ~monitor[m].busy
                     \/ monitor[m].running \in proven

(***************************************************************************)
(* A binding that outlived its trial does not keep the next trial out: in  *)
(* a trial, the reporter is bound to that trial, or the next bind can      *)
(* retire what it is bound to.  The exception is the one trial that was    *)
(* entered while the slot was being verified for the binding: until the    *)
(* next commit the binding looks as if it belonged to it.                  *)
(***************************************************************************)
BindingFollowsTrial ==
  InTrial /\ task = None /\ binding # None =>
    \/ SameTrial(binding)
    \/ Retired(binding)
    \/ binding.crossed /\ ~binding.moved
=============================================================================
