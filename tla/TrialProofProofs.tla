-------------------------- MODULE TrialProofProofs --------------------------
(***************************************************************************)
(* The evidence rules of the trial reporter hold for any number of         *)
(* monitors, samples, releases and markers, and for any order in which the *)
(* writes come through.                                                    *)
(***************************************************************************)
EXTENDS TrialProof, TLAPS

\* The state in which this boot selected a release names an applied one.
AppliedInv == Known => life.applied \in proven

\* Nothing survives a power cut.
UpInv == ~up => binding = None /\ task = None /\ offered = {}

OfferInv ==
  \A m \in offered : /\ monitor[m] # None
                     /\ \/ monitor[m].fenced /\ ~monitor[m].busy
                        \/ monitor[m].running \in proven

\* A bind in progress is that of a fenced monitor.
BindInv ==
  task # None /\ task.at = "bind" =>
    /\ monitor[task.monitor] # None
    /\ monitor[task.monitor].fenced

\* A binding that saw no commit is to the trial of now, or that trial was
\* entered while the slot was verified.
FollowInv ==
  binding # None /\ InTrial /\ ~binding.moved => SameTrial(binding) \/ binding.crossed

\* A report names a sample that its monitor took after it was bound.
SampleInv ==
  /\ binding # None => binding.initial <= monitor[binding.monitor].seq
  /\ task # None /\ task.at # "bind" =>
       /\ binding # None
       /\ task.monitor = binding.monitor
       /\ binding.initial < task.n

\* What was read back has been in the file.
HeldInv ==
  /\ \A f \in Files : gist[f] # Foreign => <<f, gist[f]>> \in held
  /\ task # None /\ task.at \in {"diagnostics", "confirmDiagnostics", "verify"} =>
       <<"temperature", Content>> \in held
  /\ task # None /\ task.at = "verify" => <<"diagnostics", Content>> \in held

IInv ==
  /\ TypeOK
  /\ AppliedInv
  /\ UpInv
  /\ OfferInv
  /\ BindInv
  /\ FollowInv
  /\ SampleInv
  /\ HeldInv

-----------------------------------------------------------------------------
LEMMA PairNotForeign == ASSUME NEW a, NEW b PROVE <<a, b>> # Foreign
BY DEF Foreign

\* The steps of the lifecycle that other components take.
LEMMA LifeSteps ==
  ASSUME TrialProofAssumption, life \in Cycle!Lives \cup {Unknown},
         age \in {Cycle!NoTick} \cup 0..TrialMs
  PROVE  /\ \A id \in 1..MaxReleaseId, marker \in Markers : Cycle!Stage(id, marker) =>
              /\ Known /\ life' \in Cycle!Lives /\ age' = age /\ life'.applied = life.applied
         /\ Cycle!EnterTrial =>
              /\ Known /\ life' \in Cycle!Lives /\ age' = 0 /\ life'.applied = life.applied
         /\ Cycle!Suppress =>
              /\ Known /\ life' \in Cycle!Lives /\ age' = Cycle!NoTick
              /\ life'.applied = life.applied /\ life'.phase = "none"
         /\ Cycle!Promote =>
              /\ Known /\ life' \in Cycle!Lives /\ age' = Cycle!NoTick
              /\ life'.applied = life.id /\ life'.phase = "none"
<1>1. ASSUME NEW id \in 1..MaxReleaseId, NEW marker \in Markers, Cycle!Stage(id, marker)
      PROVE  Known /\ life' \in Cycle!Lives /\ age' = age /\ life'.applied = life.applied
  BY <1>1 DEF Cycle!Stage, Cycle!Known, Known, Cycle!Lives, TrialProofAssumption
<1>2. ASSUME Cycle!EnterTrial
      PROVE  Known /\ life' \in Cycle!Lives /\ age' = 0 /\ life'.applied = life.applied
  BY <1>2 DEF Cycle!EnterTrial, Cycle!Known, Known, Cycle!Lives
<1>3. ASSUME Cycle!Suppress
      PROVE  /\ Known /\ life' \in Cycle!Lives /\ age' = Cycle!NoTick
             /\ life'.applied = life.applied /\ life'.phase = "none"
  BY <1>3 DEF Cycle!Suppress, Cycle!Known, Known, Cycle!Lives, Cycle!Settled, Cycle!NoId
<1>4. ASSUME Cycle!Promote
      PROVE  /\ Known /\ life' \in Cycle!Lives /\ age' = Cycle!NoTick
             /\ life'.applied = life.id /\ life'.phase = "none"
  BY <1>4, TrialProofAssumption
     DEF Cycle!Promote, Cycle!Known, Known, Cycle!Lives, Cycle!Settled, Cycle!NoId,
         TrialProofAssumption
<1>5. QED
  BY <1>1, <1>2, <1>3, <1>4

LEMMA LifeKnown ==
  ASSUME TypeOK
  PROVE  /\ Known => life \in Cycle!Lives
         /\ life' \in Cycle!Lives => Known'
BY UnknownAssumption DEF TypeOK, Known, Cycle!Known

LEMMA InitIInv == ASSUME TrialProofAssumption, Init PROVE IInv
<1>1. TypeOK
  BY DEF Init, Cycle!Init, TypeOK, Known, Cycle!Known
<1>2. QED
  BY <1>1 DEF Init, Cycle!Init, IInv, AppliedInv, UpInv, OfferInv, BindInv, FollowInv, SampleInv,
              HeldInv, Known, Cycle!Known

-----------------------------------------------------------------------------
LEMMA MovedFacts ==
  ASSUME TypeOK
  PROVE  /\ Moved \in Bindings \cup {None}
         /\ binding = None <=> Moved = None
         /\ binding # None =>
              /\ Moved.monitor = binding.monitor /\ Moved.id = binding.id
              /\ Moved.marker = binding.marker /\ Moved.initial = binding.initial
              /\ Moved.moved /\ Moved.crossed = binding.crossed
<1>1. CASE binding = None
  BY <1>1 DEF Moved
<1>2. CASE binding # None
  <2>1. binding \in Bindings
    BY <1>2 DEF TypeOK
  <2>2. Moved = [binding EXCEPT !.moved = TRUE]
    BY <1>2 DEF Moved
  <2>3. Moved \in Bindings
    BY <2>1, <2>2 DEF Bindings
  <2>4. QED
    BY <1>2, <2>1, <2>2, <2>3, NoneAssumption DEF Bindings
<1>3. QED
  BY <1>1, <1>2

\* A step of the updater that leaves the reporter and the files alone: it
\* keeps the applied release, and where it changes the trial, the binding
\* notes a commit.
LEMMA UpdaterKeeps ==
  ASSUME IInv, UNCHANGED <<gist, wire, held, up, monitor, task, offered, proven>>,
         life' \in Cycle!Lives \cup {Unknown},
         age' \in {Cycle!NoTick} \cup 0..TrialMs,
         binding' \in {binding, Moved},
         Known' => Known /\ life'.applied = life.applied,
         \/ ~Known'
         \/ life' = life /\ (InTrial' => InTrial)
         \/ binding' = Moved
  PROVE  IInv'
<1>1. /\ binding' \in Bindings \cup {None}
      /\ binding = None <=> binding' = None
      /\ binding # None =>
           /\ binding'.monitor = binding.monitor /\ binding'.id = binding.id
           /\ binding'.marker = binding.marker /\ binding'.initial = binding.initial
           /\ binding'.crossed = binding.crossed
           /\ binding' = Moved => binding'.moved
  BY MovedFacts DEF IInv, TypeOK
<1>2. TypeOK'
  BY <1>1 DEF IInv, TypeOK
<1>3. AppliedInv' /\ UpInv' /\ OfferInv'
  BY <1>1 DEF IInv, AppliedInv, UpInv, OfferInv
<1>4. BindInv'
  BY DEF IInv, BindInv
<1>5. FollowInv'
  <2>1. CASE ~Known'
    BY <2>1 DEF FollowInv, InTrial
  <2>2. CASE life' = life /\ (InTrial' => InTrial)
    BY <1>1, <2>2 DEF IInv, FollowInv, SameTrial
  <2>3. CASE binding' = Moved
    BY <1>1, <2>3 DEF FollowInv
  <2>4. QED
    BY <2>1, <2>2, <2>3
<1>6. SampleInv' /\ HeldInv'
  BY <1>1 DEF IInv, SampleInv, HeldInv, Content
<1>7. QED
  BY <1>2, <1>3, <1>4, <1>5, <1>6 DEF IInv

LEMMA UpdaterStep ==
  ASSUME TrialProofAssumption, IInv, Updater
  PROVE  IInv'
<1>0. TypeOK /\ life \in Cycle!Lives \cup {Unknown} /\ age \in {Cycle!NoTick} \cup 0..TrialMs
  BY DEF IInv, TypeOK
<1>1. CASE Boot
  <2>1. /\ ~Known /\ life' \in Cycle!Lives /\ age' = Cycle!NoTick
        /\ up' = TRUE /\ proven' = {life'.applied}
        /\ UNCHANGED <<gist, wire, held, monitor, binding, task, offered>>
        /\ binding = None /\ task = None /\ offered = {}
    BY <1>1 DEF Boot, Cycle!Reload, Known, world, IInv, UpInv
  <2>2. life'.applied \in 1..MaxReleaseId
    BY <2>1 DEF Cycle!Lives
  <2>3. TypeOK'
    BY <1>0, <2>1, <2>2 DEF TypeOK
  <2>4. QED
    BY <2>1, <2>3 DEF IInv, AppliedInv, UpInv, OfferInv, BindInv, FollowInv, SampleInv, HeldInv,
                      Content
<1>2. CASE Update
  <2>1. /\ Known /\ life' \in Cycle!Lives /\ age' \in {Cycle!NoTick} \cup 0..TrialMs
        /\ life'.applied = life.applied
    BY <1>0, <1>2, LifeSteps, TrialProofAssumption DEF Update, TrialProofAssumption
  <2>2. QED
    BY <1>2, <2>1, UpdaterKeeps DEF Update, world
<1>3. CASE FailTrial
  BY <1>0, <1>3, LifeSteps, UpdaterKeeps DEF FailTrial, world
<1>4. CASE CommitLost
  BY <1>0, <1>4, UpdaterKeeps DEF CommitLost, Cycle!Lose, world, device, Known, Cycle!Known
<1>5. QED
  BY <1>1, <1>2, <1>3, <1>4 DEF Updater

LEMMA EnvironmentStep ==
  ASSUME TrialProofAssumption, IInv, Environment
  PROVE  IInv'
<1>0. TypeOK /\ life \in Cycle!Lives \cup {Unknown} /\ age \in {Cycle!NoTick} \cup 0..TrialMs
  BY DEF IInv, TypeOK
<1>1. CASE ClockAdvances
  <2>1. age' \in 0..TrialMs /\ life' = life /\ (InTrial' => InTrial)
    BY <1>0, <1>1 DEF ClockAdvances, Cycle!Advance, TrialProofAssumption, InTrial, Known,
                      Cycle!Known, Cycle!NoTick
  <2>2. QED
    BY <1>0, <1>1, <2>1, UpdaterKeeps DEF ClockAdvances, world, device, Known, Cycle!Known
<1>2. CASE PowerCut
  BY <1>2 DEF PowerCut, IInv, TypeOK, AppliedInv, UpInv, OfferInv, BindInv, FollowInv,
              SampleInv, HeldInv, Known, Cycle!Known
<1>3. CASE \E m \in Monitors : PublishBegins(m)
  <2>1. PICK m \in Monitors : PublishBegins(m)
    BY <1>3
  <2>2. PICK f \in Files : wire' = wire \cup {<<f, <<m, monitor'[m].seq>>>>}
    BY <2>1 DEF PublishBegins
  <2>3. /\ monitor[m] \in Running /\ ~monitor[m].fenced /\ monitor[m].seq < MaxSamples
        /\ monitor' = [monitor EXCEPT ![m].seq = @ + 1, ![m].busy = TRUE]
        /\ UNCHANGED <<life, age, gist, held, up, binding, task, offered, proven>>
    BY <1>0, <2>1 DEF PublishBegins, TypeOK
  <2>4. /\ monitor'[m] \in Running /\ monitor'[m].seq \in 1..MaxSamples
        /\ monitor'[m].running = monitor[m].running /\ monitor'[m].fenced = monitor[m].fenced
        /\ monitor[m].seq <= monitor'[m].seq
    <3>1. monitor'[m] = [monitor[m] EXCEPT !.seq = @ + 1, !.busy = TRUE]
      BY <1>0, <2>3 DEF TypeOK
    <3>2. monitor[m].seq \in Nat /\ monitor[m].seq + 1 \in 1..MaxSamples
      BY <2>3, TrialProofAssumption DEF Running, TrialProofAssumption
    <3>3. monitor'[m] \in Running
      <4>1. monitor'[m] = [running |-> monitor[m].running, seq |-> monitor[m].seq + 1,
                           fenced |-> monitor[m].fenced, busy |-> TRUE]
        BY <2>3, <3>1 DEF Running
      <4>2. /\ monitor[m].running \in 1..MaxReleaseId /\ monitor[m].fenced \in BOOLEAN
            /\ monitor[m].seq + 1 \in 0..MaxSamples
        BY <2>3, <3>2 DEF Running
      <4>3. QED
        BY <4>1, <4>2 DEF Running
    <3>4. /\ monitor'[m].seq = monitor[m].seq + 1
          /\ monitor'[m].running = monitor[m].running /\ monitor'[m].fenced = monitor[m].fenced
      BY <2>3, <3>1 DEF Running
    <3>5. QED
      BY <3>2, <3>3, <3>4
  <2>5. /\ \A o \in Monitors \ {m} : monitor'[o] = monitor[o]
        /\ monitor' \in [Monitors -> Running \cup {None}]
        /\ monitor'[m] # None
    BY <1>0, <2>3, <2>4, NoneAssumption DEF TypeOK
  <2>6. /\ binding # None => binding.monitor \in Monitors \ {m}
        /\ task # None /\ task.at = "bind" => task.monitor \in Monitors \ {m}
    BY <1>0, <2>3 DEF TypeOK, Bindings, Tasks, IInv, BindInv
  <2>7. TypeOK'
    BY <1>0, <2>2, <2>3, <2>4, <2>5, <2>6 DEF TypeOK, Contents, Known, Cycle!Known
  <2>8. AppliedInv' /\ UpInv' /\ OfferInv'
    <3>1. m \in offered => monitor'[m].running \in proven
      BY <2>3, <2>4 DEF IInv, OfferInv
    <3>2. OfferInv'
      BY <1>0, <2>3, <2>5, <3>1 DEF IInv, OfferInv, TypeOK
    <3>3. QED
      BY <2>3, <3>2 DEF IInv, AppliedInv, UpInv, Known, Cycle!Known
  <2>9. BindInv' /\ FollowInv' /\ SampleInv' /\ HeldInv'
    BY <2>3, <2>5, <2>6 DEF IInv, BindInv, FollowInv, SampleInv, HeldInv, SameTrial, InTrial,
                            Known, Cycle!Known, Content
  <2>10. QED
    BY <2>7, <2>8, <2>9 DEF IInv
<1>4. CASE \E m \in Monitors : PublishEnds(m)
  <2>1. PICK m \in Monitors : PublishEnds(m)
    BY <1>4
  <2>2. /\ monitor[m] \in Running
        /\ monitor' = [monitor EXCEPT ![m].busy = FALSE]
        /\ UNCHANGED <<life, age, gist, wire, held, up, binding, task, offered, proven>>
    BY <1>0, <2>1 DEF PublishEnds, TypeOK, world
  <2>3. /\ monitor'[m] \in Running /\ monitor'[m].seq = monitor[m].seq /\ ~monitor'[m].busy
        /\ monitor'[m].running = monitor[m].running /\ monitor'[m].fenced = monitor[m].fenced
    BY <1>0, <2>2 DEF Running, TypeOK
  <2>4. /\ \A o \in Monitors \ {m} : monitor'[o] = monitor[o]
        /\ monitor' \in [Monitors -> Running \cup {None}]
        /\ monitor'[m] # None
    BY <1>0, <2>2, <2>3, NoneAssumption DEF TypeOK
  <2>5. TypeOK'
    BY <1>0, <2>2, <2>3, <2>4 DEF TypeOK, Known, Cycle!Known, Bindings
  <2>6. AppliedInv' /\ UpInv' /\ OfferInv'
    BY <1>0, <2>2, <2>3, <2>4 DEF IInv, AppliedInv, UpInv, OfferInv, Known, Cycle!Known, TypeOK
  <2>7. BindInv' /\ FollowInv' /\ SampleInv' /\ HeldInv'
    BY <1>0, <2>2, <2>3, <2>4 DEF IInv, BindInv, FollowInv, SampleInv, HeldInv, SameTrial,
       InTrial, Known, Cycle!Known, Content, TypeOK, Tasks, Bindings
  <2>8. QED
    BY <2>5, <2>6, <2>7 DEF IInv
<1>5. CASE \E w \in wire : Lands(w)
  <2>1. PICK w \in wire : Lands(w)
    BY <1>5
  <2>2. PICK f \in Files, c \in Contents : w = <<f, c>>
    BY <1>0, <2>1 DEF TypeOK
  <2>3. /\ gist' = [gist EXCEPT ![f] = c] /\ held' = held \cup {<<f, c>>}
        /\ wire' \subseteq wire
        /\ UNCHANGED <<life, age, up, monitor, binding, task, offered, proven>>
    BY <2>1, <2>2 DEF Lands, device
  <2>4. TypeOK'
    BY <1>0, <2>3 DEF TypeOK, Known, Cycle!Known
  <2>5. HeldInv'
    BY <1>0, <2>3 DEF TypeOK, IInv, HeldInv, Content
  <2>6. QED
    BY <2>3, <2>4, <2>5 DEF IInv, AppliedInv, UpInv, OfferInv, BindInv, FollowInv, SampleInv,
                            SameTrial, InTrial, Known, Cycle!Known
<1>6. QED
  BY <1>1, <1>2, <1>3, <1>4, <1>5 DEF Environment

-----------------------------------------------------------------------------
LEMMA LaunchStep ==
  ASSUME TrialProofAssumption, IInv, NEW m \in Monitors, Launch(m)
  PROVE  IInv'
<1>0. TypeOK
  BY DEF IInv
<1>1. PICK r \in {life.id, life.applied} :
        monitor' = [monitor EXCEPT ![m] = [running |-> r, seq |-> 0, fenced |-> FALSE,
                                       busy |-> FALSE]]
  BY DEF Launch
<1>2. /\ monitor[m] = None /\ task = None
      /\ UNCHANGED <<life, age, gist, wire, held, up, binding, task, offered, proven>>
  BY DEF Launch, world
<1>3. r \in 1..MaxReleaseId
  BY <1>0, LifeKnown DEF Launch, InTrial, Cycle!Lives, TrialProofAssumption
<1>4. /\ \A o \in Monitors \ {m} : monitor'[o] = monitor[o]
      /\ monitor' \in [Monitors -> Running \cup {None}]
      /\ binding # None => binding.monitor \in Monitors \ {m}
      /\ m \notin offered
  BY <1>0, <1>1, <1>2, <1>3 DEF TypeOK, Running, Bindings, IInv, OfferInv, TrialProofAssumption
<1>5. TypeOK'
  BY <1>0, <1>2, <1>4 DEF TypeOK, Known, Cycle!Known
<1>6. QED
  BY <1>0, <1>2, <1>4, <1>5 DEF IInv, AppliedInv, UpInv, OfferInv, BindInv, FollowInv,
                                SampleInv, HeldInv, SameTrial, InTrial, Known, Cycle!Known, TypeOK

\* What an offer does, whether it is refused or not.
LEMMA OfferEffect ==
  ASSUME IInv, NEW m \in Monitors, Offer(m)
  PROVE  /\ task = None /\ up
         /\ \A o \in Monitors \ {m} : monitor'[o] = monitor[o]
         /\ monitor' \in [Monitors -> Running \cup {None}]
         /\ monitor'[m] # None /\ monitor'[m].fenced /\ ~monitor'[m].busy
         /\ monitor'[m].running = monitor[m].running /\ monitor'[m].seq = monitor[m].seq
         /\ binding' \in {None, binding}
         /\ offered' = offered \cup {m}
         /\ UNCHANGED <<life, age, gist, wire, held, up, proven>>
<1>1. /\ monitor[m] \in Running /\ ~monitor[m].busy
      /\ monitor' = [monitor EXCEPT ![m].fenced = TRUE]
      /\ monitor \in [Monitors -> Running \cup {None}]
  BY DEF Offer, IInv, TypeOK
<1>2. /\ monitor'[m] \in Running /\ monitor'[m].fenced /\ ~monitor'[m].busy
      /\ monitor'[m].running = monitor[m].running /\ monitor'[m].seq = monitor[m].seq
  BY <1>1 DEF Running
<1>3. binding' \in {None, binding}
  BY DEF Offer, Remaining
<1>4. QED
  BY <1>1, <1>2, <1>3, NoneAssumption DEF Offer, world

LEMMA OfferKeeps ==
  ASSUME IInv, NEW m \in Monitors, Offer(m), task' \in Tasks \cup {None}, BindInv',
         task' # None => task'.at = "bind"
  PROVE  IInv'
<1>1. TypeOK'
  <2>1. binding' # None =>
          /\ monitor'[binding'.monitor] # None
          /\ monitor'[binding'.monitor].fenced
          /\ monitor'[binding'.monitor].running = binding'.id
    BY OfferEffect DEF IInv, TypeOK, Bindings
  <2>2. /\ monitor' \in [Monitors -> Running \cup {None}]
        /\ binding' \in Bindings \cup {None}
        /\ offered' \subseteq Monitors
    BY OfferEffect DEF IInv, TypeOK
  <2>3. UNCHANGED <<life, age, gist, wire, held, up, proven>>
    BY OfferEffect
  <2>4. QED
    BY <2>1, <2>2, <2>3 DEF IInv, TypeOK, Known, Cycle!Known
<1>2. AppliedInv' /\ UpInv' /\ OfferInv'
  BY OfferEffect DEF IInv, TypeOK, AppliedInv, UpInv, OfferInv, Known, Cycle!Known
<1>3. FollowInv' /\ SampleInv' /\ HeldInv'
  BY OfferEffect DEF IInv, TypeOK, FollowInv, SampleInv, HeldInv, SameTrial, InTrial, Known, Cycle!Known,
                     Bindings
<1>4. QED
  BY <1>1, <1>2, <1>3 DEF IInv

LEMMA BindStep ==
  ASSUME TrialProofAssumption, IInv, Binding
  PROVE  IInv'
<1>1. CASE \E m \in Monitors : Launch(m)
  BY <1>1, LaunchStep
<1>2. CASE \E m \in Monitors : BindRefused(m)
  <2>1. PICK m \in Monitors : BindRefused(m)
    BY <1>2
  <2>2. Offer(m) /\ task' = None
    BY <2>1, OfferEffect DEF BindRefused
  <2>3. QED
    BY <2>2, OfferKeeps DEF BindInv
<1>3. CASE \E m \in Monitors : Bind(m)
  <2>1. PICK m \in Monitors : Bind(m)
    BY <1>3
  <2>2. /\ Offer(m) /\ Known /\ life \in Cycle!Lives /\ life.phase = "trial_entered"
        /\ task' = [at |-> "bind", monitor |-> m, id |-> life.id, marker |-> life.marker,
                    n |-> 0]
    BY <2>1, LifeKnown DEF Bind, InTrial, IInv
  <2>3. life.id \in 1..MaxReleaseId /\ life.marker \in Markers
    BY <2>2, TrialProofAssumption DEF Cycle!Lives, TrialProofAssumption
  <2>4. task' \in Tasks
    BY <2>2, <2>3, TrialProofAssumption DEF Tasks, Places, TrialProofAssumption
  <2>5. BindInv'
    BY <2>2, OfferEffect DEF BindInv, SameTrial
  <2>6. QED
    BY <2>2, <2>4, <2>5, OfferKeeps
<1>4. QED
  BY <1>1, <1>2, <1>3 DEF Binding

LEMMA BindEndsStep ==
  ASSUME TrialProofAssumption, IInv, BindEnds
  PROVE  IInv'
<1>0. TypeOK /\ task \in Tasks /\ task.at = "bind"
  BY DEF IInv, TypeOK, BindEnds
<1>1. /\ monitor[task.monitor] \in Running /\ monitor[task.monitor].fenced
      /\ monitor[task.monitor].running = task.id
  BY <1>0 DEF IInv, TypeOK, BindInv, BindEnds, Tasks
<1>2. /\ binding' = [monitor |-> task.monitor, id |-> task.id, marker |-> task.marker,
                     initial |-> monitor[task.monitor].seq, moved |-> FALSE,
                     crossed |-> InTrial /\ ~SameTrial(task)]
      /\ task' = None
      /\ UNCHANGED <<life, age, gist, wire, held, up, monitor, offered, proven>>
  BY DEF BindEnds, world
<1>3. TypeOK'
  <2>1. /\ task.monitor \in Monitors /\ task.id \in 1..MaxReleaseId /\ task.marker \in Markers
        /\ monitor[task.monitor].seq \in 0..MaxSamples
    BY <1>0, <1>1 DEF Tasks, Running
  <2>2. binding' \in Bindings
    BY <1>2, <2>1 DEF Bindings
  <2>3. /\ binding'.monitor = task.monitor /\ binding'.id = task.id
        /\ monitor[task.monitor] # None
    BY <1>1, <1>2, NoneAssumption
  <2>4. QED
    BY <1>0, <1>1, <1>2, <2>2, <2>3 DEF TypeOK, Known, Cycle!Known
<1>4. FollowInv' /\ SampleInv' /\ BindInv'
  <2>1. binding'.crossed = (InTrial /\ ~SameTrial(task))
    BY <1>2
  <2>2. /\ binding'.id = task.id /\ binding'.marker = task.marker
        /\ binding'.monitor = task.monitor /\ binding'.initial = monitor[task.monitor].seq
    BY <1>2
  <2>3. FollowInv'
    BY <1>2, <2>1, <2>2 DEF FollowInv, SameTrial, InTrial, Known, Cycle!Known
  <2>4. SampleInv'
    BY <1>1, <1>2, <2>2 DEF SampleInv, Running
  <2>5. QED
    BY <1>2, <2>3, <2>4 DEF BindInv
<1>5. UpInv'
  BY <1>0, <1>2, NoneAssumption DEF IInv, UpInv
<1>6. QED
  BY <1>2, <1>3, <1>4, <1>5 DEF IInv, AppliedInv, OfferInv, HeldInv, Known, Cycle!Known

LEMMA GiveUpStep ==
  ASSUME IInv, GiveUp
  PROVE  IInv'
BY DEF GiveUp, world, IInv, TypeOK, AppliedInv, UpInv, OfferInv, BindInv, FollowInv, SampleInv,
       HeldInv, SameTrial, InTrial, Known, Cycle!Known

-----------------------------------------------------------------------------
LEMMA ReportStep ==
  ASSUME TrialProofAssumption, IInv, NEW id \in 1..MaxReleaseId, NEW marker \in Markers,
         Report(id, marker)
  PROVE  IInv'
<1> DEFINE m == binding.monitor
<1>0. TypeOK /\ binding \in Bindings /\ m \in Monitors /\ monitor[m] \in Running
  BY DEF IInv, TypeOK, Report, Current, Bindings
<1>1. /\ monitor' = [monitor EXCEPT ![m].seq = @ + 1] /\ monitor[m].seq < MaxSamples
      /\ UNCHANGED <<life, age, gist, wire, held, up, binding, offered, proven>>
      /\ task' = [at |-> "temperature", monitor |-> m, id |-> id, marker |-> marker,
                  n |-> monitor'[m].seq]
  BY DEF Report, world
<1>2. /\ monitor'[m] \in Running /\ monitor'[m].seq = monitor[m].seq + 1
      /\ monitor'[m].running = monitor[m].running /\ monitor'[m].fenced = monitor[m].fenced
      /\ monitor'[m].busy = monitor[m].busy
      /\ monitor[m].seq \in Nat /\ binding.initial \in Nat
  BY <1>0, <1>1, TrialProofAssumption DEF Running, TypeOK, TrialProofAssumption, Bindings
<1>3. /\ \A o \in Monitors \ {m} : monitor'[o] = monitor[o]
      /\ monitor' \in [Monitors -> Running \cup {None}]
      /\ monitor'[m] # None
  BY <1>0, <1>1, <1>2, NoneAssumption DEF TypeOK
<1>4. task' \in Tasks /\ task' # None
  BY <1>0, <1>1, <1>2, NoneAssumption DEF Tasks, Places, Running
<1>5. TypeOK'
  BY <1>0, <1>1, <1>2, <1>3, <1>4 DEF TypeOK, Known, Cycle!Known
<1>6. AppliedInv' /\ UpInv' /\ OfferInv'
  BY <1>0, <1>1, <1>2, <1>3 DEF IInv, TypeOK, AppliedInv, UpInv, OfferInv, Known, Cycle!Known,
                                Report, Current
<1>7. SampleInv'
  BY <1>0, <1>1, <1>2 DEF IInv, SampleInv, Report, Current
<1>8. BindInv' /\ FollowInv' /\ HeldInv'
  BY <1>1 DEF IInv, BindInv, FollowInv, HeldInv, SameTrial, InTrial, Known, Cycle!Known
<1>9. QED
  BY <1>5, <1>6, <1>7, <1>8 DEF IInv

LEMMA PatchStep ==
  ASSUME IInv, NEW f \in Files, Patch(f)
  PROVE  IInv'
<1>0. TypeOK /\ task \in Tasks /\ task.at = f /\ f # "bind"
  BY DEF IInv, TypeOK, Patch, Files
<1>1. /\ wire' = wire \cup {<<f, <<task.monitor, task.n>>>>}
      /\ task' = [task EXCEPT !.at = IF f = "temperature" THEN "confirmTemperature"
                                                          ELSE "confirmDiagnostics"]
      /\ UNCHANGED <<life, age, gist, held, up, monitor, binding, offered, proven>>
  BY DEF Patch, Content
<1>2. task.monitor \in Monitors /\ task.n \in 1..MaxSamples
  BY <1>0 DEF IInv, TypeOK, SampleInv, Tasks, Bindings, Patch
<1>3. /\ task' \in Tasks /\ task' # None
      /\ task'.monitor = task.monitor /\ task'.n = task.n
      /\ task'.at = IF f = "temperature" THEN "confirmTemperature" ELSE "confirmDiagnostics"
  BY <1>0, <1>1, NoneAssumption DEF Tasks, Places
<1>4. TypeOK'
  BY <1>0, <1>1, <1>2, <1>3 DEF TypeOK, Contents, Known, Cycle!Known
<1>5. SampleInv' /\ HeldInv' /\ BindInv' /\ UpInv'
  BY <1>0, <1>1, <1>3 DEF IInv, SampleInv, HeldInv, Content, BindInv, UpInv, Files, Patch
<1>6. QED
  BY <1>1, <1>4, <1>5 DEF IInv, AppliedInv, OfferInv, FollowInv, SameTrial, InTrial, Known, Cycle!Known

LEMMA ConfirmStep ==
  ASSUME IInv, ConfirmTemperature \/ ConfirmDiagnostics
  PROVE  IInv'
<1>0. TypeOK /\ task \in Tasks
  BY DEF IInv, TypeOK, ConfirmTemperature, ConfirmDiagnostics, Confirm
<1>1. UNCHANGED <<life, age, gist, wire, held, up, monitor, binding, offered, proven>>
  BY DEF ConfirmTemperature, ConfirmDiagnostics, Confirm, world
<1>2. PICK f \in Files :
        /\ gist[f] = Content
        /\ \/ f = "temperature" /\ task.at = "confirmTemperature"
              /\ task' = [task EXCEPT !.at = "diagnostics"]
           \/ f = "diagnostics" /\ task.at = "confirmDiagnostics"
              /\ task' = [task EXCEPT !.at = "verify"]
  BY DEF ConfirmTemperature, ConfirmDiagnostics, Confirm, Echoes, Files
<1>3. /\ task' \in Tasks /\ task' # None
      /\ task'.monitor = task.monitor /\ task'.n = task.n
      /\ task'.at = IF f = "temperature" THEN "diagnostics" ELSE "verify"
  BY <1>0, <1>2, NoneAssumption DEF Tasks, Places
<1>4. <<f, Content>> \in held
  BY <1>2, PairNotForeign DEF IInv, HeldInv, Content
<1>5. HeldInv'
  BY <1>0, <1>1, <1>2, <1>3, <1>4, NoneAssumption DEF IInv, HeldInv, Content
<1>6. TypeOK' /\ SampleInv' /\ BindInv' /\ UpInv'
  BY <1>0, <1>1, <1>2, <1>3, NoneAssumption DEF IInv, TypeOK, SampleInv, BindInv, UpInv, Known,
                                               Cycle!Known
<1>7. QED
  BY <1>1, <1>5, <1>6 DEF IInv, AppliedInv, OfferInv, FollowInv, SameTrial, InTrial, Known, Cycle!Known

LEMMA PromoteStep ==
  ASSUME TrialProofAssumption, IInv, Promote
  PROVE  IInv'
<1>0. TypeOK /\ task \in Tasks /\ life.id = task.id /\ task.id \in 1..MaxReleaseId
  BY DEF IInv, TypeOK, Promote, Current, Tasks
<1>1. CASE Cycle!Promote /\ binding' = Moved /\ proven' = proven \cup {task.id}
  <2>1. /\ life' \in Cycle!Lives /\ age' = Cycle!NoTick /\ Known
        /\ life'.applied = task.id /\ life'.phase = "none"
    BY <1>0, <1>1, LifeSteps DEF TypeOK
  <2>2. task' = None /\ UNCHANGED <<gist, wire, held, up, monitor, offered>>
    BY DEF Promote, world
  <2>3. /\ binding' \in Bindings \cup {None}
        /\ binding = None <=> binding' = None
        /\ binding # None =>
             /\ binding'.monitor = binding.monitor /\ binding'.id = binding.id
             /\ binding'.initial = binding.initial /\ binding'.moved
    BY <1>0, <1>1, MovedFacts
  <2>4. TypeOK'
    BY <1>0, <1>1, <2>1, <2>2, <2>3 DEF TypeOK
  <2>5. QED
    <3>1. FollowInv'
      BY <2>1 DEF FollowInv, InTrial
    <3>2. QED
      BY <1>1, <2>1, <2>2, <2>3, <2>4, <3>1 DEF IInv, AppliedInv, UpInv, OfferInv, BindInv,
                                               SampleInv, HeldInv
<1>2. CASE Cycle!Lose /\ UNCHANGED <<binding, proven>>
  <2>1. /\ ~Known' /\ age' = Cycle!NoTick /\ life' = Unknown
        /\ task' = None /\ UNCHANGED <<gist, wire, held, up, monitor, offered>>
    BY <1>2 DEF Cycle!Lose, Known, Cycle!Known, Promote, world
  <2>2. QED
    BY <1>0, <1>2, <2>1 DEF IInv, TypeOK, AppliedInv, UpInv, OfferInv, BindInv, FollowInv,
                            InTrial, SampleInv, HeldInv
<1>3. QED
  BY <1>1, <1>2 DEF Promote

LEMMA ConfirmedStep ==
  ASSUME IInv, AfterConfirmedSelection
  PROVE  IInv'
<1> DEFINE m == binding.monitor
<1>0. /\ TypeOK /\ binding \in Bindings /\ m \in Monitors /\ monitor[m] \in Running
      /\ monitor[m].running \in proven
  BY DEF IInv, TypeOK, AfterConfirmedSelection, Bindings, AppliedInv
<1>1. /\ monitor' = [monitor EXCEPT ![m].fenced = FALSE] /\ binding' = None
      /\ UNCHANGED <<life, age, gist, wire, held, up, task, offered, proven>> /\ task = None
  BY DEF AfterConfirmedSelection, world
<1>2. monitor'[m] \in Running /\ monitor'[m].running = monitor[m].running
  BY <1>0, <1>1 DEF Running, TypeOK
<1>3. /\ \A o \in Monitors \ {m} : monitor'[o] = monitor[o]
      /\ monitor' \in [Monitors -> Running \cup {None}] /\ monitor'[m] # None
  BY <1>0, <1>1, <1>2, NoneAssumption DEF TypeOK
<1>4. TypeOK'
  BY <1>0, <1>1, <1>3 DEF TypeOK, Known, Cycle!Known
<1>5. OfferInv'
  BY <1>0, <1>1, <1>2, <1>3 DEF IInv, OfferInv, TypeOK
<1>6. QED
  BY <1>1, <1>4, <1>5 DEF IInv, AppliedInv, UpInv, BindInv, FollowInv, SampleInv, HeldInv,
                          Known, Cycle!Known

LEMMA StepIInv ==
  ASSUME TrialProofAssumption, IInv, [Next]_vars
  PROVE  IInv'
<1>1. CASE Reporting
  BY <1>1, ReportStep, PatchStep, ConfirmStep, PromoteStep, ConfirmedStep DEF Reporting
<1>2. CASE UNCHANGED vars
  BY <1>2 DEF vars, IInv, TypeOK, AppliedInv, UpInv, OfferInv, BindInv, FollowInv, SampleInv,
              HeldInv, Content, SameTrial, InTrial, Known, Cycle!Known
<1>3. QED
  BY <1>1, <1>2, UpdaterStep, BindStep, BindEndsStep, GiveUpStep, EnvironmentStep DEF Next

-----------------------------------------------------------------------------
THEOREM ReporterInvariance == Spec => []IInv
<1>1. Init => IInv
  BY InitIInv, TrialProofAssumption
<1>2. IInv /\ [Next]_vars => IInv'
  BY StepIInv, TrialProofAssumption
<1>3. QED
  BY <1>1, <1>2, PTL DEF Spec

\* The reporter is bound to a fenced monitor that runs the bound release.
THEOREM BoundToFenced == Spec => []TypeOK
<1>1. IInv => TypeOK
  BY DEF IInv
<1>2. QED
  BY <1>1, ReporterInvariance, PTL

\* A monitor that a bind found at rest publishes by itself only once its
\* release has been applied, whatever binds were refused, competed or were
\* retired, and nothing of it is under way behind the fence.
THEOREM OfferedStaysFenced == Spec => []FencedUntilApplied
<1>1. IInv => FencedUntilApplied
  BY DEF IInv, OfferInv, FencedUntilApplied
<1>2. QED
  BY <1>1, ReporterInvariance, PTL

\* A binding that outlived its trial can be retired in the next one, unless
\* that one was entered inside the verification of the slot for the binding.
THEOREM StaleBindingRetires == Spec => []BindingFollowsTrial
<1>1. IInv => BindingFollowsTrial
  BY DEF IInv, FollowInv, BindingFollowsTrial, InTrial, Retired
<1>2. QED
  BY <1>1, ReporterInvariance, PTL

\* No release is promoted but on reports of one fresh sample, of a monitor
\* that runs it, which both files have held.
THEOREM PromotionHasEvidence == Spec => PromotedOnEvidence
<1>1. ASSUME IInv, [Next]_vars, InTrial, life' # life, life' # Unknown,
             life'.applied = life.id
      PROVE  \E m \in Monitors : \E n \in 1..MaxSamples :
               /\ monitor[m] # None /\ monitor[m].running = life.id
               /\ binding # None /\ binding.monitor = m /\ n > binding.initial
               /\ \A f \in Files : <<f, <<m, n>>>> \in held
  <2>0. /\ TypeOK /\ Known /\ life \in Cycle!Lives /\ life.applied # life.id
        /\ age \in {Cycle!NoTick} \cup 0..TrialMs
    <3>1. TypeOK /\ Known /\ life \in Cycle!Lives
      BY <1>1, LifeKnown DEF IInv, InTrial
    <3>2. life.applied # life.id
      BY <1>1, <3>1, TrialProofAssumption DEF InTrial, Cycle!Lives, TrialProofAssumption
    <3>3. QED
      BY <3>1, <3>2 DEF TypeOK
  <2>1. Promote
    <3>1. ~Updater
      BY <1>1, <2>0, LifeSteps, TrialProofAssumption
         DEF Updater, Boot, Update, FailTrial, CommitLost, Cycle!Reload, Cycle!Lose, Known
    <3>2. ~Environment
      BY <1>1 DEF Environment, ClockAdvances, Cycle!Advance, PowerCut, PublishBegins, PublishEnds, Lands
    <3>3. ~Binding /\ ~BindEnds /\ ~GiveUp
      BY <1>1 DEF Binding, Launch, BindRefused, Bind, Offer, BindEnds, GiveUp
    <3>4. Reporting
      BY <1>1, <3>1, <3>2, <3>3 DEF Next, vars
    <3>5. QED
      BY <1>1, <3>4 DEF Reporting, Report, Patch, ConfirmTemperature, ConfirmDiagnostics,
                        Confirm, AfterConfirmedSelection
  <2>2. /\ binding # None /\ life.id = task.id /\ task.monitor = binding.monitor
        /\ monitor[binding.monitor].running = life.id /\ binding.initial < task.n
        /\ task \in Tasks /\ binding \in Bindings /\ monitor[binding.monitor] # None
    BY <1>1, <2>0, <2>1 DEF Promote, Current, IInv, SampleInv, TypeOK
  <2>3. task.n \in 1..MaxSamples /\ task.monitor \in Monitors
    BY <2>2, TrialProofAssumption DEF Tasks, Bindings, TrialProofAssumption
  <2>4. \A f \in Files : <<f, <<task.monitor, task.n>>>> \in held
    BY <1>1, <2>1 DEF Promote, IInv, HeldInv, Content, Files
  <2>5. QED
    BY <2>2, <2>3, <2>4
<1>2. IInv /\ [Next]_vars =>
        [InTrial /\ life' # Unknown /\ life'.applied = life.id =>
           \E m \in Monitors : \E n \in 1..MaxSamples :
             /\ monitor[m] # None /\ monitor[m].running = life.id
             /\ binding # None /\ binding.monitor = m /\ n > binding.initial
             /\ \A f \in Files : <<f, <<m, n>>>> \in held]_<<life>>
  BY <1>1
<1>3. QED
  BY <1>2, ReporterInvariance, PTL DEF Spec, PromotedOnEvidence
=============================================================================
