------------------------ MODULE TwoRecordStoreProofs ------------------------
(***************************************************************************)
(* The two-record journal implements the atomic durable register, for      *)
(* every set of states and every bound on the sequence numbers.            *)
(***************************************************************************)
EXTENDS TwoRecordStore, TLAPS

\* Inside a commit: what the target holds, and what the caller still sees.
CommitInv ==
  pc # "idle" =>
    /\ arg \in Values
    /\ sequence < MaxSeq
    /\ state = NoValue => file["b"] = Absent /\ before = <<NoValue, NoValue>>
    /\ pc = "open" => before = <<Newest, Older>>
    /\ pc = "open" /\ state = NoValue => file["a"] = Absent
    /\ pc = "write" => file[Target] = Torn
    /\ pc = "verify" => file[Target] \in {Torn, Record(sequence + 1, arg)}

\* Without a selected record nothing is selected: the next target is "a".
NoSelectionInv == state = NoValue => sequence = 0 /\ active = "none"

IInv ==
  /\ TypeOK
  /\ NoSelectionInv
  /\ RamBackedByRecord
  /\ NeighbouringSequences
  /\ CommitInv

-----------------------------------------------------------------------------
\* What a file of the right type looks like, field by field.
LEMMA FileShape ==
  ASSUME StoreAssumption, TypeOK, NEW n \in Names
  PROVE  /\ file[n].whole \in BOOLEAN
         /\ file[n].seq \in Nat
         /\ file[n].whole =>
              /\ file[n].val \in Values
              /\ file[n].seq \in 1..MaxSeq
              /\ file[n] = Record(file[n].seq, file[n].val)
         /\ ~file[n].whole => file[n].val = NoValue /\ file[n] \in {Absent, Torn}
<1>1. file[n] \in Records \cup {Absent, Torn}
  BY DEF TypeOK
<1>2. CASE file[n] \in Records
  <2>1. PICK s \in 1..MaxSeq, v \in Values : file[n] = Record(s, v)
    BY <1>2 DEF Records
  <2>2. QED
    BY <2>1, StoreAssumption DEF Record
<1>3. CASE file[n] = Absent
  BY <1>3 DEF Absent
<1>4. CASE file[n] = Torn
  BY <1>4 DEF Torn
<1>5. QED
  BY <1>1, <1>2, <1>3, <1>4

LEMMA InitIInv == StoreAssumption /\ Init => IInv
BY DEF StoreAssumption, Init, IInv, TypeOK, NoSelectionInv, RamBackedByRecord,
       NeighbouringSequences, CommitInv, Names, Valid, Absent

LEMMA TypePreserved ==
  ASSUME StoreAssumption, IInv, [Next]_vars
  PROVE  TypeOK'
<1> USE DEF StoreAssumption, Names
<1>0. TypeOK /\ NoSelectionInv /\ RamBackedByRecord /\ CommitInv
  BY DEF IInv
<1>1. ASSUME NEW v \in Values, Initialize(v) \/ Commit(v)
      PROVE  TypeOK'
  <2>1. Newest \in Values \cup {NoValue} /\ Older \in Values \cup {NoValue}
    BY <1>0, FileShape DEF Newest, Older, Later, Other
  <2>2. QED
    BY <1>0, <1>1, <2>1 DEF Initialize, Commit, BeginCommit, TypeOK
<1>2. CASE Exhausted
  BY <1>0, <1>2 DEF Exhausted, Invalidate, TypeOK
<1>3. CASE OpenTarget
  BY <1>0, <1>3 DEF OpenTarget, Target, TypeOK
<1>4. CASE WriteTarget
  <2>1. arg \in Values /\ sequence + 1 \in 1..MaxSeq
    BY <1>0, <1>4 DEF WriteTarget, CommitInv, TypeOK
  <2>2. Record(sequence + 1, arg) \in Records
    BY <2>1 DEF Records
  <2>3. QED
    BY <1>0, <1>4, <2>2 DEF WriteTarget, Target, TypeOK
<1>5. CASE VerifyOk
  BY <1>0, <1>5 DEF VerifyOk, CommitInv, Target, TypeOK
<1>6. CASE CommitFails
  BY <1>0, <1>6 DEF CommitFails, Invalidate, TypeOK
<1>7. ASSUME NEW readable \in SUBSET Names, Load(readable)
      PROVE  TypeOK'
  <2>1. CASE Invalidate
    BY <1>0, <1>7, <2>1 DEF Load, Invalidate, TypeOK
  <2>2. CASE \E n \in readable : /\ Valid(n)
                                 /\ sequence' = file[n].seq
                                 /\ active' = n
                                 /\ state' = file[n].val
    BY <1>0, <1>7, <2>2, FileShape DEF Load, Valid, TypeOK
  <2>3. QED
    BY <1>7, <2>1, <2>2 DEF Load
<1>8. CASE PowerCut
  BY <1>0, <1>8 DEF PowerCut, Invalidate, TypeOK
<1>9. CASE UNCHANGED vars
  BY <1>0, <1>9 DEF vars, TypeOK
<1>10. QED
  BY <1>1, <1>2, <1>3, <1>4, <1>5, <1>6, <1>7, <1>8, <1>9 DEF Next

LEMMA SelectionPreserved ==
  ASSUME StoreAssumption, IInv, [Next]_vars
  PROVE  NoSelectionInv' /\ RamBackedByRecord'
<1> USE DEF StoreAssumption, Names
<1>0. TypeOK /\ NoSelectionInv /\ RamBackedByRecord /\ CommitInv
  BY DEF IInv
<1>1. ASSUME NEW v \in Values, Initialize(v) \/ Commit(v)
      PROVE  NoSelectionInv' /\ RamBackedByRecord'
  BY <1>0, <1>1 DEF Initialize, Commit, BeginCommit, NoSelectionInv, RamBackedByRecord
<1>2. CASE Exhausted \/ CommitFails \/ PowerCut
  BY <1>2 DEF Exhausted, CommitFails, PowerCut, Invalidate, NoSelectionInv, RamBackedByRecord
<1>3. CASE OpenTarget
  BY <1>0, <1>3 DEF OpenTarget, Target, TypeOK, NoSelectionInv, RamBackedByRecord
<1>4. CASE WriteTarget
  BY <1>0, <1>4 DEF WriteTarget, Target, TypeOK, NoSelectionInv, RamBackedByRecord
<1>5. CASE VerifyOk
  BY <1>0, <1>5 DEF VerifyOk, CommitInv, Target, TypeOK, NoSelectionInv, RamBackedByRecord
<1>6. ASSUME NEW readable \in SUBSET Names, Load(readable)
      PROVE  NoSelectionInv' /\ RamBackedByRecord'
  <2>1. CASE Invalidate
    BY <2>1 DEF Invalidate, NoSelectionInv, RamBackedByRecord
  <2>2. ASSUME NEW n \in readable, Valid(n), sequence' = file[n].seq,
               active' = n, state' = file[n].val
        PROVE  NoSelectionInv' /\ RamBackedByRecord'
    BY <1>0, <1>6, <2>2, FileShape DEF Load, Valid, NoSelectionInv, RamBackedByRecord
  <2>3. QED
    BY <1>6, <2>1, <2>2 DEF Load
<1>7. CASE UNCHANGED vars
  BY <1>0, <1>7 DEF vars, NoSelectionInv, RamBackedByRecord
<1>8. QED
  BY <1>1, <1>2, <1>3, <1>4, <1>5, <1>6, <1>7 DEF Next

LEMMA SequencesPreserved ==
  ASSUME StoreAssumption, IInv, [Next]_vars
  PROVE  NeighbouringSequences'
<1> USE DEF StoreAssumption, Names
<1>0. TypeOK /\ NoSelectionInv /\ RamBackedByRecord /\ CommitInv /\ NeighbouringSequences
  BY DEF IInv
<1>1. CASE file' = file
  BY <1>0, <1>1 DEF NeighbouringSequences, Valid
<1>2. CASE OpenTarget
  BY <1>0, <1>2 DEF OpenTarget, Target, TypeOK, NeighbouringSequences, Valid, Torn
<1>3. CASE WriteTarget
  <2>1. CASE file' = [file EXCEPT ![Target] = Torn]
    BY <1>0, <2>1 DEF Target, TypeOK, NeighbouringSequences, Valid, Torn
  <2>2. CASE file' = [file EXCEPT ![Target] = Record(sequence + 1, arg)]
    <3>1. CASE state = NoValue
      BY <1>0, <1>3, <2>2, <3>1
         DEF WriteTarget, CommitInv, NoSelectionInv, Target, TypeOK,
             NeighbouringSequences, Valid, Absent
    <3>2. CASE state # NoValue
      BY <1>0, <1>3, <2>2, <3>2
         DEF WriteTarget, RamBackedByRecord, Target, TypeOK,
             NeighbouringSequences, Valid, Record
    <3>3. QED
      BY <3>1, <3>2
  <2>3. QED
    BY <1>3, <2>1, <2>2 DEF WriteTarget
<1>4. QED
  BY <1>1, <1>2, <1>3
     DEF Next, Initialize, Commit, BeginCommit, Exhausted, VerifyOk, CommitFails,
         Load, PowerCut, vars

LEMMA CommitPreserved ==
  ASSUME StoreAssumption, IInv, [Next]_vars
  PROVE  CommitInv'
<1> USE DEF StoreAssumption, Names
<1>0. TypeOK /\ NoSelectionInv /\ RamBackedByRecord /\ CommitInv
  BY DEF IInv
<1>1. ASSUME NEW v \in Values, Initialize(v)
      PROVE  CommitInv'
  <2>1. file["a"] = Absent /\ file["b"] = Absent
    <3>1. ASSUME NEW n \in Names
          PROVE  file[n] = Absent
      <4>1. ~file[n].exists /\ file[n] \in Records \cup {Absent, Torn}
        BY <1>0, <1>1 DEF Initialize, TypeOK
      <4>2. file[n] \notin Records /\ file[n] # Torn
        BY <4>1 DEF Records, Record, Torn
      <4>3. QED
        BY <4>1, <4>2
    <3>2. QED
      BY <3>1
  <2>2. Newest = NoValue /\ Older = NoValue
    BY <2>1 DEF Newest, Older, Later, Other, Valid, Absent
  <2>3. QED
    BY <1>0, <1>1, <2>1, <2>2
       DEF Initialize, BeginCommit, CommitInv, Newest, Older, Later, Other, Valid
<1>2. ASSUME NEW v \in Values, Commit(v)
      PROVE  CommitInv'
  BY <1>0, <1>2 DEF Commit, BeginCommit, CommitInv, Newest, Older, Later, Other, Valid
<1>3. CASE Exhausted
  BY <1>3 DEF Exhausted, CommitInv
<1>4. CASE OpenTarget
  BY <1>0, <1>4 DEF OpenTarget, CommitInv, NoSelectionInv, Target, TypeOK
<1>5. CASE WriteTarget
  BY <1>0, <1>5 DEF WriteTarget, CommitInv, NoSelectionInv, Target, TypeOK
<1>6. CASE VerifyOk \/ CommitFails \/ PowerCut
  BY <1>6 DEF VerifyOk, CommitFails, PowerCut, CommitInv
<1>7. ASSUME NEW readable \in SUBSET Names, Load(readable)
      PROVE  CommitInv'
  BY <1>7 DEF Load, CommitInv
<1>8. CASE UNCHANGED vars
  BY <1>0, <1>8 DEF vars, CommitInv, Target, Newest, Older, Later, Other, Valid
<1>9. QED
  BY <1>1, <1>2, <1>3, <1>4, <1>5, <1>6, <1>7, <1>8 DEF Next

(***************************************************************************)
(* The inductive invariant holds throughout.                               *)
(***************************************************************************)
THEOREM Invariance == Spec => []IInv
<1>1. Init => IInv
  BY StoreAssumption, InitIInv
<1>2. IInv /\ [Next]_vars => IInv'
  BY StoreAssumption, TypePreserved, SelectionPreserved, SequencesPreserved,
     CommitPreserved DEF IInv
<1>3. QED
  BY <1>1, <1>2, PTL DEF Spec

(***************************************************************************)
(* load can never meet two different records with the same sequence, and a *)
(* fallback is at most one commit behind.                                  *)
(***************************************************************************)
THEOREM SequencesStayNeighbours == Spec => []NeighbouringSequences
<1>1. IInv => NeighbouringSequences
  BY DEF IInv
<1>2. QED
  BY <1>1, Invariance, PTL

(***************************************************************************)
(* A loaded or acknowledged state is a complete record on the medium at    *)
(* every step of the commit that replaces it.                              *)
(***************************************************************************)
THEOREM RamAlwaysBacked == Spec => []RamBackedByRecord
<1>1. IInv => RamBackedByRecord
  BY DEF IInv
<1>2. QED
  BY <1>1, Invariance, PTL

(***************************************************************************)
(* No step destroys the last valid record.                                 *)
(***************************************************************************)
THEOREM LastRecordSurvives == Spec => NeverLosesLastRecord
<1>1. IInv /\ [Next]_vars =>
        [(\E n \in Names : Valid(n)) => (\E n \in Names : Valid(n)')]_vars
  <2> SUFFICES ASSUME IInv, [Next]_vars, NEW n \in Names, Valid(n)
               PROVE  \E m \in Names : Valid(m)'
    OBVIOUS
  <2> USE DEF Names
  <2>0. TypeOK /\ NoSelectionInv /\ RamBackedByRecord /\ CommitInv
    BY DEF IInv
  <2>1. CASE file' = file
    BY <2>1 DEF Valid
  <2>2. CASE OpenTarget \/ WriteTarget
    <3>1. state # NoValue
      BY <2>0, <2>2 DEF OpenTarget, WriteTarget, CommitInv, NoSelectionInv, Target, Valid,
                        Absent, Torn
    <3>2. Valid(active) /\ active \in Names /\ active # Target
      BY <2>0, <3>1 DEF RamBackedByRecord, Record, Target, Valid
    <3>3. file'[active] = file[active]
      BY <2>0, <2>2, <3>2 DEF OpenTarget, WriteTarget, TypeOK
    <3>4. QED
      BY <3>2, <3>3 DEF Valid
  <2>3. QED
    BY <2>1, <2>2
       DEF Next, Initialize, Commit, BeginCommit, Exhausted, VerifyOk, CommitFails,
           Load, PowerCut, vars
<1>2. QED
  BY <1>1, Invariance, PTL DEF Spec, NeverLosesLastRecord

-----------------------------------------------------------------------------
\* The pair of values an interrupted or completed commit leaves behind.
LEMMA PairAfterTear ==
  ASSUME StoreAssumption, IInv, pc # "idle", file[Target] = Torn
  PROVE  Newest = state /\ Older = NoValue
<1> USE DEF StoreAssumption, Names
<1>0. TypeOK /\ NoSelectionInv /\ RamBackedByRecord /\ CommitInv
  BY DEF IInv
<1>1. CASE state = NoValue
  BY <1>0, <1>1 DEF CommitInv, NoSelectionInv, Target, Newest, Older, Later, Other, Valid,
                    Absent, Torn
<1>2. CASE state # NoValue
  BY <1>0, <1>2 DEF RamBackedByRecord, Record, Target, Newest, Older, Later, Other, Valid,
                    Torn
<1>3. QED
  BY <1>1, <1>2

LEMMA PairAfterWrite ==
  ASSUME StoreAssumption, IInv, pc = "verify", file[Target] = Record(sequence + 1, arg)
  PROVE  Newest = arg /\ Older = state
<1> USE DEF StoreAssumption, Names
<1>0. TypeOK /\ NoSelectionInv /\ RamBackedByRecord /\ CommitInv
  BY DEF IInv
<1>1. CASE state = NoValue
  BY <1>0, <1>1 DEF CommitInv, NoSelectionInv, Target, Newest, Older, Later, Other, Valid,
                    Absent, Record
<1>2. CASE state # NoValue
  BY <1>0, <1>2 DEF RamBackedByRecord, TypeOK, Record, Target, Newest, Older, Later, Other,
                    Valid
<1>3. QED
  BY <1>1, <1>2

\* Before an initialization has written anything the medium is empty.
LEMMA InstallationSeesNothing ==
  ASSUME StoreAssumption, IInv, pc # "idle", state = NoValue
  PROVE  before = <<NoValue, NoValue>>
BY DEF IInv, CommitInv

\* A commit that raises, or is cut by a power loss, is one ambiguous step.
LEMMA AmbiguousStep ==
  ASSUME StoreAssumption, IInv, pc # "idle",
         pc' = "idle", state' = NoValue, file' = file
  PROVE  Register!Next
<1> USE DEF StoreAssumption
<1>0. arg \in Values /\ pc \in {"open", "write", "verify"}
  BY DEF IInv, CommitInv, TypeOK
<1>1. Newest' = Newest /\ Older' = Older
  BY DEF Newest, Older, Later, Other, Valid
<1>2. \/ before = <<Newest, Older>>
      \/ Newest = state /\ Older = NoValue
      \/ Newest = arg /\ Older = state
  <2>1. CASE pc = "open"
    BY <2>1 DEF IInv, CommitInv
  <2>2. CASE pc = "write" \/ file[Target] = Torn
    BY <2>2, PairAfterTear DEF IInv, CommitInv
  <2>3. CASE pc = "verify" /\ file[Target] # Torn
    BY <2>3, PairAfterWrite DEF IInv, CommitInv
  <2>4. QED
    BY <1>0, <2>1, <2>2, <2>3
<1>3. CASE state # NoValue
  <2>1. Register!CommitAmbiguous(arg)
    BY <1>1, <1>2, <1>3 DEF Register!CommitAmbiguous
  <2>2. QED
    BY <1>0, <2>1 DEF Register!Next
<1>4. CASE state = NoValue
  <2>1. Register!InitializeAmbiguous(arg)
    BY <1>1, <1>2, <1>4, InstallationSeesNothing DEF Register!InitializeAmbiguous
  <2>2. QED
    BY <1>0, <2>1 DEF Register!Next
<1>5. QED
  BY <1>3, <1>4

(***************************************************************************)
(* Every step of the journal is a step of the register or a stutter.       *)
(***************************************************************************)
LEMMA StepRefines ==
  ASSUME StoreAssumption, IInv, [Next]_vars
  PROVE  [Register!Next]_(Register!vars)
<1> USE DEF StoreAssumption, Names
<1>0. TypeOK /\ NoSelectionInv /\ RamBackedByRecord /\ CommitInv
  BY DEF IInv
<1>1. ASSUME NEW v \in Values, Initialize(v) \/ Commit(v)
      PROVE  UNCHANGED Register!vars
  BY <1>1 DEF Initialize, Commit, BeginCommit, Register!vars
<1>2. CASE Exhausted
  <2>1. Register!Drop
    BY <1>2 DEF Exhausted, Invalidate, Register!Drop, Newest, Older, Later, Other, Valid
  <2>2. QED
    BY <2>1 DEF Register!Next
<1>3. CASE OpenTarget \/ WriteTarget
  BY <1>3 DEF OpenTarget, WriteTarget, Register!vars
<1>4. CASE VerifyOk
  <2>1. Newest' = Newest /\ Older' = Older /\ arg \in Values
    BY <1>0, <1>4 DEF VerifyOk, CommitInv, Newest, Older, Later, Other, Valid
  <2>2. Newest = arg /\ Older = state
    BY <1>4, PairAfterWrite DEF VerifyOk
  <2>3. CASE state # NoValue
    <3>1. Register!CommitOk(arg)
      BY <1>4, <2>1, <2>2, <2>3 DEF VerifyOk, Register!CommitOk
    <3>2. QED
      BY <2>1, <3>1 DEF Register!Next
  <2>4. CASE state = NoValue
    <3>1. before = <<NoValue, NoValue>>
      BY <1>4, <2>4, InstallationSeesNothing DEF VerifyOk
    <3>2. Register!InitializeOk(arg)
      BY <1>4, <2>1, <2>2, <2>4, <3>1 DEF VerifyOk, Register!InitializeOk
    <3>3. QED
      BY <2>1, <3>2 DEF Register!Next
  <2>5. QED
    BY <2>3, <2>4
<1>5. CASE CommitFails
  BY <1>5, AmbiguousStep DEF CommitFails, Invalidate
<1>6. ASSUME NEW readable \in SUBSET Names, Load(readable)
      PROVE  Register!Next
  <2>1. pc = "idle" /\ pc' = "idle" /\ Newest' = Newest /\ Older' = Older
    BY <1>6 DEF Load, Newest, Older, Later, Other, Valid
  <2>2. CASE Invalidate
    BY <2>1, <2>2 DEF Invalidate, Register!Drop, Register!Next
  <2>3. ASSUME NEW n \in readable, Valid(n), state' = file[n].val
        PROVE  Register!Next
    <3>1. state' # NoValue /\ state' \in {Newest, Older}
      BY <1>0, <2>3, FileShape DEF Valid, Newest, Older, Later, Other
    <3>2. Register!LoadNewest \/ Register!LoadOlder
      BY <2>1, <3>1 DEF Register!LoadNewest, Register!LoadOlder
    <3>3. QED
      BY <3>2 DEF Register!Next
  <2>4. QED
    BY <1>6, <2>2, <2>3 DEF Load
<1>7. CASE PowerCut
  <2>1. CASE pc = "idle"
    <3>1. Register!Drop
      BY <1>7, <2>1 DEF PowerCut, Invalidate, Register!Drop, Newest, Older, Later, Other,
                        Valid
    <3>2. QED
      BY <3>1 DEF Register!Next
  <2>2. CASE pc # "idle"
    BY <1>7, <2>2, AmbiguousStep DEF PowerCut, Invalidate
  <2>3. QED
    BY <2>1, <2>2
<1>8. CASE UNCHANGED vars
  BY <1>8 DEF vars, Register!vars, Newest, Older, Later, Other, Valid
<1>9. QED
  BY <1>1, <1>2, <1>3, <1>4, <1>5, <1>6, <1>7, <1>8 DEF Next

(***************************************************************************)
(* The journal of update_state.py and config_trial.py behaves as one       *)
(* durable value that is replaced atomically, whatever step of a commit    *)
(* fails or is cut by a power loss.                                        *)
(***************************************************************************)
THEOREM Refinement == Spec => ImplementsRegister
<1>1. Init => Register!Init
  BY StoreAssumption DEF Init, Register!Init, Newest, Older, Later, Other, Valid, Absent,
                         Names
<1>2. IInv /\ [Next]_vars => [Register!Next]_(Register!vars)
  BY StoreAssumption, StepRefines
<1>3. QED
  BY <1>1, <1>2, Invariance, PTL DEF Spec, ImplementsRegister, Register!Spec
=============================================================================
