--------------------------- MODULE TwoRecordStore ---------------------------
(***************************************************************************)
(* The journal under both metadata stores of the Pico: UpdateStateStore    *)
(* (state.a, state.b) and ConfigTrialStore (config.a, config.b).  Two      *)
(* files each hold one record <<sequence, state, checksum>>; a commit      *)
(* rewrites the file that is not the active one with the next sequence     *)
(* number and reads it back, a load takes the valid record with the        *)
(* highest sequence number.                                                *)
(*                                                                         *)
(* One action per step that a power cut or an I/O error can separate:      *)
(* opening the target for writing truncates it, the write may be short,    *)
(* the flush or close may fail, and the readback may fail although the     *)
(* record is complete.  A record is a value and its sequence number; a     *)
(* record whose checksum does not match is Torn.                           *)
(***************************************************************************)
EXTENDS Integers

CONSTANTS
  Values,               \* states that pass _validate_state / _validate
  NoValue,              \* None: no state in RAM
  MaxSeq,               \* MAX_SEQUENCE
  ExhaustionInvalidates \* ConfigTrialStore drops its RAM state when the
                        \* sequence is exhausted, UpdateStateStore keeps it

ASSUME StoreAssumption ==
  /\ NoValue \notin Values
  /\ MaxSeq \in Nat \ {0}
  /\ ExhaustionInvalidates \in BOOLEAN

Names == {"a", "b"}
Other(n) == IF n = "a" THEN "b" ELSE "a"

\* A file is absent, holds bytes that do not decode, or holds a record.
\* Sequence 0 never occurs in a record: _decode_record refuses it.
Absent == [seq |-> 0, val |-> NoValue, whole |-> FALSE, exists |-> FALSE]
Torn   == [seq |-> 0, val |-> NoValue, whole |-> FALSE, exists |-> TRUE]
Record(s, v) == [seq |-> s, val |-> v, whole |-> TRUE, exists |-> TRUE]
Records == {Record(s, v) : s \in 1..MaxSeq, v \in Values}

VARIABLES
  file,       \* what each of the two files holds
  sequence,   \* RAM: sequence of the selected record
  active,     \* RAM: name of the selected record, "none" before a selection
  state,      \* RAM: the selected state, NoValue when it must be reloaded
  pc,         \* point inside _commit: "idle", "open", "write" or "verify"
  arg,        \* the state that _commit is writing
  before      \* history: <<newest, older>> when that commit began

ramVars == <<sequence, active, state>>
vars == <<file, sequence, active, state, pc, arg, before>>

-----------------------------------------------------------------------------
Valid(n) == file[n].whole

\* The file whose record load selects when both can be read, and the values
\* of the two records; a file without a valid record has the value NoValue.
Later == IF ~Valid("b") \/ (Valid("a") /\ file["a"].seq > file["b"].seq) THEN "a" ELSE "b"
Newest == file[Later].val
Older == file[Other(Later)].val

Init ==
  /\ file = [n \in Names |-> Absent]
  /\ sequence = 0
  /\ active = "none"
  /\ state = NoValue
  /\ pc = "idle"
  /\ arg = NoValue
  /\ before = <<NoValue, NoValue>>

\* _invalidate
Invalidate ==
  /\ sequence' = 0
  /\ active' = "none"
  /\ state' = NoValue

\* A faulty commit that writes over the record it should preserve.
TargetActive == IF active = "b" THEN "b" ELSE "a"

Target == IF active = "a" THEN "b" ELSE "a"

BeginCommit(v) ==
  /\ pc = "idle"
  /\ sequence < MaxSeq
  /\ pc' = "open"
  /\ arg' = v
  /\ before' = <<Newest, Older>>
  /\ UNCHANGED <<file, sequence, active, state>>

\* initialize: no state in RAM and neither file exists, corrupt or not.
\* The first call on an instance whose load failed finds sequence = 0.
Initialize(v) ==
  /\ state = NoValue
  /\ \A n \in Names : ~file[n].exists
  /\ BeginCommit(v)

Commit(v) ==
  /\ state # NoValue
  /\ BeginCommit(v)

Exhausted ==
  /\ pc = "idle"
  /\ state # NoValue
  /\ sequence >= MaxSeq
  /\ ExhaustionInvalidates
  /\ Invalidate
  /\ UNCHANGED <<file, pc, arg, before>>

\* open(path, 'wb') truncates the target.
OpenTarget ==
  /\ pc = "open"
  /\ file' = [file EXCEPT ![Target] = Torn]
  /\ pc' = "write"
  /\ UNCHANGED <<sequence, active, state, arg, before>>

\* write, flush and close return; the bytes on the medium are the record,
\* or silently something else that the readback will refuse.
WriteTarget ==
  /\ pc = "write"
  /\ \E stored \in {Record(sequence + 1, arg), Torn} :
       file' = [file EXCEPT ![Target] = stored]
  /\ pc' = "verify"
  /\ UNCHANGED <<sequence, active, state, arg, before>>

VerifyOk ==
  /\ pc = "verify"
  /\ file[Target] = Record(sequence + 1, arg)
  /\ sequence' = sequence + 1
  /\ active' = Target
  /\ state' = arg
  /\ pc' = "idle"
  /\ UNCHANGED <<file, arg, before>>

\* A faulty commit that keeps its RAM state after an ambiguous outcome.
CommitFailsKeepingState ==
  /\ pc # "idle"
  /\ pc' = "idle"
  /\ UNCHANGED <<file, sequence, active, state, arg, before>>

\* Any exception between open and the end of the readback: the RAM state is
\* invalidated and StateWriteError raised.  Nothing on the medium is undone.
CommitFails ==
  /\ pc # "idle"
  /\ Invalidate
  /\ pc' = "idle"
  /\ UNCHANGED <<file, arg, before>>

\* load: each record is read on its own and a failed read or a bad record
\* is skipped; readable is the set of files whose read succeeds this time.
Load(readable) ==
  /\ pc = "idle"
  /\ LET valid == {n \in readable : Valid(n)}
         highest == {n \in valid : \A m \in valid : file[n].seq >= file[m].seq}
     IN \/ /\ \/ highest = {}
              \/ \E n, m \in highest : file[n].val # file[m].val
           /\ Invalidate
        \/ /\ \A n, m \in highest : file[n].val = file[m].val
           /\ \E n \in highest :
                /\ sequence' = file[n].seq
                /\ active' = n
                /\ state' = file[n].val
  /\ UNCHANGED <<file, pc, arg, before>>

\* Power cut: RAM is lost wherever the program was.
PowerCut ==
  /\ Invalidate
  /\ pc' = "idle"
  /\ UNCHANGED <<file, arg, before>>

Next ==
  \/ \E v \in Values : Initialize(v) \/ Commit(v)
  \/ Exhausted
  \/ OpenTarget
  \/ WriteTarget
  \/ VerifyOk
  \/ CommitFails
  \/ \E readable \in SUBSET Names : Load(readable)
  \/ PowerCut

Spec == Init /\ [][Next]_vars

-----------------------------------------------------------------------------
TypeOK ==
  /\ file \in [Names -> Records \cup {Absent, Torn}]
  /\ sequence \in 0..MaxSeq
  /\ active \in Names \cup {"none"}
  /\ state \in Values \cup {NoValue}
  /\ pc \in {"idle", "open", "write", "verify"}
  /\ arg \in Values \cup {NoValue}
  /\ before \in (Values \cup {NoValue}) \X (Values \cup {NoValue})

(***************************************************************************)
(* Whenever both records are valid their sequence numbers are neighbours:  *)
(* the "conflicting equal-sequence records" branch of load needs damage    *)
(* from outside the store, and a load that falls back to the other record  *)
(* is never more than one commit behind.                                   *)
(***************************************************************************)
NeighbouringSequences ==
  Valid("a") /\ Valid("b") =>
    \/ file["a"].seq = file["b"].seq + 1
    \/ file["b"].seq = file["a"].seq + 1

(***************************************************************************)
(* The RAM state is a record on the medium: a state that was loaded or     *)
(* acknowledged can be read back by a restart, at every step of the next   *)
(* commit and whatever step of it fails.                                   *)
(***************************************************************************)
RamBackedByRecord ==
  state # NoValue =>
    /\ active \in Names
    /\ file[active] = Record(sequence, state)

(***************************************************************************)
(* Once an installation has completed, some record stays valid: no commit, *)
(* failed or cut short, takes the last good record.                        *)
(***************************************************************************)
NeverLosesLastRecord ==
  [][(\E n \in Names : Valid(n)) => (\E n \in Names : Valid(n)')]_vars

(***************************************************************************)
(* The journal implements the atomic durable register: inside a commit the *)
(* register still shows the pair of values the commit began with, and the  *)
(* register's step is taken when the commit ends, fails or is cut short.   *)
(***************************************************************************)
Register ==
  INSTANCE DurableRegister WITH
    newest <- IF pc = "idle" THEN Newest ELSE before[1],
    older  <- IF pc = "idle" THEN Older ELSE before[2],
    ram    <- state

ImplementsRegister == Register!Spec
=============================================================================
