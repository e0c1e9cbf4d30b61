-------------------------- MODULE MCBaselineOperations --------------------------
(***************************************************************************)
(* The two resumable operations on a committed snapshot: `baseline index`  *)
(* builds its index, `baseline run` runs a change against the index.  They *)
(* keep records of the same kind and owe the same promises, so one         *)
(* instance checks both: `operation` says which one a behaviour is about.  *)
(***************************************************************************)
EXTENDS Naturals, FiniteSets, TLC

CONSTANTS
  Processes, Attempts, Intents,
  MaxRuns,         \* `baseline run`s of all processes
  MaxIndexRuns,    \* `baseline index`es of each process
  MaxFaults, MaxIndexFaults, MaxTimeouts, MaxCrashes, MaxUpgrades

VARIABLES
  operation,
  jobs, ready, record, me, runs, faults, crashes, upgrades,   \* of both operations
  required, written, timeouts,                                \* of the index
  compatible, refused, told                                   \* of the run
vars == <<operation, jobs, ready, record, me, runs, faults, crashes, upgrades,
          required, written, timeouts, compatible, refused, told>>

\* This instance brings the module's theorems, which BaselineOperationsProofs uses.
Index == INSTANCE BaselineIndexProofs WITH MaxRuns <- MaxIndexRuns, MaxFaults <- MaxIndexFaults
Run == INSTANCE BaselineRun

ASSUME OperationAssumptions ==
  /\ Index!AttemptsAssumption /\ Index!BoundsAssumption
  /\ Run!AttemptsAssumption /\ Run!BoundsAssumption

OfIndex == operation = "index"
OfRun == operation = "run"

Init ==
  \/ /\ operation = "index" /\ Index!Init
     /\ compatible = TRUE /\ refused = FALSE /\ told = {}
  \/ /\ operation = "run" /\ Run!Init
     /\ required \in Intents
     /\ written = {} /\ timeouts = 0

Next ==
  /\ UNCHANGED operation
  /\ \/ OfIndex /\ Index!Next /\ UNCHANGED <<compatible, refused, told>>
     \/ OfRun /\ Run!Next /\ UNCHANGED <<required, written, timeouts>>

Spec == Init /\ [][Next]_vars

\* The processes are interchangeable, and so are the index identities.
Symmetries == Permutations(Processes) \cup Permutations(Intents)

-----------------------------------------------------------------------------
(* The properties of both, and of each.                                    *)

\* Every variable of the operation has its type.
TypeOK == IF OfIndex THEN Index!TypeOK ELSE Run!TypeOK

\* Lost responses, crashes, resumes, races and changes of what Core requires never
\* start a second job for the snapshot (submit's idempotency key).
OneJob == IF OfIndex THEN Index!OneJob ELSE Run!OneJob

\* What a result or the record says of a job that ended is Core's last word on it,
\* although several processes save the record in any order (applyStatus, failure).
EndIsTrue == IF OfIndex THEN Index!EndIsTrue ELSE Run!EndIsTrue

\* While nobody was told of a success, a job that Core has is on record: RunIndex and
\* RunBaselineRun save before they submit, and remove after the result is out.
RecordKept == IF OfIndex THEN Index!RecordKept ELSE Run!RecordKept

\* Retries, timeouts, crashes and races never mark a record as being in conflict,
\* which no resume gets past; only the end of the job or Core's refusal does.
NoFalseConflict == IF OfIndex THEN Index!NoFalseConflict ELSE Run!NoFalseConflict

\* A known build is waited for across a change of what Core requires (wait passes
\* no expected intent to status).
WaitSurvivesUpgrade == OfIndex => Index!WaitSurvivesUpgrade

\* A resume is never turned away for want of readiness while Core has the run that
\* it asks for (RunBaselineRun submits the intent again).
AdmissionDoesNotStrand == [][OfRun /\ Run!TurnedAway => jobs = {}]_vars
=============================================================================
