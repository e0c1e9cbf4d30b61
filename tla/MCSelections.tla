------------------------------ MODULE MCSelections ------------------------------
(***************************************************************************)
(* The sequential stages that select what leaves the machine or reaches    *)
(* the user.  They share no state: a behaviour is one of a single stage,   *)
(* the one that `stage` names, and the variables of the others rest.       *)
(***************************************************************************)
EXTENDS Naturals, Sequences

CONSTANTS
  ScanSizes, MaxEntries, MaxFileRecords, MaxFileBytes, MaxSupportedBytes,
  MaxPartItems, MaxPartBytes, MaxContentParts,                      \* ScanPacking
  Processes, Docs, Order, Alike, Weight, Torn, MaxRuns, MaxFaults,  \* FeedbackReport
  Mine, Other, PageSize, MaxTime, MaxEvents, MaxGateRuns, MaxErrors,  \* NotificationGate
  MaxLines, MinLines, MaxText,                                      \* SnapshotChunks
  Budgets, FileCaps, ChunkSizes, Overhead, Least, Delimiter, Summary,
  MaxTracked, MaxChunks                                             \* SnapshotBudget

VARIABLES
  stage,
  records, parts, packed, verdict,
  feedback, cache, reported, lost, me, runs, faults,
  events, serves, clock, gate, gateRuns, errors,
  lang, text, profile, chunks,
  phase, caps, left, todo, added, remaining, used, stats

scanned == <<records, parts, packed, verdict>>
reporting == <<feedback, cache, reported, lost, me, runs, faults>>
gating == <<events, serves, clock, gate, gateRuns, errors>>
cutting == <<lang, text, profile, chunks>>
writing == <<phase, caps, left, todo, added, remaining, used, stats>>
vars == <<stage, scanned, reporting, gating, cutting, writing>>

Scan == INSTANCE ScanPacking WITH Sizes <- ScanSizes
Reports == INSTANCE FeedbackReport
Gates == INSTANCE NotificationGate
Cuts == INSTANCE SnapshotChunks
Budget == INSTANCE SnapshotBudget WITH Sizes <- ChunkSizes

ASSUME StageAssumptions ==
  /\ Scan!LimitsAssumption /\ Reports!FeedbackAssumption /\ Gates!GateAssumption
  /\ Cuts!RuleAssumption /\ Budget!SizesAssumption

\* Values for the constants of FeedbackReport: three items, the second outweighing
\* the others.
Items == <<"f1", "f2", "f3">>
Weights == [f1 |-> 1, f2 |-> 2, f3 |-> 1]

Init ==
  /\ stage \in {"scan", "report", "gate", "chunks", "budget"}
  /\ Scan!ScanInit /\ Reports!ReportInit
  /\ Gates!GateInit /\ (stage # "gate" => serves)
  /\ Cuts!ChunksInit /\ (stage # "chunks" => lang = "code")
  /\ Budget!SnapshotInit /\ (stage # "budget" => caps = [total |-> 0, files |-> 0])

Next ==
  /\ UNCHANGED stage
  /\ \/ /\ stage = "scan" /\ Scan!ScanNext
        /\ UNCHANGED <<reporting, gating, cutting, writing>>
     \/ /\ stage = "report" /\ Reports!ReportNext
        /\ UNCHANGED <<scanned, gating, cutting, writing>>
     \/ /\ stage = "gate" /\ Gates!GateNext
        /\ UNCHANGED <<scanned, reporting, cutting, writing>>
     \/ /\ stage = "chunks" /\ Cuts!ChunksNext
        /\ UNCHANGED <<scanned, reporting, gating, writing>>
     \/ /\ stage = "budget" /\ Budget!SnapshotNext
        /\ UNCHANGED <<scanned, reporting, gating, cutting>>

Spec == Init /\ [][Next]_vars

-----------------------------------------------------------------------------
(* The properties of the stages.                                           *)

\* The upload parts of a scan are the supported files, each once and in order, in
\* as few parts as the limits of a part allow, and the report the scanner builds
\* from them is one its own contract accepts (buildContentParts, buildDryRunReport).
PackingIsExact == Scan!PackingIsExact

\* Feedback is hidden from later syncs only when a report showed it, or a report
\* that failed after the cache was saved should have (the fetch half of sync).
NothingSwallowed == Reports!NothingSwallowed

\* A gate that passes saw no event of this sync that its filters accept, and a gate
\* that blocks saw one (evaluateNotificationGate).
VerdictIsInformed == Gates!VerdictIsInformed

\* Every line of a file that is neither blank nor a heading is in a chunk, once and
\* in order unless the profile repeats, and no chunk is too long (chunkText).
NoLineIsLost == Cuts!NoLineIsLost

\* A snapshot exceeds its budget by its summary and two delimiters at most, and the
\* summary accounts for every file unless as many as allowed are in the text, or
\* the budget would not hold another chunk (buildRepoSnapshot).
SnapshotIsAccounted == Budget!SnapshotIsAccounted
=============================================================================
