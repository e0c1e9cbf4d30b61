--------------------------- MODULE BaselineUpload ---------------------------
(***************************************************************************)
(* `compair baseline upload` (internal/baseline/upload.go): processes of   *)
(* one installation upload the same immutable snapshot to Core.  They      *)
(* share one resume record on disk (upload_state.go) and one derived       *)
(* idempotency key, and talk to Core's staging endpoints over a network    *)
(* that loses, delays and duplicates requests.  Processes crash, time out  *)
(* and are run again, with or without --resume.                            *)
(*                                                                         *)
(* Core is external: it is modelled from the responses the client accepts, *)
(* from protocol/baseline-control-plane.v1.md and from the server the      *)
(* tests of upload.go run against.                                         *)
(***************************************************************************)
EXTENDS Naturals, FiniteSets

CONSTANTS
  Clients,        \* processes that run `baseline upload` for one plan
  N,              \* number of content parts of the scanned snapshot
  NoState,        \* stands for "no resume record on disk"
  NoReply,        \* stands for "no response waiting to be read"
  RetryAttempts,  \* attempts of postWithRetry for one request
  CoreMayFail,    \* whether staging may expire and Core's jobs may fail
  MaxRuns,        \* bound: invocations of each process (refused ones apart)
  MaxFaults,      \* bound: requests or responses the network loses or delays
  MaxTimeouts,    \* bound: invocations whose --timeout passes
  MaxCrashes      \* bound: process crashes

ASSUME NAssumption == N \in Nat
ASSUME RetryAssumption == RetryAttempts \in Nat \ {0}
ASSUME BoundsAssumption ==
  /\ CoreMayFail \in BOOLEAN
  /\ MaxRuns \in Nat /\ MaxFaults \in Nat
  /\ MaxTimeouts \in Nat /\ MaxCrashes \in Nat

VARIABLES
  keys,       \* Core: idempotency keys that already have a staging job
  staging,    \* Core: state of the staging record
  job,        \* Core: state of the staging job
  received,   \* Core: ordinals of the accepted parts
  cont,       \* Core: state of the continuation (ingestion) job
  strays,     \* requests whose sender gave up and Core may still process
  reply,      \* reply[c]: the response c has not read yet
  pc,         \* pc[c]: where c is in RunUpload
  mem,        \* mem[c]: the uploadState c holds in memory
  replayed,   \* replayed[c]: beginReplayed of the current invocation
  attempts,   \* attempts[c]: failed attempts of the current request
  verdict,    \* verdict[c]: result of the current invocation
  disk,       \* the resume record shared by the processes
  announced,  \* history: pairs <<process, success>> written to stdout
  runs, faults, timeouts, crashes   \* counters for the bounds

coreVars   == <<keys, staging, job, received, cont>>
budgetVars == <<runs, faults, timeouts, crashes>>
vars == <<coreVars, strays, reply, pc, mem, replayed, attempts, verdict,
          disk, announced, budgetVars>>

-----------------------------------------------------------------------------
(* Data.  Job identities are the idempotency keys that created them.       *)

NoJob == 0
DerivedKey == 1

StateRecord == [job : Nat, completed : 0..N]
FreshState  == [job |-> NoJob, completed |-> 0]

Staging == {"none", "open", "sealed", "expired", "failed"}
JobState == {"none", "queued", "retryable_failed", "terminal_failed", "succeeded"}
ContState == {"none", "queued", "running", "retryable_failed", "succeeded",
              "terminal_failed"}

ErrorCode == {"staging_expired", "staging_not_open", "incomplete_staging"}
Request == [op : {"begin", "status", "part", "commit", "poll"},
            part : 0..N, key : Nat]
Response == [code : ErrorCode \cup {"ok"}, key : Nat, replayed : BOOLEAN,
             staging : Staging, job : JobState, count : 0..N, cont : ContState]

Success   == {"snapshot_committed", "succeeded"}
Retryable == {"transport_retry_exhausted", "retryable_failed"}
Terminal  == {"staging_expired", "staging_not_open", "terminal_failed"}
Contract  == {"incomplete_staging", "begin_replay_identity_mismatch",
              "replay_status_mismatch", "replay_count_mismatch",
              "part_response_mismatch", "commit_response_mismatch",
              "continuation_response_mismatch"}
Refusal   == {"resume_required", "resume_state_not_found"}
Verdict   == Success \cup Retryable \cup Terminal \cup Contract \cup Refusal

\* Mutant of Discards: the record goes after a retryable interruption too.
DiscardsRetryable == Terminal \cup Retryable

\* Reasons after which the resume record is of no use (shouldDiscardState).
Discards == Terminal \cup {"incomplete_staging"}

\* The places where the process has a request on the wire.
Posting == {"begin", "status", "part", "refresh", "commit", "recommit",
            "poll", "recover"}
PC == Posting \cup {"idle", "create", "output", "finalize"}

ASSUME NoStateAssumption == NoState \notin StateRecord
ASSUME NoReplyAssumption == NoReply \notin Response

-----------------------------------------------------------------------------
(* Core.                                                                   *)

\* Mutant of BeginKey: a fresh idempotency key for every invocation.
FreshKeyPerRun(c) == runs[c]

\* The key is an HMAC of the plan and of the scan under the installation
\* secret: every process and every invocation derives the same one.
BeginKey(c) == DerivedKey

WireOp(place) ==
  CASE place = "begin"                   -> "begin"
    [] place \in {"status", "refresh"}   -> "status"
    [] place = "part"                    -> "part"
    [] place \in {"commit", "recommit"}  -> "commit"
    [] place \in {"poll", "recover"}     -> "poll"

NextPart(c) == mem[c].completed + 1

RequestOf(c) ==
  [op   |-> WireOp(pc[c]),
   part |-> IF pc[c] = "part" THEN NextPart(c) ELSE 0,
   key  |-> IF pc[c] = "begin" THEN BeginKey(c) ELSE mem[c].job]

\* What an endpoint answers when the staging record is not open.
ClosedCode == IF staging = "expired" THEN "staging_expired" ELSE "staging_not_open"

PartsComplete == received = 1..N

Accepting == staging = "open" /\ job # "terminal_failed"

CodeFor(r) ==
  CASE r.op = "part" /\ ~Accepting -> ClosedCode
    [] r.op = "commit" /\ Accepting /\ ~PartsComplete -> "incomplete_staging"
    [] r.op = "commit" /\ ~Accepting /\ staging # "sealed" -> ClosedCode
    [] OTHER -> "ok"

\* One staging job per idempotency key; a replay changes nothing.
CoreBegin(r) ==
  IF r.key \in keys
    THEN UNCHANGED coreVars
    ELSE /\ keys' = keys \cup {r.key}
         /\ staging' = "open"
         /\ job' = "queued"
         /\ received' = {}
         /\ cont' = "none"

\* Core accepts any ordinal of an open record, in any order.
CorePart(r) ==
  /\ received' = IF CodeFor(r) = "ok" THEN received \cup {r.part} ELSE received
  /\ UNCHANGED <<keys, staging, job, cont>>

\* Sealing and the creation of the continuation job are one transaction.
CoreCommit(r) ==
  IF Accepting /\ PartsComplete
    THEN /\ staging' = "sealed"
         /\ job' = "succeeded"
         /\ cont' = "queued"
         /\ UNCHANGED <<keys, received>>
    ELSE UNCHANGED coreVars

CoreHandles(r) ==
  CASE r.op = "begin"  -> CoreBegin(r)
    [] r.op = "part"   -> CorePart(r)
    [] r.op = "commit" -> CoreCommit(r)
    [] OTHER           -> UNCHANGED coreVars

AnswerTo(r) ==
  [code |-> CodeFor(r), key |-> r.key, replayed |-> r.key \in keys,
   staging |-> staging', job |-> job', count |-> Cardinality(received'),
   cont |-> cont']

Expire ==
  /\ CoreMayFail
  /\ staging = "open"
  /\ staging' = "expired"
  /\ UNCHANGED <<keys, job, received, cont, strays, reply, pc, mem, replayed,
                 attempts, verdict, disk, announced, budgetVars>>

\* The staging job is interrupted and taken up again, or fails for good,
\* with the record closed or left open.
StagingJobChanges ==
  /\ CoreMayFail
  /\ staging = "open"
  /\ \/ job = "queued" /\ job' = "retryable_failed" /\ UNCHANGED staging
     \/ job = "retryable_failed" /\ job' = "queued" /\ UNCHANGED staging
     \/ /\ job \in {"queued", "retryable_failed"}
        /\ job' = "terminal_failed"
        /\ staging' \in {"open", "failed"}
  /\ UNCHANGED <<keys, received, cont, strays, reply, pc, mem, replayed,
                 attempts, verdict, disk, announced, budgetVars>>

ContinuationStep ==
  /\ \/ cont = "queued" /\ cont' = "running"
     \/ cont = "running" /\ cont' = "succeeded"
     \/ /\ CoreMayFail
        /\ \/ cont = "running" /\ cont' \in {"retryable_failed", "terminal_failed"}
           \/ cont = "retryable_failed" /\ cont' = "running"
  /\ UNCHANGED <<keys, staging, job, received, strays, reply, pc, mem, replayed,
                 attempts, verdict, disk, announced, budgetVars>>

\* A delayed request reaches Core after its sender stopped waiting for it.
StrayArrives ==
  \E r \in strays :
    /\ strays' = strays \ {r}
    /\ CoreHandles(r)
    /\ UNCHANGED <<reply, pc, mem, replayed, attempts, verdict, disk, announced,
                   budgetVars>>

-----------------------------------------------------------------------------
(* One invocation of the command.                                          *)

\* The invocation is over with verdict v; its result has yet to be written.
Conclude(c, v) ==
  /\ verdict' = [verdict EXCEPT ![c] = v]
  /\ pc' = [pc EXCEPT ![c] = "output"]

Goto(c, place) == pc' = [pc EXCEPT ![c] = place]

\* store.save: the record is replaced atomically (tmp file, rename).
Save(c, state) ==
  /\ mem' = [mem EXCEPT ![c] = state]
  /\ disk' = state

\* What is left of a process that is not running.
Forget(c) ==
  /\ pc' = [pc EXCEPT ![c] = "idle"]
  /\ mem' = [mem EXCEPT ![c] = FreshState]
  /\ replayed' = [replayed EXCEPT ![c] = FALSE]
  /\ attempts' = [attempts EXCEPT ![c] = 0]
  /\ reply' = [reply EXCEPT ![c] = NoReply]
  /\ verdict' = [verdict EXCEPT ![c] = "none"]

\* Preflight fails: nothing has been read or written yet.
PreflightFails(c) ==
  /\ pc[c] = "idle"
  /\ runs[c] < MaxRuns /\ faults < MaxFaults
  /\ runs' = [runs EXCEPT ![c] = @ + 1]
  /\ faults' = faults + 1
  /\ Conclude(c, "transport_retry_exhausted")
  /\ UNCHANGED <<coreVars, strays, reply, mem, replayed, attempts, disk,
                 announced, timeouts, crashes>>

\* Without --resume and without a record: the new record is saved in a later
\* step, so another process may find none either.
StartFresh(c) ==
  /\ pc[c] = "idle"
  /\ runs[c] < MaxRuns
  /\ disk = NoState
  /\ runs' = [runs EXCEPT ![c] = @ + 1]
  /\ mem' = [mem EXCEPT ![c] = FreshState]
  /\ Goto(c, "create")
  /\ UNCHANGED <<coreVars, strays, reply, replayed, attempts, verdict, disk,
                 announced, faults, timeouts, crashes>>

StartResume(c) ==
  /\ pc[c] = "idle"
  /\ runs[c] < MaxRuns
  /\ disk # NoState
  /\ runs' = [runs EXCEPT ![c] = @ + 1]
  /\ mem' = [mem EXCEPT ![c] = disk]
  /\ Goto(c, "begin")
  /\ UNCHANGED <<coreVars, strays, reply, replayed, attempts, verdict, disk,
                 announced, faults, timeouts, crashes>>

\* --resume without a record, or a record without --resume.
StartRefused(c) ==
  /\ pc[c] = "idle"
  /\ Conclude(c, IF disk = NoState THEN "resume_state_not_found"
                                   ELSE "resume_required")
  /\ UNCHANGED <<coreVars, strays, reply, mem, replayed, attempts, disk,
                 announced, budgetVars>>

CreateState(c) ==
  /\ pc[c] = "create"
  /\ Save(c, FreshState)
  /\ Goto(c, "begin")
  /\ UNCHANGED <<coreVars, strays, reply, replayed, attempts, verdict,
                 announced, budgetVars>>

-----------------------------------------------------------------------------
(* postWithRetry.                                                          *)

\* The request reaches Core and its response comes back; the process reads
\* it in a later step.
Deliver(c) ==
  LET r == RequestOf(c) IN
  /\ pc[c] \in Posting /\ reply[c] = NoReply
  /\ CoreHandles(r)
  /\ reply' = [reply EXCEPT ![c] = AnswerTo(r)]
  /\ UNCHANGED <<strays, pc, mem, replayed, attempts, verdict, disk, announced,
                 budgetVars>>

\* The request is lost, or handled with its response lost, or late.
Unanswered(r) ==
  \/ UNCHANGED <<coreVars, strays>>
  \/ CoreHandles(r) /\ UNCHANGED strays
  \/ strays' = strays \cup {r} /\ UNCHANGED coreVars

\* Only the refresh after a rejected part reports the part's error instead
\* of its own.
GiveUp(c) ==
  Conclude(c, IF pc[c] = "refresh" THEN "staging_not_open"
                                   ELSE "transport_retry_exhausted")

AttemptFails(c) ==
  /\ pc[c] \in Posting /\ reply[c] = NoReply
  /\ faults < MaxFaults
  /\ faults' = faults + 1
  /\ Unanswered(RequestOf(c))
  /\ IF attempts[c] + 1 < RetryAttempts
       THEN /\ attempts' = [attempts EXCEPT ![c] = @ + 1]
            /\ UNCHANGED <<pc, verdict>>
       ELSE /\ GiveUp(c)
            /\ UNCHANGED attempts
  /\ UNCHANGED <<reply, mem, replayed, disk, announced, runs, timeouts, crashes>>

\* The context with the deadline covers every request and every sleep.
UnderDeadline == Posting

\* --timeout passes while the process sends, reads or sleeps between polls.
DeadlinePasses(c) ==
  /\ pc[c] \in UnderDeadline
  /\ timeouts < MaxTimeouts
  /\ timeouts' = timeouts + 1
  /\ IF reply[c] = NoReply THEN Unanswered(RequestOf(c))
                           ELSE UNCHANGED <<coreVars, strays>>
  /\ GiveUp(c)
  /\ reply' = [reply EXCEPT ![c] = NoReply]
  /\ UNCHANGED <<mem, replayed, attempts, disk, announced, runs, faults, crashes>>

\* Guard and bookkeeping shared by the handlers of responses.
Reads(c, places) ==
  /\ pc[c] \in places /\ reply[c] # NoReply
  /\ reply' = [reply EXCEPT ![c] = NoReply]
  /\ attempts' = [attempts EXCEPT ![c] = 0]
  /\ UNCHANGED <<coreVars, strays, announced, budgetVars>>

-----------------------------------------------------------------------------
(* Handlers of responses.                                                  *)

\* Mutant of Transfer: the last part is skipped.
TransferLessOne(state) == IF state.completed + 1 < N THEN "part" ELSE "commit"

Transfer(state) == IF state.completed < N THEN "part" ELSE "commit"

OnBegin(c) ==
  LET s == reply[c]
      state == [mem[c] EXCEPT !.job = s.key] IN
  /\ Reads(c, {"begin"})
  /\ IF mem[c].job \notin {NoJob, s.key}
       THEN /\ Conclude(c, "begin_replay_identity_mismatch")
            /\ UNCHANGED <<mem, replayed, disk>>
       ELSE /\ Save(c, state)
            /\ replayed' = [replayed EXCEPT ![c] = s.replayed]
            /\ Goto(c, IF s.replayed THEN "status" ELSE Transfer(state))
            /\ UNCHANGED verdict

\* Mutant of StatusError: a sealed record is reported as not open.
SealedIsError(c, s) ==
  CASE s.staging = "expired" -> "staging_expired"
    [] s.staging = "sealed" -> "staging_not_open"
    [] OTHER -> "ok"

\* reconcileStagingStatus: the error the status calls for, or "ok".
StatusError(c, s) ==
  CASE s.staging = "expired" -> "staging_expired"
    [] s.staging = "failed" -> "terminal_failed"
    [] s.staging = "open" /\ s.job = "retryable_failed" -> "retryable_failed"
    [] s.staging = "open" /\ s.job = "terminal_failed" -> "terminal_failed"
    [] s.staging = "sealed" /\ (s.count # N \/ s.job # "succeeded")
         -> "replay_status_mismatch"
    [] s.staging = "none" -> "replay_status_mismatch"
    [] s.staging \in {"open", "sealed"} /\ mem[c].completed > s.count
         -> "replay_count_mismatch"
    [] OTHER -> "ok"

\* Mutants of Adopted: one part too many is taken for done.
AdoptedOneMore(c, s) ==
  [mem[c] EXCEPT !.completed = IF s.count < N THEN s.count + 1 ELSE N]
AdoptedUncapped(c, s) == [mem[c] EXCEPT !.completed = s.count + 1]

\* The state after the prefix Core confirms has been adopted.
Adopted(c, s) == [mem[c] EXCEPT !.completed = s.count]

OnStatus(c) ==
  LET s == reply[c]
      error == StatusError(c, s) IN
  /\ Reads(c, {"status"})
  /\ IF error # "ok"
       THEN Conclude(c, error) /\ UNCHANGED <<mem, disk>>
       ELSE /\ Save(c, Adopted(c, s))
            /\ Goto(c, IF s.staging = "sealed" THEN "recommit"
                                               ELSE Transfer(Adopted(c, s)))
            /\ UNCHANGED verdict
  /\ UNCHANGED replayed

\* refreshSealedRace: only a sealed record saves the invocation.
OnRefresh(c) ==
  LET s == reply[c]
      error == StatusError(c, s) IN
  /\ Reads(c, {"refresh"})
  /\ IF error = "ok" THEN Save(c, Adopted(c, s)) ELSE UNCHANGED <<mem, disk>>
  /\ IF error = "ok" /\ s.staging = "sealed"
       THEN Goto(c, "recommit") /\ UNCHANGED verdict
       ELSE Conclude(c, "staging_not_open")
  /\ UNCHANGED replayed

\* Another process may have sealed the record since it was read.
RaceSuspected(c, s) == s.code = "staging_not_open" /\ replayed[c]

OnPart(c) ==
  LET s == reply[c]
      state == [mem[c] EXCEPT !.completed = @ + 1] IN
  /\ Reads(c, {"part"})
  /\ \/ /\ s.code = "ok" /\ s.count >= NextPart(c)
        /\ Save(c, state)
        /\ Goto(c, Transfer(state))
        /\ UNCHANGED verdict
     \/ /\ s.code = "ok" /\ s.count < NextPart(c)
        /\ Conclude(c, "part_response_mismatch")
        /\ UNCHANGED <<mem, disk>>
     \/ /\ RaceSuspected(c, s)
        /\ Goto(c, "refresh")
        /\ UNCHANGED <<mem, disk, verdict>>
     \/ /\ s.code # "ok" /\ ~RaceSuspected(c, s)
        /\ Conclude(c, s.code)
        /\ UNCHANGED <<mem, disk>>
  /\ UNCHANGED replayed

\* Mutant of CommitProved: a record that is not open is taken for sealed.
ClosedIsProof(s) == s.code \in {"ok", "staging_not_open"}

CommitProved(s) == s.code = "ok" /\ s.staging = "sealed" /\ s.count = N

\* With --wait the continuation is polled; without it, a run that found the
\* snapshot already sealed asks for the continuation once.
OnCommit(c) ==
  LET s == reply[c] IN
  /\ Reads(c, {"commit", "recommit"})
  /\ \/ /\ CommitProved(s)
        /\ Save(c, [mem[c] EXCEPT !.completed = N])
        /\ \/ Goto(c, "poll") /\ UNCHANGED verdict
           \/ pc[c] = "recommit" /\ Goto(c, "recover") /\ UNCHANGED verdict
           \/ pc[c] = "commit" /\ Conclude(c, "snapshot_committed")
     \/ /\ s.code = "ok" /\ ~CommitProved(s)
        /\ Conclude(c, "commit_response_mismatch")
        /\ UNCHANGED <<mem, disk>>
     \/ /\ s.code # "ok" /\ ~CommitProved(s)
        /\ Conclude(c, s.code)
        /\ UNCHANGED <<mem, disk>>
  /\ UNCHANGED replayed

\* Mutant of Unfinished: a success is waited for as well.
UnlessFailed(s) == s.cont # "terminal_failed"

\* The states applyContinuationStatus has the command wait in.
Unfinished(s) == s.cont \in {"queued", "running", "retryable_failed"}

\* waitForContinuation and recoverContinuation: the observed state is saved
\* before it is judged.
OnContinuation(c) ==
  LET s == reply[c] IN
  /\ Reads(c, {"poll", "recover"})
  /\ \/ /\ s.staging = "sealed" /\ s.cont # "none"
        /\ Save(c, mem[c])
        /\ \/ s.cont = "succeeded" /\ Conclude(c, "succeeded")
           \/ s.cont = "terminal_failed" /\ Conclude(c, "terminal_failed")
           \/ /\ Unfinished(s)
              /\ IF pc[c] = "poll" THEN UNCHANGED <<pc, verdict>>
                                   ELSE Conclude(c, "snapshot_committed")
     \/ /\ s.staging # "sealed" \/ s.cont = "none"
        /\ Conclude(c, "continuation_response_mismatch")
        /\ UNCHANGED <<mem, disk>>
  /\ UNCHANGED replayed

-----------------------------------------------------------------------------
(* The end of an invocation: stdout first, then the resume record.         *)

Output(c) ==
  /\ pc[c] = "output"
  /\ announced' = announced \cup ({<<c, verdict[c]>>} \cap (Clients \X Success))
  /\ Goto(c, "finalize")
  /\ UNCHANGED <<coreVars, strays, reply, mem, replayed, attempts, verdict,
                 disk, budgetVars>>

RemovesState(c) == verdict[c] \in Success \cup Discards

Finalize(c) ==
  /\ pc[c] = "finalize"
  /\ disk' = IF RemovesState(c) THEN NoState ELSE disk
  /\ Forget(c)
  /\ UNCHANGED <<coreVars, strays, announced, budgetVars>>

\* The process dies, or cannot write its result: what is on disk stays.
\* A request it had on the wire is lost, handled or late.
Crash(c) ==
  /\ pc[c] # "idle"
  /\ crashes < MaxCrashes
  /\ crashes' = crashes + 1
  /\ IF pc[c] \in Posting /\ reply[c] = NoReply
       THEN Unanswered(RequestOf(c))
       ELSE UNCHANGED <<coreVars, strays>>
  /\ Forget(c)
  /\ UNCHANGED <<disk, announced, runs, faults, timeouts>>

-----------------------------------------------------------------------------
(* The system.                                                             *)

Init ==
  /\ keys = {}
  /\ staging = "none" /\ job = "none" /\ received = {} /\ cont = "none"
  /\ strays = {}
  /\ reply = [c \in Clients |-> NoReply]
  /\ pc = [c \in Clients |-> "idle"]
  /\ mem = [c \in Clients |-> FreshState]
  /\ replayed = [c \in Clients |-> FALSE]
  /\ attempts = [c \in Clients |-> 0]
  /\ verdict = [c \in Clients |-> "none"]
  /\ disk = NoState
  /\ announced = {}
  /\ runs = [c \in Clients |-> 0]
  /\ faults = 0 /\ timeouts = 0 /\ crashes = 0

\* The user follows the messages of the command: --resume iff a record exists.
Rerun(c) == StartFresh(c) \/ StartResume(c)

Handle(c) ==
  \/ OnBegin(c) \/ OnStatus(c) \/ OnRefresh(c) \/ OnPart(c)
  \/ OnCommit(c) \/ OnContinuation(c)

\* What a process does by itself once it runs.
Proceed(c) ==
  CreateState(c) \/ Deliver(c) \/ Handle(c) \/ Output(c) \/ Finalize(c)

Environment == Expire \/ StagingJobChanges \/ ContinuationStep \/ StrayArrives

Next ==
  \/ Environment
  \/ \E c \in Clients :
       \/ PreflightFails(c) \/ Rerun(c) \/ StartRefused(c)
       \/ Proceed(c) \/ AttemptFails(c) \/ DeadlinePasses(c) \/ Crash(c)

Spec == Init /\ [][Next]_vars

\* A process that can go on does; a timeout that can pass does; Core works
\* on the continuation; a user who keeps running the command does not pass
\* the wrong --resume for ever.
Fairness ==
  /\ WF_vars(ContinuationStep)
  /\ \A c \in Clients :
       /\ WF_vars(Proceed(c))
       /\ WF_vars(DeadlinePasses(c))
       /\ SF_vars(Rerun(c))

FairSpec == Spec /\ Fairness

-----------------------------------------------------------------------------
(* Properties.                                                             *)

\* Every variable has its type.
TypeOK ==
  /\ keys \in SUBSET Nat
  /\ staging \in Staging /\ job \in JobState /\ cont \in ContState
  /\ received \in SUBSET (1..N)
  /\ strays \in SUBSET Request
  /\ reply \in [Clients -> Response \cup {NoReply}]
  /\ pc \in [Clients -> PC]
  /\ mem \in [Clients -> StateRecord]
  /\ replayed \in [Clients -> BOOLEAN]
  /\ attempts \in [Clients -> Nat]
  /\ verdict \in [Clients -> Verdict \cup {"none"}]
  /\ disk \in StateRecord \cup {NoState}
  /\ announced \in SUBSET (Clients \X Success)
  /\ runs \in [Clients -> Nat]
  /\ faults \in Nat /\ timeouts \in Nat /\ crashes \in Nat

\* Core would take parts in any order, and the client learns only how many
\* it has: resuming from a count is right because the accepted parts are
\* always a prefix, whoever sent them and however late (upload.go parts).
AcceptedInOrder == \E k \in 0..N : received = 1..k

\* No invocation blames the protocol: with a Core that keeps its word, no
\* process ends with a replay, part, commit or continuation mismatch or with
\* incomplete_staging, so no retained record is stuck behind one.
NoSpuriousContractFailure == \A c \in Clients : verdict[c] \notin Contract

\* A success on stdout is true of Core: committed means sealed with all the
\* parts, succeeded means that the continuation did.
SuccessIsBacked ==
  \A c \in Clients :
    /\ <<c, "snapshot_committed">> \in announced => staging = "sealed" /\ PartsComplete
    /\ <<c, "succeeded">> \in announced => staging = "sealed" /\ cont = "succeeded"

\* While Core holds an open record, the resume record that leads back to it
\* is on disk: no crash, timeout or failed run orphans it.
OpenStagingIsResumable ==
  staging = "open" /\ job # "terminal_failed" => disk # NoState

\* No run, resumed or fresh, opens a second staging record: what Core has
\* accepted it keeps, and a sealed snapshot stays sealed.
AcceptedWorkKept ==
  [][received \subseteq received' /\ (staging = "sealed" => staging' = "sealed")]_vars

\* A run that reports a terminal failure met one: Core's staging or its
\* continuation is terminally over.
TerminalIsCoreTerminal ==
  \A c \in Clients :
    verdict[c] \in Terminal => staging # "sealed" \/ cont = "terminal_failed"

\* The positive counterpart of a deadlock: an invocation always ends, by
\* its own --timeout if by nothing else.
InvocationsEnd ==
  \A c \in Clients : pc[c] # "idle" ~> pc[c] = "idle"

\* With finitely many faults, and a Core that does not fail, a user who runs
\* the command again (with --resume when a record exists) gets the snapshot
\* uploaded.
EventuallyUploaded ==
  <>(\E c \in Clients, v \in Success : <<c, v>> \in announced)

-----------------------------------------------------------------------------
(* The abstract specification.                                             *)

AbstractRecord ==
  CASE staging = "none" -> "absent"
    [] staging \in {"open", "sealed"} -> staging
    [] OTHER -> "closed"

Promise == INSTANCE SnapshotPromise WITH
  record <- AbstractRecord,
  accepted <- received,
  ingested <- cont = "succeeded",
  told <- announced

\* The processes together implement SnapshotPromise.
KeepsPromise == Promise!Spec

-----------------------------------------------------------------------------
(* The inductive invariant behind the safety properties.  Its idea: Core   *)
(* only grows, and whatever a process, a response or a delayed request     *)
(* once learned about Core stays true of it.                               *)

\* Nothing can be added to the staging record any more.
Settled == staging \in {"sealed", "expired", "failed"} \/ job = "terminal_failed"

CoreFits ==
  /\ AcceptedInOrder
  /\ staging = "none" => /\ keys = {} /\ received = {}
                         /\ job = "none" /\ cont = "none"
  /\ staging # "none" => keys = {DerivedKey}
  /\ staging = "sealed" => PartsComplete /\ job = "succeeded" /\ cont # "none"
  /\ staging # "sealed" => cont = "none"

\* A copy of the resume record never runs ahead of Core.
StateFits(state) ==
  /\ 1..state.completed \subseteq received
  /\ state.job \in {NoJob, DerivedKey}

\* A request that Core may yet handle.
RequestFits(r) ==
  /\ r.op = "begin" => r.key = DerivedKey
  /\ r.op # "begin" => staging # "none"
  /\ r.op = "part" => r.part \in 1..N /\ 1..(r.part - 1) \subseteq received

BeginPending ==
  (\E r \in strays : r.op = "begin") \/ (\E c \in Clients : pc[c] = "begin")

RecordFits ==
  /\ disk # NoState => StateFits(disk)
  /\ ~Settled /\ (staging # "none" \/ BeginPending) => disk # NoState

PlaceFits(c) ==
  /\ StateFits(mem[c])
  /\ pc[c] \in Posting \ {"begin"} => mem[c].job = DerivedKey /\ staging # "none"
  /\ pc[c] = "part" => mem[c].completed < N
  /\ pc[c] \in {"commit", "recommit"} => mem[c].completed = N
  /\ pc[c] \in {"poll", "recover"} => staging = "sealed"
  /\ pc[c] = "refresh" => Settled

\* A response tells the past: what it reports still holds when it is read.
ReplyFits(c, s) ==
  /\ pc[c] \in Posting
  /\ s.key = DerivedKey /\ staging # "none" /\ s.staging # "none"
  /\ 1..s.count \subseteq received /\ mem[c].completed <= s.count
  /\ s.staging = "sealed" => /\ staging = "sealed" /\ s.count = N
                             /\ s.job = "succeeded" /\ s.cont # "none"
  /\ s.cont = "succeeded" => cont = "succeeded"
  /\ \/ s.staging \in {"sealed", "expired", "failed"}
     \/ s.job = "terminal_failed"
     \/ s.code # "ok"
     => Settled
  /\ s.code # "incomplete_staging"
  /\ pc[c] = "part" /\ s.code = "ok" => NextPart(c) <= s.count
  /\ pc[c] \in {"commit", "recommit"} /\ s.code = "ok" => s.staging = "sealed"
  /\ pc[c] \in {"poll", "recover"} => s.staging = "sealed"

VerdictFits(c) ==
  /\ verdict[c] \notin Contract
  /\ verdict[c] \in Success => staging = "sealed"
  /\ verdict[c] = "succeeded" => cont = "succeeded"
  /\ verdict[c] \in Discards => Settled

ClientFits(c) ==
  /\ PlaceFits(c)
  /\ reply[c] # NoReply => ReplyFits(c, reply[c])
  /\ VerdictFits(c)

AnnouncedFits ==
  \A p \in announced : staging = "sealed" /\ (p[2] = "succeeded" => cont = "succeeded")

\* The inductive invariant: every component fits what Core holds now
\* (RunUpload's resume logic relies on nothing else).
IInv ==
  /\ CoreFits
  /\ RecordFits
  /\ \A r \in strays : RequestFits(r)
  /\ \A c \in Clients : ClientFits(c)
  /\ AnnouncedFits

-----------------------------------------------------------------------------
(* What one process by itself can rely on besides.                         *)

\* Core's staging ended without a snapshot.
Closed == Settled /\ staging # "sealed"

\* A commit was carried out, or may be yet.
CommitSent == staging = "sealed" \/ \E r \in strays : r.op = "commit"

\* Nobody else commits: once it sent a commit, c finds every part at Core when it
\* resumes, and sends no part that a sealed record would reject.
AloneFits(c) ==
  /\ CommitSent => PartsComplete /\ pc[c] \notin {"part", "refresh"}
  /\ verdict[c] \in Terminal => Closed \/ cont = "terminal_failed"
  /\ reply[c] # NoReply =>
       /\ CommitSent /\ pc[c] = "begin" => reply[c].replayed
       /\ CommitSent /\ pc[c] = "status" => reply[c].count = N
       /\ \/ reply[c].staging \in {"expired", "failed"}
          \/ reply[c].job = "terminal_failed"
          \/ pc[c] \in {"commit", "recommit"} /\ reply[c].code # "ok"
          => Closed
       /\ reply[c].cont = "terminal_failed" => cont = "terminal_failed"
=============================================================================
