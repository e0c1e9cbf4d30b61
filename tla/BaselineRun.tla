------------------------------ MODULE BaselineRun ------------------------------
(***************************************************************************)
(* `compair baseline run` (run.go, run_state.go): the review of one plan   *)
(* over the publication of one index result is submitted to Core and       *)
(* polled. As in the index build, a resume record on disk is written       *)
(* without a lock by every process that works on the run; unlike there,    *)
(* what Core requires is compared with the index result before the record  *)
(* is looked at, and a resume may submit although admission is closed.     *)
(*                                                                         *)
(* The plan, the index result and the scan of the revisions are valid and  *)
(* belong together: their checks leave no trace when they fail.            *)
(***************************************************************************)
EXTENDS Naturals

CONSTANTS
  Processes,    \* concurrent invocations
  Attempts,     \* requests sent before postWithRetry gives up
  MaxRuns,      \* bound: invocations of all processes
  MaxFaults,    \* bound: lost requests, timeouts, refused credentials, failed saves
  MaxCrashes,   \* bound: process deaths
  MaxUpgrades   \* bound: changes of Core's capabilities

AttemptsAssumption == Attempts \in Nat \ {0}
BoundsAssumption ==
  MaxRuns \in Nat /\ MaxFaults \in Nat /\ MaxCrashes \in Nat /\ MaxUpgrades \in Nat

VARIABLES
  jobs,        \* Core: the runs, each [key, state]
  ready,       \* Core: baseline_run is ready
  compatible,  \* Core: it requires the identity that the index was built with
  refused,     \* Core: it has refused a submission for a stale publication
  record,      \* the resume record on disk
  me,          \* me[p]: the memory of process p
  told,        \* history: the ends of the run that results on stdout reported
  runs, faults, crashes, upgrades   \* counters for the bounds

core == <<jobs, ready, compatible, refused>>
counters == <<runs, faults, crashes, upgrades>>
vars == <<jobs, ready, compatible, refused, record, me, told,
          runs, faults, crashes, upgrades>>

Pending == {"queued", "running", "references_persisted", "retryable_failed"}
Failed == {"insufficient", "terminal_failed", "blocked", "cancelled"}
Ended == Failed \cup {"feedback_persisted"}
JobState == Pending \cup Ended
Job == [key : Nat, state : JobState]

\* runState: whether it names a job, and SafeState; "none" is no record.
StateRecord ==
  [job : BOOLEAN,
   safe : {"none", "prepared", "retryable_incomplete", "conflict"} \cup JobState]
Result == {"preflight", "retryable_incomplete", "failed"} \cup JobState
Kinds == {"input", "auth", "capability", "conflict", "retryable", "terminal", "internal"}
Modes == {"submit", "resume", "inspect"}
PC == {"idle", "capabilities", "load", "create", "submit", "accepted", "status",
       "apply", "failing", "output", "finalize"}
Memory ==
  [pc : PC, mode : Modes, wait : BOOLEAN, key : Nat, ready : BOOLEAN,
   state : StateRecord, attempt : 0..Attempts - 1, seen : JobState,
   why : Kinds, result : Result, cleanup : BOOLEAN]

\* Mutant of Blocked: an incomplete run cannot be resumed either.
BlockedToo == {"terminal_failed", "blocked", "cancelled", "conflict", "retryable_incomplete"}

\* The marks in a record that no resume gets past; an insufficient run may be
\* asked for again.
Blocked == {"terminal_failed", "blocked", "cancelled", "conflict"}

-----------------------------------------------------------------------------
(* Core.                                                                   *)

Known(key) == {j \in jobs : j.key = key}

\* A known key is replayed, also when new runs are not admitted.
Replays(key) == Known(key) # {}
Refuses(key) == ~Replays(key) /\ ~ready
Stale(key) == ~Replays(key) /\ ready /\ ~compatible
Accepts(key) == Replays(key) \/ (ready /\ compatible)

CoreAccepts(key) ==
  jobs' = IF Replays(key) THEN jobs ELSE jobs \cup {[key |-> key, state |-> "queued"]}

\* The worker advances a run; an ended one stays.
JobStep ==
  /\ \E j \in jobs, state \in JobState \ {"queued"} :
       /\ j.state \in Pending /\ state # j.state
       /\ jobs' = (jobs \ {j}) \cup {[j EXCEPT !.state = state]}
  /\ UNCHANGED <<ready, compatible, refused, record, me, told, counters>>

\* Readiness, or the identity that Core requires, changes.
Upgrade ==
  /\ upgrades < MaxUpgrades
  /\ upgrades' = upgrades + 1
  /\ \/ ready' = ~ready /\ UNCHANGED compatible
     \/ compatible' = ~compatible /\ UNCHANGED ready
  /\ UNCHANGED <<jobs, refused, record, me, told, runs, faults, crashes>>

-----------------------------------------------------------------------------
(* An invocation.                                                          *)

NoRecord == [job |-> FALSE, safe |-> "none"]
Absent(state) == state.safe = "none"

\* Mutant of Key: a later process derives another one.
FreshKey(p) == runs

\* The idempotency key derives from the secret and the intent of the run.
Key(p) == 0

Idle ==
  [pc |-> "idle", mode |-> "submit", wait |-> FALSE, key |-> 0, ready |-> FALSE,
   state |-> NoRecord, attempt |-> 0, seen |-> "queued", why |-> "input",
   cleanup |-> FALSE, result |-> "preflight"]

Set(p, memory) == me' = [me EXCEPT ![p] = memory]
Goto(p, place) == Set(p, [me[p] EXCEPT !.pc = place, !.attempt = 0])
Fails(p, kind) == Set(p, [me[p] EXCEPT !.pc = "failing", !.why = kind])

\* A save that fails may have replaced the file before.
SaveFails(state) ==
  /\ faults < MaxFaults
  /\ faults' = faults + 1
  /\ record' \in {record, state}

Start(p, mode, wait) ==
  /\ me[p].pc = "idle"
  /\ runs < MaxRuns
  /\ runs' = runs + 1
  /\ Set(p, [me[p] EXCEPT !.pc = "capabilities", !.mode = mode, !.wait = wait,
               !.key = Key(p)])
  /\ UNCHANGED <<core, record, told, faults, crashes, upgrades>>

\* `run status --job-id`, for a job that Core has.
StartInspect(p) ==
  /\ jobs # {}
  /\ Start(p, "inspect", FALSE)

\* What Core requires is compared with the index result (validateRunCapabilityIntent).
MatchesIndex(p) == me[p].mode = "inspect" \/ compatible

Capabilities(p) ==
  /\ me[p].pc = "capabilities"
  /\ \/ MatchesIndex(p)
        /\ Set(p, [me[p] EXCEPT !.attempt = 0, !.ready = ready,
                     !.pc = IF me[p].mode = "inspect" THEN "status" ELSE "load"])
     \/ ~MatchesIndex(p) /\ Fails(p, "conflict")
  /\ UNCHANGED <<core, record, told, counters>>

\* Mutant of MaySubmit: a resume needs readiness as well.
OnlyWhenReady(m) == m.ready

\* A resume may replay a submission whose response was lost.
MaySubmit(m) == m.mode = "resume" \/ m.ready

\* The record decides how to go on.
Load(p) ==
  LET m == me[p]
      known == [m EXCEPT !.state = record, !.ready = FALSE]
      stop(kind) == Set(p, [known EXCEPT !.pc = "failing", !.why = kind])
      go(place) == Set(p, [known EXCEPT !.pc = place])
  IN
  /\ m.pc = "load"
  /\ \/ /\ (m.mode = "resume") = Absent(record)
        /\ Fails(p, "input")
     \/ /\ m.mode = "submit" /\ Absent(record)
        /\ IF m.ready THEN go("create") ELSE stop("capability")
     \/ /\ m.mode = "resume" /\ ~Absent(record)
        /\ \/ record.safe \in Blocked /\ stop("conflict")
           \/ record.safe \notin Blocked /\ record.job /\ go("status")
           \/ record.safe \notin Blocked /\ ~record.job /\ MaySubmit(m) /\ go("submit")
           \/ record.safe \notin Blocked /\ ~record.job /\ ~MaySubmit(m) /\ stop("capability")
  /\ UNCHANGED <<core, record, told, counters>>

\* A first invocation writes the record before it submits.
Create(p) ==
  LET fresh == [NoRecord EXCEPT !.safe = "prepared"] IN
  /\ me[p].pc = "create"
  /\ \/ record' = fresh /\ UNCHANGED faults
        /\ Set(p, [me[p] EXCEPT !.pc = "submit", !.state = fresh])
     \/ SaveFails(fresh) /\ Fails(p, "internal")
  /\ UNCHANGED <<core, told, runs, crashes, upgrades>>

Submit(p) ==
  LET key == me[p].key IN
  /\ me[p].pc = "submit"
  /\ \/ Refuses(key) /\ Fails(p, "capability") /\ UNCHANGED <<jobs, refused>>
     \/ Stale(key) /\ Fails(p, "conflict") /\ refused' = TRUE /\ UNCHANGED jobs
     \/ Accepts(key) /\ CoreAccepts(key) /\ Goto(p, "accepted") /\ UNCHANGED refused
  /\ UNCHANGED <<ready, compatible, record, told, counters>>

\* The accepted job is saved; a plain submission ends here.
Accepted(p) ==
  LET saved == [job |-> TRUE, safe |-> "queued"] IN
  /\ me[p].pc = "accepted"
  /\ \/ /\ record' = saved /\ UNCHANGED faults
        /\ Set(p, [me[p] EXCEPT !.state = saved, !.result = "queued",
                     !.pc = IF me[p].wait \/ me[p].mode = "resume" THEN "status" ELSE "output"])
     \/ SaveFails(saved) /\ Set(p, [me[p] EXCEPT !.state = saved, !.pc = "failing",
                                      !.why = "internal"])
  /\ UNCHANGED <<core, told, runs, crashes, upgrades>>

Poll(p) ==
  /\ me[p].pc = "status"
  /\ \E j \in Known(me[p].key) :
       Set(p, [me[p] EXCEPT !.pc = "apply", !.attempt = 0, !.seen = j.state])
  /\ UNCHANGED <<core, record, told, counters>>

\* Mutant of CleansUp: any ended run ends the record.
CleansUpWhenEnded(m) == m.mode # "inspect" /\ m.seen \in Ended

\* The record is removed after a success only, and never by `run status`.
CleansUp(m) == m.mode # "inspect" /\ m.seen = "feedback_persisted"

\* What wait does with a status: an ended run without success is a failure.
AfterStatus(p, known) ==
  \/ /\ known.wait /\ known.seen \in Failed
     /\ Set(p, [known EXCEPT !.pc = "failing", !.why = "terminal"])
  \/ /\ known.wait /\ known.seen \in Pending
     /\ Set(p, [known EXCEPT !.pc = "status"])
  \/ /\ ~known.wait \/ known.seen = "feedback_persisted"
     /\ Set(p, [known EXCEPT !.pc = "output", !.cleanup = CleansUp(known)])

\* applyStatus saves what was seen, except for `run status`, which has no record.
Apply(p) ==
  LET m == me[p]
      saved == [m.state EXCEPT !.safe = m.seen]
      shown == [m EXCEPT !.result = m.seen]
      known == [shown EXCEPT !.state = saved]
  IN
  /\ m.pc = "apply"
  /\ \/ m.mode = "inspect" /\ AfterStatus(p, shown) /\ UNCHANGED <<record, faults>>
     \/ m.mode # "inspect" /\ AfterStatus(p, known) /\ record' = saved /\ UNCHANGED faults
     \/ /\ m.mode # "inspect" /\ SaveFails(saved)
        /\ Set(p, [known EXCEPT !.pc = "failing", !.why = "internal"])
  /\ UNCHANGED <<core, told, runs, crashes, upgrades>>

\* Mutant of SafeAfter: every end of the run is marked alike.
FailedAfter(p) ==
  CASE me[p].why = "retryable" -> "retryable_incomplete"
    [] me[p].why = "conflict" -> "conflict"
    [] me[p].why = "terminal" -> "terminal_failed"
    [] OTHER -> me[p].state.safe

\* The mark that a failure leaves in the record.
SafeAfter(p) ==
  CASE me[p].why = "retryable" -> "retryable_incomplete"
    [] me[p].why = "conflict" -> "conflict"
    [] me[p].why = "terminal" -> me[p].result
    [] OTHER -> me[p].state.safe

ResultAfter(kind, state) ==
  CASE kind = "retryable" -> "retryable_incomplete"
    [] kind = "terminal" -> state
    [] OTHER -> "failed"

\* failure and setRunFailure: the process's own copy of the record is saved.
Failure(p) ==
  LET m == me[p]
      marked == [m.state EXCEPT !.safe = SafeAfter(p)]
      failed(kind) == Set(p, [m EXCEPT !.pc = "output", !.result = ResultAfter(kind, @)])
  IN
  /\ m.pc = "failing"
  /\ \/ Absent(m.state) /\ failed(m.why) /\ UNCHANGED <<record, faults>>
     \/ ~Absent(m.state) /\ failed(m.why) /\ record' = marked /\ UNCHANGED faults
     \/ ~Absent(m.state) /\ failed("internal") /\ SaveFails(marked)
  /\ UNCHANGED <<core, told, runs, crashes, upgrades>>

\* Process p ends, and forgets.
Ends(p) == Set(p, Idle)

Output(p) ==
  /\ me[p].pc = "output"
  /\ told' = told \cup ({me[p].result} \cap Ended)
  /\ IF me[p].cleanup THEN Goto(p, "finalize") ELSE Ends(p)
  /\ UNCHANGED <<core, record, counters>>

Finalize(p) ==
  /\ me[p].pc = "finalize"
  /\ record' = NoRecord
  /\ Ends(p)
  /\ UNCHANGED <<core, told, counters>>

-----------------------------------------------------------------------------
(* Trouble.                                                                *)

Requesting == {"capabilities", "submit", "status"}

LastAttempt(p) == me[p].attempt + 1 >= Attempts

\* A request or its response is lost; the last attempt fails the invocation.
Lost(p) ==
  LET m == me[p] IN
  /\ m.pc \in Requesting /\ faults < MaxFaults
  /\ faults' = faults + 1
  /\ \/ UNCHANGED jobs
     \/ m.pc = "submit" /\ Accepts(m.key) /\ CoreAccepts(m.key)
  /\ IF LastAttempt(p)
       THEN Fails(p, "retryable")
       ELSE Set(p, [m EXCEPT !.attempt = @ + 1])
  /\ UNCHANGED <<ready, compatible, refused, record, told, runs, crashes, upgrades>>

\* The credentials are refused.
Unauthorized(p) ==
  /\ me[p].pc \in Requesting /\ faults < MaxFaults
  /\ faults' = faults + 1
  /\ Fails(p, "auth")
  /\ UNCHANGED <<core, record, told, runs, crashes, upgrades>>

\* --timeout cuts a request, a pause between attempts or a pause of the poll.
TimesOut(p) ==
  /\ me[p].pc \in Requesting /\ faults < MaxFaults
  /\ faults' = faults + 1
  /\ Fails(p, "retryable")
  /\ UNCHANGED <<core, record, told, runs, crashes, upgrades>>

Crash(p) ==
  /\ me[p].pc # "idle" /\ crashes < MaxCrashes
  /\ crashes' = crashes + 1
  /\ Ends(p)
  /\ UNCHANGED <<core, record, told, runs, faults, upgrades>>

-----------------------------------------------------------------------------

Init ==
  /\ jobs = {} /\ ready = TRUE /\ compatible = TRUE /\ refused = FALSE
  /\ record = NoRecord
  /\ me = [p \in Processes |-> Idle]
  /\ told = {}
  /\ runs = 0
  /\ faults = 0 /\ crashes = 0 /\ upgrades = 0

\* The steps of a running process.
Proceed(p) ==
  \/ Capabilities(p) \/ Load(p) \/ Create(p) \/ Submit(p) \/ Accepted(p)
  \/ Poll(p) \/ Apply(p) \/ Failure(p) \/ Output(p) \/ Finalize(p)

Trouble(p) == Lost(p) \/ Unauthorized(p) \/ TimesOut(p) \/ Crash(p)

Next ==
  \/ \E p \in Processes :
       \/ \E mode \in {"submit", "resume"}, wait \in BOOLEAN : Start(p, mode, wait)
       \/ StartInspect(p) \/ Proceed(p) \/ Trouble(p)
  \/ JobStep \/ Upgrade

Spec == Init /\ [][Next]_vars

-----------------------------------------------------------------------------
(* Properties.                                                             *)

\* Every variable has its type.
TypeOK ==
  /\ jobs \subseteq Job /\ ready \in BOOLEAN /\ compatible \in BOOLEAN /\ refused \in BOOLEAN
  /\ record \in StateRecord
  /\ me \in [Processes -> Memory]
  /\ told \subseteq Ended
  /\ runs \in 0..MaxRuns
  /\ faults \in 0..MaxFaults /\ crashes \in 0..MaxCrashes /\ upgrades \in 0..MaxUpgrades

Announced(states) == \E j \in jobs : j.state \in states

\* Core has at most one run of the intent: submit derives its key from it.
OneJob == \A j, k \in jobs : j = k

\* What a result or the record says of an ended run is Core's last word on it,
\* although the record is saved by several processes in any order and saves may
\* fail (applyStatus, failure).
EndIsTrue ==
  /\ \A state \in told : Announced({state})
  /\ record.safe \in Ended => Announced({record.safe})

\* While nobody was told of a success, a run that Core has is on record,
\* whoever dies where and whichever save fails: RunBaselineRun saves before it
\* submits, and Finalize removes the record after the result is out.
RecordKept ==
  jobs # {} /\ "feedback_persisted" \notin told => ~Absent(record)

\* A record is marked as being in conflict, which no resume gets past, only
\* when Core refused the publication as stale or the run ended without success:
\* a change of what Core requires is met before the record is loaded, so the
\* run can be resumed when Core requires the old identity again.
NoFalseConflict ==
  record.safe = "conflict" => refused \/ Announced(Failed)

\* A resume is turned away for want of readiness.
TurnedAway ==
  \E p \in Processes :
    /\ me[p].pc # "failing" /\ me[p].mode = "resume"
    /\ me'[p].pc = "failing" /\ me'[p].why = "capability"

\* That does not happen while Core has the run that it asks for: the resume
\* submits the exact intent again and Core replays it.
AdmissionDoesNotStrand == [][TurnedAway => jobs = {}]_vars

-----------------------------------------------------------------------------
(* The inductive invariant: whatever a record, a copy of it, a result or a  *)
(* status that was read says of the end of the run, Core has said and will  *)
(* not take back.                                                           *)

\* What may leave a conflict in a record.
Excused == refused \/ Announced(Failed)

SuccessTold == "feedback_persisted" \in told
Kept == ~Absent(record) \/ SuccessTold

\* The record on disk, or a copy of it.
StateFits(state) ==
  /\ state.safe \in Ended => Announced({state.safe})
  /\ state.safe = "conflict" => Excused

ResultFits(m) ==
  /\ m.result \in Ended => Announced({m.result})
  /\ m.cleanup => m.result = "feedback_persisted" /\ m.pc \in {"output", "finalize"}
  /\ m.pc = "finalize" => SuccessTold

FailureFits(m) ==
  m.pc = "failing" =>
    /\ m.why = "terminal" => m.result \in Failed
    /\ m.why = "conflict" => Absent(m.state) \/ Excused

PlaceFits(m) ==
  /\ m.pc \in {"idle", "capabilities", "load"} => Absent(m.state)
  /\ m.pc = "submit" => Kept
  /\ m.pc = "apply" /\ m.seen \in Ended => Announced({m.seen})

MemoryFits(m) ==
  m.key = 0 /\ StateFits(m.state) /\ ResultFits(m) /\ FailureFits(m) /\ PlaceFits(m)

CoreFits == OneJob /\ \A j \in jobs : j.key = 0

IInv ==
  /\ CoreFits
  /\ StateFits(record)
  /\ jobs # {} => Kept
  /\ \A state \in told : Announced({state})
  /\ \A p \in Processes : MemoryFits(me[p])
=============================================================================
