---------------------------- MODULE BaselineIndex ----------------------------
(***************************************************************************)
(* `compair baseline index` (index.go, index_state.go): one snapshot's     *)
(* compatible index is submitted to Core and polled. A resume record on    *)
(* disk, the only memory across invocations, is written without a lock by  *)
(* every process that works on the snapshot, from its own copy.            *)
(*                                                                         *)
(* The snapshot's upload result is valid and its continuation succeeded:   *)
(* that check leaves no trace when it fails.                               *)
(***************************************************************************)
EXTENDS Naturals, FiniteSets

CONSTANTS
  Processes,    \* concurrent invocations
  Attempts,     \* requests sent before postWithRetry gives up
  Intents,      \* index identities that Core may require
  MaxRuns,      \* bound: invocations of each process
  MaxFaults,    \* bound: lost requests and rejected credentials
  MaxTimeouts,  \* bound: operations cut short by --timeout
  MaxCrashes,   \* bound: process deaths
  MaxUpgrades   \* bound: changes of Core's capabilities

AttemptsAssumption == Attempts \in Nat \ {0}
BoundsAssumption ==
  MaxRuns \in Nat /\ MaxFaults \in Nat /\ MaxTimeouts \in Nat
  /\ MaxCrashes \in Nat /\ MaxUpgrades \in Nat

VARIABLES
  jobs,       \* Core: the index builds, each [key, intent, state]
  ready,      \* Core: index_build is ready
  required,   \* Core: the index identity it requires of new builds
  record,     \* the resume record on disk
  me,         \* me[p]: the memory of process p
  written,    \* history: the results written to stdout
  runs, faults, timeouts, crashes, upgrades   \* counters for the bounds

core == <<jobs, ready, required>>
counters == <<runs, faults, timeouts, crashes, upgrades>>
vars == <<jobs, ready, required, record, me, written,
          runs, faults, timeouts, crashes, upgrades>>

Pending == {"queued", "running", "retryable_failed"}
Ended == {"succeeded", "terminal_failed", "cancelled"}
JobState == Pending \cup Ended
Job == [key : Nat, intent : Intents, state : JobState]

\* indexState: what it says of the build, and SafeState; "none" is no record.
StateRecord ==
  [intent : Intents, job : BOOLEAN, publication : BOOLEAN,
   safe : {"none", "prepared", "retryable_incomplete", "conflict"} \cup JobState]
Result ==
  [state : {"preflight", "retryable_incomplete", "failed"} \cup JobState,
   publication : BOOLEAN]
Kinds == {"input", "auth", "capability", "conflict", "retryable", "terminal"}
PC == {"idle", "capabilities", "load", "create", "submit", "accepted", "status",
       "apply", "failing", "output", "finalize"}
Memory ==
  [pc : PC, resume : BOOLEAN, wait : BOOLEAN, key : Nat, ready : BOOLEAN,
   intent : Intents, state : StateRecord, attempt : 0..Attempts - 1, seen : JobState,
   why : Kinds, result : Result, cleanup : BOOLEAN]

\* Mutant of Blocked: an interrupted operation may not be resumed either.
BlockedToo == {"terminal_failed", "cancelled", "conflict", "retryable_incomplete"}

\* The marks in a record that no resume gets past.
Blocked == {"terminal_failed", "cancelled", "conflict"}

-----------------------------------------------------------------------------
(* Core.                                                                   *)

Builds(key) == {j \in jobs : j.key = key}

\* A key names one build: the same intent replays it, another one conflicts.
CoreAccepts(key, intent) ==
  jobs' = IF Builds(key) = {}
            THEN jobs \cup {[key |-> key, intent |-> intent, state |-> "queued"]}
            ELSE jobs

Conflicts(key, intent) == \E j \in Builds(key) : j.intent # intent

\* The worker advances a build; an ended one stays.
JobStep ==
  /\ \E j \in jobs, state \in JobState \ {"queued"} :
       /\ j.state \in Pending /\ state # j.state
       /\ jobs' = (jobs \ {j}) \cup {[j EXCEPT !.state = state]}
  /\ UNCHANGED <<ready, required, record, me, written, counters>>

\* Readiness, or the required identity, changes.
Upgrade ==
  /\ upgrades < MaxUpgrades
  /\ upgrades' = upgrades + 1
  /\ \/ ready' = ~ready /\ UNCHANGED required
     \/ required' \in Intents \ {required} /\ UNCHANGED ready
  /\ UNCHANGED <<jobs, record, me, written, runs, faults, timeouts, crashes>>

-----------------------------------------------------------------------------
(* An invocation.                                                          *)

NoRecord(intent) ==
  [intent |-> intent, job |-> FALSE, publication |-> FALSE, safe |-> "none"]
Absent(state) == state.safe = "none"

\* Mutant of Key: a later process derives another one.
FreshKey(p) == Cardinality({q \in Processes : runs[q] > 0})

\* The idempotency key derives from the secret and the operation's identity.
Key(p) == 0

Set(p, memory) == me' = [me EXCEPT ![p] = memory]
Goto(p, place) == Set(p, [me[p] EXCEPT !.pc = place, !.attempt = 0])
Fails(p, kind) == Set(p, [me[p] EXCEPT !.pc = "failing", !.why = kind])

Start(p, resume, wait) ==
  /\ me[p].pc = "idle"
  /\ runs[p] < MaxRuns
  /\ runs' = [runs EXCEPT ![p] = @ + 1]
  /\ Set(p, [me[p] EXCEPT !.pc = "capabilities", !.resume = resume, !.wait = wait,
               !.key = Key(p)])
  /\ UNCHANGED <<core, record, written, faults, timeouts, crashes, upgrades>>

Capabilities(p) ==
  /\ me[p].pc = "capabilities"
  /\ Set(p, [me[p] EXCEPT !.pc = "load", !.attempt = 0, !.ready = ready,
               !.intent = required])
  /\ UNCHANGED <<core, record, written, counters>>

\* The record decides how to go on; a failure before it is accepted leaves it
\* as it is.
Load(p) ==
  LET m == me[p] IN
  /\ m.pc = "load"
  /\ \/ /\ m.resume = Absent(record)
        /\ Fails(p, "input")
     \/ /\ ~m.resume /\ Absent(record)
        /\ IF m.ready THEN Goto(p, "create") ELSE Fails(p, "capability")
     \/ /\ m.resume /\ ~Absent(record)
        /\ ~record.job /\ record.intent # m.intent
        /\ Fails(p, "conflict")
     \/ /\ m.resume /\ ~Absent(record)
        /\ record.job \/ record.intent = m.intent
        /\ LET known == [m EXCEPT !.state = record,
                           !.result.publication =
                             record.publication /\ record.safe \notin Blocked]
               stop(kind) == Set(p, [known EXCEPT !.pc = "failing", !.why = kind])
               go(place) == Set(p, [known EXCEPT !.pc = place])
           IN \/ record.safe \in Blocked /\ stop("conflict")
              \/ /\ record.safe \notin Blocked
                 /\ \/ record.job /\ go("status")
                    \/ ~record.job /\ m.ready /\ go("submit")
                    \/ ~record.job /\ ~m.ready /\ stop("capability")
  /\ UNCHANGED <<core, record, written, counters>>

\* A first invocation writes the record before it submits.
Create(p) ==
  LET fresh == [NoRecord(me[p].intent) EXCEPT !.safe = "prepared"] IN
  /\ me[p].pc = "create"
  /\ record' = fresh
  /\ Set(p, [me[p] EXCEPT !.pc = "submit", !.state = fresh])
  /\ UNCHANGED <<core, written, counters>>

Submit(p) ==
  LET m == me[p] IN
  /\ m.pc = "submit"
  /\ \/ ~ready /\ Fails(p, "capability") /\ UNCHANGED jobs
     \/ /\ ready /\ Conflicts(m.key, m.intent)
        /\ Fails(p, "conflict") /\ UNCHANGED jobs
     \/ /\ ready /\ ~Conflicts(m.key, m.intent)
        /\ CoreAccepts(m.key, m.intent)
        /\ Goto(p, "accepted")
  /\ UNCHANGED <<ready, required, record, written, counters>>

\* The accepted build is saved; a plain submission ends here.
Accepted(p) ==
  LET saved == [me[p].state EXCEPT !.job = TRUE, !.safe = "queued"] IN
  /\ me[p].pc = "accepted"
  /\ record' = saved
  /\ Set(p, [me[p] EXCEPT !.state = saved, !.result.state = "queued",
               !.pc = IF me[p].wait \/ me[p].resume THEN "status" ELSE "output"])
  /\ UNCHANGED <<core, written, counters>>

\* Mutant of SameIntent: a status read while waiting must match as well.
NeverSame(p, j) == j.intent = me[p].intent

\* A build must have the record's intent; only a status read without --wait
\* must also match what Core requires now.
SameIntent(p, j) ==
  /\ j.intent = me[p].state.intent
  /\ me[p].wait \/ j.intent = me[p].intent

Poll(p) ==
  /\ me[p].pc = "status"
  /\ \E j \in Builds(me[p].key) :
       \/ ~SameIntent(p, j) /\ Fails(p, "conflict")
       \/ SameIntent(p, j)
          /\ Set(p, [me[p] EXCEPT !.pc = "apply", !.attempt = 0, !.seen = j.state])
  /\ UNCHANGED <<core, record, written, counters>>

\* Mutant of CleansUp: any ended build ends the record.
CleansUpWhenEnded(state) == state \in Ended

\* The record is removed after a success only.
CleansUp(state) == state = "succeeded"

\* applyStatus saves what was seen, and wait looks at it.
Apply(p) ==
  LET m == me[p]
      done == m.seen = "succeeded"
      saved == [m.state EXCEPT !.safe = m.seen, !.publication = @ \/ done]
      known == [m EXCEPT !.state = saved, !.result.state = m.seen,
                  !.result.publication = @ \/ done]
  IN
  /\ m.pc = "apply"
  /\ record' = saved
  /\ \/ /\ m.wait /\ m.seen \in {"terminal_failed", "cancelled"}
        /\ Set(p, [known EXCEPT !.pc = "failing", !.why = "terminal"])
     \/ /\ m.wait /\ m.seen \in Pending
        /\ Set(p, [known EXCEPT !.pc = "status"])
     \/ /\ ~m.wait \/ done
        /\ Set(p, [known EXCEPT !.pc = "output", !.cleanup = CleansUp(m.seen)])
  /\ UNCHANGED <<core, written, counters>>

\* Mutant of SafeAfter: any terminal build is marked as failed.
FailedAfter(p) ==
  CASE me[p].why = "retryable" -> "retryable_incomplete"
    [] me[p].why = "conflict" -> "conflict"
    [] me[p].why = "terminal" -> "terminal_failed"
    [] OTHER -> me[p].state.safe

\* The mark that a failure leaves in the record.
SafeAfter(p) ==
  CASE me[p].why = "retryable" -> "retryable_incomplete"
    [] me[p].why = "conflict" -> "conflict"
    [] me[p].why = "terminal" -> me[p].result.state
    [] OTHER -> me[p].state.safe

\* failure and setIndexFailure: the process's own copy of the record is saved.
Failure(p) ==
  LET marked == [me[p].state EXCEPT !.safe = SafeAfter(p)] IN
  /\ me[p].pc = "failing"
  /\ record' = IF Absent(me[p].state) THEN record ELSE marked
  /\ Set(p, [me[p] EXCEPT !.pc = "output",
               !.result.state =
                 CASE me[p].why = "retryable" -> "retryable_incomplete"
                   [] me[p].why = "terminal" -> @
                   [] OTHER -> "failed"])
  /\ UNCHANGED <<core, written, counters>>

\* Process p ends, and forgets.
Ends(p) ==
  Set(p, [me[p] EXCEPT !.pc = "idle", !.state = NoRecord(me[p].intent), !.attempt = 0,
            !.result = [state |-> "preflight", publication |-> FALSE],
            !.cleanup = FALSE, !.key = 0])

\* The result schema (validateIndexResult): a publication belongs to a success.
Writable(result) ==
  /\ result.state # "preflight"
  /\ result.publication <=> result.state = "succeeded"

\* A result that does not fit its schema is not written at all.
Output(p) ==
  /\ me[p].pc = "output"
  /\ \/ /\ Writable(me[p].result)
        /\ written' = written \cup {me[p].result}
        /\ IF me[p].cleanup THEN Goto(p, "finalize") ELSE Ends(p)
     \/ /\ ~Writable(me[p].result)
        /\ Ends(p)
        /\ UNCHANGED written
  /\ UNCHANGED <<core, record, counters>>

Finalize(p) ==
  /\ me[p].pc = "finalize"
  /\ record' = NoRecord(me[p].intent)
  /\ Ends(p)
  /\ UNCHANGED <<core, written, counters>>

-----------------------------------------------------------------------------
(* Trouble.                                                                *)

Requesting == {"capabilities", "submit", "status"}

\* Mutant of LastAttempt: one attempt more than attempts.
OneMoreAttempt(p) == me[p].attempt >= Attempts

LastAttempt(p) == me[p].attempt + 1 >= Attempts

\* A request or its response is lost; the last attempt fails the invocation.
Lost(p) ==
  LET m == me[p] IN
  /\ m.pc \in Requesting /\ faults < MaxFaults
  /\ faults' = faults + 1
  /\ \/ UNCHANGED jobs
     \/ /\ m.pc = "submit" /\ ready /\ ~Conflicts(m.key, m.intent)
        /\ CoreAccepts(m.key, m.intent)
  /\ IF LastAttempt(p)
       THEN Fails(p, "retryable")
       ELSE Set(p, [m EXCEPT !.attempt = @ + 1])
  /\ UNCHANGED <<ready, required, record, written, runs, timeouts, crashes, upgrades>>

\* The credentials are refused.
Unauthorized(p) ==
  /\ me[p].pc \in Requesting /\ faults < MaxFaults
  /\ faults' = faults + 1
  /\ Fails(p, "auth")
  /\ UNCHANGED <<core, record, written, runs, timeouts, crashes, upgrades>>

\* --timeout cuts a request, a pause between attempts or a pause of the poll.
TimesOut(p) ==
  /\ me[p].pc \in Requesting /\ timeouts < MaxTimeouts
  /\ timeouts' = timeouts + 1
  /\ Fails(p, "retryable")
  /\ UNCHANGED <<core, record, written, runs, faults, crashes, upgrades>>

Crash(p) ==
  /\ me[p].pc # "idle" /\ crashes < MaxCrashes
  /\ crashes' = crashes + 1
  /\ Ends(p)
  /\ UNCHANGED <<core, record, written, runs, faults, timeouts, upgrades>>

-----------------------------------------------------------------------------

Init ==
  /\ jobs = {} /\ ready = TRUE
  /\ required \in Intents
  /\ record = NoRecord(required)
  /\ me = [p \in Processes |->
       [pc |-> "idle", resume |-> FALSE, wait |-> FALSE, key |-> 0, ready |-> FALSE,
        intent |-> required, state |-> NoRecord(required), attempt |-> 0,
        seen |-> "queued", why |-> "input", cleanup |-> FALSE,
        result |-> [state |-> "preflight", publication |-> FALSE]]]
  /\ written = {}
  /\ runs = [p \in Processes |-> 0]
  /\ faults = 0 /\ timeouts = 0 /\ crashes = 0 /\ upgrades = 0

\* The steps of a running process.
Proceed(p) ==
  \/ Capabilities(p) \/ Load(p) \/ Create(p) \/ Submit(p) \/ Accepted(p)
  \/ Poll(p) \/ Apply(p) \/ Failure(p) \/ Output(p) \/ Finalize(p)

Trouble(p) == Lost(p) \/ Unauthorized(p) \/ TimesOut(p) \/ Crash(p)

Next ==
  \/ \E p \in Processes :
       (\E resume, wait \in BOOLEAN : Start(p, resume, wait)) \/ Proceed(p) \/ Trouble(p)
  \/ JobStep \/ Upgrade

Spec == Init /\ [][Next]_vars

-----------------------------------------------------------------------------
(* Properties.                                                             *)

\* Every variable has its type.
TypeOK ==
  /\ jobs \subseteq Job /\ ready \in BOOLEAN /\ required \in Intents
  /\ record \in StateRecord
  /\ me \in [Processes -> Memory]
  /\ written \subseteq Result
  /\ runs \in [Processes -> 0..MaxRuns]
  /\ faults \in 0..MaxFaults /\ timeouts \in 0..MaxTimeouts
  /\ crashes \in 0..MaxCrashes /\ upgrades \in 0..MaxUpgrades

\* Lost responses, crashes, resumes, races and changes of what Core requires
\* never start a second build of the snapshot: submit derives its key from
\* the operation's identity alone.
OneJob == \A j, k \in jobs : j = k

\* What a result or the record says of an ended build is Core's last word on
\* it, although the record is saved by several processes in any order
\* (applyStatus, failure).
Announced(state) == \E j \in jobs : j.state = state

EndIsTrue ==
  /\ \A r \in written : r.state \in Ended => Announced(r.state)
  /\ record.safe \in Ended => Announced(record.safe)
  /\ record.publication => Announced("succeeded")

\* While nobody was told of a success, a build that Core has is on record,
\* whoever dies where: RunIndex saves before it submits, and Finalize removes
\* the record after the result is out.
RecordKept ==
  jobs # {} /\ (\A r \in written : r.state # "succeeded") => ~Absent(record)

\* Retries, timeouts, crashes and races never mark a record as being in
\* conflict, which no resume gets past: only a build that ended without
\* success, or a change of what Core requires, does.
NoFalseConflict ==
  record.safe = "conflict" =>
    upgrades > 0 \/ Announced("terminal_failed") \/ Announced("cancelled")

\* A build that is known is waited for across a change of what Core requires
\* of new builds: wait passes no expected intent to status.
WaitSurvivesUpgrade ==
  \A p \in Processes :
    me[p].pc = "failing" /\ me[p].why = "conflict" /\ me[p].wait /\ me[p].state.job
      => me[p].state.safe \in Blocked

-----------------------------------------------------------------------------
(* The inductive invariant: whatever a record, a copy of it, a result or a  *)
(* status that was read says of a build, Core has said and will not take    *)
(* back.                                                                    *)

Started(intent) == \E j \in jobs : j.intent = intent

\* What may leave a conflict in a record.
Excused == upgrades > 0 \/ Announced("terminal_failed") \/ Announced("cancelled")

SuccessTold == \E r \in written : r.state = "succeeded"
Kept == ~Absent(record) \/ SuccessTold

\* The record on disk, or a copy of it.
StateFits(state) ==
  /\ state.safe \in Ended => Announced(state.safe)
  /\ state.publication => Announced("succeeded")
  /\ state.safe = "conflict" => Excused
  /\ state.job => Started(state.intent)
  /\ upgrades = 0 => state.intent = required

ResultFits(m) ==
  /\ m.result.state \in Ended => Announced(m.result.state)
  /\ m.cleanup => m.result.state = "succeeded" /\ m.pc \in {"output", "finalize"}
  /\ m.pc = "finalize" => SuccessTold

FailureFits(m) ==
  m.pc = "failing" =>
    /\ m.why = "terminal" => m.result.state \in {"terminal_failed", "cancelled"}
    /\ m.why = "conflict" => Excused /\ (m.wait /\ m.state.job => m.state.safe \in Blocked)

\* Where a process is tells what it knows of the build.
PlaceFits(m) ==
  /\ m.pc \in {"idle", "capabilities", "load", "create", "submit"} => ~m.state.job
  /\ m.pc \in {"submit", "accepted"} => m.state.intent = m.intent
  /\ m.pc = "submit" => Kept
  /\ m.pc = "accepted" => Started(m.intent)
  /\ m.pc \in {"status", "apply"} => m.state.job
  /\ m.pc = "apply" /\ m.seen \in Ended => Announced(m.seen)

MemoryFits(m) ==
  /\ m.key = 0
  /\ upgrades = 0 => m.intent = required
  /\ StateFits(m.state) /\ ResultFits(m) /\ FailureFits(m) /\ PlaceFits(m)

CoreFits ==
  /\ OneJob
  /\ \A j \in jobs : j.key = 0 /\ (upgrades = 0 => j.intent = required)

IInv ==
  /\ CoreFits
  /\ StateFits(record)
  /\ jobs # {} => Kept
  /\ \A r \in written : r.state \in Ended => Announced(r.state)
  /\ \A p \in Processes : MemoryFits(me[p])
=============================================================================
