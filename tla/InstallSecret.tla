---------------------------- MODULE InstallSecret ----------------------------
(***************************************************************************)
(* The installation secret (loadOrCreateInstallSecret, upload_state.go):   *)
(* every baseline command reads it, and the first ones to run create it,   *)
(* concurrently, without a lock: an exclusive create, then a write, with   *)
(* readers that poll until the file has its full size.                     *)
(*                                                                         *)
(* Begin keys, request identities and the authentication of every resume   *)
(* record derive from this secret: BaselineUpload relies on all processes  *)
(* holding the same one.                                                   *)
(***************************************************************************)
EXTENDS Naturals

CONSTANTS
  Processes,    \* commands that need the secret
  Attempts,     \* rounds of the polling loop (50 in the code)
  MaxRuns,      \* bound: invocations of each process
  MaxFaults,    \* bound: writes, syncs or closes that fail
  MaxCrashes    \* bound: process crashes

ASSUME AttemptsAssumption == Attempts \in Nat \ {0}
ASSUME RunsAssumption == MaxRuns \in Nat /\ MaxFaults \in Nat /\ MaxCrashes \in Nat

VARIABLES
  size,       \* the file on disk: "none", "short" or "full"
  content,    \* the secret in it; 0 while it has none
  pc,         \* pc[p]: where p is in the loop
  tries,      \* tries[p]: rounds of the loop begun and not finished well
  value,      \* value[p]: the secret p drew, read or returned
  draws,      \* random values drawn so far: no two are equal
  returned,   \* history: the secrets that any process ever returned
  runs, faults, crashes   \* counters for the bounds

vars == <<size, content, pc, tries, value, draws, returned, runs, faults, crashes>>

PC == {"idle", "stat", "read", "create", "write", "failed"}

-----------------------------------------------------------------------------

Start(p) ==
  /\ pc[p] \in {"idle", "failed"}
  /\ runs[p] < MaxRuns
  /\ runs' = [runs EXCEPT ![p] = @ + 1]
  /\ pc' = [pc EXCEPT ![p] = "stat"]
  /\ tries' = [tries EXCEPT ![p] = 0]
  /\ UNCHANGED <<size, content, value, draws, returned, faults, crashes>>

\* Mutants of NextRound: one round too many, and no bound on the rounds.
OneRoundTooMany(p) ==
  /\ tries' = [tries EXCEPT ![p] = @ + 1]
  /\ pc' = [pc EXCEPT ![p] = IF tries[p] < Attempts THEN "stat" ELSE "failed"]
NextRoundForever(p) ==
  /\ UNCHANGED tries
  /\ pc' = [pc EXCEPT ![p] = "stat"]

\* One more round is spent without a secret; the last one fails the command.
NextRound(p) ==
  /\ tries' = [tries EXCEPT ![p] = @ + 1]
  /\ pc' = [pc EXCEPT ![p] = IF tries[p] + 1 < Attempts THEN "stat" ELSE "failed"]

\* Mutant of Complete: a file of any size is accepted.
AnySize == size # "none"

\* The size check is all that separates a reader from another process's
\* unfinished write.
Complete == size = "full"

\* Lstat decides between reading, waiting and creating.
Stat(p) ==
  /\ pc[p] = "stat"
  /\ \/ /\ Complete
        /\ pc' = [pc EXCEPT ![p] = "read"]
        /\ UNCHANGED tries
     \/ /\ size # "none" /\ ~Complete
        /\ NextRound(p)
     \/ /\ size = "none"
        /\ pc' = [pc EXCEPT ![p] = "create"]
        /\ UNCHANGED tries
  /\ UNCHANGED <<size, content, value, draws, returned, runs, faults, crashes>>

\* Process p has its secret: from here on it signs and derives with it.
Return(p, secret) ==
  /\ pc' = [pc EXCEPT ![p] = "idle"]
  /\ value' = [value EXCEPT ![p] = secret]
  /\ returned' = returned \cup {secret}

\* What ReadFile finds is checked again.
Read(p) ==
  /\ pc[p] = "read"
  /\ IF Complete
       THEN /\ Return(p, content)
            /\ UNCHANGED tries
       ELSE /\ NextRound(p)
            /\ UNCHANGED <<value, returned>>
  /\ UNCHANGED <<size, content, draws, runs, faults, crashes>>

\* Mutant of MayCreate: without O_EXCL the file of another process is taken.
MayAlwaysCreate == TRUE

\* O_CREATE|O_EXCL succeeds for one process only.
MayCreate == size = "none"

Create(p) ==
  /\ pc[p] = "create"
  /\ draws' = draws + 1
  /\ value' = [value EXCEPT ![p] = draws + 1]
  /\ IF MayCreate
       THEN /\ size' = "short"
            /\ pc' = [pc EXCEPT ![p] = "write"]
            /\ UNCHANGED tries
       ELSE /\ NextRound(p)
            /\ UNCHANGED size
  /\ UNCHANGED <<content, returned, runs, faults, crashes>>

\* Write, Sync and Close succeed.
Write(p) ==
  /\ pc[p] = "write"
  /\ size' = "full"
  /\ content' = value[p]
  /\ Return(p, value[p])
  /\ UNCHANGED <<tries, draws, runs, faults, crashes>>

\* One of them fails: the file stays, short or full, and the command fails.
WriteFails(p) ==
  /\ pc[p] = "write"
  /\ faults < MaxFaults
  /\ faults' = faults + 1
  /\ \/ UNCHANGED <<size, content>>
     \/ size' = "full" /\ content' = value[p]
  /\ pc' = [pc EXCEPT ![p] = "failed"]
  /\ UNCHANGED <<tries, value, draws, returned, runs, crashes>>

\* The process dies; what it wrote so far stays.
Crash(p) ==
  /\ pc[p] \notin {"idle", "failed"}
  /\ crashes < MaxCrashes
  /\ crashes' = crashes + 1
  /\ \/ UNCHANGED <<size, content>>
     \/ pc[p] = "write" /\ size' = "full" /\ content' = value[p]
  /\ pc' = [pc EXCEPT ![p] = "idle"]
  /\ UNCHANGED <<tries, value, draws, returned, runs, faults>>

-----------------------------------------------------------------------------

Init ==
  /\ size = "none" /\ content = 0
  /\ pc = [p \in Processes |-> "idle"]
  /\ tries = [p \in Processes |-> 0]
  /\ value = [p \in Processes |-> 0]
  /\ draws = 0
  /\ returned = {}
  /\ runs = [p \in Processes |-> 0]
  /\ faults = 0 /\ crashes = 0

\* The steps of a running process.
Proceed(p) == Stat(p) \/ Read(p) \/ Create(p) \/ Write(p)

Next == \E p \in Processes : Start(p) \/ Proceed(p) \/ WriteFails(p) \/ Crash(p)

Spec == Init /\ [][Next]_vars

\* A running process goes on; whether the user starts one is not promised.
FairSpec == Spec /\ \A p \in Processes : WF_vars(Proceed(p))

-----------------------------------------------------------------------------
(* Properties.                                                             *)

TypeOK ==
  /\ size \in {"none", "short", "full"} /\ content \in Nat
  /\ pc \in [Processes -> PC]
  /\ tries \in [Processes -> 0..Attempts]
  /\ value \in [Processes -> Nat]
  /\ draws \in Nat
  /\ returned \in SUBSET Nat
  /\ runs \in [Processes -> Nat]
  /\ faults \in Nat /\ crashes \in Nat

\* Whatever the interleaving of first commands, their crashes and failed
\* writes, every process that ever gets a secret gets the one in the file.
OneSecret == \A s \in returned : size = "full" /\ s = content

\* A full secret is never replaced or removed: records authenticated with it
\* stay readable (the store documents that a new key is never manufactured).
SecretKept == [][size = "full" => size' = "full" /\ content' = content]_vars

\* A command that waits for another one's secret never waits for ever, even
\* if that one died between its create and its write.
WaitingEnds ==
  \A p \in Processes :
    pc[p] \notin {"idle", "failed"} ~> pc[p] \in {"idle", "failed"}

-----------------------------------------------------------------------------
(* The inductive invariant.                                                *)

\* At most one process was allowed to create the file, and until its content
\* is there nobody else can write it.
IInv ==
  /\ OneSecret
  /\ \A p \in Processes :
       /\ pc[p] = "write" => size = "short"
       /\ pc[p] = "read" => size = "full"
  /\ \A p, q \in Processes : pc[p] = "write" /\ pc[q] = "write" => p = q
=============================================================================
