-------------------------- MODULE SyncPendingProofs --------------------------
(* Proofs about SyncPending, for any number of commands at once, of commits,
   tasks and troubles: however old the copy of the configuration is that a
   command writes over the file, it never counts a commit as synced that the
   API has not processed.

   The argument: what a copy of the configuration says is a fact about the
   API's tasks, and such a fact stays true, because tasks are only added and
   only go forward (Grows). So an old copy may undo progress, but cannot lie.

   The second part is about one command at a time: it does no work twice.   *)
EXTENDS SyncPending, SequenceTheorems, TLAPS

\* The tasks us are a later state of the tasks ts.
Grows(ts, us) ==
    /\ DOMAIN ts \subseteq DOMAIN us
    /\ \A t \in DOMAIN ts :
         /\ us[t].from = ts[t].from
         /\ us[t].to = ts[t].to
         /\ us[t].awaited = ts[t].awaited
         /\ Processed(ts[t]) => Processed(us[t])
         /\ (ts[t].state = "success" \/ ts[t].chunks # "none")
              => (us[t].state = "success" \/ us[t].chunks # "none")

\* A process's memory is well formed and rests on the truth.
Fine(ts, m) == m \in Memory /\ Sound(ts, m)
-----------------------------------------------------------------------------
(* Facts about the API's tasks.                                            *)

(* What was covered stays covered.                                         *)
LEMMA CoveredGrows ==
    ASSUME NEW ts, NEW us, NEW n, Grows(ts, us), Covered(ts, n)
    PROVE  Covered(us, n)
BY DEF Grows, Covered, Over

(* What a copy of the configuration says stays true.                       *)
LEMMA TruthGrows ==
    ASSUME NEW ts, NEW us, NEW cfg, Grows(ts, us), Truthful(ts, cfg)
    PROVE  Truthful(us, cfg)
<1>1. Covered(us, cfg.last)
  BY CoveredGrows DEF Truthful
<1>2. ASSUME cfg.task # NoTask
      PROVE  /\ cfg.task \in DOMAIN us
             /\ us[cfg.task].to = cfg.commit
             /\ Covered(us, us[cfg.task].from)
  <2>1. /\ cfg.task \in DOMAIN ts
        /\ ts[cfg.task].to = cfg.commit
        /\ Covered(ts, ts[cfg.task].from)
    BY <1>2 DEF Truthful
  <2>2. Covered(us, ts[cfg.task].from)
    BY <2>1, CoveredGrows
  <2> QED BY <2>1, <2>2 DEF Grows
<1> QED BY <1>1, <1>2 DEF Truthful

(* What a process rests on stays true while the others work.               *)
LEMMA SoundGrows ==
    ASSUME NEW ts, NEW us, NEW m, Grows(ts, us), Sound(ts, m)
    PROVE  Sound(us, m)
<1>1. Truthful(us, m.cfg)
  BY TruthGrows DEF Sound
<1>2. Covered(us, m.from)
  BY CoveredGrows DEF Sound
<1>3. m.pc = "status" => Covered(us, m.to)
  BY CoveredGrows DEF Sound
<1>4. ASSUME m.pc = "chunks"
      PROVE  us[m.cfg.task].state = "success" \/ us[m.cfg.task].chunks # "none"
  <2>1. m.cfg.task \in DOMAIN ts
    BY <1>4 DEF Sound, Truthful
  <2> QED BY <1>4, <2>1 DEF Sound, Grows
<1> QED BY <1>1, <1>2, <1>3, <1>4 DEF Sound

LEMMA GrowsItself == ASSUME NEW ts PROVE Grows(ts, ts)
BY DEF Grows

(* A new task changes nothing about the older ones.                        *)
LEMMA AppendGrows ==
    ASSUME NEW ts \in Seq(Task), NEW k \in Task
    PROVE  /\ Append(ts, k) \in Seq(Task)
           /\ Grows(ts, Append(ts, k))
           /\ Len(Append(ts, k)) \in DOMAIN Append(ts, k)
           /\ Append(ts, k)[Len(Append(ts, k))] = k
           /\ Len(Append(ts, k)) \in Nat
BY DEF Grows

(* A processed task, or one nobody waits for, extends what is covered.     *)
LEMMA TaskCovers ==
    ASSUME NEW ts, NEW t \in DOMAIN ts,
           ts[t].from \in Nat, ts[t].to \in Nat,
           Covered(ts, ts[t].from), Processed(ts[t]) \/ ~ts[t].awaited
    PROVE  Covered(ts, ts[t].to)
<1> SUFFICES ASSUME NEW c \in 1 .. ts[t].to
             PROVE  \E u \in DOMAIN ts :
                      c \in Over(ts[u]) /\ (Processed(ts[u]) \/ ~ts[u].awaited)
  BY DEF Covered
<1>1. CASE c <= ts[t].from
  BY <1>1 DEF Covered
<1>2. CASE c > ts[t].from
  BY <1>2 DEF Over
<1> QED BY <1>1, <1>2

(* One entry of a sequence of tasks is replaced.                           *)
LEMMA ExceptTask ==
    ASSUME NEW ts \in Seq(Task), NEW t \in DOMAIN ts, NEW k \in Task
    PROVE  /\ [ts EXCEPT ![t] = k] \in Seq(Task)
           /\ DOMAIN [ts EXCEPT ![t] = k] = DOMAIN ts
BY ExceptSeq
-----------------------------------------------------------------------------
(* Facts about the copies of the configuration and a process's memory.      *)

LEMMA ClearedTruthful ==
    ASSUME NEW ts, NEW cfg \in Config, Truthful(ts, cfg)
    PROVE  Cleared(cfg) \in Config /\ Truthful(ts, Cleared(cfg))
<1>1. 0 \in Commits
  BY BoundsAssumption DEF Commits
<1>2. Cleared(cfg) \in Config
  BY <1>1 DEF Cleared, Config, NoTask
<1>3. Cleared(cfg).last = cfg.last /\ Cleared(cfg).task = NoTask
  BY DEF Cleared, Config
<1> QED BY <1>2, <1>3 DEF Truthful

LEMMA PersistedTruthful ==
    ASSUME NEW ts, NEW cfg \in Config, Truthful(ts, cfg),
           NEW t \in DOMAIN ts, t \in Nat, ts[t].to \in Commits,
           Covered(ts, ts[t].from)
    PROVE  /\ Persisted(cfg, t, ts[t].to) \in Config
           /\ Truthful(ts, Persisted(cfg, t, ts[t].to))
BY DEF Persisted, Config, Truthful

LEMMA FinalizedTruthful ==
    ASSUME NEW ts, NEW cfg \in Config, NEW latest \in Commits, Covered(ts, latest)
    PROVE  Finalized(cfg, latest) \in Config /\ Truthful(ts, Finalized(cfg, latest))
<1>1. 0 \in Commits
  BY BoundsAssumption DEF Commits
<1>2. Finalized(cfg, latest) \in Config
  BY <1>1 DEF Finalized, Cleared, Config, NoTask
<1>3. Finalized(cfg, latest).last = latest /\ Finalized(cfg, latest).task = NoTask
  BY DEF Finalized, Cleared, Config
<1> QED BY <1>2, <1>3 DEF Truthful

(* A file without repositories says nothing.                               *)
LEMMA TornTruthful ==
    ASSUME NEW ts
    PROVE  Torn \in Config /\ Truthful(ts, Torn)
<1>1. Torn \in Config
  BY BoundsAssumption DEF Torn, Config, Commits, NoTask
<1>2. Covered(ts, 0)
  BY DEF Covered
<1> QED BY <1>1, <1>2 DEF Torn, Truthful

LEMMA IdleFine == ASSUME NEW ts PROVE Fine(ts, Idle)
<1>1. Covered(ts, 0)
  BY DEF Covered
<1>2. Idle \in Memory
  BY TornTruthful, BoundsAssumption DEF Idle, Memory, Phases, PC, Commits
<1> QED BY <1>1, <1>2, TornTruthful DEF Fine, Sound, Idle

(* Going on to a place where nothing more is needed.                       *)
LEMMA GotoFine ==
    ASSUME NEW ts, NEW m, Fine(ts, m),
           NEW pc \in {"idle", "read", "look", "collect", "submit", "reread"}
    PROVE  Fine(ts, [m EXCEPT !.pc = pc])
BY DEF Fine, Sound, Memory, PC

(* Going on to write a truthful copy.                                      *)
LEMMA SavesFine ==
    ASSUME NEW ts, NEW m, Fine(ts, m), NEW cfg \in Config, Truthful(ts, cfg),
           NEW then \in {"idle", "read", "collect"}
    PROVE  Fine(ts, [m EXCEPT !.cfg = cfg, !.pc = "write", !.then = then])
BY DEF Fine, Sound, Memory, PC

LEMMA SavesInitialFine ==
    ASSUME NEW ts, NEW m, Fine(ts, m), NEW cfg \in Config, Truthful(ts, cfg)
    PROVE  Fine(ts, [m EXCEPT !.cfg = cfg, !.pc = "write", !.then = "read",
                              !.phase = "saved"])
BY DEF Fine, Sound, Memory, PC, Phases

(* The saved task of a process that waits is a task of the API.            *)
LEMMA WaitsForTask ==
    ASSUME NEW ts \in Seq(Task), NEW m, Fine(ts, m), m.cfg.task # NoTask
    PROVE  /\ m.cfg.task \in DOMAIN ts
           /\ m.cfg \in Config
           /\ ts[m.cfg.task] \in Task
           /\ ts[m.cfg.task].to = m.cfg.commit
           /\ Covered(ts, ts[m.cfg.task].from)
BY DEF Fine, Sound, Truthful, Memory
-----------------------------------------------------------------------------
(* The invariant.                                                          *)

\* What a step leaves well formed apart from the processes' memories.
Rest == /\ head \in Commits \ {0}
        /\ file \in Config
        /\ tasks \in Seq(Task)
        /\ aged \subseteq DOMAIN tasks
        /\ saved \subseteq DOMAIN tasks
        /\ count \in 0 .. MaxTroubles
        /\ Truthful(tasks, file)

LEMMA InvariantParts ==
    IInv <=> /\ Rest
             /\ me \in [Processes -> Memory]
             /\ \A p \in Processes : Fine(tasks, me[p])
BY DEF IInv, TypeOK, Rest, Fine

(* A step of one process, after which its memory is m.                     *)
LEMMA Moves ==
    ASSUME IInv, NEW p \in Processes, NEW m, Grows(tasks, tasks'), Rest',
           Fine(tasks', m), me' = [me EXCEPT ![p] = m]
    PROVE  IInv'
<1>1. me \in [Processes -> Memory] /\ \A q \in Processes : Fine(tasks, me[q])
  BY InvariantParts
<1>2. ASSUME NEW q \in Processes PROVE Fine(tasks', me'[q])
  <2>1. CASE q = p
    BY <1>1, <2>1
  <2>2. CASE q # p
    BY <1>1, <2>2, SoundGrows DEF Fine
  <2> QED BY <2>1, <2>2
<1>3. me' \in [Processes -> Memory]
  BY <1>1 DEF Fine
<1> QED BY <1>2, <1>3 DEF IInv, TypeOK, Rest, Fine

(* A step that moves no process.                                           *)
LEMMA Stays ==
    ASSUME IInv, Grows(tasks, tasks'), Rest', me' = me
    PROVE  IInv'
<1>1. \A q \in Processes : Fine(tasks', me'[q])
  BY InvariantParts, SoundGrows DEF Fine
<1>2. me' \in [Processes -> Memory]
  BY InvariantParts
<1> QED BY <1>1, <1>2 DEF IInv, TypeOK, Rest, Fine

(* Troubles are counted within their bound.                                *)
LEMMA CountBounded ==
    ASSUME IInv, (\E trouble \in Troubles : Counts(trouble)) \/ UNCHANGED count
    PROVE  count' \in 0 .. MaxTroubles
BY BoundsAssumption DEF IInv, TypeOK, Counts

LEMMA CountsIsTrouble ==
    ASSUME NEW trouble, Counts(trouble)
    PROVE  \E x \in Troubles : Counts(x)
BY DEF Counts

(* When tasks, file and the rest stay, they stay well formed.              *)
LEMMA RestStays ==
    ASSUME IInv, UNCHANGED <<head, file, tasks, aged, saved>>,
           (\E trouble \in Troubles : Counts(trouble)) \/ UNCHANGED count
    PROVE  Rest' /\ Grows(tasks, tasks')
<1>1. count' \in 0 .. MaxTroubles
  BY CountBounded
<1> QED BY <1>1, GrowsItself, InvariantParts DEF Rest

(* A process that only goes on, with memory m, while all else stays.       *)
LEMMA OnlyMoves ==
    ASSUME IInv, UNCHANGED <<head, file, tasks, aged, saved>>,
           (\E trouble \in Troubles : Counts(trouble)) \/ UNCHANGED count,
           NEW p \in Processes, NEW m, Fine(tasks, m), me' = [me EXCEPT ![p] = m]
    PROVE  IInv'
<1>1. Rest' /\ Grows(tasks, tasks')
  BY RestStays
<1>2. Fine(tasks', m)
  OBVIOUS
<1> QED BY <1>1, <1>2, Moves
-----------------------------------------------------------------------------
(* The steps that leave the file and the tasks as they are.                 *)

\* Nothing moves but processes, and a trouble is counted at most.
Quiet == /\ UNCHANGED <<head, file, tasks, aged, saved>>
         /\ (\E trouble \in Troubles : Counts(trouble)) \/ UNCHANGED count

LEMMA GotoMoves ==
    ASSUME IInv, Quiet, NEW p \in Processes,
           NEW pc \in {"idle", "read", "look", "collect", "submit", "reread"},
           Goto(p, pc)
    PROVE  IInv'
<1>1. Fine(tasks, [me[p] EXCEPT !.pc = pc])
  BY GotoFine, InvariantParts
<1>2. me' = [me EXCEPT ![p] = [me[p] EXCEPT !.pc = pc]]
  BY InvariantParts DEF Goto
<1> QED BY <1>1, <1>2, OnlyMoves DEF Quiet

LEMMA EndsMoves ==
    ASSUME IInv, Quiet, NEW p \in Processes, Ends(p)
    PROVE  IInv'
BY IdleFine, OnlyMoves DEF Quiet, Ends

LEMMA SavesMoves ==
    ASSUME IInv, Quiet, NEW p \in Processes,
           NEW cfg \in Config, Truthful(tasks, cfg),
           NEW then \in {"idle", "read", "collect"}, Saves(p, cfg, then)
    PROVE  IInv'
<1> DEFINE m == [me[p] EXCEPT !.cfg = cfg, !.pc = "write", !.then = then]
<1>1. Fine(tasks, m)
  BY SavesFine, InvariantParts
<1>2. me' = [me EXCEPT ![p] = m]
  BY InvariantParts DEF Saves
<1> QED BY <1>1, <1>2, OnlyMoves DEF Quiet

LEMMA SavesInitialMoves ==
    ASSUME IInv, Quiet, NEW p \in Processes,
           NEW cfg \in Config, Truthful(tasks, cfg), SavesInitial(p, cfg)
    PROVE  IInv'
<1> DEFINE m == [me[p] EXCEPT !.cfg = cfg, !.pc = "write", !.then = "read",
                              !.phase = "saved"]
<1>1. Fine(tasks, m)
  BY SavesInitialFine, InvariantParts
<1>2. me' = [me EXCEPT ![p] = m]
  BY InvariantParts DEF SavesInitial
<1> QED BY <1>1, <1>2, OnlyMoves DEF Quiet

(* What a process has read is a truthful configuration.                    *)
LEMMA OwnCopy ==
    ASSUME IInv, NEW p \in Processes
    PROVE  /\ me[p] \in Memory
           /\ me[p].cfg \in Config
           /\ Truthful(tasks, me[p].cfg)
           /\ Fine(tasks, me[p])
BY InvariantParts DEF Fine, Sound, Memory

LEMMA BeginKeeps ==
    ASSUME IInv, NEW p \in Processes, NEW cmd \in Commands, Begin(p, cmd)
    PROVE  IInv'
<1> DEFINE m == [Idle EXCEPT !.pc = "read", !.cmd = cmd,
                   !.phase = IF cmd \in Uploads THEN "initial" ELSE cmd]
<1>1. Fine(tasks, Idle)
  BY IdleFine
<1>2. m \in Memory
  BY <1>1, BoundsAssumption DEF Fine, Memory, PC, Phases, Uploads
<1>3. Sound(tasks, m)
  BY <1>1 DEF Fine, Sound, Idle
<1>4. Fine(tasks, m)
  BY <1>2, <1>3 DEF Fine
<1>5. me' = [me EXCEPT ![p] = m]
  BY DEF Begin
<1>6. Quiet
  BY DEF Begin, Quiet
<1> QED BY <1>4, <1>5, <1>6, OnlyMoves DEF Quiet

LEMMA ReadKeeps ==
    ASSUME IInv, NEW p \in Processes, Read(p)
    PROVE  IInv'
<1>1. Quiet
  BY DEF Read, Quiet
<1>2. CASE ~file.bound /\ me[p].phase # "initial"
  BY <1>1, <1>2, EndsMoves DEF Read
<1>3. CASE ~(~file.bound /\ me[p].phase # "initial")
  <2> DEFINE m == [me[p] EXCEPT !.cfg = file, !.from = file.last,
                     !.pc = IF me[p].cmd = "watch" THEN "collect" ELSE "look"]
  <2>1. me' = [me EXCEPT ![p] = m]
    BY <1>3, InvariantParts DEF Read
  <2>2. file \in Config /\ Truthful(tasks, file)
    BY DEF IInv, TypeOK
  <2>3. Covered(tasks, file.last) /\ file.last \in Commits
    BY <2>2 DEF Truthful, Config
  <2>4. m \in Memory
    BY <2>2, <2>3, OwnCopy DEF Memory, PC
  <2>5. m.cfg = file /\ m.from = file.last /\ m.pc \in {"collect", "look"}
    BY OwnCopy DEF Memory
  <2>6. Sound(tasks, m)
    BY <2>2, <2>3, <2>5 DEF Sound
  <2> QED BY <1>1, <2>1, <2>4, <2>6, OnlyMoves DEF Quiet, Fine
<1> QED BY <1>2, <1>3

LEMMA NothingToLookAtKeeps ==
    ASSUME IInv, NEW p \in Processes, NothingToLookAt(p)
    PROVE  IInv'
<1>1. Quiet
  BY DEF NothingToLookAt, Quiet
<1>2. CASE me' = [me EXCEPT ![p].phase = "saved", ![p].pc = "read"]
  <2> DEFINE m == [me[p] EXCEPT !.phase = "saved", !.pc = "read"]
  <2>1. me' = [me EXCEPT ![p] = m]
    BY <1>2, InvariantParts
  <2>2. Fine(tasks, m)
    BY OwnCopy DEF Fine, Sound, Memory, PC, Phases
  <2> QED BY <1>1, <2>1, <2>2, OnlyMoves DEF Quiet
<1>3. CASE Ends(p)
  BY <1>1, <1>3, EndsMoves
<1>4. CASE Goto(p, "collect")
  BY <1>1, <1>4, GotoMoves
<1> QED BY <1>2, <1>3, <1>4 DEF NothingToLookAt

(* Going on to wait for a saved task.                                      *)
LEMMA ResumeKeeps ==
    ASSUME IInv, NEW p \in Processes, Resume(p)
    PROVE  IInv'
<1> DEFINE m == [me[p] EXCEPT !.pc = "parent"]
<1>1. me' = [me EXCEPT ![p] = m]
  BY InvariantParts DEF Resume, Goto
<1>2. me[p].cfg.task # NoTask
  BY DEF Resume, Looks
<1>3. Fine(tasks, m)
  BY <1>2, OwnCopy DEF Fine, Sound, Memory, PC
<1> QED BY <1>1, <1>3, OnlyMoves DEF Resume

(* Going on to wait for the chunks of a task.                              *)
LEMMA ToChunks ==
    ASSUME IInv, Quiet, NEW p \in Processes, me[p].cfg.task # NoTask,
           Goto(p, "chunks"),
           \/ tasks[me[p].cfg.task].state = "success"
           \/ tasks[me[p].cfg.task].chunks # "none"
    PROVE  IInv'
<1> DEFINE m == [me[p] EXCEPT !.pc = "chunks"]
<1>1. me' = [me EXCEPT ![p] = m]
  BY InvariantParts DEF Goto
<1>2. Fine(tasks, m)
  BY OwnCopy DEF Fine, Sound, Memory, PC
<1> QED BY <1>1, <1>2, OnlyMoves DEF Quiet

LEMMA StaleKeeps ==
    ASSUME IInv, NEW p \in Processes, Stale(p)
    PROVE  IInv'
<1> DEFINE t == me[p].cfg.task
<1>1. me[p].cfg.task # NoTask /\ UNCHANGED <<head, file, tasks, aged, saved>>
  BY DEF Stale, Looks
<1>2. Cleared(me[p].cfg) \in Config /\ Truthful(tasks, Cleared(me[p].cfg))
  BY OwnCopy, ClearedTruthful
<1>3. CASE StaleInSync(p)
  <2>1. Quiet
    BY <1>1, <1>3 DEF Quiet, StaleInSync
  <2> QED BY <1>2, <1>3, <2>1, SavesMoves DEF StaleInSync
<1>4. CASE StaleInitial(p)
  <2>1. Quiet
    BY <1>1, <1>4, CountsIsTrouble DEF Quiet, StaleInitial
  <2>2. CASE tasks[t].state = "success" /\ Goto(p, "chunks")
    BY <1>1, <2>1, <2>2, ToChunks
  <2>3. CASE SavesInitial(p, Cleared(me[p].cfg))
    BY <1>2, <2>1, <2>3, SavesInitialMoves
  <2> QED BY <1>4, <2>2, <2>3 DEF StaleInitial
<1>5. CASE StaleInWait(p)
  <2>1. Quiet
    BY <1>1, <1>5, CountsIsTrouble DEF Quiet, StaleInWait
  <2>2. CASE (tasks[t].state = "success" \/ Recoverable(t)) /\ Goto(p, "chunks")
    BY <1>1, <2>1, <2>2, ToChunks DEF Recoverable
  <2>3. CASE Saves(p, Cleared(me[p].cfg), "idle")
    BY <1>2, <2>1, <2>3, SavesMoves
  <2>4. CASE Ends(p)
    BY <2>1, <2>4, EndsMoves
  <2> QED BY <1>5, <2>2, <2>3, <2>4 DEF StaleInWait
<1> QED BY <1>3, <1>4, <1>5 DEF Stale

LEMMA ParentReturnsKeeps ==
    ASSUME IInv, NEW p \in Processes, ParentReturns(p)
    PROVE  IInv'
<1>1. me[p].cfg.task # NoTask
  BY OwnCopy DEF ParentReturns, Fine, Sound
<1>2. Quiet
  BY DEF ParentReturns, Quiet
<1> QED BY <1>1, <1>2, ToChunks DEF ParentReturns, Recoverable

(* A wait that fails clears the saved task or leaves it.                    *)
LEMMA ForgetsOrNot ==
    ASSUME IInv, Quiet, NEW p \in Processes,
           Saves(p, Cleared(me[p].cfg), "idle") \/ Ends(p)
    PROVE  IInv'
<1>1. Cleared(me[p].cfg) \in Config /\ Truthful(tasks, Cleared(me[p].cfg))
  BY OwnCopy, ClearedTruthful
<1>2. CASE Saves(p, Cleared(me[p].cfg), "idle")
  BY <1>1, <1>2, SavesMoves
<1>3. CASE Ends(p)
  BY <1>3, EndsMoves
<1> QED BY <1>2, <1>3

LEMMA ParentFailsKeeps ==
    ASSUME IInv, NEW p \in Processes, ParentFails(p)
    PROVE  IInv'
<1>1. Quiet
  BY DEF ParentFails, Quiet
<1> QED BY <1>1, ForgetsOrNot DEF ParentFails

LEMMA InterruptedKeeps ==
    ASSUME IInv, NEW p \in Processes, Interrupted(p)
    PROVE  IInv'
<1>1. Quiet
  BY CountsIsTrouble DEF Interrupted, Quiet
<1> QED BY <1>1, ForgetsOrNot DEF Interrupted

LEMMA ChunkFailsKeeps ==
    ASSUME IInv, NEW p \in Processes, ChunkFails(p)
    PROVE  IInv'
<1>1. Quiet
  BY DEF ChunkFails, Quiet
<1> QED BY <1>1, ForgetsOrNot DEF ChunkFails

(* The step that counts commits as synced after a wait: the task that was
   waited for is processed, and covers what lies before its last commit.    *)
LEMMA DoneKeeps ==
    ASSUME IInv, NEW p \in Processes, Done(p)
    PROVE  IInv'
<1> DEFINE t == me[p].cfg.task
           latest == me[p].cfg.commit
<1>1. Quiet
  BY DEF Done, Quiet
<1>2. /\ t # NoTask
      /\ tasks[t].state = "success" \/ tasks[t].chunks # "none"
  BY OwnCopy DEF Done, Fine, Sound
<1>3. tasks \in Seq(Task)
  BY InvariantParts DEF Rest
<1>4. /\ t \in DOMAIN tasks
      /\ tasks[t] \in Task
      /\ tasks[t].to = latest
      /\ Covered(tasks, tasks[t].from)
  BY <1>2, <1>3, OwnCopy, WaitsForTask
<1>5. Processed(tasks[t])
  BY <1>2 DEF Done, ChunksEnd, Processed
<1>6. tasks[t].from \in Nat /\ tasks[t].to \in Nat
  BY <1>4 DEF Task, Commits
<1>7. Covered(tasks, latest) /\ latest \in Commits
  BY <1>4, <1>5, <1>6, TaskCovers, OwnCopy DEF Config
<1>8. /\ Finalized(me[p].cfg, latest) \in Config
      /\ Truthful(tasks, Finalized(me[p].cfg, latest))
  BY <1>7, OwnCopy, FinalizedTruthful
<1>9. CASE SavesInitial(p, Finalized(me[p].cfg, latest))
  BY <1>1, <1>8, <1>9, SavesInitialMoves
<1>10. CASE /\ me[p].left > 1
            /\ me' = [me EXCEPT ![p].left = @ - 1, ![p].pc = "submit"]
  <2> DEFINE m == [me[p] EXCEPT !.left = @ - 1, !.pc = "submit"]
  <2>1. me' = [me EXCEPT ![p] = m]
    BY <1>10, InvariantParts
  <2>2. me[p].left - 1 \in 0 .. Peers
    BY <1>10, OwnCopy, BoundsAssumption DEF Memory
  <2>3. Fine(tasks, m)
    BY <2>2, OwnCopy DEF Fine, Sound, Memory, PC
  <2> QED BY <1>1, <2>1, <2>3, OnlyMoves DEF Quiet
<1>11. CASE Saves(p, Finalized(me[p].cfg, latest), "idle")
  BY <1>1, <1>8, <1>11, SavesMoves
<1> QED BY <1>9, <1>10, <1>11 DEF Done

LEMMA CollectKeeps ==
    ASSUME IInv, NEW p \in Processes, Collect(p)
    PROVE  IInv'
<1>1. Quiet
  BY DEF Collect, Quiet
<1>2. CASE Ends(p)
  BY <1>1, <1>2, EndsMoves
<1>3. ASSUME NEW k \in 0 .. Peers,
             me' = [me EXCEPT ![p].to = head, ![p].pc = "submit", ![p].left = k]
      PROVE  IInv'
  <2> DEFINE m == [me[p] EXCEPT !.to = head, !.pc = "submit", !.left = k]
  <2>1. me' = [me EXCEPT ![p] = m]
    BY <1>3, InvariantParts
  <2>2. head \in Commits
    BY InvariantParts DEF Rest
  <2>3. Fine(tasks, m)
    BY <2>2, OwnCopy DEF Fine, Sound, Memory, PC
  <2> QED BY <1>1, <2>1, <2>3, OnlyMoves DEF Quiet
<1>4. (IF me[p].cmd = "pairwise" THEN Peers ELSE 0) \in 0 .. Peers
  BY BoundsAssumption
<1> QED BY <1>2, <1>3, <1>4 DEF Collect

LEMMA WatchStatusKeeps ==
    ASSUME IInv, NEW p \in Processes, WatchStatus(p)
    PROVE  IInv'
<1>1. Quiet
  BY CountsIsTrouble DEF WatchStatus, Quiet
<1>2. CASE Goto(p, "collect")
  BY <1>1, <1>2, GotoMoves
<1>3. CASE me' = [me EXCEPT ![p].from = me[p].to, ![p].pc = "reread"]
  <2> DEFINE m == [me[p] EXCEPT !.from = me[p].to, !.pc = "reread"]
  <2>1. me' = [me EXCEPT ![p] = m]
    BY <1>3, InvariantParts
  <2>2. me[p].pc = "status"
    BY DEF WatchStatus
  <2>3. Fine(tasks, m)
    BY <2>2, OwnCopy DEF Fine, Sound, Memory, PC
  <2> QED BY <1>1, <2>1, <2>3, OnlyMoves DEF Quiet
<1> QED BY <1>2, <1>3 DEF WatchStatus

LEMMA WatchRereadKeeps ==
    ASSUME IInv, NEW p \in Processes, WatchReread(p)
    PROVE  IInv'
<1> DEFINE cfg == [file EXCEPT !.last = me[p].from]
<1>1. Quiet
  BY DEF WatchReread, Quiet
<1>2. file \in Config /\ Truthful(tasks, file)
  BY InvariantParts DEF Rest
<1>3. Covered(tasks, me[p].from) /\ me[p].from \in Commits
  BY OwnCopy DEF Fine, Sound, Memory
<1>4. cfg \in Config
  BY <1>2, <1>3 DEF Config
<1>5. Truthful(tasks, cfg)
  BY <1>2, <1>3 DEF Truthful, Config
<1>6. CASE Goto(p, "collect")
  BY <1>1, <1>6, GotoMoves
<1>7. CASE Saves(p, cfg, "collect")
  BY <1>1, <1>4, <1>5, <1>7, SavesMoves
<1> QED BY <1>6, <1>7 DEF WatchReread

LEMMA EndingKeeps ==
    ASSUME IInv, NEW p \in Processes, Crash(p) \/ Stop(p)
    PROVE  IInv'
<1>1. Quiet
  BY CountsIsTrouble DEF Crash, Stop, Quiet
<1> QED BY <1>1, EndsMoves DEF Crash, Stop
-----------------------------------------------------------------------------
(* The steps that submit.                                                  *)

LEMMA SubmissionIsTask ==
    ASSUME IInv, NEW p \in Processes, NEW state \in {"running", "success"}
    PROVE  Submission(p, state) \in Task
BY OwnCopy DEF Submission, Task, Memory

(* What an accepted submission adds to what is true.                        *)
LEMMA Accepted ==
    ASSUME IInv, NEW p \in Processes, NEW state \in {"running", "success"},
           Accepts(p, state)
    PROVE  /\ tasks' \in Seq(Task)
           /\ Grows(tasks, tasks')
           /\ Len(tasks') \in DOMAIN tasks' /\ Len(tasks') \in Nat
           /\ tasks'[Len(tasks')] = Submission(p, state)
           /\ Fine(tasks', me[p])
           /\ Covered(tasks', me[p].from)
           /\ (state = "success" \/ me[p].cmd \in Unawaited)
                => Covered(tasks', me[p].to)
<1> DEFINE k == Submission(p, state)
           n == Len(tasks')
<1>1. tasks \in Seq(Task) /\ k \in Task /\ tasks' = Append(tasks, k)
  BY SubmissionIsTask, InvariantParts DEF Rest, Accepts
<1>2. /\ tasks' \in Seq(Task)
      /\ Grows(tasks, tasks')
      /\ n \in DOMAIN tasks' /\ n \in Nat
      /\ tasks'[n] = k
  BY <1>1, AppendGrows
<1>3. Fine(tasks', me[p]) /\ Covered(tasks', me[p].from)
  BY <1>2, OwnCopy, SoundGrows DEF Fine, Sound
<1>4. ASSUME state = "success" \/ me[p].cmd \in Unawaited
      PROVE  Covered(tasks', me[p].to)
  <2>1. /\ k.from = me[p].from /\ k.to = me[p].to
        /\ k.awaited = (me[p].cmd \notin Unawaited)
        /\ k.state = state /\ k.chunks = "none"
    BY DEF Submission
  <2>2. Processed(k) \/ ~k.awaited
    BY <1>4, <2>1 DEF Processed
  <2>3. k.from \in Nat /\ k.to \in Nat
    BY <1>1 DEF Task, Commits
  <2> HIDE DEF k
  <2>4. Covered(tasks', tasks'[n].to)
    BY <1>2, <1>3, <2>1, <2>2, <2>3, TaskCovers
  <2> QED BY <1>2, <2>1, <2>4
<1> QED BY <1>2, <1>3, <1>4

(* The file stays truthful while the API's tasks grow.                      *)
LEMMA RestGrows ==
    ASSUME IInv, tasks' \in Seq(Task), Grows(tasks, tasks'),
           UNCHANGED <<head, file, aged, saved>>,
           (\E trouble \in Troubles : Counts(trouble)) \/ UNCHANGED count
    PROVE  Rest'
<1>1. count' \in 0 .. MaxTroubles
  BY CountBounded
<1>2. Truthful(tasks', file')
  BY TruthGrows, InvariantParts DEF Rest
<1> QED BY <1>1, <1>2, InvariantParts DEF Rest, Grows

(* The copy that names the new task is truthful.                            *)
LEMMA NewTaskTruthful ==
    ASSUME IInv, NEW p \in Processes, Accepts(p, "running")
    PROVE  /\ Persisted(me[p].cfg, Len(tasks'), me[p].to) \in Config
           /\ Truthful(tasks', Persisted(me[p].cfg, Len(tasks'), me[p].to))
           /\ Persisted(me[p].cfg, Len(tasks'), me[p].to).task # NoTask
<1> DEFINE n == Len(tasks')
<1>1. /\ n \in DOMAIN tasks' /\ n \in Nat
      /\ tasks' \in Seq(Task)
      /\ tasks'[n] = Submission(p, "running")
      /\ Fine(tasks', me[p]) /\ Covered(tasks', me[p].from)
  BY Accepted
<1>2. tasks'[n].from = me[p].from /\ tasks'[n].to = me[p].to
  BY <1>1 DEF Submission
<1>3. /\ me[p].cfg \in Config /\ Truthful(tasks', me[p].cfg)
      /\ me[p].to \in Commits
  BY <1>1, OwnCopy DEF Fine, Sound, Memory
<1>4. n # 0
  BY <1>1
<1>5. Persisted(me[p].cfg, n, me[p].to).task = n
  BY <1>3 DEF Persisted, Config
<1> HIDE DEF n
<1>6. /\ Persisted(me[p].cfg, n, me[p].to) \in Config
      /\ Truthful(tasks', Persisted(me[p].cfg, n, me[p].to))
  BY <1>1, <1>2, <1>3, PersistedTruthful
<1> QED BY <1>4, <1>5, <1>6 DEF n, NoTask

LEMMA SubmitKeeps ==
    ASSUME IInv, NEW p \in Processes, Submit(p)
    PROVE  IInv'
<1> DEFINE cfg == Persisted(me[p].cfg, Len(tasks'), me[p].to)
<1>1. Accepts(p, "running")
  BY DEF Submit
<1>2. Grows(tasks, tasks') /\ Rest'
  BY <1>1, Accepted, RestGrows DEF Submit
<1>3. /\ cfg \in Config /\ Truthful(tasks', cfg) /\ cfg.task # NoTask
  BY <1>1, NewTaskTruthful
<1>4. /\ Fine(tasks', me[p])
      /\ me[p].cmd \in Unawaited => Covered(tasks', me[p].to)
  BY <1>1, Accepted
<1>5. me[p].to \in Commits /\ me[p].cfg \in Config
  BY OwnCopy DEF Memory
<1> HIDE DEF cfg
<1>6. CASE me[p].cmd = "watch" /\ Goto(p, "status")
  <2> DEFINE m == [me[p] EXCEPT !.pc = "status"]
  <2>1. me' = [me EXCEPT ![p] = m]
    BY <1>6, InvariantParts DEF Goto
  <2>2. Fine(tasks', m)
    BY <1>4, <1>6 DEF Fine, Sound, Memory, PC, Unawaited
  <2> QED BY <1>2, <2>1, <2>2, Moves
<1>7. CASE /\ me[p].cmd = "push"
           /\ Saves(p, Finalized(me[p].cfg, me[p].to), "idle")
  <2> DEFINE fin == Finalized(me[p].cfg, me[p].to)
             m == [me[p] EXCEPT !.cfg = fin, !.pc = "write", !.then = "idle"]
  <2>1. me' = [me EXCEPT ![p] = m]
    BY <1>7, InvariantParts DEF Saves
  <2>2. fin \in Config /\ Truthful(tasks', fin)
    BY <1>4, <1>5, <1>7, FinalizedTruthful DEF Unawaited
  <2> HIDE DEF fin
  <2>3. Fine(tasks', m)
    BY <1>4, <2>2, SavesFine
  <2> QED BY <1>2, <2>1, <2>3, Moves
<1>8. CASE Saves(p, cfg, "idle")
  <2> DEFINE m == [me[p] EXCEPT !.cfg = cfg, !.pc = "write", !.then = "idle"]
  <2>1. me' = [me EXCEPT ![p] = m]
    BY <1>8, InvariantParts DEF Saves
  <2>2. Fine(tasks', m)
    BY <1>3, <1>4, SavesFine
  <2> QED BY <1>2, <2>1, <2>2, Moves
<1>9. CASE me' = [me EXCEPT ![p].pc = "write", ![p].then = "parent",
                            ![p].phase = "own", ![p].cfg = cfg]
  <2> DEFINE m == [me[p] EXCEPT !.pc = "write", !.then = "parent",
                                !.phase = "own", !.cfg = cfg]
  <2>1. me' = [me EXCEPT ![p] = m]
    BY <1>9, InvariantParts
  <2>2. Fine(tasks', m)
    BY <1>3, <1>4 DEF Fine, Sound, Memory, PC, Phases
  <2> QED BY <1>2, <2>1, <2>2, Moves
<1> QED BY <1>6, <1>7, <1>8, <1>9 DEF Submit, cfg

LEMMA SubmitLocalKeeps ==
    ASSUME IInv, NEW p \in Processes, SubmitLocal(p)
    PROVE  IInv'
<1>1. Accepts(p, "success")
  BY DEF SubmitLocal
<1>2. Grows(tasks, tasks') /\ Rest'
  BY <1>1, Accepted, RestGrows DEF SubmitLocal
<1>3. Fine(tasks', me[p]) /\ Covered(tasks', me[p].to)
  BY <1>1, Accepted
<1>4. me[p].to \in Commits /\ me[p].cfg \in Config
  BY OwnCopy DEF Memory
<1>5. CASE Goto(p, "status")
  <2> DEFINE m == [me[p] EXCEPT !.pc = "status"]
  <2>1. me' = [me EXCEPT ![p] = m]
    BY <1>5, InvariantParts DEF Goto
  <2>2. Fine(tasks', m)
    BY <1>3 DEF Fine, Sound, Memory, PC
  <2> QED BY <1>2, <2>1, <2>2, Moves
<1>6. CASE me[p].left > 1 /\ me' = [me EXCEPT ![p].left = @ - 1]
  <2> DEFINE m == [me[p] EXCEPT !.left = @ - 1]
  <2>1. me' = [me EXCEPT ![p] = m]
    BY <1>6, InvariantParts
  <2>2. me[p].left - 1 \in 0 .. Peers
    BY <1>6, OwnCopy, BoundsAssumption DEF Memory
  <2>3. Fine(tasks', m)
    BY <1>3, <2>2 DEF Fine, Sound, Memory
  <2> QED BY <1>2, <2>1, <2>3, Moves
<1>7. CASE Saves(p, Finalized(me[p].cfg, me[p].to), "idle")
  <2> DEFINE fin == Finalized(me[p].cfg, me[p].to)
             m == [me[p] EXCEPT !.cfg = fin, !.pc = "write", !.then = "idle"]
  <2>1. me' = [me EXCEPT ![p] = m]
    BY <1>7, InvariantParts DEF Saves
  <2>2. fin \in Config /\ Truthful(tasks', fin)
    BY <1>3, <1>4, FinalizedTruthful
  <2> HIDE DEF fin
  <2>3. Fine(tasks', m)
    BY <1>3, <2>2, SavesFine
  <2> QED BY <1>2, <2>1, <2>3, Moves
<1> QED BY <1>5, <1>6, <1>7 DEF SubmitLocal

LEMMA SubmitLostKeeps ==
    ASSUME IInv, NEW p \in Processes, SubmitLost(p)
    PROVE  IInv'
<1>1. tasks' \in Seq(Task) /\ Grows(tasks, tasks')
  <2>1. CASE Accepts(p, "running")
    BY <2>1, Accepted
  <2>2. CASE UNCHANGED tasks
    BY <2>2, GrowsItself, InvariantParts DEF Rest
  <2> QED BY <2>1, <2>2 DEF SubmitLost
<1>2. Rest'
  BY <1>1, RestGrows, CountsIsTrouble DEF SubmitLost
<1>3. Fine(tasks', me[p])
  BY <1>1, OwnCopy, SoundGrows DEF Fine
<1>4. CASE Goto(p, "collect")
  <2> DEFINE m == [me[p] EXCEPT !.pc = "collect"]
  <2>1. me' = [me EXCEPT ![p] = m]
    BY <1>4, InvariantParts DEF Goto
  <2>2. Fine(tasks', m)
    BY <1>3, GotoFine
  <2> QED BY <1>1, <1>2, <2>1, <2>2, Moves
<1>5. CASE Ends(p)
  BY <1>1, <1>2, <1>5, IdleFine, Moves DEF Ends
<1> QED BY <1>4, <1>5 DEF SubmitLost
-----------------------------------------------------------------------------
(* The steps that write the file, and those of others.                      *)

LEMMA WriteKeeps ==
    ASSUME IInv, NEW p \in Processes, Write(p)
    PROVE  IInv'
<1>1. Grows(tasks, tasks')
  BY GrowsItself DEF Write
<1>2. Rest'
  <2>1. file' \in Config /\ Truthful(tasks', file')
    BY OwnCopy DEF Write
  <2>2. saved' \subseteq DOMAIN tasks'
    BY OwnCopy, InvariantParts DEF Write, Truthful, Rest
  <2> QED BY <2>1, <2>2, InvariantParts DEF Write, Rest
<1>3. CASE Ends(p)
  BY <1>1, <1>2, <1>3, IdleFine, Moves DEF Ends
<1>4. CASE Goto(p, me[p].then)
  <2> DEFINE m == [me[p] EXCEPT !.pc = me[p].then]
  <2>1. me' = [me EXCEPT ![p] = m]
    BY <1>4, InvariantParts DEF Goto
  <2>2. /\ me[p].then \in {"idle", "read", "parent", "collect"}
        /\ me[p].then = "parent" => me[p].cfg.task # NoTask
    BY OwnCopy DEF Write, Fine, Sound
  <2>3. Fine(tasks, m)
    BY <2>2, OwnCopy DEF Fine, Sound, Memory, PC
  <2>4. tasks' = tasks
    BY DEF Write
  <2> QED BY <1>1, <1>2, <2>1, <2>3, <2>4, Moves
<1> QED BY <1>3, <1>4 DEF Write

LEMMA CrashInWriteKeeps ==
    ASSUME IInv, NEW p \in Processes, CrashInWrite(p)
    PROVE  IInv'
<1>1. Grows(tasks, tasks')
  BY GrowsItself DEF CrashInWrite
<1>2. count' \in 0 .. MaxTroubles
  BY CountBounded, CountsIsTrouble DEF CrashInWrite
<1>3. Rest'
  BY <1>2, TornTruthful, InvariantParts DEF CrashInWrite, Rest
<1> QED BY <1>1, <1>3, IdleFine, Moves DEF CrashInWrite, Ends

(* The API only goes forward.                                               *)
LEMMA ServerKeeps ==
    ASSUME IInv, Server
    PROVE  IInv'
<1>1. PICK t \in DOMAIN tasks : Works(t) \/ Fails(t)
  BY DEF Server
<1>2. tasks \in Seq(Task) /\ tasks[t] \in Task
  BY InvariantParts DEF Rest
<1>3. PICK k \in Task :
        /\ tasks' = [tasks EXCEPT ![t] = k]
        /\ k.from = tasks[t].from /\ k.to = tasks[t].to
        /\ k.awaited = tasks[t].awaited
        /\ Processed(tasks[t]) => Processed(k)
        /\ (tasks[t].state = "success" \/ tasks[t].chunks # "none")
             => (k.state = "success" \/ k.chunks # "none")
  <2>1. CASE QueuesChunks(t)
    <3> [tasks[t] EXCEPT !.chunks = "running"] \in Task
      BY <1>2 DEF Task
    <3> WITNESS [tasks[t] EXCEPT !.chunks = "running"] \in Task
    <3> QED BY <1>2, <2>1 DEF QueuesChunks, Task, Processed
  <2>2. CASE Succeeds(t)
    <3> [tasks[t] EXCEPT !.state = "success"] \in Task
      BY <1>2 DEF Task
    <3> WITNESS [tasks[t] EXCEPT !.state = "success"] \in Task
    <3> QED BY <1>2, <2>2 DEF Succeeds, Task, Processed
  <2>3. CASE ChunksSucceed(t)
    <3> [tasks[t] EXCEPT !.chunks = "done"] \in Task
      BY <1>2 DEF Task
    <3> WITNESS [tasks[t] EXCEPT !.chunks = "done"] \in Task
    <3> QED BY <1>2, <2>3 DEF ChunksSucceed, Task, Processed
  <2>4. CASE TaskFails(t)
    <3>1. PICK x \in {"failed", "ended"} : tasks' = [tasks EXCEPT ![t].state = x]
      BY <2>4 DEF TaskFails
    <3> [tasks[t] EXCEPT !.state = x] \in Task
      BY <1>2 DEF Task
    <3> WITNESS [tasks[t] EXCEPT !.state = x] \in Task
    <3> QED BY <1>2, <2>4, <3>1 DEF TaskFails, Task, Processed
  <2>5. CASE ChunksFail(t)
    <3> [tasks[t] EXCEPT !.chunks = "failed"] \in Task
      BY <1>2 DEF Task
    <3> WITNESS [tasks[t] EXCEPT !.chunks = "failed"] \in Task
    <3> QED BY <1>2, <2>5 DEF ChunksFail, Task, Processed
  <2> QED BY <1>1, <2>1, <2>2, <2>3, <2>4, <2>5 DEF Works, Fails
<1>4. tasks' \in Seq(Task) /\ DOMAIN tasks' = DOMAIN tasks
  BY <1>2, <1>3, ExceptTask
<1>5. Grows(tasks, tasks')
  BY <1>3, <1>4 DEF Grows
<1>6. (\E trouble \in Troubles : Counts(trouble)) \/ UNCHANGED count
  BY <1>1, CountsIsTrouble
     DEF Works, Fails, QueuesChunks, Succeeds, ChunksSucceed, TaskFails, ChunksFail
<1>7. Rest'
  BY <1>4, <1>5, <1>6, RestGrows DEF Server
<1> QED BY <1>5, <1>7, Stays DEF Server

LEMMA CommitKeeps ==
    ASSUME IInv, Commit
    PROVE  IInv'
<1>1. Rest'
  BY BoundsAssumption, InvariantParts DEF Commit, Rest, Commits
<1> QED BY <1>1, GrowsItself, Stays DEF Commit

LEMMA AgesKeeps ==
    ASSUME IInv, NEW t \in DOMAIN tasks, Ages(t)
    PROVE  IInv'
<1>1. (\E trouble \in Troubles : Counts(trouble)) \/ UNCHANGED count
  BY CountsIsTrouble DEF Ages
<1>2. count' \in 0 .. MaxTroubles
  BY <1>1, CountBounded
<1>3. Rest'
  BY <1>2, InvariantParts DEF Ages, Rest
<1> QED BY <1>3, GrowsItself, Stays DEF Ages
-----------------------------------------------------------------------------
(* The theorems.                                                           *)

LEMMA InitHolds == Init => IInv
<1> SUFFICES ASSUME Init PROVE IInv
  OBVIOUS
<1>1. file \in Config /\ file.last = 0 /\ file.task = NoTask
  BY TornTruthful DEF Init, Torn, Config
<1>2. Truthful(tasks, file)
  BY <1>1 DEF Truthful, Covered
<1>3. Rest
  BY <1>1, <1>2, BoundsAssumption DEF Init, Rest, Commits
<1>4. \A p \in Processes : Fine(tasks, me[p])
  BY IdleFine DEF Init
<1>5. me \in [Processes -> Memory]
  BY IdleFine DEF Init, Fine
<1> QED BY <1>3, <1>4, <1>5, InvariantParts

LEMMA NextKeeps == IInv /\ [Next]_vars => IInv'
<1> SUFFICES ASSUME IInv, [Next]_vars PROVE IInv'
  OBVIOUS
<1>1. ASSUME NEW p \in Processes, Proceed(p) PROVE IInv'
  BY <1>1, ReadKeeps, NothingToLookAtKeeps, ResumeKeeps, StaleKeeps,
     ParentReturnsKeeps, ParentFailsKeeps, DoneKeeps, ChunkFailsKeeps,
     CollectKeeps, SubmitKeeps, SubmitLocalKeeps, WriteKeeps,
     WatchStatusKeeps, WatchRereadKeeps DEF Proceed
<1>2. ASSUME NEW p \in Processes, Trouble(p) PROVE IInv'
  BY <1>2, InterruptedKeeps, SubmitLostKeeps, EndingKeeps, CrashInWriteKeeps
     DEF Trouble
<1>3. CASE UNCHANGED vars
  <2>1. IInv' <=> IInv
    BY <1>3 DEF vars, IInv, TypeOK
  <2> QED BY <2>1
<1> QED BY <1>1, <1>2, <1>3, BeginKeeps, ServerKeeps, CommitKeeps, AgesKeeps
     DEF Next

(* Every copy of the configuration is truthful, whatever the commands do to
   each other's writes (the callers of WriteProjectConfig).                 *)
THEOREM CopiesAreTruthful == Spec => []IInv
BY InitHolds, NextKeeps, PTL DEF Spec

(* No commit is counted as synced that the API has not processed
   (finalizeRepoSync and its callers).                                      *)
THEOREM SyncedWasProcessed == Spec => []SyncedIsProcessed
<1>1. IInv => SyncedIsProcessed
  BY DEF IInv, Truthful, SyncedIsProcessed
<1> QED BY <1>1, CopiesAreTruthful, PTL
-----------------------------------------------------------------------------
(* One command at a time.

   The argument: while only one command runs, its copy of the configuration is
   the file's, and the file is honest about every saved task that may still
   end: it names the task, or its last synced commit, or its saved task's own
   commits, lie beyond it. A command that waits submits from the last synced
   commit on, and only when the saved task is over.                         *)

(* What a process and the file look like in a state of the invariant.        *)
LEMMA OneHere ==
    ASSUME IInv, Alone, NEW p \in Processes
    PROVE  /\ Ready(me[p]) /\ Fine(tasks, me[p]) /\ me[p] \in Memory
           /\ me[p].cfg \in Config /\ file \in Config
           /\ head \in Nat /\ tasks \in Seq(Task) /\ saved \subseteq DOMAIN tasks
           /\ Bounded /\ InOrder /\ Left
           /\ Truthful(tasks, file) /\ Truthful(tasks, me[p].cfg)
<1>1. head \in Commits
  BY InvariantParts DEF Rest
<1> QED BY <1>1, OwnCopy, InvariantParts DEF Alone, Rest, Commits

(* Numbers of commits are numbers.                                          *)
LEMMA Numbers ==
    ASSUME IInv
    PROVE  /\ \A t \in DOMAIN tasks : tasks[t].from \in Nat /\ tasks[t].to \in Nat
           /\ file.last \in Nat /\ file.commit \in Nat /\ head \in Nat
           /\ \A p \in Processes :
                /\ me[p].from \in Nat /\ me[p].to \in Nat
                /\ me[p].cfg.last \in Nat /\ me[p].cfg.commit \in Nat
                /\ me[p].cfg.task \in Nat
<1>1. /\ file \in Config /\ head \in Commits
      /\ \A p \in Processes : me[p] \in Memory
      /\ \A t \in DOMAIN tasks : tasks[t] \in Task
  BY InvariantParts, ElementOfSeq DEF Rest, Fine
<1> QED BY <1>1 DEF Config, Memory, Task, Commits

(* The only process moves, to the memory m.                                 *)
LEMMA OneMoves ==
    ASSUME NEW p \in Processes, Processes = {p}, IInv, NEW m,
           me' = [me EXCEPT ![p] = m],
           Bounded', InOrder', Left', Ready(m)'
    PROVE  Alone'
<1>1. me'[p] = m
  BY InvariantParts
<1>2. \A q \in Processes : me'[q] = m
  BY <1>1
<1>3. ASSUME NEW q \in Processes PROVE Ready(me[q])'
  BY <1>2, <1>3
     DEF Ready, Informed, Aims, Free, Honest, Settles, Owed, Live, Processed, Forward
<1> QED BY <1>3 DEF Alone

(* While the file and the API's tasks stay, what was said of them stays.     *)
LEMMA QuietSays ==
    ASSUME UNCHANGED <<head, file, tasks, aged, saved>>
    PROVE  /\ Bounded => Bounded'
           /\ InOrder => InOrder'
           /\ Left => Left'
           /\ \A m : Ready(m) => Ready(m)'
BY DEF Bounded, InOrder, Left, Ready, Informed, Aims, Free, Honest, Settles,
       Owed, Live, Processed, Forward

LEMMA OneMovesQuietly ==
    ASSUME NEW p \in Processes, Processes = {p}, IInv, Alone, Quiet, NEW m,
           Ready(m), me' = [me EXCEPT ![p] = m]
    PROVE  Alone'
<1>1. Bounded' /\ InOrder' /\ Left' /\ Ready(m)'
  BY QuietSays DEF Quiet, Alone
<1> QED BY <1>1, OneMoves
-----------------------------------------------------------------------------
(* Honest copies of the configuration.                                      *)

LEMMA ClearedHonest ==
    ASSUME NEW k \in Config, Honest(k), ~Owed(k.task)
    PROVE  Honest(Cleared(k)) /\ Forward(Cleared(k)) /\ Cleared(k).bound = k.bound
           /\ Cleared(k).last = k.last /\ Cleared(k).task = NoTask
<1>1. /\ Cleared(k).bound = k.bound
      /\ Cleared(k).last = k.last /\ Cleared(k).task = NoTask
  BY DEF Cleared, Config
<1> QED BY <1>1 DEF Honest, Settles, Forward

(* The saved task is done: its last commit is synced.                       *)
LEMMA DoneHonest ==
    ASSUME NEW k \in Config, Honest(k), ~Owed(k.task), k.task # NoTask,
           IInv, Bounded, saved \subseteq DOMAIN tasks,
           k.task \in DOMAIN tasks, tasks[k.task].to = k.commit
    PROVE  Honest(Finalized(k, k.commit))
<1>1. /\ Finalized(k, k.commit).last = k.commit
      /\ Finalized(k, k.commit).task = NoTask
  BY DEF Finalized, Cleared, Config
<1>2. tasks[k.task].from <= k.commit
  BY DEF Bounded
<1>3. SUFFICES ASSUME NEW t \in saved, Owed(t)
               PROVE  tasks[t].to <= k.commit
  BY <1>1 DEF Honest, Settles
<1>4. tasks[t].to <= tasks[k.task].from
  BY <1>3 DEF Honest, Settles
<1>5. tasks[t].to \in Nat /\ tasks[k.task].from \in Nat /\ k.commit \in Nat
  BY Numbers
<1> QED BY <1>2, <1>4, <1>5

(* A commit at or beyond all the saved tasks' is synced.                     *)
LEMMA BeyondHonest ==
    ASSUME NEW k \in Config, NEW n, \A t \in saved : tasks[t].to <= n
    PROVE  Honest(Finalized(k, n))
<1>1. /\ Finalized(k, n).last = n
      /\ Finalized(k, n).task = NoTask
  BY DEF Finalized, Cleared, Config
<1> QED BY <1>1 DEF Honest, Settles

LEMMA FinalizedFields ==
    ASSUME NEW k \in Config, NEW n
    PROVE  /\ Finalized(k, n).last = n /\ Finalized(k, n).task = NoTask
           /\ Finalized(k, n).bound = k.bound /\ Forward(Finalized(k, n))
BY DEF Finalized, Cleared, Config, Forward
-----------------------------------------------------------------------------
(* Where a process goes.                                                    *)

LEMMA IdleReady == ASSUME IInv PROVE Ready(Idle)
<1>1. 0 <= head
  BY Numbers
<1> QED BY <1>1 DEF Ready, Informed, Aims, Free, Idle, Torn

LEMMA OneEnds ==
    ASSUME NEW p \in Processes, Processes = {p}, IInv, Alone, Quiet, Ends(p)
    PROVE  Alone'
BY IdleReady, OneMovesQuietly DEF Ends

(* The copy of a process that looks, waits or submits is the file.           *)
LEMMA OwnFile ==
    ASSUME NEW p \in Processes, IInv, Alone,
           me[p].pc \notin {"idle", "read", "write"},
           me[p].pc # "look" \/ Looks(p) \/ me[p].phase # "initial"
    PROVE  me[p].cfg = file /\ file.bound /\ Honest(file) /\ Forward(file)
<1>1. me[p].cfg = file
  BY OneHere DEF Ready, Informed
<1>2. Looks(p) => file.task # NoTask
  BY <1>1 DEF Looks
<1>3. Torn.task = NoTask /\ ~Torn.bound
  BY DEF Torn
<1>4. file.bound
  BY <1>1, <1>2, <1>3, OneHere DEF Ready, Informed, Left
<1> QED BY <1>1, <1>3, <1>4, OneHere DEF Left

(* A process that saves something and ends, or reads again.                  *)
LEMMA OneSaves ==
    ASSUME NEW p \in Processes, Processes = {p}, IInv, Alone, Quiet,
           me[p].pc # "idle",
           NEW cfg, cfg.bound, Honest(cfg), Forward(cfg), cfg.task = NoTask,
           cfg.last <= head, "watch" \in Commands \/ file.last <= cfg.last,
           \/ Saves(p, cfg, "idle")
           \/ me[p].phase = "initial" /\ SavesInitial(p, cfg)
    PROVE  Alone'
<1>1. PICK m : m = me[p]
  OBVIOUS
<1>2. /\ m \in Memory /\ m.pc # "idle" /\ Ready(m)
  BY <1>1, OneHere
<1>3. CASE Saves(p, cfg, "idle")
  <2>1. PICK x : x = [m EXCEPT !.cfg = cfg, !.pc = "write", !.then = "idle"]
    OBVIOUS
  <2>2. /\ x.pc = "write" /\ x.then = "idle" /\ x.cfg = cfg /\ x.cmd = m.cmd
        /\ x.phase = m.phase /\ x.from = m.from /\ x.to = m.to
    BY <1>2, <2>1 DEF Memory
  <2>3. Informed(x)
    BY <1>2, <2>2 DEF Ready, Informed
  <2>4. Aims(x) /\ Free(x)
    BY <1>2, <2>2 DEF Ready, Aims, Free
  <2>5. me' = [me EXCEPT ![p] = x]
    BY <1>1, <1>3, <2>1, InvariantParts DEF Saves
  <2> QED BY <2>3, <2>4, <2>5, OneMovesQuietly DEF Ready
<1>4. CASE m.phase = "initial" /\ SavesInitial(p, cfg)
  <2>1. PICK x : x = [m EXCEPT !.cfg = cfg, !.pc = "write", !.then = "read",
                               !.phase = "saved"]
    OBVIOUS
  <2>2. /\ x.pc = "write" /\ x.then = "read" /\ x.cfg = cfg /\ x.cmd = m.cmd
        /\ x.phase = "saved" /\ x.from = m.from /\ x.to = m.to
    BY <1>2, <2>1 DEF Memory
  <2>3. Informed(x)
    BY <1>2, <1>4, <2>2 DEF Ready, Informed
  <2>4. Aims(x) /\ Free(x)
    BY <1>2, <2>2 DEF Ready, Aims, Free
  <2>5. me' = [me EXCEPT ![p] = x]
    BY <1>1, <1>4, <2>1, InvariantParts DEF SavesInitial
  <2> QED BY <2>3, <2>4, <2>5, OneMovesQuietly DEF Ready
<1> QED BY <1>1, <1>3, <1>4

(* A process that goes on, with a copy it has not changed.                   *)
LEMMA OneGoes ==
    ASSUME NEW p \in Processes, Processes = {p}, IInv, Alone, Quiet,
           me[p].pc \in {"look", "parent", "chunks"},
           Looks(p) \/ me[p].pc # "look",
           NEW pc \in {"parent", "chunks"}, Goto(p, pc)
    PROVE  Alone'
<1>1. PICK m : m = me[p]
  OBVIOUS
<1>2. /\ m \in Memory /\ Ready(m) /\ m.cfg = file /\ file.bound
      /\ m.pc \in {"look", "parent", "chunks"}
  BY <1>1, OneHere, OwnFile
<1>3. PICK x : x = [m EXCEPT !.pc = pc]
  OBVIOUS
<1>4. /\ x.pc = pc /\ x.then = m.then /\ x.cfg = m.cfg /\ x.cmd = m.cmd
      /\ x.phase = m.phase /\ x.from = m.from /\ x.to = m.to
  BY <1>2, <1>3 DEF Memory
<1>5. Informed(x)
  BY <1>2, <1>4 DEF Ready, Informed
<1>6. Aims(x) /\ Free(x)
  BY <1>2, <1>4 DEF Ready, Aims, Free
<1>7. me' = [me EXCEPT ![p] = x]
  BY <1>1, <1>3, InvariantParts DEF Goto
<1> QED BY <1>5, <1>6, <1>7, OneMovesQuietly DEF Ready
-----------------------------------------------------------------------------
(* The steps that change neither the file nor the API's tasks.               *)

LEMMA BeginAlone ==
    ASSUME NEW p \in Processes, Processes = {p}, IInv, Alone,
           NEW cmd \in Commands, Begin(p, cmd)
    PROVE  Alone'
<1>1. PICK x : x = [Idle EXCEPT !.pc = "read", !.cmd = cmd,
                      !.phase = IF cmd \in Uploads THEN "initial" ELSE cmd]
  OBVIOUS
<1>2. /\ x.pc = "read" /\ x.cmd = cmd /\ x.cfg = Torn /\ x.from = 0 /\ x.to = 0
      /\ x.phase = IF cmd \in Uploads THEN "initial" ELSE cmd
  BY <1>1 DEF Idle
<1>3. 0 <= head
  BY Numbers
<1>4. cmd \in Uploads \cup {"wait", "watch"}
  BY BoundsAssumption
<1>5. Informed(x)
  BY <1>2, <1>4 DEF Informed, Uploads
<1>6. Aims(x) /\ Free(x)
  BY <1>2, <1>3, <1>4 DEF Aims, Free, Torn, Uploads
<1>7. me' = [me EXCEPT ![p] = x] /\ Quiet
  BY <1>1 DEF Begin, Quiet
<1> QED BY <1>5, <1>6, <1>7, OneMovesQuietly DEF Ready

LEMMA ReadAlone ==
    ASSUME NEW p \in Processes, Processes = {p}, IInv, Alone, Read(p)
    PROVE  Alone'
<1>1. Quiet
  BY DEF Read, Quiet
<1>2. CASE ~file.bound /\ me[p].phase # "initial"
  BY <1>1, <1>2, OneEnds DEF Read
<1>3. CASE ~(~file.bound /\ me[p].phase # "initial")
  <2>1. PICK m : m = me[p]
    OBVIOUS
  <2>2. m \in Memory /\ m.pc = "read" /\ Ready(m)
    BY <2>1, OneHere DEF Read
  <2>3. PICK x : x = [m EXCEPT !.cfg = file, !.from = file.last,
                        !.pc = IF m.cmd = "watch" THEN "collect" ELSE "look"]
    OBVIOUS
  <2>4. /\ x.pc = (IF m.cmd = "watch" THEN "collect" ELSE "look")
        /\ x.cfg = file /\ x.cmd = m.cmd /\ x.phase = m.phase
        /\ x.from = file.last /\ x.to = m.to /\ x.then = m.then
    BY <2>2, <2>3 DEF Memory
  <2>5. file.last <= head /\ file.last <= file.last
    BY OneHere, Numbers DEF Bounded
  <2>6. Informed(x)
    BY <1>3, <2>1, <2>2, <2>4 DEF Ready, Informed
  <2>7. Aims(x)
    BY <2>2, <2>4, <2>5 DEF Ready, Aims, Informed
  <2>8. Free(x)
    BY <2>4 DEF Free, Unawaited
  <2>9. me' = [me EXCEPT ![p] = x]
    BY <1>3, <2>1, <2>3, InvariantParts DEF Read
  <2> QED BY <1>1, <2>6, <2>7, <2>8, <2>9, OneMovesQuietly DEF Ready
<1> QED BY <1>2, <1>3

LEMMA NothingToLookAtAlone ==
    ASSUME NEW p \in Processes, Processes = {p}, IInv, Alone, NothingToLookAt(p)
    PROVE  Alone'
<1>1. Quiet
  BY DEF NothingToLookAt, Quiet
<1>2. PICK m : m = me[p]
  OBVIOUS
<1>3. m \in Memory /\ m.pc = "look" /\ Ready(m)
  BY <1>2, OneHere DEF NothingToLookAt
<1>4. CASE /\ m.phase = "initial"
           /\ me' = [me EXCEPT ![p].phase = "saved", ![p].pc = "read"]
  <2>1. PICK x : x = [m EXCEPT !.phase = "saved", !.pc = "read"]
    OBVIOUS
  <2>2. /\ x.pc = "read" /\ x.phase = "saved" /\ x.cfg = m.cfg /\ x.cmd = m.cmd
        /\ x.from = m.from /\ x.to = m.to /\ x.then = m.then
    BY <1>3, <2>1 DEF Memory
  <2>3. Informed(x)
    BY <1>3, <1>4, <2>2 DEF Ready, Informed
  <2>4. Aims(x) /\ Free(x)
    BY <1>3, <2>2 DEF Ready, Aims, Free
  <2>5. me' = [me EXCEPT ![p] = x]
    BY <1>2, <1>4, <2>1, InvariantParts
  <2> QED BY <1>1, <2>3, <2>4, <2>5, OneMovesQuietly DEF Ready
<1>5. CASE Ends(p)
  BY <1>1, <1>5, OneEnds
<1>6. CASE /\ m.phase \notin {"initial", "wait"}
           /\ ~(m.cmd = "detach" /\ m.cfg.task # NoTask)
           /\ Goto(p, "collect")
  <2>1. PICK x : x = [m EXCEPT !.pc = "collect"]
    OBVIOUS
  <2>2. /\ x.pc = "collect" /\ x.phase = m.phase /\ x.cfg = m.cfg
        /\ x.cmd = m.cmd /\ x.from = m.from /\ x.to = m.to /\ x.then = m.then
    BY <1>3, <2>1 DEF Memory
  <2>3. m.cmd # "watch" \/ m.phase = "watch"
    BY <1>3 DEF Ready, Informed
  <2>4. m.cfg.task # NoTask => m.phase = "saved" /\ m.cmd \notin {"review", "pairwise"}
    BY <1>2, <1>3, <1>6 DEF NothingToLookAt, Looks
  <2>5. Informed(x)
    BY <1>3, <1>6, <2>2 DEF Ready, Informed
  <2>6. m.cfg = file /\ m.from = m.cfg.last /\ file.last <= m.from
    <3>1. m.cfg = file
      BY <1>3 DEF Ready, Informed
    <3> QED BY <1>2, <1>3, <3>1, Numbers DEF Ready, Aims
  <2>7. Aims(x)
    BY <1>3, <2>2, <2>6 DEF Ready, Aims
  <2>8. m.cmd \in Uploads \cup {"wait", "watch"}
    BY <1>3, BoundsAssumption DEF Ready, Informed
  <2>9. Free(x)
    BY <1>3, <1>6, <2>2, <2>4, <2>8 DEF Free, Unawaited, Ready, Informed, Uploads
  <2>10. me' = [me EXCEPT ![p] = x]
    BY <1>2, <1>6, <2>1, InvariantParts DEF Goto
  <2> QED BY <1>1, <2>5, <2>7, <2>9, <2>10, OneMovesQuietly DEF Ready
<1> QED BY <1>2, <1>4, <1>5, <1>6 DEF NothingToLookAt

LEMMA ResumeAlone ==
    ASSUME NEW p \in Processes, Processes = {p}, IInv, Alone, Resume(p)
    PROVE  Alone'
<1>1. Quiet
  BY DEF Resume, Quiet
<1> QED BY <1>1, OneGoes DEF Resume

(* The saved task is dropped, and the copy without it is written.            *)
LEMMA OneClears ==
    ASSUME NEW p \in Processes, Processes = {p}, IInv, Alone, Quiet,
           me[p].pc \in {"look", "parent", "chunks"},
           Looks(p) \/ me[p].pc # "look", ~Owed(me[p].cfg.task),
           \/ Saves(p, Cleared(me[p].cfg), "idle")
           \/ me[p].phase = "initial" /\ SavesInitial(p, Cleared(me[p].cfg))
    PROVE  Alone'
<1>1. me[p].cfg = file /\ file.bound /\ Honest(file) /\ file \in Config
  BY OwnFile, OneHere
<1>2. PICK cfg : cfg = Cleared(me[p].cfg)
  OBVIOUS
<1>3. /\ Honest(cfg) /\ Forward(cfg) /\ cfg.bound
      /\ cfg.last = file.last /\ cfg.task = NoTask
  BY <1>1, <1>2, ClearedHonest
<1>4. cfg.last <= head /\ file.last <= cfg.last
  BY <1>3, Numbers, OneHere DEF Bounded
<1> QED BY <1>2, <1>3, <1>4, OneSaves

LEMMA StaleAlone ==
    ASSUME NEW p \in Processes, Processes = {p}, IInv, Alone, Stale(p)
    PROVE  Alone'
<1> DEFINE t == me[p].cfg.task
<1>1. /\ me[p].pc = "look" /\ Looks(p) /\ t \in aged
      /\ UNCHANGED <<head, file, tasks, aged, saved>>
  BY DEF Stale
<1>2. ~Owed(t)
  BY <1>1 DEF Owed
<1>3. CASE StaleInSync(p)
  <2>1. Quiet
    BY <1>1, <1>3 DEF Quiet, StaleInSync
  <2>2. PICK m : m = me[p]
    OBVIOUS
  <2>3. /\ m \in Memory /\ m.pc = "look" /\ Ready(m) /\ m.phase = "saved"
        /\ m.cfg = file /\ file.bound /\ Honest(file) /\ file \in Config
    BY <1>1, <1>3, <2>2, OneHere, OwnFile DEF StaleInSync
  <2>4. PICK cfg : cfg = Cleared(m.cfg)
    OBVIOUS
  <2>5. /\ Honest(cfg) /\ Forward(cfg) /\ cfg.bound
        /\ cfg.last = file.last /\ cfg.task = NoTask
    BY <1>2, <2>2, <2>3, <2>4, ClearedHonest
  <2>6. PICK x : x = [m EXCEPT !.cfg = cfg, !.pc = "write", !.then = "collect"]
    OBVIOUS
  <2>7. /\ x.pc = "write" /\ x.then = "collect" /\ x.cfg = cfg /\ x.cmd = m.cmd
        /\ x.phase = m.phase /\ x.from = m.from /\ x.to = m.to
    BY <2>3, <2>6 DEF Memory
  <2>8. file.last <= file.last
    BY Numbers
  <2>9. Informed(x)
    BY <2>3, <2>5, <2>7, <2>8 DEF Ready, Informed
  <2>10. Aims(x) /\ Free(x)
    BY <2>3, <2>5, <2>7 DEF Ready, Aims, Free
  <2>11. me' = [me EXCEPT ![p] = x]
    BY <1>3, <2>2, <2>4, <2>6, InvariantParts DEF StaleInSync, Saves
  <2> QED BY <2>1, <2>9, <2>10, <2>11, OneMovesQuietly DEF Ready
<1>4. CASE StaleInitial(p)
  <2>1. Quiet
    BY <1>1, <1>4, CountsIsTrouble DEF Quiet, StaleInitial
  <2> QED BY <1>1, <1>2, <1>4, <2>1, OneGoes, OneClears DEF StaleInitial
<1>5. CASE StaleInWait(p)
  <2>1. Quiet
    BY <1>1, <1>5, CountsIsTrouble DEF Quiet, StaleInWait
  <2> QED BY <1>1, <1>2, <1>5, <2>1, OneGoes, OneClears, OneEnds DEF StaleInWait
<1> QED BY <1>3, <1>4, <1>5 DEF Stale

LEMMA ParentReturnsAlone ==
    ASSUME NEW p \in Processes, Processes = {p}, IInv, Alone, ParentReturns(p)
    PROVE  Alone'
<1>1. Quiet
  BY DEF ParentReturns, Quiet
<1> QED BY <1>1, OneGoes DEF ParentReturns

(* A task that ended without success is not owed: it is forgotten or left.   *)
LEMMA ParentFailsAlone ==
    ASSUME NEW p \in Processes, Processes = {p}, IInv, Alone, ParentFails(p)
    PROVE  Alone'
<1>1. Quiet
  BY DEF ParentFails, Quiet
<1>2. ~Owed(me[p].cfg.task)
  BY DEF ParentFails, Owed, Live
<1> QED BY <1>1, <1>2, OneClears, OneEnds DEF ParentFails

(* An interrupted wait leaves the saved task in the file.                    *)
LEMMA InterruptedAlone ==
    ASSUME NEW p \in Processes, Processes = {p}, IInv, Alone, Interrupted(p)
    PROVE  Alone'
<1>1. Quiet
  BY CountsIsTrouble DEF Interrupted, Quiet
<1>2. ~Forgets(me[p].phase, "running")
  BY DEF Forgets
<1> QED BY <1>1, <1>2, OneEnds DEF Interrupted

LEMMA ChunkFailsAlone ==
    ASSUME NEW p \in Processes, Processes = {p}, IInv, Alone, ChunkFails(p)
    PROVE  Alone'
<1>1. Quiet
  BY DEF ChunkFails, Quiet
<1>2. ~Owed(me[p].cfg.task)
  BY DEF ChunkFails, Owed, Live
<1> QED BY <1>1, <1>2, OneClears DEF ChunkFails

LEMMA EndingAlone ==
    ASSUME NEW p \in Processes, Processes = {p}, IInv, Alone, Crash(p) \/ Stop(p)
    PROVE  Alone'
<1>1. Quiet
  BY CountsIsTrouble DEF Crash, Stop, Quiet
<1> QED BY <1>1, OneEnds DEF Crash, Stop

(* A task that is done is no longer owed; the commits of all the tasks that
   are lie before its own.                                                  *)
LEMMA DoneAlone ==
    ASSUME NEW p \in Processes, Processes = {p}, IInv, Alone, Done(p)
    PROVE  Alone'
<1>1. Quiet
  BY DEF Done, Quiet
<1>2. PICK m : m = me[p]
  OBVIOUS
<1>3. /\ m \in Memory /\ m.pc = "chunks" /\ Ready(m) /\ m.cfg \in Config
      /\ m.cfg = file /\ file.bound /\ Honest(m.cfg) /\ Forward(m.cfg)
  BY <1>2, OneHere, OwnFile DEF Done
<1>4. /\ m.cfg.task # NoTask /\ m.cfg.task \in DOMAIN tasks
      /\ tasks[m.cfg.task].to = m.cfg.commit
      /\ tasks[m.cfg.task].state = "success" \/ tasks[m.cfg.task].chunks # "none"
  BY <1>2, <1>3, OneHere DEF Fine, Sound, Truthful
<1>5. Processed(tasks[m.cfg.task]) /\ ~Live(m.cfg.task)
  BY <1>2, <1>4 DEF Done, ChunksEnd, Processed, Live
<1>6. m.cfg.commit <= head /\ m.cfg.last <= m.cfg.last
  BY <1>2, <1>4, OneHere, Numbers DEF Bounded
<1>7. PICK cfg : cfg = Finalized(m.cfg, m.cfg.commit)
  OBVIOUS
<1>8. /\ Honest(cfg) /\ Forward(cfg) /\ cfg.bound
      /\ cfg.last = m.cfg.commit /\ cfg.task = NoTask
  BY <1>3, <1>4, <1>5, <1>7, OneHere, DoneHonest, FinalizedFields DEF Owed
<1>9. "watch" \in Commands \/ file.last <= cfg.last
  BY <1>3, <1>4, <1>8 DEF Forward
<1>10. CASE \/ Saves(p, cfg, "idle")
            \/ m.phase = "initial" /\ SavesInitial(p, cfg)
  BY <1>1, <1>2, <1>3, <1>6, <1>8, <1>9, <1>10, OneSaves
<1>11. CASE /\ m.phase = "own"
            /\ me' = [me EXCEPT ![p].left = @ - 1, ![p].pc = "submit"]
  <2>1. PICK x : x = [m EXCEPT !.left = @ - 1, !.pc = "submit"]
    OBVIOUS
  <2>2. /\ x.pc = "submit" /\ x.then = m.then /\ x.cfg = m.cfg /\ x.cmd = m.cmd
        /\ x.phase = m.phase /\ x.from = m.from /\ x.to = m.to
    BY <1>3, <2>1 DEF Memory
  <2>3. Informed(x)
    BY <1>3, <1>11, <2>2 DEF Ready, Informed
  <2>4. Aims(x)
    BY <1>3, <1>6, <1>11, <2>2 DEF Ready, Aims
  <2>5. Free(x)
    BY <1>5, <2>2 DEF Free
  <2>6. me' = [me EXCEPT ![p] = x]
    BY <1>2, <1>11, <2>1, InvariantParts
  <2> QED BY <1>1, <2>3, <2>4, <2>5, <2>6, OneMovesQuietly DEF Ready
<1> QED BY <1>2, <1>7, <1>10, <1>11 DEF Done

LEMMA CollectAlone ==
    ASSUME NEW p \in Processes, Processes = {p}, IInv, Alone, Collect(p)
    PROVE  Alone'
<1>1. Quiet
  BY DEF Collect, Quiet
<1>2. CASE Ends(p)
  BY <1>1, <1>2, OneEnds
<1>3. ASSUME NEW left,
             me' = [me EXCEPT ![p].to = head, ![p].pc = "submit", ![p].left = left]
      PROVE  Alone'
  <2>1. PICK m : m = me[p]
    OBVIOUS
  <2>2. m \in Memory /\ m.pc = "collect" /\ Ready(m)
    BY <2>1, OneHere DEF Collect
  <2>3. PICK x : x = [m EXCEPT !.to = head, !.pc = "submit", !.left = left]
    OBVIOUS
  <2>4. /\ x.pc = "submit" /\ x.then = m.then /\ x.cfg = m.cfg /\ x.cmd = m.cmd
        /\ x.phase = m.phase /\ x.from = m.from /\ x.to = head
    BY <2>2, <2>3 DEF Memory
  <2>5. head <= head /\ \A t \in saved : tasks[t].to <= head
    BY OneHere DEF Bounded
  <2>6. Informed(x)
    BY <2>2, <2>4 DEF Ready, Informed
  <2>7. Aims(x)
    BY <2>2, <2>4, <2>5 DEF Ready, Aims
  <2>8. Free(x)
    BY <2>2, <2>4 DEF Ready, Free
  <2>9. me' = [me EXCEPT ![p] = x]
    BY <1>3, <2>1, <2>3, InvariantParts
  <2> QED BY <1>1, <2>6, <2>7, <2>8, <2>9, OneMovesQuietly DEF Ready
<1> QED BY <1>2, <1>3 DEF Collect

LEMMA WatchStatusAlone ==
    ASSUME NEW p \in Processes, Processes = {p}, IInv, Alone, WatchStatus(p)
    PROVE  Alone'
<1>1. Quiet
  BY CountsIsTrouble DEF WatchStatus, Quiet
<1>2. PICK m : m = me[p]
  OBVIOUS
<1>3. m \in Memory /\ m.pc = "status" /\ Ready(m)
  BY <1>2, OneHere DEF WatchStatus
<1>4. m.cmd = "watch" /\ m.phase = "watch"
  BY <1>3 DEF Ready, Aims, Informed
<1>5. m.from \in Nat /\ m.to \in Nat /\ file.last \in Nat
  BY <1>2, Numbers
<1>6. CASE Goto(p, "collect")
  <2>1. PICK x : x = [m EXCEPT !.pc = "collect"]
    OBVIOUS
  <2>2. /\ x.pc = "collect" /\ x.then = m.then /\ x.cfg = m.cfg /\ x.cmd = m.cmd
        /\ x.phase = m.phase /\ x.from = m.from /\ x.to = m.to
    BY <1>3, <2>1 DEF Memory
  <2>3. Informed(x)
    BY <1>3, <1>4, <2>2 DEF Ready, Informed
  <2>4. Aims(x) /\ Free(x)
    BY <1>3, <1>4, <2>2 DEF Ready, Aims, Free, Unawaited
  <2>5. me' = [me EXCEPT ![p] = x]
    BY <1>2, <1>6, <2>1, InvariantParts DEF Goto
  <2> QED BY <1>1, <2>3, <2>4, <2>5, OneMovesQuietly DEF Ready
<1>7. CASE me' = [me EXCEPT ![p].from = me[p].to, ![p].pc = "reread"]
  <2>1. PICK x : x = [m EXCEPT !.from = m.to, !.pc = "reread"]
    OBVIOUS
  <2>2. /\ x.pc = "reread" /\ x.then = m.then /\ x.cfg = m.cfg /\ x.cmd = m.cmd
        /\ x.phase = m.phase /\ x.from = m.to /\ x.to = m.to
    BY <1>3, <2>1 DEF Memory
  <2>3. Informed(x)
    BY <1>3, <1>4, <2>2 DEF Ready, Informed
  <2>4. file.last <= m.to
    BY <1>3, <1>5 DEF Ready, Aims
  <2>5. Aims(x) /\ Free(x)
    BY <1>3, <1>4, <2>2, <2>4 DEF Ready, Aims, Free, Unawaited
  <2>6. me' = [me EXCEPT ![p] = x]
    BY <1>2, <1>7, <2>1, InvariantParts
  <2> QED BY <1>1, <2>3, <2>5, <2>6, OneMovesQuietly DEF Ready
<1> QED BY <1>6, <1>7 DEF WatchStatus

(* A watch raises the last synced commit and leaves the saved task in place. *)
LEMMA WatchRereadAlone ==
    ASSUME NEW p \in Processes, Processes = {p}, IInv, Alone, WatchReread(p)
    PROVE  Alone'
<1>1. Quiet
  BY DEF WatchReread, Quiet
<1>2. PICK m : m = me[p]
  OBVIOUS
<1>3. /\ m \in Memory /\ m.pc = "reread" /\ Ready(m)
      /\ m.cfg = file /\ file.bound /\ Honest(file) /\ file \in Config
  BY <1>2, OneHere, OwnFile DEF WatchReread
<1>4. m.cmd = "watch" /\ m.phase = "watch" /\ "watch" \in Commands
  BY <1>3 DEF Ready, Aims, Informed
<1>5. PICK cfg : cfg = [file EXCEPT !.last = m.from]
  OBVIOUS
<1>6. cfg.last = m.from /\ cfg.task = file.task /\ cfg.bound
  BY <1>3, <1>5 DEF Config
<1>7. file.last <= m.from
  BY <1>3 DEF Ready, Aims
<1>8. m.from \in Nat /\ file.last \in Nat
  BY <1>2, Numbers
<1>9. Honest(cfg)
  <2>1. SUFFICES ASSUME NEW t \in saved, Owed(t) PROVE Settles(cfg, t)
    BY DEF Honest
  <2>2. Settles(file, t)
    BY <1>3, <2>1 DEF Honest
  <2>3. tasks[t].to \in Nat
    BY OneHere, Numbers
  <2> QED BY <1>6, <1>7, <1>8, <2>2, <2>3 DEF Settles
<1>10. PICK x : x = [m EXCEPT !.cfg = cfg, !.pc = "write", !.then = "collect"]
  OBVIOUS
<1>11. /\ x.pc = "write" /\ x.then = "collect" /\ x.cfg = cfg /\ x.cmd = m.cmd
       /\ x.phase = m.phase /\ x.from = m.from /\ x.to = m.to
  BY <1>3, <1>10 DEF Memory
<1>12. file.task \in saved \cup {NoTask}
  BY OneHere DEF Left
<1>13. Informed(x)
  BY <1>3, <1>4, <1>6, <1>9, <1>11, <1>12 DEF Ready, Informed, Forward
<1>14. Aims(x) /\ Free(x)
  BY <1>3, <1>4, <1>6, <1>11 DEF Ready, Aims, Free, Unawaited
<1>15. me' = [me EXCEPT ![p] = x]
  BY <1>2, <1>3, <1>5, <1>10, InvariantParts DEF WatchReread, Saves
<1> QED BY <1>1, <1>13, <1>14, <1>15, OneMovesQuietly DEF Ready
-----------------------------------------------------------------------------
(* The steps of the API, of the user and of the clock.                       *)

\* HEAD and the tasks go forward, and tasks age.
Later == /\ UNCHANGED <<file, saved>>
         /\ head <= head' /\ head' \in Nat
         /\ aged \subseteq aged'
         /\ \A t \in DOMAIN tasks :
              /\ t \in DOMAIN tasks'
              /\ tasks'[t].from = tasks[t].from
              /\ tasks'[t].to = tasks[t].to
              /\ tasks'[t].awaited = tasks[t].awaited
              /\ Live(t)' => Live(t)

(* No task is owed that was not.                                             *)
LEMMA OwedLater ==
    ASSUME Later, NEW t, t \in DOMAIN tasks, Owed(t)'
    PROVE  Owed(t)
BY DEF Later, Owed

LEMMA HonestLater ==
    ASSUME Later, saved \subseteq DOMAIN tasks,
           NEW k, k.task \in DOMAIN tasks \cup {NoTask}, Honest(k)
    PROVE  Honest(k)'
<1> SUFFICES ASSUME NEW t \in saved, Owed(t)' PROVE Settles(k, t)'
  BY DEF Honest, Later
<1>1. t \in DOMAIN tasks
  OBVIOUS
<1>2. Owed(t)
  BY <1>1, OwedLater
<1>3. Settles(k, t)
  BY <1>2 DEF Honest
<1> QED BY <1>1, <1>3 DEF Settles, Later

LEMMA ReadyLater ==
    ASSUME IInv, Alone, Later, NEW p \in Processes, NEW m, m = me[p],
           m.pc # "write" \/ Len(tasks') = Len(tasks)
    PROVE  Ready(m)'
<1>1. /\ Ready(m) /\ m \in Memory
      /\ saved \subseteq DOMAIN tasks
      /\ m.cfg.task \in DOMAIN tasks \cup {NoTask}
  BY OneHere DEF Truthful
<1>2. /\ m.from \in Nat /\ m.to \in Nat /\ m.cfg.last \in Nat /\ head \in Nat
  BY Numbers
<1>3. Informed(m)'
  <2>1. Honest(m.cfg) => Honest(m.cfg)'
    BY <1>1, HonestLater
  <2>2. m.pc = "write" => /\ Honest(m.cfg)' /\ Forward(m.cfg)
                          /\ m.cfg.task \in saved \cup {NoTask, Len(tasks')}
                          /\ "watch" \in Commands \/ file.last <= m.cfg.last
    BY <1>1, <2>1 DEF Ready, Informed
  <2>3. /\ m.cmd \in Commands \cup {"none"}
        /\ m.pc # "idle" => m.cmd # "none"
        /\ m.cmd \in {"wait", "watch"} => m.phase = m.cmd
        /\ m.pc \in {"collect", "submit"} \/ (m.pc = "write" /\ m.then = "collect")
             => m.cmd # "wait"
        /\ m.phase = "own" => \/ m.pc \in {"parent", "chunks", "submit"}
                              \/ m.pc = "write" /\ m.then \in {"idle", "parent"}
        /\ m.pc \notin {"idle", "read", "write"} => m.cfg = file'
        /\ m.pc \notin {"idle", "read"} /\ ~(m.pc = "look" /\ m.phase = "initial")
             => m.cfg.bound
    BY <1>1 DEF Ready, Informed, Later
  <2> QED BY <2>2, <2>3 DEF Informed, Forward, Later
<1>4. Aims(m)'
  <2>1. m.from <= head' /\ m.to <= head' /\ m.cfg.last <= head'
    BY <1>1, <1>2 DEF Ready, Aims, Later
  <2>2. m.pc = "submit" \/ m.phase = "own"
          => m.from <= m.to /\ \A t \in saved : tasks'[t].to <= m.to
    BY <1>1 DEF Ready, Aims, Later
  <2>3. m.pc = "write" /\ m.then = "parent" => m.cfg.task \in DOMAIN tasks
    BY <1>1, OneHere DEF Fine, Sound
  <2>4. m.pc = "write" /\ m.then = "parent"
          => m.phase = "own" /\ tasks'[m.cfg.task].to <= m.to
    BY <1>1, <2>3 DEF Ready, Aims, Later
  <2> QED BY <1>1, <2>1, <2>2, <2>4 DEF Ready, Aims, Later
<1>5. Free(m)'
  <2>1. m.cfg.task = NoTask \/ ~Live(m.cfg.task)
          => m.cfg.task = NoTask \/ ~Live(m.cfg.task)'
    BY <1>1 DEF Later
  <2> QED BY <1>1, <2>1 DEF Ready, Free
<1> QED BY <1>3, <1>4, <1>5 DEF Ready

LEMMA LeftLater ==
    ASSUME IInv, Alone, Later
    PROVE  Left'
<1>1. saved \subseteq DOMAIN tasks /\ Left
  BY InvariantParts DEF Alone, Rest
<1>2. file.task \in DOMAIN tasks \cup {NoTask}
  BY <1>1 DEF Left
<1>3. Honest(file) => Honest(file)'
  <2>1. PICK k : k = file
    OBVIOUS
  <2>2. Honest(k) => Honest(k)'
    BY <1>1, <1>2, <2>1, HonestLater
  <2>3. k = file'
    BY <2>1 DEF Later
  <2>4. Honest(k)' => Honest(file)'
    BY <2>3 DEF Honest, Settles
  <2> QED BY <2>1, <2>2, <2>4 DEF Honest, Settles
<1> QED BY <1>1, <1>3 DEF Left, Later, Forward

(* A step of none of the processes.                                          *)
LEMMA WorldMoves ==
    ASSUME IInv, Alone, Later, DOMAIN tasks' = DOMAIN tasks,
           Len(tasks') = Len(tasks), me' = me
    PROVE  Alone'
<1>1. Bounded /\ InOrder /\ saved \subseteq DOMAIN tasks
  BY InvariantParts DEF Alone, Rest
<1>2. Bounded'
  BY <1>1, Numbers DEF Bounded, Later
<1>3. InOrder'
  <2> SUFFICES ASSUME NEW t \in saved, NEW u \in DOMAIN tasks,
                      Owed(t)', t < u, tasks'[u].awaited
               PROVE  tasks'[t].to <= tasks'[u].from
    BY DEF InOrder, Later
  <2>1. Owed(t)
    BY <1>1, OwedLater
  <2>2. tasks[t].to <= tasks[u].from
    BY <1>1, <2>1 DEF InOrder, Later
  <2> QED BY <1>1, <2>2 DEF Later
<1>4. ASSUME NEW p \in Processes PROVE Ready(me[p])'
  <2>1. PICK m : m = me[p]
    OBVIOUS
  <2>2. Ready(m)'
    BY <2>1, ReadyLater
  <2>3. m = me'[p]
    BY <2>1
  <2> QED BY <2>2, <2>3
        DEF Ready, Informed, Aims, Free, Honest, Settles, Owed, Live, Processed, Forward
<1> QED BY <1>2, <1>3, <1>4, LeftLater DEF Alone

\* The end of the task k can still be waited for.
LiveTask(k) == /\ k.state \in {"running", "success"}
               /\ k.chunks # "failed"
               /\ ~Processed(k)

(* A task whose end is known stays over.                                     *)
LEMMA ServerAlone ==
    ASSUME IInv, Alone, Server
    PROVE  Alone'
<1>1. PICK t \in DOMAIN tasks : Works(t) \/ Fails(t)
  BY DEF Server
<1>2. tasks \in Seq(Task) /\ tasks[t] \in Task
  BY InvariantParts DEF Rest
<1>3. PICK k \in Task :
        /\ tasks' = [tasks EXCEPT ![t] = k]
        /\ k.from = tasks[t].from /\ k.to = tasks[t].to
        /\ k.awaited = tasks[t].awaited
        /\ LiveTask(k) => LiveTask(tasks[t])
  <2>1. CASE QueuesChunks(t)
    <3> [tasks[t] EXCEPT !.chunks = "running"] \in Task
      BY <1>2 DEF Task
    <3> WITNESS [tasks[t] EXCEPT !.chunks = "running"] \in Task
    <3> QED BY <1>2, <2>1 DEF QueuesChunks, Task, Processed, LiveTask
  <2>2. CASE Succeeds(t)
    <3> [tasks[t] EXCEPT !.state = "success"] \in Task
      BY <1>2 DEF Task
    <3> WITNESS [tasks[t] EXCEPT !.state = "success"] \in Task
    <3> QED BY <1>2, <2>2 DEF Succeeds, Task, Processed, LiveTask
  <2>3. CASE ChunksSucceed(t)
    <3> [tasks[t] EXCEPT !.chunks = "done"] \in Task
      BY <1>2 DEF Task
    <3> WITNESS [tasks[t] EXCEPT !.chunks = "done"] \in Task
    <3> QED BY <1>2, <2>3 DEF ChunksSucceed, Task, Processed, LiveTask
  <2>4. CASE TaskFails(t)
    <3>1. PICK x \in {"failed", "ended"} : tasks' = [tasks EXCEPT ![t].state = x]
      BY <2>4 DEF TaskFails
    <3> [tasks[t] EXCEPT !.state = x] \in Task
      BY <1>2 DEF Task
    <3> WITNESS [tasks[t] EXCEPT !.state = x] \in Task
    <3> QED BY <1>2, <2>4, <3>1 DEF TaskFails, Task, Processed, LiveTask
  <2>5. CASE ChunksFail(t)
    <3> [tasks[t] EXCEPT !.chunks = "failed"] \in Task
      BY <1>2 DEF Task
    <3> WITNESS [tasks[t] EXCEPT !.chunks = "failed"] \in Task
    <3> QED BY <1>2, <2>5 DEF ChunksFail, Task, Processed, LiveTask
  <2> QED BY <1>1, <2>1, <2>2, <2>3, <2>4, <2>5 DEF Works, Fails
<1>4. DOMAIN tasks' = DOMAIN tasks /\ Len(tasks') = Len(tasks)
  BY <1>2, <1>3, ExceptTask
<1>5. \A u : Live(u) <=> LiveTask(tasks[u])
  BY DEF Live, LiveTask
<1>6. \A u : Live(u)' <=> LiveTask(tasks'[u])
  BY DEF Live, LiveTask
<1>7. Later
  BY <1>2, <1>3, <1>4, <1>5, <1>6, Numbers DEF Server, Later
<1> QED BY <1>4, <1>7, WorldMoves DEF Server

LEMMA CommitAlone ==
    ASSUME IInv, Alone, Commit
    PROVE  Alone'
<1>1. \A t : Live(t)' => Live(t)
  BY DEF Commit, Live, Processed
<1>2. head <= head' /\ head' \in Nat
  BY Numbers DEF Commit
<1> QED BY <1>1, <1>2, WorldMoves DEF Commit, Later

LEMMA AgesAlone ==
    ASSUME IInv, Alone, NEW t \in DOMAIN tasks, Ages(t)
    PROVE  Alone'
<1>1. \A u : Live(u)' => Live(u)
  BY DEF Ages, Live, Processed
<1>2. head <= head' /\ head' \in Nat
  BY Numbers DEF Ages
<1> QED BY <1>1, <1>2, WorldMoves DEF Ages, Later
-----------------------------------------------------------------------------
(* The steps that submit.                                                  *)

(* What a process that submits has at hand.                                 *)
LEMMA Submitter ==
    ASSUME IInv, Alone, NEW p \in Processes, NEW m, m = me[p], m.pc = "submit"
    PROVE  /\ m \in Memory /\ Ready(m) /\ m.cfg \in Config
           /\ m.cfg = file /\ file.bound /\ Honest(m.cfg) /\ Forward(m.cfg)
           /\ m.cmd \in Commands /\ m.cmd \in Uploads \cup {"wait", "watch"}
           /\ m.cmd = "watch" => m.phase = "watch"
           /\ m.from <= m.to /\ m.to <= head
           /\ \A t \in saved : tasks[t].to <= m.to
           /\ m.cmd # "watch" => m.from = m.cfg.last
           /\ m.cmd \notin Unawaited => m.cfg.task = NoTask \/ ~Live(m.cfg.task)
           /\ m.from \in Nat /\ m.to \in Nat /\ head \in Nat
           /\ m.cfg.task \in DOMAIN tasks \cup {NoTask}
           /\ saved \subseteq DOMAIN tasks /\ NoTask \notin DOMAIN tasks
<1>1. /\ m \in Memory /\ Ready(m) /\ m.cfg \in Config
      /\ m.cfg = file /\ file.bound /\ Honest(m.cfg) /\ Forward(m.cfg)
      /\ m.cfg.task \in DOMAIN tasks \cup {NoTask}
      /\ saved \subseteq DOMAIN tasks /\ NoTask \notin DOMAIN tasks
  BY OneHere, OwnFile DEF Truthful, NoTask
<1>2. m.cmd \in Commands /\ m.cmd \in Uploads \cup {"wait", "watch"}
  BY <1>1, BoundsAssumption DEF Ready, Informed
<1>3. m.cmd = "watch" => m.phase = "watch"
  BY <1>1 DEF Ready, Informed
<1>4. /\ m.from <= m.to /\ m.to <= head
      /\ \A t \in saved : tasks[t].to <= m.to
      /\ m.cmd # "watch" => m.from = m.cfg.last
  BY <1>1 DEF Ready, Aims
<1>5. m.cmd \notin Unawaited => m.cfg.task = NoTask \/ ~Live(m.cfg.task)
  BY <1>1 DEF Ready, Free
<1> QED BY <1>1, <1>2, <1>3, <1>4, <1>5, Numbers

(* A new task begins after the commits of every task that is owed, or nobody
   waits for it.                                                            *)
LEMMA Adds ==
    ASSUME IInv, Alone, NEW p \in Processes, NEW m, m = me[p], m.pc = "submit",
           NEW state \in {"running", "success"}, Accepts(p, state),
           UNCHANGED <<head, file, aged, saved>>
    PROVE  /\ Later /\ Bounded' /\ InOrder' /\ Left' /\ Ready(m)'
           /\ Len(tasks') \notin DOMAIN tasks /\ Len(tasks') \in DOMAIN tasks'
           /\ Len(tasks') # NoTask
           /\ tasks'[Len(tasks')].from = m.from /\ tasks'[Len(tasks')].to = m.to
<1> DEFINE n == Len(tasks')
           k == Submission(p, state)
<1>1. tasks \in Seq(Task) /\ k \in Task /\ tasks' = Append(tasks, k)
  BY SubmissionIsTask, InvariantParts DEF Rest, Accepts
<1>2. /\ k.from = m.from /\ k.to = m.to
      /\ k.awaited = (m.cmd \notin Unawaited)
  BY DEF Submission
<1> HIDE DEF k
<1>3. /\ n \notin DOMAIN tasks /\ n \in DOMAIN tasks' /\ n # 0
      /\ tasks'[n] = k
      /\ DOMAIN tasks' = DOMAIN tasks \cup {n}
      /\ \A t \in DOMAIN tasks : tasks'[t] = tasks[t] /\ t \in Nat
  BY <1>1
<1> HIDE DEF n
<1>4. Later
  BY <1>3, Numbers DEF Later, Live
<1>5. /\ Bounded /\ InOrder /\ saved \subseteq DOMAIN tasks
  BY OneHere
<1>6. Bounded'
  BY <1>2, <1>3, <1>5, Submitter DEF Bounded
<1>7. InOrder'
  <2> SUFFICES ASSUME NEW t \in saved, NEW u \in DOMAIN tasks',
                      Owed(t)', t < u, tasks'[u].awaited
               PROVE  tasks'[t].to <= tasks'[u].from
    BY DEF InOrder
  <2>1. Owed(t) /\ t \in DOMAIN tasks
    BY <1>4, <1>5, OwedLater
  <2>2. CASE u \in DOMAIN tasks
    <3>1. tasks[t].to <= tasks[u].from
      BY <1>3, <1>5, <2>1, <2>2 DEF InOrder
    <3> QED BY <1>3, <2>1, <2>2, <3>1
  <2>3. CASE u = n
    <3>1. m.cmd \notin Unawaited
      BY <1>2, <1>3, <2>3
    <3>2. t # m.cfg.task
      BY <2>1, <3>1, Submitter DEF Owed
    <3>3. tasks[t].to <= m.cfg.last
      BY <2>1, <3>2, Submitter DEF Honest, Settles
    <3>4. m.cfg.last = m.from
      BY <3>1, Submitter DEF Unawaited
    <3> QED BY <1>2, <1>3, <2>1, <2>3, <3>3, <3>4
  <2> QED BY <1>3, <2>2, <2>3
<1>8. Ready(m)'
  BY <1>4, ReadyLater
<1> QED BY <1>2, <1>3, <1>4, <1>6, <1>7, <1>8, LeftLater DEF n, NoTask

(* A process that has submitted and writes what it did.                      *)
LEMMA OneFinalizes ==
    ASSUME IInv, Alone, NEW p \in Processes, Processes = {p},
           me[p].pc = "submit", me[p].cmd # "watch",
           NEW state \in {"running", "success"}, Accepts(p, state),
           UNCHANGED <<head, file, aged, saved>>,
           Saves(p, Finalized(me[p].cfg, me[p].to), "idle")
    PROVE  Alone'
<1>1. PICK m : m = me[p]
  OBVIOUS
<1>2. PICK cfg : cfg = Finalized(m.cfg, m.to)
  OBVIOUS
<1>3. /\ cfg.last = m.to /\ cfg.task = NoTask /\ cfg.bound = m.cfg.bound
      /\ Forward(cfg) /\ Honest(cfg)
  BY <1>1, <1>2, Submitter, FinalizedFields, BeyondHonest
<1>4. Later /\ Bounded' /\ InOrder' /\ Left' /\ Ready(m)'
  BY <1>1, Adds
<1>5. Honest(cfg)'
  BY <1>1, <1>3, <1>4, Submitter, HonestLater
<1>6. PICK x : x = [m EXCEPT !.cfg = cfg, !.pc = "write", !.then = "idle"]
  OBVIOUS
<1>7. /\ x.pc = "write" /\ x.then = "idle" /\ x.cfg = cfg /\ x.cmd = m.cmd
      /\ x.phase = m.phase /\ x.from = m.from /\ x.to = m.to
  BY <1>1, <1>6, Submitter DEF Memory
<1>8. /\ m.pc = "submit" /\ m.cmd # "watch" /\ m.cfg = file /\ file.bound
      /\ file' = file /\ file.last <= m.to
  BY <1>1, Submitter
<1>9. Informed(x)'
  BY <1>3, <1>4, <1>5, <1>7, <1>8 DEF Ready, Informed, Forward
<1>10. Aims(x)' /\ Free(x)'
  BY <1>3, <1>4, <1>7, <1>8 DEF Ready, Aims, Free
<1>11. me' = [me EXCEPT ![p] = x]
  BY <1>1, <1>2, <1>6, InvariantParts DEF Saves
<1> QED BY <1>4, <1>9, <1>10, <1>11, OneMoves DEF Ready

(* A process that has submitted and keeps its copy.                          *)
LEMMA OneKeepsCopy ==
    ASSUME IInv, Alone, NEW p \in Processes, Processes = {p},
           NEW m, m = me[p], m.pc = "submit",
           Later, Bounded', InOrder', Left', Ready(m)',
           NEW x, x.cfg = m.cfg, x.cmd = m.cmd, x.phase = m.phase,
           x.from = m.from, x.to = m.to, x.then = m.then,
           \/ x.pc = "submit"
           \/ x.pc \in {"status", "collect"} /\ m.cmd = "watch",
           me' = [me EXCEPT ![p] = x]
    PROVE  Alone'
<1>1. m.cmd = "watch" => m.phase = "watch"
  BY Submitter
<1>2. Informed(x)'
  BY <1>1 DEF Ready, Informed
<1>3. Aims(x)' /\ Free(x)'
  BY <1>1 DEF Ready, Aims, Free, Unawaited
<1> QED BY <1>2, <1>3, OneMoves DEF Ready

(* A process that has submitted and saves the new task.                      *)
LEMMA OnePersists ==
    ASSUME IInv, Alone, NEW p \in Processes, Processes = {p},
           me[p].pc = "submit", me[p].cmd \notin Unawaited,
           Accepts(p, "running"), UNCHANGED <<head, file, aged, saved>>,
           NEW then \in {"idle", "parent"}, NEW phase,
           me' = [me EXCEPT ![p].cfg = Persisted(me[p].cfg, Len(tasks'), me[p].to),
                    ![p].pc = "write", ![p].then = then, ![p].phase = phase],
           \/ phase = me[p].phase
           \/ phase = "own" /\ me[p].cmd # "wait",
           then = "parent" => phase = "own"
    PROVE  Alone'
<1>1. PICK m : m = me[p]
  OBVIOUS
<1>2. PICK n : n = Len(tasks')
  OBVIOUS
<1>3. PICK cfg : cfg = Persisted(m.cfg, n, m.to)
  OBVIOUS
<1>4. /\ cfg.last = m.cfg.last /\ cfg.task = n /\ cfg.commit = m.to
      /\ cfg.bound = m.cfg.bound
  BY <1>1, <1>3, Submitter DEF Persisted, Config
<1>5. /\ Later /\ Bounded' /\ InOrder' /\ Left' /\ Ready(m)'
      /\ n \notin DOMAIN tasks /\ n # NoTask
      /\ tasks'[n].from = m.from /\ tasks'[n].to = m.to
  BY <1>1, <1>2, Adds
<1>6. /\ m.pc = "submit" /\ m.cmd \notin {"watch", "none"} /\ m.cfg = file
      /\ file.bound /\ file' = file /\ m.from = m.cfg.last /\ m.from <= m.to
      /\ m.cmd \notin Unawaited
      /\ m.cfg.task = NoTask \/ ~Live(m.cfg.task)
      /\ saved \subseteq DOMAIN tasks /\ saved' = saved
      /\ NoTask \notin DOMAIN tasks
      /\ Honest(m.cfg) /\ file.last <= file.last /\ m.to <= m.to
  BY <1>1, Submitter, Numbers DEF Unawaited, Uploads
<1>7. Honest(cfg)'
  <2> SUFFICES ASSUME NEW t \in saved, Owed(t)' PROVE Settles(cfg, t)'
    BY <1>6 DEF Honest
  <2>1. Owed(t) /\ t \in DOMAIN tasks
    BY <1>5, <1>6, OwedLater
  <2>2. t # m.cfg.task
    BY <1>5, <1>6, <2>1 DEF Owed, Later
  <2>3. tasks[t].to <= m.cfg.last
    BY <1>6, <2>1, <2>2 DEF Honest, Settles
  <2>4. tasks'[t].to <= m.cfg.last
    BY <1>5, <2>1, <2>3 DEF Later
  <2> QED BY <1>4, <1>5, <1>6, <2>4 DEF Settles
<1>8. PICK x : x = [m EXCEPT !.cfg = cfg, !.pc = "write", !.then = then,
                             !.phase = phase]
  OBVIOUS
<1>9. /\ x.pc = "write" /\ x.then = then /\ x.cfg = cfg /\ x.cmd = m.cmd
      /\ x.phase = phase /\ x.from = m.from /\ x.to = m.to
  BY <1>1, <1>8, Submitter DEF Memory
<1>10. Informed(x)'
  BY <1>1, <1>2, <1>4, <1>5, <1>6, <1>7, <1>9 DEF Ready, Informed, Forward
<1>11. Aims(x)'
  BY <1>4, <1>5, <1>6, <1>9 DEF Ready, Aims
<1>12. Free(x)'
  BY <1>9 DEF Free
<1>13. me' = [me EXCEPT ![p] = x]
  BY <1>1, <1>2, <1>3, <1>8, InvariantParts
<1> QED BY <1>5, <1>10, <1>11, <1>12, <1>13, OneMoves DEF Ready

LEMMA SubmitAlone ==
    ASSUME NEW p \in Processes, Processes = {p}, IInv, Alone, Submit(p)
    PROVE  Alone'
<1>1. /\ me[p].pc = "submit" /\ Accepts(p, "running")
      /\ UNCHANGED <<head, file, aged, saved>>
  BY DEF Submit
<1>2. PICK m : m = me[p]
  OBVIOUS
<1>3. CASE m.cmd = "watch" /\ Goto(p, "status")
  <2>1. PICK x : x = [m EXCEPT !.pc = "status"]
    OBVIOUS
  <2>2. /\ x.pc = "status" /\ x.then = m.then /\ x.cfg = m.cfg /\ x.cmd = m.cmd
        /\ x.phase = m.phase /\ x.from = m.from /\ x.to = m.to
    BY <1>1, <1>2, <2>1, Submitter DEF Memory
  <2>3. me' = [me EXCEPT ![p] = x]
    BY <1>2, <1>3, <2>1, InvariantParts DEF Goto
  <2>4. Later /\ Bounded' /\ InOrder' /\ Left' /\ Ready(m)'
    BY <1>1, <1>2, Adds
  <2> QED BY <1>1, <1>2, <1>3, <2>2, <2>3, <2>4, OneKeepsCopy
<1>4. CASE m.cmd = "push" /\ Saves(p, Finalized(m.cfg, m.to), "idle")
  BY <1>1, <1>2, <1>4, OneFinalizes
<1>5. CASE /\ m.cmd = "detach"
           /\ Saves(p, Persisted(m.cfg, Len(tasks'), m.to), "idle")
  <2>1. me' = [me EXCEPT ![p].cfg = Persisted(me[p].cfg, Len(tasks'), me[p].to),
                 ![p].pc = "write", ![p].then = "idle", ![p].phase = me[p].phase]
    BY <1>2, <1>5, OwnCopy, InvariantParts DEF Saves, Memory
  <2>2. me[p].cmd \notin Unawaited
    BY <1>2, <1>5 DEF Unawaited
  <2> QED BY <1>1, <2>1, <2>2, OnePersists
<1>6. CASE /\ m.cmd \notin {"watch", "push", "detach"}
           /\ me' = [me EXCEPT ![p].pc = "write", ![p].then = "parent",
                       ![p].phase = "own",
                       ![p].cfg = Persisted(m.cfg, Len(tasks'), m.to)]
  <2>1. me' = [me EXCEPT ![p].cfg = Persisted(me[p].cfg, Len(tasks'), me[p].to),
                 ![p].pc = "write", ![p].then = "parent", ![p].phase = "own"]
    BY <1>2, <1>6, OwnCopy, InvariantParts DEF Memory
  <2>2. me[p].cmd \notin Unawaited
    BY <1>2, <1>6 DEF Unawaited
  <2>3. me[p].cmd # "wait"
    BY <1>1, OneHere DEF Ready, Informed
  <2> QED BY <1>1, <2>1, <2>2, <2>3, OnePersists
<1> QED BY <1>2, <1>3, <1>4, <1>5, <1>6 DEF Submit

LEMMA SubmitLocalAlone ==
    ASSUME NEW p \in Processes, Processes = {p}, IInv, Alone, SubmitLocal(p)
    PROVE  Alone'
<1>1. /\ me[p].pc = "submit" /\ Accepts(p, "success")
      /\ UNCHANGED <<head, file, aged, saved>>
  BY DEF SubmitLocal
<1>2. PICK m : m = me[p]
  OBVIOUS
<1>3. Later /\ Bounded' /\ InOrder' /\ Left' /\ Ready(m)'
  BY <1>1, <1>2, Adds
<1>4. CASE m.cmd = "watch" /\ Goto(p, "status")
  <2>1. PICK x : x = [m EXCEPT !.pc = "status"]
    OBVIOUS
  <2>2. /\ x.pc = "status" /\ x.then = m.then /\ x.cfg = m.cfg /\ x.cmd = m.cmd
        /\ x.phase = m.phase /\ x.from = m.from /\ x.to = m.to
    BY <1>1, <1>2, <2>1, Submitter DEF Memory
  <2>3. me' = [me EXCEPT ![p] = x]
    BY <1>2, <1>4, <2>1, InvariantParts DEF Goto
  <2> QED BY <1>1, <1>2, <1>3, <1>4, <2>2, <2>3, OneKeepsCopy
<1>5. CASE me' = [me EXCEPT ![p].left = @ - 1]
  <2>1. PICK x : x = [m EXCEPT !.left = @ - 1]
    OBVIOUS
  <2>2. /\ x.pc = "submit" /\ x.then = m.then /\ x.cfg = m.cfg /\ x.cmd = m.cmd
        /\ x.phase = m.phase /\ x.from = m.from /\ x.to = m.to
    BY <1>1, <1>2, <2>1, Submitter DEF Memory
  <2>3. me' = [me EXCEPT ![p] = x]
    BY <1>2, <1>5, <2>1, InvariantParts
  <2> QED BY <1>1, <1>2, <1>3, <2>2, <2>3, OneKeepsCopy
<1>6. CASE m.cmd # "watch" /\ Saves(p, Finalized(m.cfg, m.to), "idle")
  BY <1>1, <1>2, <1>6, OneFinalizes
<1> QED BY <1>2, <1>4, <1>5, <1>6 DEF SubmitLocal

(* A task whose answer was lost is not saved, so nobody waits for it.        *)
LEMMA SubmitLostAlone ==
    ASSUME NEW p \in Processes, Processes = {p}, IInv, Alone, SubmitLost(p)
    PROVE  Alone'
<1>1. me[p].pc = "submit" /\ UNCHANGED <<head, file, aged, saved>>
  BY DEF SubmitLost
<1>2. PICK m : m = me[p]
  OBVIOUS
<1>3. Later /\ Bounded' /\ InOrder' /\ Left' /\ Ready(m)'
  <2>1. CASE Accepts(p, "running")
    BY <1>1, <1>2, <2>1, Adds
  <2>2. CASE UNCHANGED tasks
    <3>1. Later
      BY <1>1, <2>2, Numbers DEF Later, Live, Processed
    <3> QED BY <1>1, <1>2, <2>2, <3>1, QuietSays, OneHere
  <2> QED BY <2>1, <2>2 DEF SubmitLost
<1>4. CASE m.cmd = "watch" /\ Goto(p, "collect")
  <2>1. PICK x : x = [m EXCEPT !.pc = "collect"]
    OBVIOUS
  <2>2. /\ x.pc = "collect" /\ x.then = m.then /\ x.cfg = m.cfg /\ x.cmd = m.cmd
        /\ x.phase = m.phase /\ x.from = m.from /\ x.to = m.to
    BY <1>1, <1>2, <2>1, Submitter DEF Memory
  <2>3. me' = [me EXCEPT ![p] = x]
    BY <1>2, <1>4, <2>1, InvariantParts DEF Goto
  <2> QED BY <1>1, <1>2, <1>3, <1>4, <2>2, <2>3, OneKeepsCopy
<1>5. CASE Ends(p)
  <2>1. 0 <= head'
    BY <1>1, Numbers
  <2>2. Ready(Idle)'
    BY <2>1 DEF Ready, Informed, Aims, Free, Idle, Torn
  <2>3. PICK x : x = Idle
    OBVIOUS
  <2>4. Ready(x)'
    BY <2>2, <2>3 DEF Ready, Informed, Aims, Free
  <2>5. me' = [me EXCEPT ![p] = x]
    BY <1>5, <2>3 DEF Ends
  <2> QED BY <1>3, <2>4, <2>5, OneMoves
<1> QED BY <1>2, <1>4, <1>5 DEF SubmitLost
-----------------------------------------------------------------------------
(* The steps that write the file.                                           *)

(* Where the only process is after its write, Idle included.                 *)
LEMMA AfterWrite ==
    ASSUME NEW p \in Processes, Processes = {p}, IInv, me[p].pc = "write",
           UNCHANGED <<head, tasks>>, Ends(p), Bounded', InOrder', Left'
    PROVE  Alone'
<1>1. 0 <= head'
  BY Numbers
<1>2. PICK x : x = Idle
  OBVIOUS
<1>3. /\ x.pc = "idle" /\ x.cmd = "none" /\ x.phase = "saved"
      /\ x.from = 0 /\ x.to = 0 /\ x.cfg.last = 0
  BY <1>2 DEF Idle, Torn
<1>4. Ready(x)'
  BY <1>1, <1>3 DEF Ready, Informed, Aims, Free
<1>5. me' = [me EXCEPT ![p] = x]
  BY <1>2 DEF Ends
<1> QED BY <1>4, <1>5, OneMoves

LEMMA WriteAlone ==
    ASSUME NEW p \in Processes, Processes = {p}, IInv, Alone, Write(p)
    PROVE  Alone'
<1>1. PICK m : m = me[p]
  OBVIOUS
<1>2. /\ m \in Memory /\ m.pc = "write" /\ Ready(m) /\ m.cfg \in Config
      /\ m.cfg.bound /\ Honest(m.cfg) /\ Forward(m.cfg)
      /\ m.cfg.task \in saved \cup {NoTask, Len(tasks)}
      /\ m.cfg.last <= head
  BY <1>1, OneHere DEF Write, Ready, Informed, Aims
<1>3. /\ file' = m.cfg /\ UNCHANGED <<head, tasks, aged>>
      /\ saved' = IF m.cfg.task = NoTask THEN saved ELSE saved \cup {m.cfg.task}
  BY <1>1 DEF Write
<1>4. \A t : Live(t)' <=> Live(t)
  BY <1>3 DEF Live, Processed
<1>5. \A t : Owed(t)' => Owed(t) \/ t = m.cfg.task
  BY <1>3, <1>4 DEF Owed
<1>6. Bounded' /\ saved \subseteq DOMAIN tasks
  BY <1>2, <1>3, OneHere DEF Bounded
<1>7. InOrder'
  <2> SUFFICES ASSUME NEW t \in saved', NEW u \in DOMAIN tasks,
                      Owed(t)', t < u, tasks[u].awaited
               PROVE  tasks[t].to <= tasks[u].from
    BY <1>3 DEF InOrder
  <2>1. tasks \in Seq(Task)
    BY OneHere
  <2>2. u \in Nat /\ u <= Len(tasks)
    BY <2>1
  <2>3. t \in saved \/ t = NoTask
    BY <1>2, <1>3, <2>2
  <2>4. NoTask \notin DOMAIN tasks
    BY <2>1 DEF NoTask
  <2>5. t \in saved
    BY <1>3, <2>3
  <2>6. Owed(t)
    BY <1>3, <1>4, <2>5 DEF Owed
  <2> QED BY <2>5, <2>6, OneHere DEF InOrder
<1>8. Honest(m.cfg)'
  <2> SUFFICES ASSUME NEW t \in saved', Owed(t)' PROVE Settles(m.cfg, t)'
    BY DEF Honest
  <2>1. CASE t = m.cfg.task
    BY <2>1 DEF Settles
  <2>2. CASE t # m.cfg.task
    <3>1. t \in saved /\ Owed(t)
      BY <1>3, <1>5, <2>2
    <3>2. Settles(m.cfg, t)
      BY <1>2, <3>1 DEF Honest
    <3> QED BY <1>3, <3>2 DEF Settles
  <2> QED BY <2>1, <2>2
<1>9. Honest(file)'
  BY <1>3, <1>8 DEF Honest, Settles
<1>10. Left'
  BY <1>2, <1>3, <1>9 DEF Left, Forward
<1>11. CASE Ends(p)
  BY <1>1, <1>2, <1>3, <1>6, <1>7, <1>10, <1>11, AfterWrite
<1>12. CASE m.then # "idle" /\ Goto(p, m.then)
  <2>1. PICK x : x = [m EXCEPT !.pc = m.then]
    OBVIOUS
  <2>2. /\ x.pc = m.then /\ x.then = m.then /\ x.cfg = m.cfg /\ x.cmd = m.cmd
        /\ x.phase = m.phase /\ x.from = m.from /\ x.to = m.to
    BY <1>2, <2>1 DEF Memory
  <2>3. m.then \in {"read", "parent", "collect"}
    BY <1>1, <1>2, <1>12, OneHere DEF Fine, Sound
  <2>4. m.phase = "own" => m.then = "parent"
    BY <1>2, <1>12 DEF Ready, Informed
  <2>5. Informed(x)'
    BY <1>2, <1>3, <2>2, <2>3, <2>4 DEF Ready, Informed
  <2>6. \A t \in saved' : t \in saved \/ t = m.cfg.task
    BY <1>3
  <2>7. m.then \in {"parent", "collect"} => m.from = m.cfg.last
    BY <1>2 DEF Ready, Aims
  <2>8. m.phase = "own" => m.from <= m.to /\ \A t \in saved' : tasks[t].to <= m.to
    BY <1>2, <2>4, <2>6 DEF Ready, Aims
  <2>9. m.cfg.last <= m.cfg.last
    BY <1>1, Numbers
  <2>10. Aims(x)'
    BY <1>2, <1>3, <2>2, <2>3, <2>7, <2>8, <2>9 DEF Ready, Aims
  <2>11. Free(x)'
    BY <1>2, <1>3, <2>2, <2>3 DEF Ready, Free
  <2>12. me' = [me EXCEPT ![p] = x]
    BY <1>1, <1>12, <2>1, InvariantParts DEF Goto
  <2> QED BY <1>6, <1>7, <1>10, <2>5, <2>10, <2>11, <2>12, OneMoves DEF Ready
<1> QED BY <1>1, <1>11, <1>12 DEF Write

(* Nothing is left of the file; no command goes on from it.                  *)
LEMMA CrashInWriteAlone ==
    ASSUME NEW p \in Processes, Processes = {p}, IInv, Alone, CrashInWrite(p)
    PROVE  Alone'
<1>1. /\ me[p].pc = "write" /\ file' = Torn /\ Ends(p)
      /\ UNCHANGED <<head, tasks, aged, saved>>
  BY DEF CrashInWrite
<1>2. /\ Torn.last = 0 /\ Torn.task = NoTask /\ 0 <= head
  BY Numbers DEF Torn
<1>3. Bounded'
  BY <1>1, <1>2, OneHere DEF Bounded
<1>4. InOrder'
  BY <1>1, OneHere DEF InOrder, Owed, Live, Processed
<1>5. Left'
  BY <1>1, <1>2 DEF Left, Forward
<1> QED BY <1>1, <1>3, <1>4, <1>5, AfterWrite
-----------------------------------------------------------------------------
(* The theorems about one command at a time.                                *)

LEMMA AloneInitially ==
    ASSUME NEW p, Processes = {p}, Init
    PROVE  Alone
<1>1. /\ file.task = NoTask /\ file.last = 0 /\ file.bound /\ head = 1
      /\ tasks = <<>> /\ saved = {}
  BY DEF Init, Torn
<1>2. Bounded /\ InOrder
  BY <1>1 DEF Bounded, InOrder
<1>3. Left
  BY <1>1 DEF Left, Honest, Forward
<1>4. IInv
  BY InitHolds
<1>5. \A q \in Processes : Ready(me[q])
  BY <1>4, IdleReady DEF Init
<1> QED BY <1>2, <1>3, <1>5 DEF Alone

LEMMA AloneKept ==
    ASSUME NEW p, Processes = {p}, IInv, Alone, [Next]_vars
    PROVE  Alone'
<1>0. p \in Processes
  OBVIOUS
<1>1. ASSUME Proceed(p) PROVE Alone'
  BY <1>0, <1>1, ReadAlone, NothingToLookAtAlone, ResumeAlone, StaleAlone,
     ParentReturnsAlone, ParentFailsAlone, DoneAlone, ChunkFailsAlone,
     CollectAlone, SubmitAlone, SubmitLocalAlone, WriteAlone,
     WatchStatusAlone, WatchRereadAlone DEF Proceed
<1>2. ASSUME Trouble(p) PROVE Alone'
  BY <1>0, <1>2, InterruptedAlone, SubmitLostAlone, EndingAlone,
     CrashInWriteAlone DEF Trouble
<1>3. CASE UNCHANGED vars
  <2>1. UNCHANGED <<head, file, tasks, aged, saved>> /\ me' = me
    BY <1>3 DEF vars
  <2>2. Later
    BY <2>1, Numbers DEF Later, Live, Processed
  <2> QED BY <2>1, <2>2, WorldMoves
<1> QED BY <1>0, <1>1, <1>2, <1>3, BeginAlone, ServerAlone, CommitAlone, AgesAlone
    DEF Next

(* While one command runs at a time, the file is honest about what it leaves
   to the next, whatever crashes, is lost or times out.                     *)
THEOREM OneCommandIsHonest ==
    ASSUME NEW p, Processes = {p}
    PROVE  Spec => []Alone
<1>1. Init => Alone
  BY AloneInitially
<1>2. IInv /\ Alone /\ [Next]_vars => Alone'
  BY AloneKept
<1> QED BY <1>1, <1>2, CopiesAreTruthful, PTL DEF Spec

(* While one command runs at a time, no command that waits submits again the
   commits of a saved task that can still be waited for (runSyncCommand).   *)
THEOREM NoWorkIsDoubled ==
    ASSUME NEW p, Processes = {p}
    PROVE  Spec => []NoDoubleWork
<1>1. ASSUME IInv, Alone PROVE NoDoubleWork
  <2> SUFFICES ASSUME NEW t \in saved \ aged, NEW u \in DOMAIN tasks,
                      t < u, Live(t), tasks[t].awaited, tasks[u].awaited
               PROVE  Over(tasks[t]) \cap Over(tasks[u]) = {}
    BY DEF NoDoubleWork
  <2>1. tasks[t].to <= tasks[u].from
    BY <1>1 DEF Alone, InOrder, Owed
  <2>2. t \in DOMAIN tasks
    BY <1>1, InvariantParts DEF Rest
  <2>3. /\ tasks[t].from \in Nat /\ tasks[t].to \in Nat
        /\ tasks[u].from \in Nat /\ tasks[u].to \in Nat
    BY <1>1, <2>2, Numbers
  <2> QED BY <2>1, <2>3 DEF Over
<1> QED BY <1>1, CopiesAreTruthful, OneCommandIsHonest, PTL

(* While one command runs at a time, and none of them is a watch, the last
   synced commit does not go back (persistPendingRepoTask, finalizeRepoSync). *)
THEOREM SyncAdvances ==
    ASSUME NEW p, Processes = {p}, "watch" \notin Commands
    PROVE  Spec => LastAdvances
<1>1. ASSUME IInv, Alone, [Next]_vars
      PROVE  [file'.bound => file.last <= file'.last]_vars
  <2>1. file.last <= file.last
    BY <1>1, Numbers
  <2>2. CASE Write(p)
    <3>1. file' = me[p].cfg /\ me[p].pc = "write"
      BY <2>2 DEF Write
    <3>2. Ready(me[p])
      BY <1>1 DEF Alone
    <3> QED BY <3>1, <3>2 DEF Ready, Informed
  <2>3. CASE CrashInWrite(p)
    BY <2>3 DEF CrashInWrite, Torn
  <2>4. CASE file' = file
    BY <2>1, <2>4
  <2>5. Write(p) \/ CrashInWrite(p) \/ file' = file
    BY <1>1 DEF Next, Proceed, Trouble, vars, Begin, Read, NothingToLookAt,
       Resume, Stale, ParentReturns, ParentFails, Done, ChunkFails, Collect,
       Submit, SubmitLocal, WatchStatus, WatchReread, Interrupted, SubmitLost,
       Crash, Stop, Server, Commit, Ages
  <2> QED BY <2>2, <2>3, <2>4, <2>5
<1> QED BY <1>1, CopiesAreTruthful, OneCommandIsHonest, PTL DEF Spec, LastAdvances
=============================================================================
