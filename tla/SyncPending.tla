----------------------------- MODULE SyncPending -----------------------------
(* The commands that submit a repository's changes to Compair's API and wait
   for them (cmd/compair/sync.go, wait.go, watch.go), over the configuration
   file that they share: .compair/config.yaml holds the last synced commit and
   one saved task. Every command reads the whole file, works on its copy, for
   many minutes if it waits, and writes the whole copy back, without a lock.

   One repository, whose history only grows: commits are 1, 2, ..., and 0
   stands for "none". A submission covers the commits after the base that its
   command read, up to HEAD; a snapshot, sent when nothing was synced yet,
   covers all of them (the history limit of the first diff of a watch is left
   out). Every task of the API belongs to a submission.                     *)
EXTENDS Naturals, Sequences

CONSTANTS Processes,
          Commands,      \* the commands that are run
          Peers,         \* a pairwise review submits once per peer: 1..Peers
          MaxCommits, MaxTasks,
          Troubles,      \* what may go wrong, and how often in all
          MaxTroubles

Uploads == {"review", "pairwise", "detach", "push"}
Unawaited == {"push", "watch"}    \* they count what was accepted as synced

ASSUME BoundsAssumption ==
    /\ Commands \subseteq Uploads \cup {"wait", "watch"}
    /\ Peers \in Nat \ {0}
    /\ MaxCommits \in Nat \ {0}
    /\ {MaxTasks, MaxTroubles} \subseteq Nat

VARIABLES head,     \* HEAD of the working copy
          file,     \* the configuration file
          tasks,    \* API: the tasks, by number
          aged,     \* the tasks submitted longer ago than pendingTaskStaleAfter
          saved,    \* history: the tasks that the file has named
          me,       \* per process: its command and what it works on
          count     \* how many troubles there have been

vars == <<head, file, tasks, aged, saved, me, count>>

Commits == 0 .. MaxCommits
NoTask == 0
\* A file without repositories: what a torn write leaves, and readers skip.
Torn == [bound |-> FALSE, last |-> 0, task |-> NoTask, commit |-> 0]
Config == [bound : BOOLEAN, last : Commits, task : Nat, commit : Commits]
Task == [from : Commits, to : Commits, peer : 0 .. Peers,
         awaited : BOOLEAN,
         state : {"running", "success", "failed", "ended"},
         chunks : {"none", "running", "done", "failed"}]
\* "initial": waitForPendingInitialSyncs; "saved": the saved task in
\* runSyncCommand; "own": awaitRepoProcessDocTask; "wait": compair wait.
Phases == {"initial", "saved", "own", "wait", "watch"}
PC == {"idle", "read", "look", "parent", "chunks", "collect", "submit",
       "status", "reread", "write"}
Memory == [pc : PC, then : PC, cmd : Uploads \cup {"wait", "watch", "none"},
           phase : Phases, cfg : Config, from : Commits, to : Commits,
           left : 0 .. Peers]
Idle == [pc |-> "idle", then |-> "idle", cmd |-> "none", phase |-> "saved",
         cfg |-> Torn, from |-> 0, to |-> 0, left |-> 0]
Goto(p, pc) == me' = [me EXCEPT ![p].pc = pc]
Ends(p) == me' = [me EXCEPT ![p] = Idle]
Counts(trouble) ==
    trouble \in Troubles /\ count < MaxTroubles /\ count' = count + 1

(* The three changes of a copy: clearPendingRepoTask, persistPendingRepoTask
   and finalizeRepoSync, which each write the copy whole (Write).          *)
\* Mutant of Cleared: the number of the task stays.
ClearedHalf(cfg) == [cfg EXCEPT !.commit = 0]

Cleared(cfg) == [cfg EXCEPT !.task = NoTask, !.commit = 0]

\* Mutant of Persisted: the commit of an older task stays.
PersistedHalf(cfg, t, latest) == [cfg EXCEPT !.task = t]

Persisted(cfg, t, latest) == [cfg EXCEPT !.task = t, !.commit = latest]

\* Mutant of Finalized: the finished task stays saved.
FinalizedHalf(cfg, latest) == [cfg EXCEPT !.last = latest]

Finalized(cfg, latest) == [Cleared(cfg) EXCEPT !.last = latest]

Saves(p, cfg, then) ==
    me' = [me EXCEPT ![p].cfg = cfg, ![p].pc = "write", ![p].then = then]
\* What waits for pending initial syncs goes on to the repository itself.
SavesInitial(p, cfg) ==
    me' = [me EXCEPT ![p].cfg = cfg, ![p].pc = "write", ![p].then = "read",
                     ![p].phase = "saved"]
-----------------------------------------------------------------------------
(* The API.                                                                *)
Processed(task) == \/ task.state = "success" /\ task.chunks = "none"
                   \/ task.chunks = "done"
Over(task) == task.from + 1 .. task.to
\* Its end can still be waited for.
Live(t) == /\ tasks[t].state \in {"running", "success"}
           /\ tasks[t].chunks # "failed"
           /\ ~Processed(tasks[t])
Failed(t) == tasks[t].state \in {"failed", "ended"} \/ tasks[t].chunks = "failed"
\* A parent task that does not succeed, but has queued its chunks.
Recoverable(t) == /\ tasks[t].state \in {"running", "ended"}
                  /\ tasks[t].chunks # "none"

QueuesChunks(t) == /\ tasks[t].state = "running" /\ tasks[t].chunks = "none"
                   /\ tasks' = [tasks EXCEPT ![t].chunks = "running"]
                   /\ UNCHANGED count
Succeeds(t) == /\ tasks[t].state = "running"
               /\ tasks' = [tasks EXCEPT ![t].state = "success"]
               /\ UNCHANGED count
ChunksSucceed(t) == /\ tasks[t].chunks = "running"
                    /\ tasks' = [tasks EXCEPT ![t].chunks = "done"]
                    /\ UNCHANGED count
\* Terminal without success; "ended" keeps the status PROGRESS.
TaskFails(t) == /\ tasks[t].state = "running"
                /\ Counts("failure")
                /\ \E s \in {"failed", "ended"} :
                     tasks' = [tasks EXCEPT ![t].state = s]
ChunksFail(t) == /\ tasks[t].chunks = "running"
                 /\ Counts("failure")
                 /\ tasks' = [tasks EXCEPT ![t].chunks = "failed"]
Works(t) == QueuesChunks(t) \/ Succeeds(t) \/ ChunksSucceed(t)
Fails(t) == TaskFails(t) \/ ChunksFail(t)
Server == /\ \E t \in DOMAIN tasks : Works(t) \/ Fails(t)
          /\ UNCHANGED <<head, file, aged, saved, me>>

\* The task that p's submission becomes, if the API queues it.
Submission(p, state) ==
    [from |-> me[p].from, to |-> me[p].to, peer |-> me[p].left,
     awaited |-> me[p].cmd \notin Unawaited, state |-> state, chunks |-> "none"]
Accepts(p, state) ==
    Len(tasks) < MaxTasks /\ tasks' = Append(tasks, Submission(p, state))
-----------------------------------------------------------------------------
(* Reading the configuration, and what is done about a saved task.          *)
Begin(p, cmd) ==
    /\ me[p].pc = "idle"
    /\ me' = [me EXCEPT ![p] = [Idle EXCEPT
                !.pc = "read", !.cmd = cmd,
                !.phase = IF cmd \in Uploads THEN "initial" ELSE cmd]]
    /\ UNCHANGED <<head, file, tasks, aged, saved, count>>

\* A file without repositories ends the work on the repository in silence.
Read(p) ==
    /\ me[p].pc = "read"
    /\ IF ~file.bound /\ me[p].phase # "initial" THEN Ends(p)
       ELSE me' = [me EXCEPT ![p].cfg = file, ![p].from = file.last,
                     ![p].pc = IF me[p].cmd = "watch" THEN "collect" ELSE "look"]
    /\ UNCHANGED <<head, file, tasks, aged, saved, count>>

\* Is the saved task looked at in this phase at all?
Looks(p) ==
    /\ me[p].cfg.task # NoTask
    /\ CASE me[p].phase = "initial" -> me[p].cfg.last = 0
         [] me[p].phase = "saved" -> me[p].cmd \in {"review", "pairwise"}
         [] OTHER -> TRUE

NothingToLookAt(p) ==
    /\ me[p].pc = "look" /\ ~Looks(p)
    /\ CASE me[p].phase = "initial" ->
              me' = [me EXCEPT ![p].phase = "saved", ![p].pc = "read"]
         [] me[p].phase = "wait" -> Ends(p)
         \* A detached review reuses the task that is saved.
         [] me[p].cmd = "detach" /\ me[p].cfg.task # NoTask -> Ends(p)
         [] OTHER -> Goto(p, "collect")
    /\ UNCHANGED <<head, file, tasks, aged, saved, count>>

Resume(p) ==
    /\ me[p].pc = "look" /\ Looks(p) /\ me[p].cfg.task \notin aged
    /\ Goto(p, "parent")
    /\ UNCHANGED <<head, file, tasks, aged, saved, count>>

\* A saved task that is too old: sync drops it, the other two ask the API once.
StaleInSync(p) ==
    /\ me[p].phase = "saved"
    /\ Saves(p, Cleared(me[p].cfg), "collect")
    /\ UNCHANGED count
StaleInitial(p) ==
    LET t == me[p].cfg.task IN
    /\ me[p].phase = "initial"
    /\ \/ /\ tasks[t].state = "success"
          /\ Goto(p, "chunks")
          /\ UNCHANGED count
       \/ /\ \/ tasks[t].state # "success" /\ UNCHANGED count
             \/ Counts("loss")
          /\ SavesInitial(p, Cleared(me[p].cfg))
StaleInWait(p) ==
    LET t == me[p].cfg.task IN
    /\ me[p].phase = "wait"
    /\ \/ /\ tasks[t].state = "success" \/ Recoverable(t)
          /\ Goto(p, "chunks")
          /\ UNCHANGED count
       \/ /\ tasks[t].state \in {"failed", "ended"} /\ ~Recoverable(t)
          /\ Saves(p, Cleared(me[p].cfg), "idle")
          /\ UNCHANGED count
       \/ /\ \/ Live(t) /\ tasks[t].chunks = "none" /\ UNCHANGED count
             \/ Counts("loss")
          /\ Ends(p)
Stale(p) ==
    /\ me[p].pc = "look" /\ Looks(p) /\ me[p].cfg.task \in aged
    /\ StaleInSync(p) \/ StaleInitial(p) \/ StaleInWait(p)
    /\ UNCHANGED <<head, file, tasks, aged, saved>>
-----------------------------------------------------------------------------
(* Waiting for a task and its chunks.                                      *)

\* waitForProcessingTask returns also when progress stalls after the chunks
\* were queued; only the initial wait accepts nothing but a success.
ParentReturns(p) ==
    LET t == me[p].cfg.task IN
    /\ me[p].pc = "parent"
    /\ \/ tasks[t].state = "success"
       \/ Recoverable(t) /\ me[p].phase # "initial"
    /\ Goto(p, "chunks")
    /\ UNCHANGED <<head, file, tasks, aged, saved, count>>

\* Mutant of Forgets: a timeout clears the saved task too.
ForgetsInterrupted(phase, state) == state # "ended"

\* Which endings make the command forget the task.
Forgets(phase, state) ==
    \/ state = "failed" /\ phase # "initial"
    \/ state = "ended" /\ phase = "own"
ParentFails(p) ==
    LET t == me[p].cfg.task IN
    /\ me[p].pc = "parent"
    /\ tasks[t].state \in {"failed", "ended"}
    /\ me[p].phase = "initial" \/ ~Recoverable(t)
    /\ IF Forgets(me[p].phase, tasks[t].state)
       THEN Saves(p, Cleared(me[p].cfg), "idle")
       ELSE Ends(p)
    /\ UNCHANGED <<head, file, tasks, aged, saved, count>>

\* The deadline passes, the poll fails too often, the task seems stalled.
Interrupted(p) ==
    LET t == me[p].cfg.task IN
    /\ \/ me[p].pc = "parent" /\ tasks[t].state = "running"
       \/ me[p].pc = "chunks" /\ tasks[t].chunks = "running"
    /\ Counts("timeout")
    /\ IF Forgets(me[p].phase, "running")
       THEN Saves(p, Cleared(me[p].cfg), "idle")
       ELSE Ends(p)
    /\ UNCHANGED <<head, file, tasks, aged, saved>>

\* Mutant of ChunksEnd: a failed chunk counts as done.
ChunksEndAnyhow(chunks) == chunks # "running"

ChunksEnd(chunks) == chunks \in {"none", "done"}
\* The work of a task is done: count its commits as synced, or go on to the
\* next peer of a pairwise review.
Done(p) ==
    /\ me[p].pc = "chunks"
    /\ ChunksEnd(tasks[me[p].cfg.task].chunks)
    /\ CASE me[p].phase = "initial" ->
              SavesInitial(p, Finalized(me[p].cfg, me[p].cfg.commit))
         [] me[p].phase = "own" /\ me[p].left > 1 ->
              me' = [me EXCEPT ![p].left = @ - 1, ![p].pc = "submit"]
         [] OTHER -> Saves(p, Finalized(me[p].cfg, me[p].cfg.commit), "idle")
    /\ UNCHANGED <<head, file, tasks, aged, saved, count>>

ChunkFails(p) ==
    /\ me[p].pc = "chunks"
    /\ tasks[me[p].cfg.task].chunks = "failed"
    /\ Saves(p, Cleared(me[p].cfg), "idle")
    /\ UNCHANGED <<head, file, tasks, aged, saved, count>>
-----------------------------------------------------------------------------
(* Collecting and submitting changes.                                      *)
Collect(p) ==
    /\ me[p].pc = "collect"
    /\ IF me[p].from = head
       THEN me[p].cmd # "watch" /\ Ends(p)
       ELSE me' = [me EXCEPT ![p].to = head, ![p].pc = "submit",
                     ![p].left = IF me[p].cmd = "pairwise" THEN Peers ELSE 0]
    /\ UNCHANGED <<head, file, tasks, aged, saved, count>>

\* The API queues a task. A push does not wait, and is done.
Submit(p) ==
    /\ me[p].pc = "submit"
    /\ Accepts(p, "running")
    /\ LET cfg == me[p].cfg IN
       CASE me[p].cmd = "watch" -> Goto(p, "status")
         [] me[p].cmd = "push" -> Saves(p, Finalized(cfg, me[p].to), "idle")
         [] me[p].cmd = "detach" ->
              Saves(p, Persisted(cfg, Len(tasks'), me[p].to), "idle")
         [] OTHER ->
              me' = [me EXCEPT ![p].pc = "write", ![p].then = "parent",
                       ![p].phase = "own",
                       ![p].cfg = Persisted(cfg, Len(tasks'), me[p].to)]
    /\ UNCHANGED <<head, file, aged, saved, count>>

\* The API does the work at once and names no task.
SubmitLocal(p) ==
    /\ me[p].pc = "submit" /\ Accepts(p, "success")
    /\ CASE me[p].cmd = "watch" -> Goto(p, "status")
         [] me[p].left > 1 ->
              me' = [me EXCEPT ![p].left = @ - 1]
         [] OTHER -> Saves(p, Finalized(me[p].cfg, me[p].to), "idle")
    /\ UNCHANGED <<head, file, aged, saved, count>>

\* Without an answer the command fails, whether or not the API accepted;
\* a watch tries the same text again.
SubmitLost(p) ==
    /\ me[p].pc = "submit"
    /\ Counts("loss")
    /\ Accepts(p, "running") \/ UNCHANGED tasks
    /\ IF me[p].cmd = "watch" THEN Goto(p, "collect") ELSE Ends(p)
    /\ UNCHANGED <<head, file, aged, saved>>

\* The whole copy replaces the file.
Write(p) ==
    /\ me[p].pc = "write"
    /\ file' = me[p].cfg
    /\ saved' = IF me[p].cfg.task = NoTask THEN saved
                ELSE saved \cup {me[p].cfg.task}
    /\ IF me[p].then = "idle" THEN Ends(p) ELSE Goto(p, me[p].then)
    /\ UNCHANGED <<head, tasks, aged, count>>

(* A watch asks for the status once, whatever it is, and then sets the last
   synced commit in the file as it is now.                                  *)
WatchStatus(p) ==
    /\ me[p].pc = "status"
    /\ \/ /\ me' = [me EXCEPT ![p].from = me[p].to, ![p].pc = "reread"]
          /\ UNCHANGED count
       \/ Goto(p, "collect") /\ Counts("loss")
    /\ UNCHANGED <<head, file, tasks, aged, saved>>
WatchReread(p) ==
    /\ me[p].pc = "reread"
    /\ IF file.bound
       THEN Saves(p, [file EXCEPT !.last = me[p].from], "collect")
       ELSE Goto(p, "collect")
    /\ UNCHANGED <<head, file, tasks, aged, saved, count>>
-----------------------------------------------------------------------------
(* The user, the clock, and the death of a process.                        *)
Commit == /\ head < MaxCommits
          /\ head' = head + 1
          /\ UNCHANGED <<file, tasks, aged, saved, me, count>>
Ages(t) == /\ t \notin aged
           /\ t = file.task \/ \E p \in Processes : t = me[p].cfg.task
           /\ aged' = aged \cup {t}
           /\ IF Failed(t) THEN UNCHANGED count ELSE Counts("age")
           /\ UNCHANGED <<head, file, tasks, saved, me>>
Crash(p) == /\ me[p].pc # "idle"
            /\ Ends(p)
            /\ Counts("crash")
            /\ UNCHANGED <<head, file, tasks, aged, saved>>
\* os.WriteFile truncates first: who dies in it leaves an empty file.
CrashInWrite(p) == /\ me[p].pc = "write"
                   /\ file' = Torn
                   /\ Ends(p)
                   /\ Counts("tear")
                   /\ UNCHANGED <<head, tasks, aged, saved>>
\* Stopping a watch is how it ends.
Stop(p) == /\ me[p].cmd = "watch" /\ me[p].pc = "collect"
           /\ Ends(p)
           /\ UNCHANGED <<head, file, tasks, aged, saved, count>>

Init == /\ head = 1
        /\ file = [Torn EXCEPT !.bound = TRUE]
        /\ tasks = <<>>
        /\ aged = {}
        /\ saved = {}
        /\ me = [p \in Processes |-> Idle]
        /\ count = 0

Proceed(p) == \/ Read(p) \/ NothingToLookAt(p) \/ Resume(p) \/ Stale(p)
              \/ ParentReturns(p) \/ ParentFails(p) \/ Done(p) \/ ChunkFails(p)
              \/ Collect(p) \/ Submit(p) \/ SubmitLocal(p) \/ Write(p)
              \/ WatchStatus(p) \/ WatchReread(p)
Trouble(p) == \/ Interrupted(p) \/ SubmitLost(p)
              \/ Crash(p) \/ CrashInWrite(p) \/ Stop(p)
Next == \/ \E p \in Processes : \/ Proceed(p) \/ Trouble(p)
                                \/ \E cmd \in Commands : Begin(p, cmd)
        \/ Server
        \/ Commit
        \/ \E t \in DOMAIN tasks : Ages(t)

Spec == Init /\ [][Next]_vars
\* A command goes on, the API works, time passes, and the user comes back to
\* the review.
FairSpec == /\ Spec
            /\ \A p \in Processes : WF_vars(Proceed(p))
            /\ \A p \in Processes : SF_vars(Begin(p, "review"))
            /\ \A t \in 1 .. MaxTasks :
                 /\ WF_vars(t \in DOMAIN tasks /\ Works(t)
                            /\ UNCHANGED <<head, file, aged, saved, me>>)
                 /\ WF_vars(t \in DOMAIN tasks /\ Ages(t))
-----------------------------------------------------------------------------
TypeOK ==
    /\ head \in Commits \ {0}
    /\ file \in Config
    /\ tasks \in Seq(Task)
    /\ aged \subseteq DOMAIN tasks
    /\ saved \subseteq DOMAIN tasks
    /\ me \in [Processes -> Memory]
    /\ count \in 0 .. MaxTroubles

(* Every commit up to n was processed by the API, or accepted from a command
   that does not wait for that; ts are the API's tasks.                    *)
Covered(ts, n) ==
    \A c \in 1 .. n : \E t \in DOMAIN ts :
        c \in Over(ts[t]) /\ (Processed(ts[t]) \/ ~ts[t].awaited)

(* SyncedIsProcessed: whatever commands run at once and write their old copies
   over each other's, no commit is counted as synced that the API has not
   processed: the next diff would begin after it, and it would never be
   reviewed (finalizeRepoSync and its callers).                             *)
SyncedIsProcessed == Covered(tasks, file.last)

\* What a copy of the configuration says, the file's or a process's, is true.
Truthful(ts, cfg) ==
    /\ Covered(ts, cfg.last)
    /\ cfg.task # NoTask => /\ cfg.task \in DOMAIN ts
                            /\ ts[cfg.task].to = cfg.commit
                            /\ Covered(ts, ts[cfg.task].from)
\* What a process with memory m is about to do rests on the truth.
Sound(ts, m) ==
    /\ Truthful(ts, m.cfg)
    /\ Covered(ts, m.from)
    /\ m.pc = "status" => Covered(ts, m.to)
    /\ m.pc = "write" => m.then \in {"idle", "read", "parent", "collect"}
    /\ m.pc \in {"parent", "chunks"} \/ (m.pc = "write" /\ m.then = "parent")
         => m.cfg.task # NoTask
    /\ m.pc = "chunks" => \/ ts[m.cfg.task].state = "success"
                          \/ ts[m.cfg.task].chunks # "none"

(* IInv: every copy of the configuration, the file's and each process's,
   says what is true of the API, however old it is (the callers of
   WriteProjectConfig); SyncedIsProcessed follows from it.                  *)
IInv == /\ TypeOK
        /\ Truthful(tasks, file)
        /\ \A p \in Processes : Sound(tasks, me[p])

(* NoDoubleWork: while a saved task can still be waited for and is not too
   old, no command that waits submits its commits again, through any timeouts,
   crashes and reruns ("rerun the same command to continue waiting without
   resubmitting"). One command at a time: two at once both submit.          *)
NoDoubleWork ==
    \A t \in saved \ aged, u \in DOMAIN tasks :
      /\ t < u /\ Live(t) /\ tasks[t].peer = tasks[u].peer
      /\ tasks[t].awaited /\ tasks[u].awaited
      => Over(tasks[t]) \cap Over(tasks[u]) = {}

(* LastAdvances: the last synced commit does not go back, so nothing is
   reviewed twice. One command at a time, and without a watch, which leaves
   an older saved task in place.                                           *)
LastAdvances == [][file'.bound => file.last <= file'.last]_vars

(* EventuallySynced: a user who comes back to the review gets every commit
   processed in the end, whatever failed, aged or was interrupted.         *)
EventuallySynced == <>[](file.last = head)

(* PairwiseIsExhaustive: when a pairwise review counts a commit as synced, it
   was reviewed against every peer (docs/user_guide.md: it "replays the target
   repo against one peer repo at a time", an "exhaustive repo-pair sweep").  *)
PairwiseIsExhaustive ==
    \A c \in 1 .. file.last, q \in 1 .. Peers : \E t \in DOMAIN tasks :
      c \in Over(tasks[t]) /\ tasks[t].peer = q /\ Processed(tasks[t])
-----------------------------------------------------------------------------
(* What holds while one command runs at a time: Alone.                      *)
Owed(t) == t \in saved \ aged /\ Live(t) /\ tasks[t].awaited

\* With the copy k, no diff that begins after k.last repeats the work of t:
\* k names t, or t's commits lie before those of k's own task.
Settles(k, t) == \/ k.task = t
                 \/ /\ tasks[t].to <= k.last
                    /\ k.task # NoTask => tasks[t].to <= tasks[k.task].from
Honest(k) == \A t \in saved : Owed(t) => Settles(k, t)
\* Without a watch, a saved task ends at or after the last synced commit.
Forward(k) == "watch" \in Commands \/ k.task = NoTask \/ k.last <= k.commit

\* Nothing is ahead of HEAD.
Bounded == /\ \A t \in DOMAIN tasks :
                tasks[t].from <= tasks[t].to /\ tasks[t].to <= head
           /\ file.last <= head
\* What was submitted while t was owed begins after t's commits.
InOrder == \A t \in saved, u \in DOMAIN tasks :
               Owed(t) /\ t < u /\ tasks[u].awaited => tasks[t].to <= tasks[u].from
\* What one command leaves in the file for the next.
Left == /\ file.task \in saved \cup {NoTask}
        /\ file = Torn \/ (file.bound /\ Honest(file))
        /\ Forward(file)

\* m's copy of the configuration is the one that m has read, or writes.
Informed(m) ==
    /\ m.cmd \in Commands \cup {"none"}
    /\ m.pc # "idle" => m.cmd # "none"
    /\ m.cmd \in {"wait", "watch"} => m.phase = m.cmd
    /\ m.pc \in {"collect", "submit"} \/ (m.pc = "write" /\ m.then = "collect")
         => m.cmd # "wait"
    /\ m.phase = "own" => \/ m.pc \in {"parent", "chunks", "submit"}
                          \/ m.pc = "write" /\ m.then \in {"idle", "parent"}
    /\ m.pc \notin {"idle", "read", "write"} => m.cfg = file
    /\ m.pc \notin {"idle", "read"} /\ ~(m.pc = "look" /\ m.phase = "initial")
         => m.cfg.bound
    /\ m.pc = "write" => /\ Honest(m.cfg) /\ Forward(m.cfg)
                         /\ m.cfg.task \in saved \cup {NoTask, Len(tasks)}
                         /\ "watch" \in Commands \/ file.last <= m.cfg.last
\* Where m's next diff begins and ends.
Aims(m) ==
    /\ m.from <= head /\ m.to <= head /\ m.cfg.last <= head
    /\ m.pc \in {"look", "parent", "chunks"} => m.from = m.cfg.last
    /\ m.pc \in {"collect", "submit"} /\ m.cmd # "watch" => m.from = m.cfg.last
    /\ m.pc = "write" /\ m.then \in {"parent", "collect"} => m.from = m.cfg.last
    /\ m.pc = "submit" \/ m.phase = "own"
         => m.from <= m.to /\ \A t \in saved : tasks[t].to <= m.to
    /\ m.pc = "write" /\ m.then = "parent"
         => m.phase = "own" /\ tasks[m.cfg.task].to <= m.to
    /\ m.pc \in {"collect", "submit", "status", "reread"} => file.last <= m.from
    /\ m.pc = "status" => m.from <= m.to
    /\ m.pc \in {"status", "reread"} => m.cmd = "watch"
\* Who waits for an answer submits nothing while the saved task is owed.
Free(m) ==
    m.cmd \notin Unawaited =>
      /\ m.pc \in {"collect", "submit"} => m.cfg.task = NoTask \/ ~Live(m.cfg.task)
      /\ m.pc = "write" /\ m.then = "collect" => m.cfg.task = NoTask
Ready(m) == Informed(m) /\ Aims(m) /\ Free(m)

(* Alone: what one command at a time does to the file, crashes and lost
   answers included (sync.go, wait.go, watch.go); NoDoubleWork and
   LastAdvances follow from it.                                            *)
Alone == Bounded /\ InOrder /\ Left /\ \A p \in Processes : Ready(me[p])
=============================================================================
