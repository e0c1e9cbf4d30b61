# Verification of compair-cli

TLA+ models of the parts of `compair-cli` whose correctness depends on the order
of things: several commands of one user running at once, responses that get
lost, processes that die between two steps, waits that time out and are resumed,
caches that outlive what they were read from; and of the algorithms that decide
what leaves the machine. TLC checks the models on small instances; TLAPS proves
the most important theorems for every instance. `PROJECT.json` lists the runs,
the source lines that every definition models, the hazards and the theorems.

The program is a single Go binary. It keeps state in files under the application
root (`~/.compair`), in each repository (`.compair/`), and in a SQLite database,
and talks over HTTP to Compair's API ("Core"). Nothing coordinates two commands
that run at once, except one directory lock (bindings), one exclusive create (the
secret) and the transactions of SQLite.

## Inventory

| Component | State | What is hard, and what makes it correct | Modelled by |
|---|---|---|---|
| Baseline upload (`internal/baseline/upload.go`, `upload_state.go`) | resume record per scan plan (HMAC, atomic replace, no lock); staging record, parts and continuation in Core | lost and late requests, two processes on one record, crash between acceptance and save, expiry. Parts are accepted in order, nothing accepted is lost, a success is backed by Core, interrupted work can be resumed | `BaselineUpload`, implements `SnapshotPromise` |
| Installation secret (`upload_state.go`) | one 32-byte file | several first commands at once, crash after the create. All use one secret, it never changes, nobody waits for ever | `InstallSecret` |
| Registrations and bindings (`repository.go`, `repository_state.go`) | one file per binding, a directory lock that grows stale after ten minutes; registrations in Core | broken locks, registration without a binding, two bindings of a path, reads before the lock | `RepositoryBindings` |
| Scan plans (`plan.go`) | a plan file | reads bindings without the lock, inspects working copies that may be replaced meanwhile, two planners with one output. A plan is backed, its commits are those of the bound clones, and it replaces none by accident | `ScanPlan`, over `RepositoryBindings` |
| Scanner (`scanner.go`, `scanner_git.go`) | none | boundaries of parts, limits that exclude each other. The parts are the supported files, each once, in order, within the limits, and the report agrees with itself | `ScanPacking` |
| Compatible index (`index.go`, `index_state.go`) | resume record per snapshot (no lock); builds in Core | as the upload, and a Core whose required index identity changes. One build per snapshot, results are true, a known build can be resumed | `BaselineIndex` |
| Baseline run (`run.go`, `run_state.go`) | resume record per run intent (no lock); runs in Core | as the index; a resume must get through when admission is closed | `BaselineRun` |
| Sync, push, wait (`sync.go`, `wait.go`, `push_pull.go`) | `.compair/config.yaml`: last synced commit, pending task | configuration read before a long wait and written whole after it; stale tasks; failed chunks; pairwise reviews that stop midway. No commit counts as synced that was not processed, a task that can be waited for is not submitted again, everything is processed in the end | `SyncPending` |
| Watch (`watch.go`) | last seen commit | updates of the shared configuration | `SyncPending` |
| Reports (`sync.go`, second half) | `.compair/feedback_cache.json` | cache saved before the report, shared by syncs, near-duplicates collapsed. Nothing is hidden that was not shown | `FeedbackReport` |
| Notification gate (`sync_notification_gate.go`, `sync_gate_presets.go`) | none | events scored late and by another clock, a bounded page, filters. A verdict has a reason among the events shown | `NotificationGate` |
| Snapshots (`snapshot.go`) | none | index arithmetic that differs by profile; budgets reached inside a file. No line is lost, every file is accounted for | `SnapshotChunks`, `SnapshotBudget` |
| Add, track, rm, publish, reconcile, the pass of sync, push and pull over tracked files; local database (`db/store.go`) | tracked items in SQLite; documents of the server | rows read, then replaced after requests; hashes stored too early; lost links | `TrackedFiles` |
| Managed Core (`core.go`, `core_runtime.go`), profiles, capabilities cache (`capabilities.go`), login | settings, container, `profiles.yaml`, cached capabilities, credentials | container recreated in steps, caches of a server that changes mode. A restart heals what status reports but for two named cases, the cache tells the truth | `LocalCore` |
| Groups, notes, `notifications`, `doctor`, `demo`, ignore rules, telemetry, Git calls, control-plane client, Python overlay, command line | small files | one call each; presentation and string matching | not modelled |

How they interact: the **secret** keys the HMAC of the records and derives the
idempotency keys of upload, index and run; **registrations and bindings** feed
the **plan**, the plan feeds the **scanner** and the **upload**, whose result
file feeds the **index**, whose result file feeds the **run**. On the other side
of the program, **sync** reads the repository's configuration and the tracked
items, makes **snapshots**, waits for their tasks, fetches feedback into a
**report**, and ends with the **gate**. Core's side of each exchange is not in
the repository: it is modelled by what the client relies on (idempotent begin and
submit per key, terminal states that stay) and marked external in the map.

## Modules

**BaselineUpload.** `disk` is the resume record, `mem[c]` the copy of it that a
process works on, `staging`, `job`, `received`, `cont` are Core's. `StartFresh`,
`StartResume`, `StartRefused` and `PreflightFails` are the first lines of
`RunUpload`; `Deliver`, `GiveUp`, `AttemptFails` and `DeadlinePasses` are
`postWithRetry`; one handler per response (`OnBegin`, `OnStatus`, `OnRefresh`,
`OnPart`, `OnCommit`, `OnContinuation`) follows the code to the next request or
result; `Output` and `Finalize` are the command's last lines. A request may be
handled with its response lost, or arrive after its sender gave up
(`StrayArrives`). `SnapshotPromise` says what all of it is for, and
`KeepsPromise` is the refinement.

**InstallSecret.** Each file operation of `loadOrCreateInstallSecret` is an
action: `Stat`, `Read`, `Create` (exclusive), `Write`, and the bounded rounds
that wait for another process's write.

**RepositoryBindings.** `withLock` step by step (`TryLock`, `Inspect`, `Break`,
`Wait`, `Unlock`), and under it `register` (`LoadToRegister`, `Post`, `Save`)
and `bind` (`LoadToBind`, `Save`). `LockAges` lets the lock of a dead process
pass the ten minutes after which others break it.

**ScanPlan** EXTENDS `RepositoryBindings`: the same processes, locks and faults
go on while planners copy the bindings (`PlanStart`), inspect one working copy
after the other (`PlanInspect`), ask Core (`PlanAsk`), resolve the commits
(`PlanCommits`) and install the file (`PlanLstat`, `PlanInstall`). `moved` records
which clones were replaced while a planner was at work.

**BaselineIndex** and **BaselineRun.** `record` and `me[p].state` are the file and
a process's copy; every save writes the copy whole. Both decide from the record
how to go on, submit under a key derived from the operation's identity, poll,
apply what the poll said, and save a failure. `Upgrade` changes what Core requires
or whether it admits anything. They differ in what they check first, in the
states of a job, in which results end the record, and in what a resume may do
when admission is closed.

**SyncPending.** `file` is `.compair/config.yaml` reduced to what the commands
tell apart: whether it names a repository at all, the last synced commit, the
saved task and its commit. `me[p].cfg` is the copy that a command read, works on
and writes back whole (`Write`). `me[p].phase` says which of the four waits of
the code is under way: for initial syncs, for the saved task of `sync`, for a
task just submitted, for `compair wait`; they differ in what makes them forget
the task. `tasks` is the API's side: a parent task, its chunks, and the range of
commits it was given.

**TrackedFiles.** `rows` is the table of tracked items, `docs` the server's
documents with the versions they were given, `content` the files on disk. Each
statement on the table is a step; `add`, `rm`, `publish`, the pass over the files
and `reconcile` read rows, make requests and replace rows by what they knew.
`sync`, `push` and `pull` make the same pass: it asks for the flag `--fetch-only`
(`fetch` in the model), which `pull` does not set. A wait may end in any way
(success, deadline, a chunk that failed or is not known when its own wait ends),
and the pass stores its row or skips the file accordingly. `causes` remembers, per
item, the events that the properties excuse, and `steady`, per row, whether the
command that stored its hash had sent the text it hashed; no command reads either.

**LocalCore.** `saved` is `core_runtime.yaml`, `containers` Docker's side, and
`profiles`, `cache` and `login` the files of the same names. `core up` is a
sequence of steps (load, remove, create, profile, clear the cache, wait), any of
which may be the last. `Keys` has one setting of each kind of handling: passed and
compared always, only with OpenAI, only when set, only with a switch; switches, of
which only on or off matters; a model's path, which is passed when the model is
found; authentication, which only the doctor looks at; and a variable that no
setting stands for. An extra assignment (`--env`) may name any of them.
`StatusFinds` and `DoctorFinds` are the comparisons that `core status` and `core
doctor` make between config and container.

**ScanPacking, SnapshotChunks, SnapshotBudget** are sequential: a behaviour grows
an input (trees, a text, a list of files with chunk sizes) and runs the code's
loop on it; the properties are reference definitions or accounts of the result.
**FeedbackReport** and **NotificationGate** run beside a server that goes on
generating feedback and scoring events.

**MCSelections, MCBaselineOperations, MCWorkstation** put components that share no
state into one run: the variable `stage` (`operation`, `side`) is chosen
initially and names the component that the behaviour is about; the others rest.
Each property of these modules is the property of one component, for behaviours
that are about it.

## Runs

| Run | Shows | Bounds |
|---|---|---|
| `upload_pair` | two processes: order of parts, no false contract failure, success backed, open work resumable, refinement of `SnapshotPromise` | 2 parts, 1 attempt, 2 runs each, 1 fault, 1 crash; Core may expire or fail |
| `upload_live` | a user who keeps running the command gets the snapshot uploaded, and each invocation ends | 1 process, 2 attempts, 5 runs for 2 faults, 1 timeout, 1 crash; Core does not fail |
| `secret_race` | one secret, which is final; waiting for it ends | 3 processes, 2 runs each, 3 rounds, 1 crash, 1 failed write |
| `bindings` | a path is bound once and no registration is orphaned until a lock grows stale or something fails; bindings are backed and keep their identity; every command ends | 3 processes, 1 run each, 1 path, 1 lost request or failed write, 1 crash, 1 stale lock, 1 reclone |
| `plan` | a plan is backed, its commits are bound, none is replaced by accident | 1 planner beside the first 2 commands, or beside a third that registers or binds again what the planner has copied, or 2 planners after them; 2 paths, 2 source documents (one of them "none"), 1 fault, 1 crash, 2 reclones |
| `operations` | index and run: one job, true results, a record as long as it is needed, no false dead end, a known build is waited for, closed admission strands nothing | 2 processes; index: 1 invocation each, 2 faults, 1 timeout; run: 2 invocations, 2 faults; 1 crash, 1 change of Core |
| `sync_single` | one command after another: a task that can be waited for is not submitted again, the last synced commit never goes back, everything is processed in the end | review, detached review, push, wait; 2 commits, 4 tasks (never reached), 1 trouble of 5 kinds |
| `sync_pair` | two commands at once: nothing counts as synced that was not processed | pairwise review over 2 peers, wait, watch; 2 commits, 2 tasks, 1 failed task or torn write |
| `workstation` | what status and doctor find after a restart is exactly what an extra assignment overrides or a model that is not found; cached capabilities are true; no hash that was sent comes to stand beside a document that was not given its text; no document is left behind, a reconcile leaves agreement | 2 processes; Core: 9 settings with up to 3 values each, 2 names, 2 ports, 2 changes, 4 commands, 1 fault; files: 2 files and 1 repository, 3 documents, 3 commands, 2 edits, 1 fault |
| `selections` | packing is exact, no feedback is swallowed, a gate's verdict has a reason, no line is lost, a snapshot is accounted for | see below |

The bounds are enough for what they are there for: two processes and two parts
(or rounds, or paths) give every order of one step of a process between any two
of another, one fault hits any of the steps, and a second invocation meets what
an earlier one left behind. In `sync_pair` two tasks are enough for an old copy
of each command to be written over the other's news. In `plan` several planners
meet in the output file only, so they are checked with every working copy
registered. One planner is checked with the commands on the bindings under way:
from nothing, and from every working copy registered, where a command registers
or binds one again, or another clone, between the planner's copy of the bindings
and its plan (`PartedInit`). In `operations` an index
process has one invocation and resumes what the other one left; two would only
repeat it. In `selections` the limits are as small as lets every comparison come
out either way: files of 0, 1, 2 and 4 bytes against a file limit of 3, a part
limit of 2 files and 3 bytes, and 2 parts; texts of up to 6 lines against chunks
of 2 to 3 lines; snapshots of up to 4 files of 2 chunks with a budget that none,
some or all of them fit into; two syncs with three items, the middle one like the
others; a gate with one event to a page, and the server half a minute off. The
theorems remove the bounds where they could matter most.

Every run but the violations bounds the number of invocations, so its behaviours
end and `CHECK_DEADLOCK` is off; that commands do not hang is a matter of the
liveness properties (`InvocationsEnd`, `WaitingEnds`, `EventuallyUploaded`,
`EventuallySynced`).

### Disagreements found

| Run | What happens | What is said |
|---|---|---|
| `bindings_stale` | two processes break one stale lock, the second removes the first one's fresh lock; the path is bound twice | the test of concurrent registrations expects one binding |
| `sync_pairwise` | a pairwise review times out in one pair, and the advised rerun waits for that pair's task alone and counts the commit as synced; the other peers are never reviewed | `docs/user_guide.md`: it replays the repository against one peer at a time, an exhaustive sweep |

### Observations

What modelling brought up and no run is spent on. None of it contradicts a
property: the properties name the cases they leave out.

*Bindings and plans.* A command whose `Mkdir` met a lock that is released before
its `Lstat` fails with `unsafe_binding_lock` (`repository_state.go:75`), where
the concurrency test expects no error (`repository_test.go:267`). `register` of a
recloned working copy accepts the new clone (`repository.go:240`), where
`docs/baseline_repository_plan.md:71` asks for an explicit bind. A clone replaced
between the inspection of its sanity hash and the resolution of the revisions
gives the plan commits of a clone that was never bound.

*Upload.* With two processes a terminal `staging_not_open` may be reported while
Core holds a sealed snapshot: the process whose begin opened the record does not
refresh after the other sealed it (`beginReplayed`, `upload.go:388`), and a
refresh that is itself interrupted falls back to the part's error. So
`TerminalIsCoreTerminal` is checked, and proved, with one process only.

*Index and run.* A resume of an index build that already knows its publication
and then fails writes nothing to stdout (`index.go:391`, `index.go:1099`), where
`docs/baseline_compatible_index.md:71` promises exactly one JSON value. A resume
without `--wait` records a conflict for a build that goes on, once Core requires
another identity (`index.go:416`). A resume of a run fails before its record is
looked at when Core came to require another identity. A resume of a run that had
ended overwrites the mark of its end with a conflict.

*Sync.* A configuration file torn by a crash in `os.WriteFile` makes later
commands skip the repository in silence. A failed initial sync blocks `review`
until the saved task is two hours old (`sync.go:2953`). After `finalizeRepoSync`
zeroed the saved feedback fields, `runSyncCommand` reads them to tell new
feedback from old (`sync.go:476`).

*Reports and gate.* Collapsed near-duplicates are not cached, so they are new in
the next sync and count toward `--fail-on-feedback`; the cache is saved before
the report is written, so that a failed write loses the items of that report;
concurrent syncs may show an item twice; a failing `ListFeedback` skips a
document in silence. The gate reads one page of a hundred events of the whole
group; two equal polls with an event end its wait, so that an event scored later
is missed; an event of a run less than 30 seconds older than this one can block
it; without `--fail-on-feedback` an unavailable gate passes.

*Snapshots and scans.* The delimiter before the last chunk, the one after it and
the summary come on top of the budget (`snapshot.go:311-334`), and a budget
counts as used up when it would hold a chunk's header and 20 bytes at most.
Files cut off by the budget appear in no count; a file whose later chunks did
not fit counts as included and not truncated, one whose first chunk did not fit
as empty or unreadable. Markdown headings without a body vanish in the semantic
and h2 profiles, and semantic-context drops what a code file has before its
first symbol beyond 24 lines. A scan of allowed size may be refused for its
number of parts.

*Tracked files.* `add` stores the hash of a file whose document it could not
create, so that sync passes it over until it changes (`add.go:68-76`). A file that
is edited between its hash and its text is stored with the older hash, and passed
over once the edit is undone. What the server was given once it need not have
now: when the answer to a submission is lost the row keeps the older hash, and a
file that is put back to it is passed over, while the document keeps the newer
text. `SkippedFilesAreGiven` says none of this away: it is about hashes that were
sent when they were stored, and about what was given at some time. Sync stores
the hash after a failed or late task (`sync.go:794-836`), and `sync --fetch-only`
that of a document it did not process. `pull` is announced as fetching "without
uploading new changes" (`push_pull.go:18`), but uploads tracked files as `sync`
does: their pass asks for the flag `--fetch-only` (`sync.go:716-775`), which `pull`
does not set. A document created whose processing fails is
forgotten. Adding a file again clears its link, because `COALESCE` gets an empty
string and not NULL (`store.go:115`); sync's own upsert clears the repository
root and signature of a row in the same way. A stale row brings back what `rm`
removed. `reconcile` links a file to another file's document of the same title.

*Managed Core.* In two cases `core status` advises a restart after every restart,
which `RestartHeals` names. An extra assignment overrides a setting of the config:
also that of a switch which is off (`core.go:1028`, `core.go:1150-1152`), and that
of a value the config leaves to its default; one of authentication makes `core
doctor` report a mismatch instead. And the reranker's model is not found: `core up`
warns and does not pass the path (`core.go:1135-1143`), while status goes on
comparing it (`core.go:1049-1054`). An assignment of an empty text (`--env NAME=`)
overrides a setting in the same way, and is left out of the model. Settings that
were unset, the port and the mode of authentication are not compared by status. `core
config set` may lose a concurrent change; a renamed container leaves the old one
on the port. A login that fails on stale capabilities fails until they expire.

## Fairness

Only what the code and its clocks justify. A running process takes its next step
(weak fairness of `Proceed`). A deadline (`--timeout`, the lock's) passes (weak
fairness). `upload_live` also assumes that Core works on its continuation and
that a user keeps running the command, not always with the wrong `--resume`
(strong fairness of `Rerun`). `sync_single` assumes that a command goes on, that
the API works on its tasks, that saved tasks age, and that the user comes back to
the review whenever no command runs (strong fairness of `Begin`): nothing else
in the program would ever submit again. No fairness is assumed of faults,
crashes, administrators or strays, and none at all in the other modules.

## Proofs

Checked by TLAPS for any number of processes and any value of the bounds, from
the modules' named assumptions (the bounds are naturals, retries try at least
once).

* `BaselineUploadProofs`: `IInv` is inductive. It says of every place where a
  fact about Core is kept (the record, each copy, each request under way, each
  response not yet read) that it was true when it was taken, and that it still
  is, because Core only grows: parts are only added, a sealed record stays
  sealed. The properties and the refinement follow from it. `TerminalIsTrue` is
  about one process, for any number of parts, attempts and faults: `AloneFits`
  adds that once a commit was sent every part is in and the process is past its
  parts, so that it never meets a record that it has itself sealed and takes for
  closed, and that an answer which says that it is over is Core's state.
* `InstallSecretProofs`: only one process is ever between the exclusive create
  and its write, and a process reads only a full file; so all secrets agree and
  none is replaced.
* `RepositoryBindingsProofs`: until a lock grows stale, the process inside is
  the one whose lock stands, so what it loaded still holds when it saves. The
  parts of the invariant that do not rest on the lock (bindings are backed, keep
  their path and registration) hold after that as well. The second part of the
  module is about the planners beside those commands. A planner takes no lock,
  and its copy of the bindings may be older than any number of commands; but a
  binding is never withdrawn, and its path and registration never change
  (`IdentityKept`), so whatever was in the copy still has a binding that is
  backed (`Held`). `PlanInv` carries that from the copy to the roles resolved
  from it and to the plan, and with it the clone that was inspected, unless it
  was marked as replaced. The planners write nothing that the commands read, so
  these keep their invariant beside any number of them (`PlannersAreHarmless`).
* `SyncPendingProofs`: what a copy of the configuration says (everything up to
  its last synced commit is covered, its task is the API's and ends at its
  commit) is a fact about the API's tasks, which are only added and only go
  forward. So it stays true however old the copy is, and a process that counts
  a commit as synced does it on such a fact. `IInv` adds to it where in its work
  a process may rely on which fact. The second part is about one command at a
  time, since with two of them an old copy brings an old task back. `Alone` says
  that the file is honest about every saved task that can still be waited for
  (`Honest`: it names the task, or no later diff repeats its commits), through
  every crash, lost answer, time-out and torn write; it is what
  `NoWorkIsDoubled` and, without a watch, `SyncAdvances` rest on. A watch sets
  the last synced commit and leaves an older saved task in place, so the second
  one is false with it.
* `BaselineIndexProofs`, and the first part of `BaselineOperationsProofs`, which is
  about the run: processes save their own copies of
  the resume record over each other's, without a lock, so nothing is true of the
  record that is not true of every copy. `IInv` says of each copy, result and
  status that it says only what Core has said (`StateFits`, `ResultFits`,
  `FailureFits`, `PlaceFits`); `Later` says that no step takes that back, since an
  ended job stays as it is and every process derives the same key. With it come
  one job, true ends, no lost job and no false conflict. In `BaselineRun` a save
  may fail after it replaced the file, and Core's refusal of a stale publication
  is the excuse of the conflict it causes; there a step that turns a resume away
  is shown to be Core's refusal, which it never gives for a run that it has.
* `BaselineOperationsProofs`, its second part: the properties as `operations`
  checks them, of both operations under one name each. `MCBaselineOperations`
  instantiates the proofs about the index instead of the plain module, so that
  its theorems are there to be cited: a behaviour is one of the one operation or
  of the other from beginning to end, and `Fits` is the invariant of the one that
  it is about.
* `WorkstationProofs`: the properties of `workstation`. `SideInv` is `FilesInv`
  or `CoreInv`, whichever the behaviour is about; both are stated beside the
  properties of their component. The commands on tracked files replace rows by
  what they knew, so `FilesInv` says of every copy of a row in a command's
  memory what the property says of the row: `TextFits`, that the document of the
  copy was at some time given the text of its hash, if the hash was sent when
  stored; `RowFits`, that the copy names the row's document, or its item is to
  blame; `AloneFits`, that a reconcile nobody disturbed knows every row and
  document. `Kept` lets a document be in the hands of a command between its
  creation and the write of its row, and `Bound` does it for a repository, whose
  document is named by its configuration as well. `CoreInv` says how far an
  undisturbed `core up` has come at each of its steps (`UpFits`: the container
  is the one made of the saved config, with or without the reranker's model,
  then the profile names its port), that a port answers for one container at
  most, that what a process was told by a server still holds when it is stored
  unless a `core up` overtook it (`ToldFits`), and `CacheAgrees` itself.

* `SelectionsProofs`: four of the five properties of `selections`, and a part of
  the fifth. A step is one
  stage's, and the others' variables stay; so each stage keeps an invariant of
  its own, stated at the end of its module and checked with its property.
  `ScanInv` is about the packing. The parts have the items and the bytes they say
  they have (`Exact`); the sums over them are those of the records packed so far
  (`Adds`), which is why the report's own check cannot fail; and `Ahead`: however
  the records are cut into k - 1 parts within the limits, those end before part k
  begins. A greedy cut stays ahead of every other, so no cut into fewer parts
  covers the records. A step keeps `Ahead` because a part is begun only when the
  record no longer fits the last one: another cut that got as far would have the
  whole last part and the record in one part.
  `ReportInv` says of what a process has seen and listed, as of the cache, that
  it was told, should have been, or is in the report the process is about to
  write. `GateInv` says that the verdict is that of the page in memory, and how
  far a stamp may lie behind. `SnapshotInv` says that the loop never takes more to
  be left of the budget than is, and stops only when next to nothing is
  (`BudgetFits`), and what the statistics have
  counted at each step. `DefaultCutsTile` is about `chunkTextDefault`, the last
  resort of every profile: the pieces so far are in their places (`CutSoFar`), so
  a file without symbols or sections loses no line, repeats none, and is cut into
  pieces that are neither empty nor too long. The proof asked for an assumption
  that was missing: with a rule of no `MinLines` the first piece could be empty.
  No rule is like that (`chunkRuleForFile`), and `RuleAssumption` says so now.
  Sums and the collapsing of duplicates are recursive functions over data. The
  library's induction rules take an operator and cannot be used, so the module
  proves its own for sets: a nonempty set of numbers has a least member, from the
  well-foundedness of strict inclusion on finite sets (`LeastNumber`); a set with
  0 and the successors of its members has every number up to a bound
  (`Induction`); and a recursive function over 0..N exists (`Iteration`). The
  induction hypothesis is always such a set of numbers.

Each of these modules also proves type correctness. Assumed are the modules'
named assumptions only, which TLC evaluates in every run: that bounds are
naturals and retries try at least once, and that sets of constants that must not
meet (files and repositories, ports and the name of the hosted API) do not.

Left to TLC: liveness (`WaitingEnds`, `InvocationsEnd`, `EventuallyUploaded`,
`EventuallySynced`), because it needs fairness and enabledness; and, of the
safety properties, `NoLineIsLost` for files that do have symbols or sections.
What those chunkers make of a file is composed of the library's folds, filters
and sorts of sequences, which take operators and whose meaning for every input
is an induction over sequences in each of some twenty definitions; it is checked
on all small files of every kind instead.

## Not modelled

Saves that fail in `upload.go` and `index.go` (a full disk), refused credentials
in the upload, explicit snapshots and `--reanalyze-existing`, several
repositories in one sync, the history limit of a first diff, a working copy whose
scan changed between two invocations: they leave the order of steps as it is. The
read-only commands (`status`, `list`, `inspect`, `discover`, `doctor` apart from
its comparison of settings) change nothing. The reading of Git objects, ignore
rules, the ranking of paths, the signal-stress profile, telemetry, wording and
the offline demonstration are I/O, string matching or presentation. The HTTP
client's outcomes are inputs of its callers. Docker's image handling and the
Python overlay run outside the program. Properties that the models leave to one
side are named with the hazards in `PROJECT.json`.
