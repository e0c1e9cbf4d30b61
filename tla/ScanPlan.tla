-------------------------------- MODULE ScanPlan --------------------------------
(***************************************************************************)
(* `baseline plan create` (plan.go) beside the commands that register and  *)
(* bind working copies: a planner copies the bindings without their lock,  *)
(* inspects one working copy after the other and asks Core about its       *)
(* registration, resolves the commits, and writes one protected file.      *)
(***************************************************************************)
EXTENDS RepositoryBindings, Sequences

CONSTANTS
  Planners,    \* concurrent `plan create` commands, one invocation each
  NoSource     \* a registration without a source document has this one

ASSUME SourceAssumption == NoSource \in Sources
VARIABLES
  planner,   \* planner[p]: the memory of planner p
  output,    \* the output file: NoPlan, or a plan
  moved      \* history: moved[p], the paths whose clone was replaced since p began

planning == <<planner, output, moved>>
allVars == <<vars, planner, output, moved>>
unbound == <<disk, core, clone, draws, pc, arg, found, expired, result>>

\* A resolved repository of a plan, the clone that its commits were taken from,
\* and whether the working copy had been replaced while the plan was made.
Role ==
  [path : Paths, id : Nat, uid : Nat, source : Sources, clone : Nat, commits : Nat,
   moved : BOOLEAN]
Unresolved == [path |-> "unresolved"]

\* A plan: its changed repository and its sibling.
NoPlan == <<>>

PlannerPC == {"start", "inspect", "ask", "commits", "lstat", "install", "done"}

\* What a planner remembers.
Memory ==
  [pc : PlannerPC, paths : {<<>>} \cup (Paths \X Paths), overwrite : BOOLEAN,
   copy : SUBSET Binding, roles : Seq(Role), now : Role \cup {Unresolved}]

\* paths: what the roles are asked for; copy: the bindings as they were read;
\* roles: the repositories resolved so far; now: the one that is asked about.
Begun(paths, overwrite) ==
  [pc |-> "inspect", paths |-> paths, overwrite |-> overwrite, copy |-> bindings,
   roles |-> <<>>, now |-> Unresolved]
NotBegun ==
  [pc |-> "start", paths |-> <<>>, overwrite |-> FALSE, copy |-> {},
   roles |-> <<>>, now |-> Unresolved]

Becomes(p, memory) ==
  /\ planner' = [planner EXCEPT ![p] = memory]
  /\ moved' = [moved EXCEPT ![p] = IF memory.pc = "done" THEN {} ELSE @]
At(p, place) == planner[p].pc = place

\* Success, or a refusal; refusals differ in nothing but their reason.
PlanEnds(p) == Becomes(p, [NotBegun EXCEPT !.pc = "done"])

\* A refusal that Git, Core or the file system causes, one of the faults.
Trips(p) == faults < MaxFaults /\ faults' = faults + 1 /\ PlanEnds(p)

-----------------------------------------------------------------------------
(* A planner.                                                              *)

\* Bindings are never removed and each file is read whole.
PlanStart(p) ==
  /\ At(p, "start")
  /\ \E paths \in Paths \X Paths, overwrite \in BOOLEAN :
       Becomes(p, Begun(paths, overwrite))
  /\ UNCHANGED <<vars, output>>

\* Mutant of SameClone: the Git directory is not compared.
AnyClone(b, path) == TRUE

\* The sanity hash of a binding is that of the Git directory at its path.
SameClone(b, path) == b.clone = clone[path]

\* The bindings of a path, as they were read.
Candidates(p, path) == {b \in planner[p].copy : b.path = path}

\* The next working copy is inspected and its binding looked up: without one,
\* with two, or with one that was made for another clone there is no plan.
PlanInspect(p) ==
  LET path == planner[p].paths[Len(planner[p].roles) + 1]
      candidates == Candidates(p, path)
  IN
  /\ At(p, "inspect")
  /\ \/ Cardinality(candidates) # 1 /\ PlanEnds(p)
     \/ \E b \in candidates :
          /\ candidates = {b}
          /\ IF SameClone(b, path)
             THEN Becomes(p, [planner[p] EXCEPT !.pc = "ask",
                    !.now = [path |-> path, id |-> b.id, uid |-> b.uid,
                             source |-> b.source, clone |-> b.clone,
                             commits |-> 0, moved |-> FALSE]])
             ELSE PlanEnds(p)
  /\ UNCHANGED <<vars, output>>

\* Two roles need two paths and two registrations.
Distinct(p) ==
  \A i \in DOMAIN planner[p].roles :
    /\ planner[p].roles[i].path # planner[p].now.path
    /\ planner[p].roles[i].uid # planner[p].now.uid

\* What Core says of the registration: it must be active, with the UID and the
\* source document of the binding; and the changed repository must have one.
Approved(p) ==
  LET now == planner[p].now IN
  /\ now.uid \notin disabled
  /\ [uid |-> now.uid, source |-> now.source] \in registered
  /\ planner[p].roles = <<>> => now.source # NoSource
  /\ Distinct(p)

PlanAsk(p) ==
  LET roles == Append(planner[p].roles, planner[p].now) IN
  /\ At(p, "ask")
  /\ \/ ~Approved(p) /\ PlanEnds(p) /\ UNCHANGED faults
     \/ /\ Approved(p) /\ UNCHANGED faults
        /\ Becomes(p, [planner[p] EXCEPT !.roles = roles, !.now = Unresolved,
             !.pc = IF Len(roles) < Len(planner[p].paths) THEN "inspect" ELSE "commits",
             !.copy = IF Len(roles) < Len(planner[p].paths) THEN @ ELSE {}])
     \/ Trips(p)
  /\ UNCHANGED <<unbound, runs, crashes, ages, reclones, output>>

\* Base and head of the changed repository, then the head of the sibling, from
\* the working copies as they are now.
PlanCommits(p) ==
  LET open == {i \in DOMAIN planner[p].roles : planner[p].roles[i].commits = 0}
      next == CHOOSE i \in open : \A j \in open : i <= j
      path == planner[p].roles[next].path
  IN
  /\ At(p, "commits")
  /\ \/ Becomes(p, [planner[p] EXCEPT
            !.roles[next] = [@ EXCEPT !.commits = clone[path] + 1,
                                      !.moved = path \in moved[p]],
            !.pc = IF open = {next} THEN "lstat" ELSE "commits"])
        /\ UNCHANGED faults
     \/ Trips(p)
  /\ UNCHANGED <<unbound, runs, crashes, ages, reclones, output>>

\* writeProtectedPlan looks at the output path and writes a temporary file.
PlanLstat(p) ==
  /\ At(p, "lstat")
  /\ \/ /\ output # NoPlan /\ ~planner[p].overwrite /\ UNCHANGED faults
        /\ PlanEnds(p)
     \/ /\ output = NoPlan \/ planner[p].overwrite
        /\ Becomes(p, [planner[p] EXCEPT !.pc = "install"]) /\ UNCHANGED faults
     \/ Trips(p)
  /\ UNCHANGED <<unbound, runs, crashes, ages, reclones, output>>

\* Mutant of MayInstall: rename in place of link.
AlwaysInstalls(p) == TRUE

\* Without --overwrite the file is linked, which fails when there is one by now.
MayInstall(p) == planner[p].overwrite \/ output = NoPlan

PlanInstall(p) ==
  /\ At(p, "install")
  /\ \/ /\ MayInstall(p)
        /\ output' = planner[p].roles
        /\ \/ PlanEnds(p) /\ UNCHANGED faults
           \/ Trips(p)
     \/ /\ ~MayInstall(p)
        /\ PlanEnds(p)
        /\ UNCHANGED <<output, faults>>
  /\ UNCHANGED <<unbound, runs, crashes, ages, reclones>>

\* A planner that dies leaves the output as it is.
PlanCrash(p) ==
  /\ planner[p].pc \notin {"start", "done"}
  /\ Trips(p)
  /\ UNCHANGED <<unbound, runs, crashes, ages, reclones, output>>

-----------------------------------------------------------------------------

PlanInit ==
  /\ Init
  /\ planner = [p \in Planners |-> NotBegun]
  /\ output = NoPlan
  /\ moved = [p \in Planners |-> {}]

\* The commands on the bindings, which know nothing of the planners.
BindingStep ==
  /\ \/ \E p \in Processes : Started(p) \/ Proceed(p) \/ DeadlinePasses(p) \/ Trouble(p)
     \/ LockAges
     \/ \E r \in registered : SetState(r)
  /\ UNCHANGED planning

Replace(path) ==
  /\ Reclone(path)
  /\ moved' = [p \in Planners |->
       IF At(p, "start") \/ At(p, "done") THEN moved[p] ELSE moved[p] \cup {path}]
  /\ UNCHANGED <<planner, output>>

PlanStep(p) ==
  \/ PlanStart(p) \/ PlanInspect(p) \/ PlanAsk(p) \/ PlanCommits(p)
  \/ PlanLstat(p) \/ PlanInstall(p) \/ PlanCrash(p)

PlanNext ==
  \/ BindingStep
  \/ \E path \in Paths : Replace(path)
  \/ \E p \in Planners : PlanStep(p)

PlanSpec == PlanInit /\ [][PlanNext]_allVars

-----------------------------------------------------------------------------
(* Properties.                                                             *)

PlanTypeOK ==
  /\ planner \in [Planners -> Memory]
  /\ output \in Seq(Role)
  /\ moved \in [Planners -> SUBSET Paths]

\* Every repository of the plan in the output file is bound at its path to the
\* registration that the plan names, and Core has that registration with the
\* plan's source document, although the bindings were read without their lock
\* and commands rebind working copies all the time. The two are two
\* repositories, and the changed one has a source document.
PlanIsBacked ==
  output # NoPlan =>
    /\ \A i \in 1..2 :
         /\ \E b \in bindings :
              <<b.id, b.path, b.uid, b.source>>
                = <<output[i].id, output[i].path, output[i].uid, output[i].source>>
         /\ [uid |-> output[i].uid, source |-> output[i].source] \in registered
    /\ output[1].path # output[2].path /\ output[1].uid # output[2].uid
    /\ output[1].source # NoSource

\* The plan takes its commits from the clone that its registration was bound
\* with; only a clone that is replaced while the plan is being made gets past
\* the sanity hash.
CommitsAreBound ==
  \A i \in DOMAIN output : ~output[i].moved => output[i].commits = output[i].clone + 1

\* A plan is only ever replaced by a planner that was told to overwrite it,
\* also when two of them saw that there was none.
NoPlanReplaced ==
  [][output # NoPlan /\ output' # output =>
       \E p \in Planners : planner[p].overwrite /\ planner'[p] # planner[p]]_allVars
-----------------------------------------------------------------------------
(* The inductive invariant.                                                *)

\* A binding on disk has what was read of it: only its clone is replaced.
Held(x) ==
  \E b \in bindings : <<b.id, b.path, b.uid, b.source>> = <<x.id, x.path, x.uid, x.source>>

\* The repositories of a plan that p is making, or has written, are approved:
\* Core has them, and they are two.
Approval(roles) ==
  /\ \A i \in DOMAIN roles : Held(roles[i])
  /\ \A i, j \in DOMAIN roles : i # j =>
       roles[i].path # roles[j].path /\ roles[i].uid # roles[j].uid
  /\ roles # <<>> => roles[1].source # NoSource

\* A role without commits: its clone is still the one inspected, unless p would
\* notice that it was moved. One with commits has them from that clone.
Open(p, role) ==
  role.commits = 0 /\ (role.path \notin moved[p] => clone[role.path] = role.clone)
Fixed(role) ==
  role.commits # 0 /\ (~role.moved => role.commits = role.clone + 1)

PlannerInv(p) ==
  LET m == planner[p] IN
  /\ \A c \in m.copy : Held(c)
  /\ Approval(m.roles)
  /\ m.pc \in {"start", "done"} => m.roles = <<>>
  /\ m.pc \in {"inspect", "ask"} =>
       /\ m.paths # <<>> /\ Len(m.roles) < 2
       /\ \A i \in DOMAIN m.roles : Open(p, m.roles[i])
  /\ m.pc = "ask" => m.now \in Role /\ Held(m.now) /\ Open(p, m.now)
  /\ m.pc \in {"commits", "lstat", "install"} => Len(m.roles) = 2
  /\ m.pc = "commits" =>
       /\ \A i \in DOMAIN m.roles : Open(p, m.roles[i]) \/ Fixed(m.roles[i])
       /\ \E i \in DOMAIN m.roles : m.roles[i].commits = 0
  /\ m.pc \in {"lstat", "install"} => \A i \in DOMAIN m.roles : Fixed(m.roles[i])

PlanInv ==
  /\ \A p \in Planners : PlannerInv(p)
  /\ output # NoPlan => Len(output) = 2 /\ Approval(output)
  /\ \A i \in DOMAIN output : Fixed(output[i])
=============================================================================
