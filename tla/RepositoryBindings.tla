-------------------------- MODULE RepositoryBindings --------------------------
(***************************************************************************)
(* The local repository bindings of one group (repository.go,              *)
(* repository_state.go): `register` and `bind` run concurrently, hold a    *)
(* directory as their lock, talk to Core while they hold it, and replace   *)
(* one binding file atomically.                                            *)
(*                                                                         *)
(* Core names a registration by the descriptor, hence by the random UID in *)
(* it: UIDs stand for registration identities as well.                     *)
(***************************************************************************)
EXTENDS Naturals, FiniteSets

CONSTANTS
  Processes,     \* concurrent commands
  Paths,         \* canonical paths of working copies
  Sources,       \* source documents (or their absence)
  MaxRuns,       \* bound: invocations of each process
  MaxFaults,     \* bound: lost requests and failed writes
  MaxCrashes,    \* bound: process deaths
  MaxAges,       \* bound: abandoned locks that grow older than 10 minutes
  MaxReclones    \* bound: replacements of a working copy at its path

ASSUME LockAssumption == Processes \cap {"free", "abandoned", "stale"} = {}
ASSUME BoundsAssumption ==
  MaxRuns \in Nat /\ MaxFaults \in Nat /\ MaxCrashes \in Nat
  /\ MaxAges \in Nat /\ MaxReclones \in Nat

VARIABLES
  lock,         \* .bindings.lock: "free", or the process that made it; once
                \* that one is dead, "abandoned" and later "stale"
  bindings,     \* the binding files
  registered,   \* Core: the registrations
  disabled,     \* Core: the UIDs whose registration is disabled
  clone,        \* clone[path]: the Git directory now at the path
  uids, ids,    \* UIDs and binding identities drawn so far: no two are equal
  pc,           \* pc[p]: where p is
  arg,          \* arg[p]: what p works on
  found,        \* found[p]: the identity of the binding p found, 0 for none
  expired,      \* expired[p]: p has waited for the lock for 30 seconds
  result,       \* result[p]: how p's last invocation ended, or will end
  runs, faults, crashes, ages, reclones   \* counters for the bounds

disk == <<lock, bindings>>
core == <<registered, disabled>>
draws == <<uids, ids>>
counters == <<runs, faults, crashes, ages, reclones>>
vars == <<lock, bindings, registered, disabled, clone, uids, ids, pc, arg,
          found, expired, result, runs, faults, crashes, ages, reclones>>

Registration == [uid : Nat, source : Sources]
Binding == [id : Nat, path : Paths, uid : Nat, source : Sources, clone : Nat]
Argument == [op : {"register", "bind"}, path : Paths, uid : Nat,
             source : Sources, clone : Nat]
NoArgument == [op |-> "none"]

Waiting == {"mkdir", "lstat", "remove"}
Inside == {"load", "post", "save", "unlock"}
PC == {"idle"} \cup Waiting \cup Inside

Refusals == {"duplicate_local_binding", "source_document_conflict",
             "path_already_bound", "invalid_registration_response",
             "unsafe_binding_lock", "binding_lock_timeout",
             "repository_not_active_or_local", "request_failed",
             "binding_write_failed"}
Results == {"none", "ok"} \cup Refusals

-----------------------------------------------------------------------------
(* Starting.                                                               *)

Goto(p, place) == pc' = [pc EXCEPT ![p] = place]
Ends(p, verdict) == result' = [result EXCEPT ![p] = verdict]

\* What a process knew is gone when it ends.
Leave(p) ==
  /\ Goto(p, "idle")
  /\ arg' = [arg EXCEPT ![p] = NoArgument]
  /\ found' = [found EXCEPT ![p] = 0]
  /\ expired' = [expired EXCEPT ![p] = FALSE]

Begin(p) ==
  /\ pc[p] = "idle"
  /\ runs[p] < MaxRuns
  /\ runs' = [runs EXCEPT ![p] = @ + 1]

\* The working copy is inspected before the lock is taken.
StartRegister(p, path, source) ==
  /\ Begin(p)
  /\ arg' = [arg EXCEPT ![p] =
       [op |-> "register", path |-> path, uid |-> 0, source |-> source,
        clone |-> clone[path]]]
  /\ Ends(p, "none")
  /\ Goto(p, "mkdir")
  /\ UNCHANGED <<disk, core, clone, draws, found, expired,
                 faults, crashes, ages, reclones>>

\* So is the registration a binding is asked for.
StartBind(p, path, r) ==
  /\ Begin(p)
  /\ \/ /\ r.uid \in disabled
        /\ Ends(p, "repository_not_active_or_local")
        /\ UNCHANGED <<pc, arg>>
     \/ /\ r.uid \notin disabled
        /\ arg' = [arg EXCEPT ![p] =
             [op |-> "bind", path |-> path, uid |-> r.uid, source |-> r.source,
              clone |-> clone[path]]]
        /\ Ends(p, "none") /\ Goto(p, "mkdir")
  /\ UNCHANGED <<disk, core, clone, draws, found, expired,
                 faults, crashes, ages, reclones>>

-----------------------------------------------------------------------------
(* The lock (withLock).                                                    *)

\* Mutant of MayEnter: MkdirAll in place of Mkdir succeeds on a directory
\* that exists.
AlwaysMayEnter == TRUE

\* Mkdir succeeds for one process only, which needs its deadline no more.
MayEnter == lock = "free"

TryLock(p) ==
  /\ pc[p] = "mkdir"
  /\ \/ /\ MayEnter
        /\ lock' = p /\ Goto(p, "load")
        /\ expired' = [expired EXCEPT ![p] = FALSE]
     \/ /\ ~MayEnter
        /\ UNCHANGED <<lock, expired>> /\ Goto(p, "lstat")
  /\ UNCHANGED <<bindings, core, clone, draws, arg, found, result, counters>>

\* Mutant of Wait: no deadline.
WaitForever(p) == Goto(p, "mkdir") /\ UNCHANGED <<arg, found, expired, result>>

\* Sleep and try again, until the deadline.
Wait(p) ==
  \/ ~expired[p] /\ Goto(p, "mkdir") /\ UNCHANGED <<arg, found, expired, result>>
  \/ expired[p] /\ Leave(p) /\ Ends(p, "binding_lock_timeout")

\* Lstat looks at whatever is there now, which need not be what Mkdir met.
Inspect(p) ==
  /\ pc[p] = "lstat"
  /\ \/ /\ lock = "free"
        /\ Leave(p) /\ Ends(p, "unsafe_binding_lock")
     \/ /\ lock = "stale"
        /\ Goto(p, "remove") /\ UNCHANGED <<arg, found, expired, result>>
     \/ /\ lock \notin {"free", "stale"}
        /\ Wait(p)
  /\ UNCHANGED <<disk, core, clone, draws, counters>>

\* Remove takes away whatever is there now, which need not be what Lstat met.
Break(p) ==
  /\ pc[p] = "remove"
  /\ \/ /\ lock # "free"
        /\ Goto(p, "mkdir") /\ UNCHANGED <<arg, found, expired, result>>
     \/ /\ lock = "free"
        /\ Wait(p)
  /\ lock' = "free"
  /\ UNCHANGED <<bindings, core, clone, draws, counters>>

DeadlinePasses(p) ==
  /\ pc[p] \in Waiting /\ ~expired[p]
  /\ expired' = [expired EXCEPT ![p] = TRUE]
  /\ UNCHANGED <<disk, core, clone, draws, pc, arg, found, result, counters>>

\* The deferred Remove of the lock directory, whoever made it.
Unlock(p) ==
  /\ pc[p] = "unlock"
  /\ lock' = "free"
  /\ Leave(p)
  /\ UNCHANGED <<bindings, core, clone, draws, result, counters>>

-----------------------------------------------------------------------------
(* The operation under the lock.                                           *)

BindingsAt(path) == {b \in bindings : b.path = path}

\* Mutant of Reuse: the UID of the binding is not taken over.
ForgetsUID(p, b) ==
  /\ found' = [found EXCEPT ![p] = b.id]
  /\ UNCHANGED arg

\* register keeps the UID of the binding it finds.
Reuse(p, b) ==
  /\ found' = [found EXCEPT ![p] = b.id]
  /\ arg' = [arg EXCEPT ![p].uid = b.uid]

\* Mutant of SameSource: another source document is taken without a word.
AnySource(p, b) == TRUE

\* register may not change the source document of a binding.
SameSource(p, b) == b.source = arg[p].source

LoadToRegister(p) ==
  LET here == BindingsAt(arg[p].path) IN
  /\ pc[p] = "load" /\ arg[p].op = "register"
  /\ \/ /\ Cardinality(here) > 1
        /\ Ends(p, "duplicate_local_binding") /\ Goto(p, "unlock")
        /\ UNCHANGED <<arg, found, uids>>
     \/ \E b \in here :
          /\ here = {b} /\ ~SameSource(p, b)
          /\ Ends(p, "source_document_conflict") /\ Goto(p, "unlock")
          /\ UNCHANGED <<arg, found, uids>>
     \/ \E b \in here :
          /\ here = {b} /\ SameSource(p, b)
          /\ Reuse(p, b) /\ Goto(p, "post")
          /\ UNCHANGED <<result, uids>>
     \/ /\ here = {}
        /\ uids' = uids + 1
        /\ arg' = [arg EXCEPT ![p].uid = uids + 1]
        /\ Goto(p, "post")
        /\ UNCHANGED <<result, found>>
  /\ UNCHANGED <<disk, core, clone, ids, expired, counters>>

\* Mutant of SameRegistration: the path may be bound to another one.
AnyRegistration(p, b) == TRUE

\* bind accepts only a binding of the same registration at the path.
SameRegistration(p, b) == b.uid = arg[p].uid

LoadToBind(p) ==
  LET here == BindingsAt(arg[p].path) IN
  /\ pc[p] = "load" /\ arg[p].op = "bind"
  /\ \/ /\ \E b \in here : ~SameRegistration(p, b)
        /\ Ends(p, "path_already_bound") /\ Goto(p, "unlock")
        /\ UNCHANGED found
     \/ \E b \in here :
          /\ \A c \in here : SameRegistration(p, c)
          /\ found' = [found EXCEPT ![p] = b.id]
          /\ Goto(p, "save") /\ UNCHANGED result
     \/ /\ here = {}
        /\ Goto(p, "save") /\ UNCHANGED <<result, found>>
  /\ UNCHANGED <<disk, core, clone, draws, arg, expired, counters>>

\* Core registers a descriptor once and answers a repetition alike.
CoreRegisters(p) ==
  registered' =
    IF \E r \in registered : r.uid = arg[p].uid THEN registered
    ELSE registered \cup {[uid |-> arg[p].uid, source |-> arg[p].source]}

\* Mutant of PostAnswered: the answer's state is not looked at, and the
\* request is not sent.
NotPosted(p) == Goto(p, "save") /\ UNCHANGED <<registered, result>>

\* A registration that is not active is refused.
PostAnswered(p) ==
  /\ CoreRegisters(p)
  /\ \/ arg[p].uid \in disabled
        /\ Ends(p, "invalid_registration_response") /\ Goto(p, "unlock")
     \/ arg[p].uid \notin disabled
        /\ Goto(p, "save") /\ UNCHANGED result

Post(p) ==
  /\ pc[p] = "post"
  /\ PostAnswered(p)
  /\ UNCHANGED <<disk, disabled, clone, draws, arg, found, expired, counters>>

\* The request or its response is lost: there is one attempt only.
PostLost(p) ==
  /\ pc[p] = "post" /\ faults < MaxFaults
  /\ faults' = faults + 1
  /\ CoreRegisters(p) \/ UNCHANGED registered
  /\ Ends(p, "request_failed") /\ Goto(p, "unlock")
  /\ UNCHANGED <<disk, disabled, clone, draws, arg, found, expired,
                 runs, crashes, ages, reclones>>

\* The file of the binding found is replaced; otherwise there is a new one.
Saved(p) ==
  LET id == IF found[p] = 0 THEN ids + 1 ELSE found[p] IN
  {b \in bindings : b.id # id} \cup
    {[id |-> id, path |-> arg[p].path, uid |-> arg[p].uid,
      source |-> arg[p].source, clone |-> arg[p].clone]}

DrawID(p) == ids' = IF found[p] = 0 THEN ids + 1 ELSE ids

Save(p) ==
  /\ pc[p] = "save"
  /\ DrawID(p)
  /\ bindings' = Saved(p)
  /\ Ends(p, "ok") /\ Goto(p, "unlock")
  /\ UNCHANGED <<lock, core, clone, uids, arg, found, expired, counters>>

\* A write fails before the file is replaced, or the directory's sync after.
SaveFails(p) ==
  /\ pc[p] = "save" /\ faults < MaxFaults
  /\ faults' = faults + 1
  /\ DrawID(p)
  /\ bindings' = Saved(p) \/ UNCHANGED bindings
  /\ Ends(p, "binding_write_failed") /\ Goto(p, "unlock")
  /\ UNCHANGED <<lock, core, clone, uids, arg, found, expired,
                 runs, crashes, ages, reclones>>

-----------------------------------------------------------------------------
(* The rest of the world.                                                  *)

\* Nobody removes the lock of a process that died.
Crash(p) ==
  /\ pc[p] # "idle" /\ crashes < MaxCrashes
  /\ crashes' = crashes + 1
  /\ lock' = IF lock = p THEN "abandoned" ELSE lock
  /\ Leave(p) /\ Ends(p, "none")
  /\ UNCHANGED <<bindings, core, clone, draws, runs, faults, ages, reclones>>

\* Ten minutes pass. A live process never holds the lock that long: the one
\* request it sends times out after 30 seconds.
LockAges ==
  /\ lock = "abandoned" /\ ages < MaxAges
  /\ lock' = "stale"
  /\ ages' = ages + 1
  /\ UNCHANGED <<bindings, core, clone, draws, pc, arg, found, expired, result,
                 runs, faults, crashes, reclones>>

\* An administrator disables or reactivates a registration.
SetState(r) ==
  /\ \/ disabled' = disabled \cup {r.uid}
     \/ disabled' = disabled \ {r.uid}
  /\ UNCHANGED <<disk, registered, clone, draws, pc, arg, found, expired, result,
                 counters>>

\* Another clone is put at a path.
Reclone(path) ==
  /\ reclones < MaxReclones
  /\ reclones' = reclones + 1
  /\ clone' = [clone EXCEPT ![path] = reclones + 1]
  /\ UNCHANGED <<disk, core, draws, pc, arg, found, expired, result,
                 runs, faults, crashes, ages>>

-----------------------------------------------------------------------------

Init ==
  /\ lock = "free" /\ bindings = {}
  /\ registered = {} /\ disabled = {}
  /\ clone = [path \in Paths |-> 0]
  /\ uids = 0 /\ ids = 0
  /\ pc = [p \in Processes |-> "idle"]
  /\ arg = [p \in Processes |-> NoArgument]
  /\ found = [p \in Processes |-> 0]
  /\ expired = [p \in Processes |-> FALSE]
  /\ result = [p \in Processes |-> "none"]
  /\ runs = [p \in Processes |-> 0]
  /\ faults = 0 /\ crashes = 0 /\ ages = 0 /\ reclones = 0

\* The steps of a running process.
Proceed(p) ==
  \/ TryLock(p) \/ Inspect(p) \/ Break(p) \/ Unlock(p)
  \/ LoadToRegister(p) \/ LoadToBind(p) \/ Post(p) \/ Save(p)

Started(p) ==
  \/ \E path \in Paths, source \in Sources : StartRegister(p, path, source)
  \/ \E path \in Paths, r \in registered : StartBind(p, path, r)

Trouble(p) == PostLost(p) \/ SaveFails(p) \/ Crash(p)

Next ==
  \/ \E p \in Processes : Started(p) \/ Proceed(p) \/ DeadlinePasses(p) \/ Trouble(p)
  \/ LockAges
  \/ \E r \in registered : SetState(r)
  \/ \E path \in Paths : Reclone(path)

Spec == Init /\ [][Next]_vars

\* A running process goes on and time passes; nothing is promised of users,
\* administrators, faults and crashes.
FairSpec ==
  Spec /\ \A p \in Processes : WF_vars(Proceed(p)) /\ WF_vars(DeadlinePasses(p))

-----------------------------------------------------------------------------
(* Properties.                                                             *)

TypeOK ==
  /\ lock \in Processes \cup {"free", "abandoned", "stale"}
  /\ bindings \in SUBSET Binding
  /\ registered \in SUBSET Registration
  /\ disabled \in SUBSET Nat
  /\ clone \in [Paths -> Nat]
  /\ uids \in Nat /\ ids \in Nat
  /\ pc \in [Processes -> PC]
  /\ arg \in [Processes -> Argument \cup {NoArgument}]
  /\ \A p \in Processes : arg[p] = NoArgument <=> pc[p] = "idle"
  /\ \A p \in Processes : pc[p] \in {"post", "save"} => arg[p].uid \in 1..uids
  /\ found \in [Processes -> Nat]
  /\ expired \in [Processes -> BOOLEAN]
  /\ result \in [Processes -> Results]
  /\ runs \in [Processes -> Nat]
  /\ faults \in Nat /\ crashes \in Nat /\ ages \in Nat /\ reclones \in Nat

\* As long as no lock has grown stale, one process at a time reads, registers
\* and saves, although anyone may remove the lock directory.
OneHolder ==
  ages = 0 =>
    \A p, q \in Processes : pc[p] \in Inside /\ pc[q] \in Inside => p = q

\* And then a path has at most one binding: a second one would make every
\* later register and every plan fail with duplicate_local_binding.
OneBindingPerPath ==
  ages = 0 => \A b, c \in bindings : b.path = c.path => b = c

\* A binding on disk names a registration that Core has, with its source
\* document: register saves only what Core accepted, bind what Core showed.
BindingsBacked ==
  \A b \in bindings : [uid |-> b.uid, source |-> b.source] \in registered

\* Concurrent commands leave no registration at Core without a binding, or
\* without a command about to save one; only crashes, faults and broken locks
\* do (TestConcurrentRegistrationUsesOneUIDAndBinding counts the records).
NoOrphans ==
  ages = 0 /\ crashes = 0 /\ faults = 0 =>
    \A r \in registered :
      \/ \E b \in bindings : b.uid = r.uid
      \/ \E p \in Processes : pc[p] = "save" /\ arg[p].uid = r.uid

\* A binding never disappears and never changes its path, its registration or
\* its source document, whatever the lock does: only the clone is replaced.
IdentityKept ==
  [][\A b \in bindings : \E c \in bindings' :
       <<c.id, c.path, c.uid, c.source>> = <<b.id, b.path, b.uid, b.source>>]_vars

\* Every command ends, also when the lock was abandoned.
InvocationsEnd == \A p \in Processes : pc[p] # "idle" ~> pc[p] = "idle"

\* What the concurrency test asserts of two registrations: no error. The lock
\* is only ever a directory that one of the commands made.
LockIsNeverUnsafe == \A p \in Processes : result[p] # "unsafe_binding_lock"

\* What the same test asserts of the bindings, also after a stale lock.
NoDuplicateBinding == \A b, c \in bindings : b.path = c.path => b = c

-----------------------------------------------------------------------------
(* The inductive invariant.                                                *)

\* The lock belongs to the process inside until a stale one is broken.
LockInv ==
  ages = 0 =>
    /\ lock # "stale"
    /\ \A p \in Processes : pc[p] # "remove" /\ (pc[p] \in Inside <=> lock = p)

\* Identities are drawn once and name one record.
DrawInv ==
  /\ \A r \in registered : r.uid \in 1..uids
  /\ \A r, t \in registered : r.uid = t.uid => r = t
  /\ \A u \in disabled : \E r \in registered : r.uid = u
  /\ \A b \in bindings : b.id \in 1..ids
  /\ \A b, c \in bindings : b.id = c.id => b = c

\* A UID that a process drew is nobody else's until it is registered.
FreshInv ==
  \A p \in Processes : pc[p] = "post" /\ found[p] = 0 =>
    /\ \A r \in registered : r.uid # arg[p].uid
    /\ \A q \in Processes :
         pc[q] = "post" /\ arg[q].uid = arg[p].uid => q = p

\* What a process found under the lock is still there, unchanged; what it did
\* not find is still absent while the lock excludes the others.
FoundInv ==
  \A p \in Processes :
    /\ pc[p] \in {"idle", "load"} \cup Waiting => found[p] = 0
    /\ pc[p] \in {"post", "save"} /\ found[p] # 0 =>
         \E b \in bindings : <<b.id, b.path, b.uid, b.source>>
           = <<found[p], arg[p].path, arg[p].uid, arg[p].source>>
    /\ pc[p] \in {"post", "save"} /\ found[p] = 0 /\ ages = 0 =>
         BindingsAt(arg[p].path) = {}

\* What is about to be saved is registered.
BackedInv ==
  /\ BindingsBacked
  /\ \A p \in Processes :
       pc[p] = "save" \/ (pc[p] # "idle" /\ arg[p].op = "bind") =>
         [uid |-> arg[p].uid, source |-> arg[p].source] \in registered
  /\ \A p \in Processes : pc[p] = "post" => arg[p].op = "register"

IInv ==
  LockInv /\ DrawInv /\ FreshInv /\ FoundInv /\ BackedInv
  /\ OneBindingPerPath /\ NoOrphans
=============================================================================
