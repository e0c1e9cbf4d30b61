----------------------- MODULE RepositoryBindingsProofs -----------------------
(***************************************************************************)
(* Proofs about RepositoryBindings, for every set of commands, paths and   *)
(* source documents and every bound. As long as no lock has grown stale    *)
(* the lock directory belongs to the one process inside (LockInv), so that *)
(* what it found, or did not find, stays true until it saves (FoundInv).   *)
(* What holds of identities and of Core (DrawInv, FreshInv, BackedInv)     *)
(* does not depend on the lock at all.                                     *)
(*                                                                         *)
(* The second part is about ScanPlan, for every set of planners beside     *)
(* those commands. Planners take no lock: what protects the copy of the    *)
(* bindings that they made is that no command takes a binding back or      *)
(* gives it another registration (IdentitiesStay), so that what was read   *)
(* holds until the plan is written (Held), while what is not protected,    *)
(* the clone at a path, is compared once and then moves with `moved`.      *)
(***************************************************************************)
EXTENDS ScanPlan, TLAPS

\* What Save writes: an identity of its own or the one found, on the same
\* path with the same registration.
LEMMA SavedFacts ==
  ASSUME TypeOK, IInv, NEW p \in Processes, pc[p] = "save"
  PROVE  /\ \A b \in bindings : \E c \in Saved(p) :
              <<c.id, c.path, c.uid, c.source>> = <<b.id, b.path, b.uid, b.source>>
         /\ \E c \in Saved(p) : c.uid = arg[p].uid
         /\ Saved(p) \in SUBSET Binding
         /\ \A b \in Saved(p) : b.id \in 1..(IF found[p] = 0 THEN ids + 1 ELSE ids)
         /\ \A b, c \in Saved(p) : b.id = c.id => b = c
         /\ \A b \in Saved(p) : [uid |-> b.uid, source |-> b.source] \in registered
         /\ ages = 0 => \A b, c \in Saved(p) : b.path = c.path => b = c
<1> DEFINE id == IF found[p] = 0 THEN ids + 1 ELSE found[p]
           new == [id |-> id, path |-> arg[p].path, uid |-> arg[p].uid,
                   source |-> arg[p].source, clone |-> arg[p].clone]
<1>1. Saved(p) = {b \in bindings : b.id # id} \cup {new}
  BY DEF Saved
<1>2. arg[p] \in Argument
  BY DEF TypeOK
<1>3. id \in 1..(IF found[p] = 0 THEN ids + 1 ELSE ids)
  BY DEF IInv, FoundInv, DrawInv, TypeOK
<1>4. new \in Binding
  BY <1>2, <1>3 DEF TypeOK, Argument, Binding
<1>5. ASSUME NEW b \in bindings, b.id = id
      PROVE  <<b.id, b.path, b.uid, b.source>> = <<new.id, new.path, new.uid, new.source>>
  <2>1. found[p] # 0
    BY <1>5 DEF IInv, DrawInv, TypeOK
  <2>2. PICK c \in bindings : <<c.id, c.path, c.uid, c.source>>
                             = <<found[p], arg[p].path, arg[p].uid, arg[p].source>>
    BY <2>1 DEF IInv, FoundInv
  <2>3. b = c
    BY <1>5, <2>1, <2>2 DEF IInv, DrawInv
  <2>4. QED
    BY <2>1, <2>2, <2>3
<1>6. \A b \in bindings : \E c \in Saved(p) :
        <<c.id, c.path, c.uid, c.source>> = <<b.id, b.path, b.uid, b.source>>
  BY <1>1, <1>5
<1>7. \A b \in Saved(p) : b.id \in 1..(IF found[p] = 0 THEN ids + 1 ELSE ids)
  BY <1>1, <1>3 DEF IInv, DrawInv, TypeOK
<1>8. \A b, c \in Saved(p) : b.id = c.id => b = c
  BY <1>1 DEF IInv, DrawInv
<1>9. \A b \in Saved(p) : [uid |-> b.uid, source |-> b.source] \in registered
  <2>1. [uid |-> new.uid, source |-> new.source] \in registered
    BY DEF IInv, BackedInv
  <2>2. QED
    BY <1>1, <2>1 DEF IInv, BackedInv, BindingsBacked
<1>10. ASSUME ages = 0, NEW b \in bindings, b.path = arg[p].path
       PROVE  b.id = id
  <2>1. found[p] # 0
    BY <1>10 DEF IInv, FoundInv, BindingsAt
  <2>2. PICK c \in bindings : c.id = found[p] /\ c.path = arg[p].path
    BY <2>1 DEF IInv, FoundInv
  <2>3. QED
    BY <1>10, <2>1, <2>2 DEF IInv, OneBindingPerPath
<1>11. ages = 0 => \A b, c \in Saved(p) : b.path = c.path => b = c
  BY <1>1, <1>10 DEF IInv, OneBindingPerPath
<1>12. QED
  BY <1>1, <1>4, <1>6, <1>7, <1>8, <1>9, <1>11 DEF TypeOK

\* A register command starts.
LEMMA StartRegisterKeeps ==
  ASSUME TypeOK, IInv, NEW p \in Processes,
         NEW path \in Paths, NEW source \in Sources, StartRegister(p, path, source)
  PROVE  TypeOK' /\ IInv'
<1> USE DEF IInv, TypeOK, Goto, Ends, Leave, disk, core, draws, counters
<1>1. TypeOK'
  BY LockAssumption DEF StartRegister, Begin, DrawInv, BackedInv, BindingsBacked,
      Registration, Binding, Argument, NoArgument, Waiting, Inside, PC, Refusals,
      Results
<1>2. LockInv'
  BY LockAssumption DEF StartRegister, Begin, LockInv, Inside, Waiting
<1>3. FoundInv'
  BY DEF StartRegister, Begin, FoundInv, BindingsAt, Waiting
<1>4. BackedInv'
  BY DEF StartRegister, Begin, BackedInv, BindingsBacked, Argument, NoArgument
<1>5. DrawInv' /\ FreshInv' /\ OneBindingPerPath' /\ NoOrphans'
  BY DEF StartRegister, Begin, DrawInv, FreshInv, OneBindingPerPath, FoundInv,
      LockInv, BindingsAt, NoOrphans
<1>6. QED
  BY <1>1, <1>2, <1>3, <1>4, <1>5

\* A bind command starts, or is refused.
LEMMA StartBindKeeps ==
  ASSUME TypeOK, IInv, NEW p \in Processes,
         NEW path \in Paths, NEW r \in registered, StartBind(p, path, r)
  PROVE  TypeOK' /\ IInv'
<1> USE DEF IInv, TypeOK, Goto, Ends, Leave, disk, core, draws, counters
<1>1. TypeOK'
  BY LockAssumption DEF StartBind, Begin, DrawInv, BackedInv, BindingsBacked,
      Registration, Binding, Argument, NoArgument, Waiting, Inside, PC, Refusals,
      Results
<1>2. LockInv'
  BY LockAssumption DEF StartBind, Begin, LockInv, Inside, Waiting
<1>3. FoundInv'
  BY DEF StartBind, Begin, FoundInv, BindingsAt, Waiting
<1>4. BackedInv'
  <2> USE DEF Argument, NoArgument
  <2>1. r = [uid |-> r.uid, source |-> r.source]
    BY DEF Registration
  <2>2. QED
    BY <2>1 DEF StartBind, Begin, BackedInv, BindingsBacked
<1>5. DrawInv' /\ FreshInv' /\ OneBindingPerPath' /\ NoOrphans'
  BY DEF StartBind, Begin, DrawInv, FreshInv, OneBindingPerPath, FoundInv, LockInv,
      BindingsAt, NoOrphans
<1>6. QED
  BY <1>1, <1>2, <1>3, <1>4, <1>5

\* Mkdir.
LEMMA TryLockKeeps ==
  ASSUME TypeOK, IInv, NEW p \in Processes,
         TryLock(p)
  PROVE  TypeOK' /\ IInv'
<1> USE DEF IInv, TypeOK, Goto, Ends, Leave, disk, core, draws, counters
<1>1. TypeOK'
  BY DEF TryLock, Waiting, Inside, PC
<1>2. LockInv'
  BY LockAssumption DEF TryLock, MayEnter, LockInv, Inside, Waiting
<1>3. FoundInv'
  BY DEF TryLock, MayEnter, FoundInv, BindingsAt, Waiting
<1>4. BackedInv'
  BY DEF TryLock, MayEnter, BackedInv, BindingsBacked, Argument, NoArgument
<1>5. DrawInv' /\ FreshInv' /\ OneBindingPerPath' /\ NoOrphans'
  BY DEF TryLock, MayEnter, DrawInv, FreshInv, OneBindingPerPath, FoundInv, LockInv,
      BindingsAt, NoOrphans
<1>6. QED
  BY <1>1, <1>2, <1>3, <1>4, <1>5

\* Lstat: the lock is gone, stale or held.
LEMMA InspectKeeps ==
  ASSUME TypeOK, IInv, NEW p \in Processes,
         Inspect(p)
  PROVE  TypeOK' /\ IInv'
<1> USE DEF IInv, TypeOK, Goto, Ends, Leave, disk, core, draws, counters
<1>1. TypeOK'
  <2> USE LockAssumption DEF Registration, Binding, Argument, NoArgument, Waiting, Inside, PC, Refusals, Results
  <2>1. CASE Leave(p)
    BY <2>1 DEF Inspect, Wait
  <2>2. CASE UNCHANGED <<arg, found, expired, result>>
    BY <2>2 DEF Inspect, Wait
  <2>3. QED
    BY <2>1, <2>2 DEF Inspect, Wait
<1>2. LockInv'
  BY LockAssumption DEF Inspect, Wait, LockInv, Inside, Waiting
<1>3. FoundInv'
  BY DEF Inspect, Wait, FoundInv, BindingsAt, Waiting
<1>4. BackedInv'
  BY DEF Inspect, Wait, BackedInv, BindingsBacked, Argument, NoArgument
<1>5. DrawInv' /\ FreshInv' /\ OneBindingPerPath' /\ NoOrphans'
  BY DEF Inspect, Wait, DrawInv, FreshInv, OneBindingPerPath, FoundInv, LockInv,
      BindingsAt, NoOrphans
<1>6. QED
  BY <1>1, <1>2, <1>3, <1>4, <1>5

\* Remove of a lock seen stale.
LEMMA BreakKeeps ==
  ASSUME TypeOK, IInv, NEW p \in Processes,
         Break(p)
  PROVE  TypeOK' /\ IInv'
<1> USE DEF IInv, TypeOK, Goto, Ends, Leave, disk, core, draws, counters
<1>1. TypeOK'
  <2> USE LockAssumption DEF Registration, Binding, Argument, NoArgument, Waiting, Inside, PC, Refusals, Results
  <2>1. CASE Leave(p)
    BY <2>1 DEF Break, Wait
  <2>2. CASE UNCHANGED <<arg, found, expired, result>>
    BY <2>2 DEF Break, Wait
  <2>3. QED
    BY <2>1, <2>2 DEF Break, Wait
<1>2. LockInv'
  BY LockAssumption DEF Break, Wait, LockInv, Inside, Waiting
<1>3. FoundInv'
  BY DEF Break, Wait, FoundInv, BindingsAt, Waiting
<1>4. BackedInv'
  BY DEF Break, Wait, BackedInv, BindingsBacked, Argument, NoArgument
<1>5. DrawInv' /\ FreshInv' /\ OneBindingPerPath' /\ NoOrphans'
  BY DEF Break, Wait, DrawInv, FreshInv, OneBindingPerPath, FoundInv, LockInv,
      BindingsAt, NoOrphans
<1>6. QED
  BY <1>1, <1>2, <1>3, <1>4, <1>5

\* The deferred Remove.
LEMMA UnlockKeeps ==
  ASSUME TypeOK, IInv, NEW p \in Processes,
         Unlock(p)
  PROVE  TypeOK' /\ IInv'
<1> USE DEF IInv, TypeOK, Goto, Ends, Leave, disk, core, draws, counters
<1>1. TypeOK'
  BY LockAssumption DEF Unlock, DrawInv, BackedInv, BindingsBacked, Registration,
      Binding, Argument, NoArgument, Waiting, Inside, PC, Refusals, Results
<1>2. LockInv'
  BY LockAssumption DEF Unlock, LockInv, Inside, Waiting
<1>3. FoundInv'
  BY DEF Unlock, FoundInv, BindingsAt, Waiting
<1>4. BackedInv'
  BY DEF Unlock, BackedInv, BindingsBacked, Argument, NoArgument
<1>5. DrawInv' /\ FreshInv' /\ OneBindingPerPath' /\ NoOrphans'
  BY DEF Unlock, DrawInv, FreshInv, OneBindingPerPath, FoundInv, LockInv,
      BindingsAt, NoOrphans
<1>6. QED
  BY <1>1, <1>2, <1>3, <1>4, <1>5

\* register looks for the path's binding, and may draw a UID.
LEMMA LoadToRegisterKeeps ==
  ASSUME TypeOK, IInv, NEW p \in Processes,
         LoadToRegister(p)
  PROVE  TypeOK' /\ IInv'
<1> USE DEF IInv, TypeOK, Goto, Ends, Leave, disk, core, draws, counters
<1>1. TypeOK'
  <2> USE LockAssumption DEF Registration, Binding, Argument, NoArgument, Waiting, Inside, PC, Refusals, Results
  <2>1. arg[p] \in Argument
    BY DEF LoadToRegister
  <2>2. CASE Goto(p, "unlock") /\ UNCHANGED <<arg, found, uids>>
    BY <2>2 DEF LoadToRegister
  <2>3. ASSUME NEW b \in bindings, Reuse(p, b), Goto(p, "post"), UNCHANGED <<result, uids>>
        PROVE  TypeOK'
    <3>1. b.id \in Nat /\ b.uid \in 1..uids
      <4>1. [uid |-> b.uid, source |-> b.source] \in registered
        BY DEF BackedInv, BindingsBacked
      <4>2. b.uid \in 1..uids
        BY <4>1 DEF DrawInv
      <4>3. QED
        BY <4>2
    <3>2. arg'[p] \in Argument /\ arg'[p].uid = b.uid
      BY <2>1, <2>3, <3>1 DEF Reuse
    <3>3. QED
      BY <2>3, <3>1, <3>2 DEF LoadToRegister, Reuse
  <2>4. CASE /\ uids' = uids + 1
             /\ arg' = [arg EXCEPT ![p].uid = uids + 1]
             /\ Goto(p, "post") /\ UNCHANGED <<result, found>>
    <3>1. arg'[p] \in Argument /\ arg'[p].uid = uids + 1
      BY <2>1, <2>4
    <3>2. QED
      BY <2>4, <3>1 DEF LoadToRegister
  <2>5. QED
    BY <2>2, <2>3, <2>4 DEF LoadToRegister, BindingsAt
<1>2. LockInv'
  BY LockAssumption DEF LoadToRegister, Reuse, LockInv, Inside, Waiting
<1>3. FreshInv'
  <2>1. CASE Goto(p, "unlock") /\ UNCHANGED <<arg, found, uids>>
    BY <2>1 DEF LoadToRegister, FreshInv
  <2>2. ASSUME NEW b \in bindings, Reuse(p, b), Goto(p, "post"), UNCHANGED <<result, uids>>
        PROVE  FreshInv'
    <3>1. b.id # 0 /\ found'[p] = b.id /\ arg'[p].uid = b.uid
      BY <2>2 DEF Reuse, DrawInv, LoadToRegister
    <3>2. [uid |-> b.uid, source |-> b.source] \in registered
      BY DEF BackedInv, BindingsBacked
    <3>3. QED
      BY <2>2, <3>1, <3>2 DEF LoadToRegister, Reuse, FreshInv
  <2>3. CASE /\ uids' = uids + 1
             /\ arg' = [arg EXCEPT ![p].uid = uids + 1]
             /\ Goto(p, "post") /\ UNCHANGED <<result, found>>
    <3>1. arg'[p].uid = uids + 1
      BY <2>3 DEF LoadToRegister
    <3>2. QED
      BY <2>3, <3>1 DEF LoadToRegister, FreshInv, DrawInv
  <2>4. QED
    BY <2>1, <2>2, <2>3 DEF LoadToRegister, BindingsAt, SameSource
<1>4. FoundInv'
  <2> USE DEF Waiting
  <2>1. CASE Goto(p, "unlock") /\ UNCHANGED <<arg, found, uids>>
    BY <2>1 DEF LoadToRegister, FoundInv, BindingsAt
  <2>2. ASSUME NEW b \in bindings, Reuse(p, b), Goto(p, "post"), UNCHANGED <<result, uids>>,
               b.path = arg[p].path, b.source = arg[p].source
        PROVE  FoundInv'
    <3>1. b.id # 0
      BY DEF DrawInv
    <3>2. /\ found'[p] = b.id /\ arg'[p].uid = b.uid
          /\ arg'[p].path = b.path /\ arg'[p].source = b.source
      BY <2>2 DEF Reuse, LoadToRegister
    <3>3. QED
      BY <2>2, <3>1, <3>2 DEF LoadToRegister, Reuse, FoundInv, BindingsAt
  <2>3. CASE /\ BindingsAt(arg[p].path) = {}
             /\ uids' = uids + 1
             /\ arg' = [arg EXCEPT ![p].uid = uids + 1]
             /\ Goto(p, "post") /\ UNCHANGED <<result, found>>
    <3>1. arg'[p].path = arg[p].path /\ found'[p] = 0
      BY <2>3 DEF LoadToRegister, FoundInv
    <3>2. QED
      BY <2>3, <3>1 DEF LoadToRegister, FoundInv, BindingsAt
  <2>4. QED
    BY <2>1, <2>2, <2>3 DEF LoadToRegister, BindingsAt, SameSource
<1>5. BackedInv'
  BY DEF LoadToRegister, Reuse, BackedInv, BindingsBacked, Argument, NoArgument
<1>6. DrawInv' /\ OneBindingPerPath' /\ NoOrphans'
  BY DEF LoadToRegister, Reuse, DrawInv, OneBindingPerPath, FoundInv, LockInv,
      BindingsAt, NoOrphans
<1>7. QED
  BY <1>1, <1>2, <1>3, <1>4, <1>5, <1>6

\* bind looks for the path's binding.
LEMMA LoadToBindKeeps ==
  ASSUME TypeOK, IInv, NEW p \in Processes,
         LoadToBind(p)
  PROVE  TypeOK' /\ IInv'
<1> USE DEF IInv, TypeOK, Goto, Ends, Leave, disk, core, draws, counters
<1>1. TypeOK'
  <2> USE LockAssumption DEF Registration, Binding, Argument, NoArgument, Waiting, Inside, PC, Refusals, Results
  <2>1. arg[p] \in Argument
    BY DEF LoadToBind
  <2>2. CASE UNCHANGED found /\ Goto(p, "unlock") /\ Ends(p, "path_already_bound")
    BY <2>2 DEF LoadToBind
  <2>3. CASE /\ Goto(p, "save") /\ UNCHANGED result
             /\ found' \in [Processes -> Nat]
    <3>1. [uid |-> arg[p].uid, source |-> arg[p].source] \in registered
      BY DEF LoadToBind, BackedInv
    <3>2. arg[p].uid \in 1..uids
      BY <3>1 DEF DrawInv
    <3>3. QED
      BY <2>1, <2>3, <3>2 DEF LoadToBind
  <2>4. \A b \in bindings : b.id \in Nat
    OBVIOUS
  <2>5. QED
    BY <2>2, <2>3, <2>4 DEF LoadToBind, BindingsAt
<1>2. LockInv'
  BY LockAssumption DEF LoadToBind, SameRegistration, LockInv, Inside, Waiting
<1>3. FoundInv'
  <2> USE DEF Waiting
  <2>1. CASE Goto(p, "unlock") /\ UNCHANGED found
    BY <2>1 DEF LoadToBind, FoundInv, BindingsAt
  <2>2. ASSUME NEW b \in bindings, found' = [found EXCEPT ![p] = b.id],
               b.path = arg[p].path, b.uid = arg[p].uid, Goto(p, "save")
        PROVE  FoundInv'
    <3>1. b.source = arg[p].source /\ b.id # 0
      <4>1. [uid |-> b.uid, source |-> b.source] \in registered
        BY DEF BackedInv, BindingsBacked
      <4>2. [uid |-> arg[p].uid, source |-> arg[p].source] \in registered
        BY DEF LoadToBind, BackedInv
      <4>3. [uid |-> b.uid, source |-> b.source] = [uid |-> arg[p].uid, source |-> arg[p].source]
        BY <2>2, <4>1, <4>2 DEF DrawInv
      <4>4. QED
        BY <4>3 DEF DrawInv
    <3>2. QED
      BY <2>2, <3>1 DEF LoadToBind, FoundInv, BindingsAt
  <2>3. CASE BindingsAt(arg[p].path) = {} /\ Goto(p, "save") /\ UNCHANGED found
    BY <2>3 DEF LoadToBind, FoundInv, BindingsAt
  <2>4. QED
    BY <2>1, <2>2, <2>3 DEF LoadToBind, BindingsAt, SameRegistration
<1>4. BackedInv'
  BY DEF LoadToBind, SameRegistration, BackedInv, BindingsBacked, Argument,
      NoArgument
<1>5. DrawInv' /\ FreshInv' /\ OneBindingPerPath' /\ NoOrphans'
  BY DEF LoadToBind, SameRegistration, DrawInv, FreshInv, OneBindingPerPath,
      FoundInv, LockInv, BindingsAt, NoOrphans
<1>6. QED
  BY <1>1, <1>2, <1>3, <1>4, <1>5

\* Core answers a registration.
LEMMA PostKeeps ==
  ASSUME TypeOK, IInv, NEW p \in Processes,
         Post(p)
  PROVE  TypeOK' /\ IInv'
<1> USE DEF IInv, TypeOK, Goto, Ends, Leave, disk, core, draws, counters
<1>1. TypeOK'
  BY LockAssumption DEF Post, PostAnswered, CoreRegisters, DrawInv, BackedInv,
      BindingsBacked, Registration, Binding, Argument, NoArgument, Waiting, Inside,
      PC, Refusals, Results
<1>2. LockInv'
  BY LockAssumption DEF Post, PostAnswered, CoreRegisters, LockInv, Inside, Waiting
<1>3. DrawInv'
  <2>1. /\ arg[p].uid \in 1..uids
        /\ [uid |-> arg[p].uid, source |-> arg[p].source].uid = arg[p].uid
    BY DEF Post
  <2>2. QED
    BY <2>1 DEF Post, PostAnswered, CoreRegisters, DrawInv
<1>4. FoundInv'
  BY DEF Post, PostAnswered, CoreRegisters, FoundInv, BindingsAt, Waiting
<1>5. BackedInv'
  <2> USE DEF Argument, NoArgument
  <2> DEFINE new == [uid |-> arg[p].uid, source |-> arg[p].source]
  <2>1. new \in registered'
    <3>1. CASE found[p] = 0
      BY <3>1 DEF Post, PostAnswered, CoreRegisters, FreshInv
    <3>2. CASE found[p] # 0
      BY <3>2 DEF Post, PostAnswered, CoreRegisters, FoundInv, BackedInv, BindingsBacked
    <3>3. QED
      BY <3>1, <3>2
  <2>2. registered \subseteq registered'
    BY DEF Post, PostAnswered, CoreRegisters
  <2>3. QED
    BY <2>1, <2>2 DEF Post, PostAnswered, BackedInv, BindingsBacked
<1>6. NoOrphans'
  <2>1. SUFFICES ASSUME ages = 0, crashes = 0, faults = 0, NEW r \in registered'
        PROVE  \/ \E b \in bindings : b.uid = r.uid
               \/ \E q \in Processes : pc'[q] = "save" /\ arg[q].uid = r.uid
    BY DEF NoOrphans, Post
  <2>2. CASE r \in registered
    BY <2>1, <2>2 DEF NoOrphans, Post, PostAnswered
  <2>3. CASE r \notin registered
    <3>1. r.uid = arg[p].uid
      BY <2>3 DEF Post, PostAnswered, CoreRegisters
    <3>2. CASE pc' = [pc EXCEPT ![p] = "save"]
      BY <3>1, <3>2
    <3>3. CASE arg[p].uid \in disabled
      BY <2>3, <3>1, <3>3 DEF Post, DrawInv, CoreRegisters, PostAnswered
    <3>4. QED
      BY <3>2, <3>3 DEF Post, PostAnswered
  <2>4. QED
    BY <2>2, <2>3
<1>7. FreshInv' /\ OneBindingPerPath'
  BY DEF Post, PostAnswered, CoreRegisters, FreshInv, OneBindingPerPath, FoundInv,
      LockInv, BindingsAt
<1>8. QED
  BY <1>1, <1>2, <1>3, <1>4, <1>5, <1>6, <1>7

\* The binding file is replaced or created.
LEMMA SaveKeeps ==
  ASSUME TypeOK, IInv, NEW p \in Processes,
         Save(p)
  PROVE  TypeOK' /\ IInv'
<1> USE DEF IInv, TypeOK, Goto, Ends, Leave, disk, core, draws, counters
<1>1. TypeOK'
  <2> USE LockAssumption DEF Registration, Binding, Argument, NoArgument, Waiting, Inside, PC, Refusals, Results
  <2>1. CASE bindings' = Saved(p)
    BY <2>1, SavedFacts DEF Save, DrawID, TypeOK
  <2>2. CASE UNCHANGED bindings
    BY <2>2 DEF Save, DrawID, TypeOK
  <2>3. QED
    BY <2>1, <2>2 DEF Save
<1>2. LockInv'
  BY LockAssumption DEF Save, DrawID, Saved, LockInv, Inside, Waiting
<1>3. DrawInv'
  <2>1. DrawID(p) /\ UNCHANGED <<registered, disabled, uids>>
    BY DEF Save
  <2>2. CASE bindings' = Saved(p)
    <3>1. pc[p] = "save"
      BY DEF Save
    <3>2. /\ \A b \in bindings' : b.id \in 1..ids'
          /\ \A b, c \in bindings' : b.id = c.id => b = c
      BY <2>1, <2>2, <3>1, SavedFacts DEF DrawID
    <3>3. QED
      BY <2>1, <3>2 DEF DrawInv
  <2>3. CASE UNCHANGED bindings
    BY <2>1, <2>3 DEF DrawID, DrawInv
  <2>4. QED
    BY <2>2, <2>3 DEF Save
<1>4. FoundInv'
  <2> USE DEF Waiting
  <2>1. /\ pc' = [pc EXCEPT ![p] = "unlock"]
        /\ UNCHANGED <<arg, found, ages>>
    BY DEF Save
  <2>2. CASE UNCHANGED bindings
    BY <2>1, <2>2 DEF FoundInv, BindingsAt
  <2>3. CASE bindings' = Saved(p)
    <3>1. SUFFICES ASSUME NEW q \in Processes
          PROVE  /\ pc'[q] \in {"idle", "load"} \cup Waiting => found[q] = 0
                 /\ pc'[q] \in {"post", "save"} /\ found[q] # 0 =>
                      \E b \in bindings' : <<b.id, b.path, b.uid, b.source>>
                        = <<found[q], arg[q].path, arg[q].uid, arg[q].source>>
                 /\ pc'[q] \in {"post", "save"} /\ found[q] = 0 /\ ages = 0 =>
                      BindingsAt(arg[q].path)' = {}
      BY <2>1 DEF FoundInv, BindingsAt
    <3>2. pc'[q] \in {"idle", "load"} \cup Waiting => found[q] = 0
      BY <2>1 DEF FoundInv
    <3>3. ASSUME pc'[q] \in {"post", "save"}, found[q] # 0
          PROVE  \E b \in bindings' : <<b.id, b.path, b.uid, b.source>>
                        = <<found[q], arg[q].path, arg[q].uid, arg[q].source>>
      <4>1. pc[q] \in {"post", "save"} /\ pc[p] = "save"
        BY <2>1, <3>3 DEF Save
      <4>2. PICK b \in bindings : <<b.id, b.path, b.uid, b.source>>
                                = <<found[q], arg[q].path, arg[q].uid, arg[q].source>>
        BY <3>3, <4>1 DEF FoundInv
      <4>3. PICK c \in Saved(p) :
              <<c.id, c.path, c.uid, c.source>> = <<b.id, b.path, b.uid, b.source>>
        BY <4>1, SavedFacts
      <4>4. QED
        BY <2>3, <4>2, <4>3
    <3>4. ASSUME pc'[q] \in {"post", "save"}, found[q] = 0, ages = 0
          PROVE  BindingsAt(arg[q].path)' = {}
      BY <2>1, <3>4 DEF LockInv, Inside, Save
    <3>5. QED
      BY <3>2, <3>3, <3>4
  <2>4. QED
    BY <2>2, <2>3 DEF Save
<1>5. BackedInv'
  <2> USE DEF Argument, NoArgument
  <2>1. CASE bindings' = Saved(p)
    BY <2>1, SavedFacts DEF Save, DrawID, BackedInv, BindingsBacked
  <2>2. CASE UNCHANGED bindings
    BY <2>2 DEF Save, DrawID, BackedInv, BindingsBacked
  <2>3. QED
    BY <2>1, <2>2 DEF Save
<1>6. OneBindingPerPath'
  <2>1. CASE bindings' = Saved(p)
    BY <2>1, SavedFacts DEF Save, DrawID, OneBindingPerPath
  <2>2. CASE UNCHANGED bindings
    BY <2>2 DEF Save, DrawID, OneBindingPerPath
  <2>3. QED
    BY <2>1, <2>2 DEF Save
<1>7. NoOrphans'
  <2>1. SUFFICES ASSUME ages = 0, crashes = 0, faults = 0, NEW r \in registered
        PROVE  \/ \E b \in bindings' : b.uid = r.uid
               \/ \E q \in Processes : pc'[q] = "save" /\ arg[q].uid = r.uid
    BY DEF NoOrphans, Save
  <2>2. ASSUME NEW b \in bindings, b.uid = r.uid
        PROVE  \E c \in bindings' : c.uid = r.uid
    BY <2>2, SavedFacts DEF Save
  <2>3. CASE arg[p].uid = r.uid
    BY <2>3, SavedFacts DEF Save
  <2>4. ASSUME NEW q \in Processes, pc[q] = "save", arg[q].uid = r.uid, q # p
        PROVE  pc'[q] = "save"
    BY <2>4 DEF Save
  <2>5. QED
    BY <2>1, <2>2, <2>3, <2>4 DEF NoOrphans
<1>8. FreshInv'
  BY DEF Save, DrawID, Saved, FreshInv
<1>9. QED
  BY <1>1, <1>2, <1>3, <1>4, <1>5, <1>6, <1>7, <1>8

\* 30 seconds pass.
LEMMA DeadlinePassesKeeps ==
  ASSUME TypeOK, IInv, NEW p \in Processes,
         DeadlinePasses(p)
  PROVE  TypeOK' /\ IInv'
<1> USE DEF IInv, TypeOK, Goto, Ends, Leave, disk, core, draws, counters
<1>1. TypeOK'
  BY LockAssumption DEF DeadlinePasses, DrawInv, BackedInv, BindingsBacked,
      Registration, Binding, Argument, NoArgument, Waiting, Inside, PC, Refusals,
      Results
<1>2. LockInv'
  BY LockAssumption DEF DeadlinePasses, LockInv, Inside, Waiting
<1>3. FoundInv'
  BY DEF DeadlinePasses, FoundInv, BindingsAt, Waiting
<1>4. BackedInv'
  BY DEF DeadlinePasses, BackedInv, BindingsBacked, Argument, NoArgument
<1>5. DrawInv' /\ FreshInv' /\ OneBindingPerPath' /\ NoOrphans'
  BY DEF DeadlinePasses, DrawInv, FreshInv, OneBindingPerPath, FoundInv, LockInv,
      BindingsAt, NoOrphans
<1>6. QED
  BY <1>1, <1>2, <1>3, <1>4, <1>5

\* The registration or its response is lost.
LEMMA PostLostKeeps ==
  ASSUME TypeOK, IInv, NEW p \in Processes,
         PostLost(p)
  PROVE  TypeOK' /\ IInv'
<1> USE DEF IInv, TypeOK, Goto, Ends, Leave, disk, core, draws, counters
<1>1. TypeOK'
  BY LockAssumption DEF PostLost, CoreRegisters, DrawInv, BackedInv, BindingsBacked,
      Registration, Binding, Argument, NoArgument, Waiting, Inside, PC, Refusals,
      Results
<1>2. LockInv'
  BY LockAssumption DEF PostLost, CoreRegisters, LockInv, Inside, Waiting
<1>3. FoundInv'
  BY DEF PostLost, CoreRegisters, FoundInv, BindingsAt, Waiting
<1>4. BackedInv'
  BY DEF PostLost, CoreRegisters, BackedInv, BindingsBacked, Argument, NoArgument
<1>5. DrawInv' /\ FreshInv' /\ OneBindingPerPath' /\ NoOrphans'
  BY DEF PostLost, CoreRegisters, DrawInv, FreshInv, OneBindingPerPath, FoundInv,
      LockInv, BindingsAt, NoOrphans
<1>6. QED
  BY <1>1, <1>2, <1>3, <1>4, <1>5

\* The save fails, before or after the file is there.
LEMMA SaveFailsKeeps ==
  ASSUME TypeOK, IInv, NEW p \in Processes,
         SaveFails(p)
  PROVE  TypeOK' /\ IInv'
<1> USE DEF IInv, TypeOK, Goto, Ends, Leave, disk, core, draws, counters
<1>1. TypeOK'
  <2> USE LockAssumption DEF Registration, Binding, Argument, NoArgument, Waiting, Inside, PC, Refusals, Results
  <2>1. CASE bindings' = Saved(p)
    BY <2>1, SavedFacts DEF SaveFails, DrawID, TypeOK
  <2>2. CASE UNCHANGED bindings
    BY <2>2 DEF SaveFails, DrawID, TypeOK
  <2>3. QED
    BY <2>1, <2>2 DEF SaveFails
<1>2. LockInv'
  BY LockAssumption DEF SaveFails, DrawID, Saved, LockInv, Inside, Waiting
<1>3. DrawInv'
  <2>1. DrawID(p) /\ UNCHANGED <<registered, disabled, uids>>
    BY DEF SaveFails
  <2>2. CASE bindings' = Saved(p)
    <3>1. pc[p] = "save"
      BY DEF SaveFails
    <3>2. /\ \A b \in bindings' : b.id \in 1..ids'
          /\ \A b, c \in bindings' : b.id = c.id => b = c
      BY <2>1, <2>2, <3>1, SavedFacts DEF DrawID
    <3>3. QED
      BY <2>1, <3>2 DEF DrawInv
  <2>3. CASE UNCHANGED bindings
    BY <2>1, <2>3 DEF DrawID, DrawInv
  <2>4. QED
    BY <2>2, <2>3 DEF SaveFails
<1>4. FoundInv'
  <2> USE DEF Waiting
  <2>1. /\ pc' = [pc EXCEPT ![p] = "unlock"]
        /\ UNCHANGED <<arg, found, ages>>
    BY DEF SaveFails
  <2>2. CASE UNCHANGED bindings
    BY <2>1, <2>2 DEF FoundInv, BindingsAt
  <2>3. CASE bindings' = Saved(p)
    <3>1. SUFFICES ASSUME NEW q \in Processes
          PROVE  /\ pc'[q] \in {"idle", "load"} \cup Waiting => found[q] = 0
                 /\ pc'[q] \in {"post", "save"} /\ found[q] # 0 =>
                      \E b \in bindings' : <<b.id, b.path, b.uid, b.source>>
                        = <<found[q], arg[q].path, arg[q].uid, arg[q].source>>
                 /\ pc'[q] \in {"post", "save"} /\ found[q] = 0 /\ ages = 0 =>
                      BindingsAt(arg[q].path)' = {}
      BY <2>1 DEF FoundInv, BindingsAt
    <3>2. pc'[q] \in {"idle", "load"} \cup Waiting => found[q] = 0
      BY <2>1 DEF FoundInv
    <3>3. ASSUME pc'[q] \in {"post", "save"}, found[q] # 0
          PROVE  \E b \in bindings' : <<b.id, b.path, b.uid, b.source>>
                        = <<found[q], arg[q].path, arg[q].uid, arg[q].source>>
      <4>1. pc[q] \in {"post", "save"} /\ pc[p] = "save"
        BY <2>1, <3>3 DEF SaveFails
      <4>2. PICK b \in bindings : <<b.id, b.path, b.uid, b.source>>
                                = <<found[q], arg[q].path, arg[q].uid, arg[q].source>>
        BY <3>3, <4>1 DEF FoundInv
      <4>3. PICK c \in Saved(p) :
              <<c.id, c.path, c.uid, c.source>> = <<b.id, b.path, b.uid, b.source>>
        BY <4>1, SavedFacts
      <4>4. QED
        BY <2>3, <4>2, <4>3
    <3>4. ASSUME pc'[q] \in {"post", "save"}, found[q] = 0, ages = 0
          PROVE  BindingsAt(arg[q].path)' = {}
      BY <2>1, <3>4 DEF LockInv, Inside, SaveFails
    <3>5. QED
      BY <3>2, <3>3, <3>4
  <2>4. QED
    BY <2>2, <2>3 DEF SaveFails
<1>5. BackedInv'
  <2> USE DEF Argument, NoArgument
  <2>1. CASE bindings' = Saved(p)
    BY <2>1, SavedFacts DEF SaveFails, DrawID, BackedInv, BindingsBacked
  <2>2. CASE UNCHANGED bindings
    BY <2>2 DEF SaveFails, DrawID, BackedInv, BindingsBacked
  <2>3. QED
    BY <2>1, <2>2 DEF SaveFails
<1>6. OneBindingPerPath'
  <2>1. CASE bindings' = Saved(p)
    BY <2>1, SavedFacts DEF SaveFails, DrawID, OneBindingPerPath
  <2>2. CASE UNCHANGED bindings
    BY <2>2 DEF SaveFails, DrawID, OneBindingPerPath
  <2>3. QED
    BY <2>1, <2>2 DEF SaveFails
<1>7. FreshInv' /\ NoOrphans'
  BY DEF SaveFails, DrawID, Saved, FreshInv, NoOrphans
<1>8. QED
  BY <1>1, <1>2, <1>3, <1>4, <1>5, <1>6, <1>7

\* The process dies, and leaves its lock.
LEMMA CrashKeeps ==
  ASSUME TypeOK, IInv, NEW p \in Processes,
         Crash(p)
  PROVE  TypeOK' /\ IInv'
<1> USE DEF IInv, TypeOK, Goto, Ends, Leave, disk, core, draws, counters
<1>1. TypeOK'
  BY LockAssumption DEF Crash, DrawInv, BackedInv, BindingsBacked, Registration,
      Binding, Argument, NoArgument, Waiting, Inside, PC, Refusals, Results
<1>2. LockInv'
  BY LockAssumption DEF Crash, LockInv, Inside, Waiting
<1>3. FoundInv'
  BY DEF Crash, FoundInv, BindingsAt, Waiting
<1>4. BackedInv'
  BY DEF Crash, BackedInv, BindingsBacked, Argument, NoArgument
<1>5. DrawInv' /\ FreshInv' /\ OneBindingPerPath' /\ NoOrphans'
  BY DEF Crash, DrawInv, FreshInv, OneBindingPerPath, FoundInv, LockInv, BindingsAt,
      NoOrphans
<1>6. QED
  BY <1>1, <1>2, <1>3, <1>4, <1>5

\* Time, administrators and users leave what the invariant says alone.
LEMMA WorldKeeps ==
  ASSUME TypeOK, IInv,
         \/ LockAges
         \/ \E r \in registered : SetState(r)
         \/ \E path \in Paths : Reclone(path)
  PROVE  TypeOK' /\ IInv'
<1> USE DEF disk, core, draws, counters, IInv
<1>1. CASE LockAges
  BY <1>1 DEF LockAges, TypeOK, LockInv, DrawInv, FreshInv, FoundInv, BindingsAt,
              BackedInv, BindingsBacked, OneBindingPerPath, NoOrphans, Inside
<1>2. ASSUME NEW r \in registered, SetState(r)
      PROVE  TypeOK' /\ IInv'
  <2>1. r.uid \in Nat
    BY DEF TypeOK, Registration
  <2>2. TypeOK' /\ DrawInv'
    BY <1>2, <2>1 DEF SetState, TypeOK, DrawInv
  <2>3. LockInv' /\ FreshInv' /\ FoundInv' /\ BackedInv' /\ OneBindingPerPath' /\ NoOrphans'
    BY <1>2 DEF SetState, LockInv, FreshInv, FoundInv, BindingsAt, BackedInv,
                BindingsBacked, OneBindingPerPath, NoOrphans
  <2>4. QED
    BY <2>2, <2>3
<1>3. ASSUME NEW path \in Paths, Reclone(path)
      PROVE  TypeOK' /\ IInv'
  BY <1>3 DEF Reclone, TypeOK, LockInv, DrawInv, FreshInv, FoundInv, BindingsAt,
              BackedInv, BindingsBacked, OneBindingPerPath, NoOrphans
<1>4. QED
  BY <1>1, <1>2, <1>3

LEMMA NextKeeps ==
  ASSUME TypeOK, IInv, [Next]_vars
  PROVE  TypeOK' /\ IInv'
<1>1. CASE UNCHANGED vars
  BY <1>1 DEF vars, TypeOK, IInv, LockInv, DrawInv, FreshInv, FoundInv, BindingsAt,
              BackedInv, BindingsBacked, OneBindingPerPath, NoOrphans, Inside
<1>2. ASSUME NEW p \in Processes, Started(p)
      PROVE  TypeOK' /\ IInv'
  BY <1>2, StartRegisterKeeps, StartBindKeeps DEF Started
<1>3. ASSUME NEW p \in Processes, Proceed(p)
      PROVE  TypeOK' /\ IInv'
  BY <1>3, TryLockKeeps, InspectKeeps, BreakKeeps, UnlockKeeps, LoadToRegisterKeeps,
     LoadToBindKeeps, PostKeeps, SaveKeeps DEF Proceed
<1>4. ASSUME NEW p \in Processes, DeadlinePasses(p) \/ Trouble(p)
      PROVE  TypeOK' /\ IInv'
  BY <1>4, DeadlinePassesKeeps, PostLostKeeps, SaveFailsKeeps, CrashKeeps DEF Trouble
<1>5. CASE \/ LockAges
           \/ \E r \in registered : SetState(r)
           \/ \E path \in Paths : Reclone(path)
  BY <1>5, WorldKeeps
<1>6. QED
  BY <1>1, <1>2, <1>3, <1>4, <1>5 DEF Next

\* A step keeps every binding but its clone: Saved replaces the file of the
\* identity it found by one for the same path and registration.
LEMMA IdentitiesStay ==
  ASSUME TypeOK, IInv, [Next]_vars
  PROVE  \A b \in bindings : \E c \in bindings' :
           <<c.id, c.path, c.uid, c.source>> = <<b.id, b.path, b.uid, b.source>>
<1> DEFINE Kept == \A b \in bindings : \E c \in bindings' :
             <<c.id, c.path, c.uid, c.source>> = <<b.id, b.path, b.uid, b.source>>
<1>1. CASE UNCHANGED bindings
  BY <1>1
<1>2. ASSUME NEW p \in Processes, Save(p) \/ SaveFails(p)
      PROVE  Kept
  <2>1. pc[p] = "save" /\ (bindings' = Saved(p) \/ bindings' = bindings)
    BY <1>2 DEF Save, SaveFails
  <2>2. CASE bindings' = Saved(p)
    BY <2>1, <2>2, SavedFacts
  <2>3. QED
    BY <2>1, <2>2
<1>3. QED
  BY <1>1, <1>2 DEF Next, Started, Proceed, Trouble, StartRegister, StartBind,
     TryLock, Inspect, Break, Unlock, LoadToRegister, LoadToBind, Post, DeadlinePasses,
     PostLost, Crash, LockAges, SetState, Reclone, disk, vars

\* At first nothing is bound and nobody holds the lock.
LEMMA InitHolds ==
  ASSUME Init
  PROVE  TypeOK /\ IInv
BY BoundsAssumption, LockAssumption
   DEF Init, TypeOK, IInv, LockInv, DrawInv, FreshInv, FoundInv, BackedInv,
       BindingsBacked, OneBindingPerPath, NoOrphans, Waiting, Inside, PC, Results,
       NoArgument, Argument

\* The inductive invariant of the binding lock and of what is kept under it.
THEOREM InvariantHolds == Spec => [](TypeOK /\ IInv)
<1>1. Init => TypeOK /\ IInv
  BY InitHolds
<1>2. TypeOK /\ IInv /\ [Next]_vars => TypeOK' /\ IInv'
  BY NextKeeps
<1>3. QED
  BY <1>1, <1>2, PTL DEF Spec

\* Type correctness of the bindings and their processes.
THEOREM TypeCorrect == Spec => []TypeOK
BY InvariantHolds, PTL

\* Until a lock has grown stale one command at a time is inside (withLock).
THEOREM LockExcludes == Spec => []OneHolder
<1>1. IInv => OneHolder
  BY DEF IInv, LockInv, OneHolder
<1>2. QED
  BY <1>1, InvariantHolds, PTL

\* And a path has one binding (RegisterLocalRepository, BindLocalRepository).
THEOREM PathBoundOnce == Spec => []OneBindingPerPath
<1>1. IInv => OneBindingPerPath
  BY DEF IInv
<1>2. QED
  BY <1>1, InvariantHolds, PTL

\* Every binding names a registration that Core has, even when the lock was
\* broken under its holder.
THEOREM BindingsAreBacked == Spec => []BindingsBacked
<1>1. IInv => BindingsBacked
  BY DEF IInv, BackedInv
<1>2. QED
  BY <1>1, InvariantHolds, PTL

\* Only crashes, faults and broken locks leave a registration behind.
THEOREM NoOrphanedRegistration == Spec => []NoOrphans
<1>1. IInv => NoOrphans
  BY DEF IInv
<1>2. QED
  BY <1>1, InvariantHolds, PTL

\* No step removes a binding or gives it another path or registration, even
\* when the lock was broken under its holder.
THEOREM BindingsKeepIdentity == Spec => IdentityKept
<1> DEFINE Kept == \A b \in bindings : \E c \in bindings' :
             <<c.id, c.path, c.uid, c.source>> = <<b.id, b.path, b.uid, b.source>>
<1>1. TypeOK /\ IInv /\ [Next]_vars => [Kept]_vars
  BY IdentitiesStay
<1>2. QED
  BY <1>1, InvariantHolds, PTL DEF Spec, IdentityKept

-----------------------------------------------------------------------------
(* Planners beside the commands.                                           *)

\* What a command's step leaves of the bindings.
Later ==
  \A b \in bindings : \E c \in bindings' :
    <<c.id, c.path, c.uid, c.source>> = <<b.id, b.path, b.uid, b.source>>

\* A fault that a planner meets counts, and changes nothing of the commands.
LEMMA FaultsAlone ==
  ASSUME TypeOK, IInv, faults' = faults \/ faults' = faults + 1,
         UNCHANGED <<unbound, runs, crashes, ages, reclones>>
  PROVE  TypeOK' /\ IInv'
<1> USE DEF unbound, disk, core, draws
<1>1. TypeOK'
  BY DEF TypeOK
<1>2. LockInv' /\ DrawInv' /\ FreshInv' /\ FoundInv' /\ BackedInv' /\ OneBindingPerPath'
  BY DEF IInv, LockInv, DrawInv, FreshInv, FoundInv, BindingsAt, BackedInv,
         BindingsBacked, OneBindingPerPath
<1>3. NoOrphans'
  <2>1. faults' = 0 => faults = 0
    BY DEF TypeOK
  <2>2. QED
    BY <2>1 DEF IInv, NoOrphans
<1>4. QED
  BY <1>1, <1>2, <1>3 DEF IInv

\* What was read of a binding holds as long as the bindings keep their identity.
LEMMA HeldStays ==
  ASSUME Later, NEW x, Held(x)
  PROVE  Held(x)'
<1>1. PICK b \in bindings : <<b.id, b.path, b.uid, b.source>> = <<x.id, x.path, x.uid, x.source>>
  BY DEF Held
<1>2. PICK c \in bindings' : <<c.id, c.path, c.uid, c.source>> = <<b.id, b.path, b.uid, b.source>>
  BY DEF Later
<1>3. QED
  BY <1>1, <1>2 DEF Held

\* So approved repositories stay approved.
LEMMA ApprovalStays ==
  ASSUME Later, NEW roles, Approval(roles)
  PROVE  Approval(roles)'
BY HeldStays DEF Approval

\* What a planner that does not move relies on, while commands go on and clones
\* are replaced under its eyes.
LEMMA PlannerStays ==
  ASSUME TypeOK, PlanTypeOK, Later, NEW p \in Planners, PlannerInv(p),
         planner'[p] = planner[p],
         moved[p] \subseteq moved'[p],
         planner[p].pc \notin {"start", "done"} =>
           \A path \in Paths \ moved'[p] : clone'[path] = clone[path]
  PROVE  PlannerInv(p)'
<1>1. PICK m : m = planner[p]
  OBVIOUS
<1>2. m \in Memory /\ planner'[p] = m
  BY <1>1 DEF PlanTypeOK
<1>3. ASSUME NEW role \in Role, Open(p, role), m.pc \notin {"start", "done"}
      PROVE  Open(p, role)'
  BY <1>1, <1>3 DEF Open, Role
<1>4. (\A c \in m.copy : Held(c)') /\ Approval(m.roles)'
  BY <1>1, HeldStays, ApprovalStays DEF PlannerInv
<1>5. \A i \in DOMAIN m.roles : m.roles[i] \in Role
  BY <1>2 DEF Memory
<1>6. \A i \in DOMAIN m.roles : Fixed(m.roles[i])' <=> Fixed(m.roles[i])
  BY DEF Fixed
<1>7. m.pc = "ask" => m.now \in Role /\ Held(m.now)' /\ Open(p, m.now)'
  BY <1>1, <1>3, HeldStays DEF PlannerInv
<1>8. QED
  BY <1>1, <1>2, <1>3, <1>4, <1>5, <1>6, <1>7 DEF PlannerInv

\* What the planners' invariant needs of a step by one of them: what the others
\* rely on does not move, and neither does what is written unless p writes it.
LEMMA OneMoves ==
  ASSUME TypeOK, PlanTypeOK, PlanInv, NEW p \in Planners, NEW x \in Memory,
         planner' = [planner EXCEPT ![p] = x],
         moved' \in [Planners -> SUBSET Paths],
         \A q \in Planners \ {p} : moved'[q] = moved[q],
         UNCHANGED <<bindings, clone>>,
         PlannerInv(p)',
         output' \in {output, planner[p].roles},
         output' # output =>
           planner[p].pc = "install" /\ Len(planner[p].roles) = 2
  PROVE  PlanTypeOK' /\ PlanInv'
<1>1. PlanTypeOK'
  <2>1. planner[p].roles \in Seq(Role)
    BY DEF PlanTypeOK, Memory
  <2>2. planner' \in [Planners -> Memory]
    BY DEF PlanTypeOK
  <2>3. QED
    BY <2>1, <2>2 DEF PlanTypeOK
<1>2. Later
  BY DEF Later
<1>3. ASSUME NEW q \in Planners
      PROVE  PlannerInv(q)'
  <2>1. CASE q = p
    BY <2>1
  <2>2. CASE q # p
    BY <1>2, <2>2, PlannerStays DEF PlanTypeOK, PlanInv
  <2>3. QED
    BY <2>1, <2>2
<1>4. PICK roles : roles = output'
  OBVIOUS
<1>5. (roles # NoPlan => Len(roles) = 2 /\ Approval(roles)) /\ \A i \in DOMAIN roles : Fixed(roles[i])
  <2>1. CASE output' = output
    BY <1>4, <2>1 DEF PlanInv
  <2>2. CASE output' # output
    BY <1>4, <2>2 DEF PlanInv, PlannerInv
  <2>3. QED
    BY <2>1, <2>2
<1>6. Approval(roles) => Approval(roles)'
  BY <1>2, ApprovalStays
<1>7. \A i \in DOMAIN roles : Fixed(roles[i])' <=> Fixed(roles[i])
  BY DEF Fixed
<1>8. QED
  BY <1>1, <1>3, <1>4, <1>5, <1>6, <1>7 DEF PlanInv

\* A planner that has nothing, before it begins or when it has ended.
LEMMA EmptyPlanner ==
  ASSUME NEW p \in Planners, NEW x \in Memory, planner'[p] = x,
         x = NotBegun \/ x = [NotBegun EXCEPT !.pc = "done"]
  PROVE  PlannerInv(p)'
BY DEF PlannerInv, NotBegun, Approval, NoPlan

\* A planner ends, with a plan or with a refusal.
LEMMA EndKeeps ==
  ASSUME TypeOK, PlanTypeOK, PlanInv, NEW p \in Planners, PlanEnds(p),
         UNCHANGED <<bindings, clone>>,
         output' \in {output, planner[p].roles},
         output' # output =>
           planner[p].pc = "install" /\ Len(planner[p].roles) = 2
  PROVE  PlanTypeOK' /\ PlanInv'
<1>1. PICK blank : blank = NotBegun
  OBVIOUS
<1>2. PICK x : x = [blank EXCEPT !.pc = "done"]
  OBVIOUS
<1>3. <<>> \in Seq(Role)
  OBVIOUS
<1>4. blank \in Memory
  BY <1>1, <1>3 DEF NotBegun, Memory, PlannerPC
<1>5. x \in Memory /\ x.pc = "done"
  BY <1>2, <1>4 DEF Memory, PlannerPC
<1>6. /\ planner' = [planner EXCEPT ![p] = x] /\ moved' \in [Planners -> SUBSET Paths]
      /\ \A q \in Planners \ {p} : moved'[q] = moved[q]
  BY <1>1, <1>2, <1>5 DEF PlanEnds, Becomes, PlanTypeOK
<1>7. planner'[p] = x
  BY <1>6 DEF PlanTypeOK
<1>8. x = NotBegun \/ x = [NotBegun EXCEPT !.pc = "done"]
  BY <1>1, <1>2
<1>9. PlannerInv(p)'
  BY <1>5, <1>7, <1>8, EmptyPlanner
<1>10. QED
  BY <1>5, <1>6, <1>9, OneMoves

\* The bindings are read, and the paths given.
LEMMA PlanStartKeeps ==
  ASSUME TypeOK, PlanTypeOK, PlanInv, NEW p \in Planners, PlanStart(p)
  PROVE  PlanTypeOK' /\ PlanInv'
<1>1. PICK paths \in Paths \X Paths, overwrite \in BOOLEAN : Becomes(p, Begun(paths, overwrite))
  BY DEF PlanStart
<1>2. PICK x : x = Begun(paths, overwrite)
  OBVIOUS
<1>3. /\ x \in Memory /\ x.pc = "inspect" /\ x.copy = bindings
      /\ x.roles = <<>> /\ x.paths # <<>>
  <2>1. Len(paths) = 2 /\ Len(<<>>) = 0
    OBVIOUS
  <2>2. paths # <<>>
    BY <2>1
  <2>3. QED
    BY <1>2, <2>2 DEF Begun, Memory, PlannerPC, TypeOK
<1>4. /\ planner' = [planner EXCEPT ![p] = x] /\ UNCHANGED <<bindings, clone, output, moved>>
  BY <1>1, <1>2, <1>3 DEF Becomes, PlanStart, vars, PlanTypeOK
<1>5. PlannerInv(p)'
  BY <1>3, <1>4 DEF PlannerInv, Held, Approval, NoPlan, PlanTypeOK
<1>6. QED
  BY <1>3, <1>4, <1>5, OneMoves DEF PlanTypeOK

\* One working copy is looked up among the bindings read.
LEMMA PlanInspectKeeps ==
  ASSUME TypeOK, PlanTypeOK, PlanInv, NEW p \in Planners, PlanInspect(p)
  PROVE  PlanTypeOK' /\ PlanInv'
<1>1. UNCHANGED <<bindings, clone, output>> /\ planner[p].pc = "inspect"
  BY DEF PlanInspect, At, vars
<1>2. CASE PlanEnds(p)
  BY <1>1, <1>2, EndKeeps
<1>3. CASE ~PlanEnds(p)
  <2>1. PICK m : m = planner[p]
    OBVIOUS
  <2>2. m \in Memory
    BY <2>1 DEF PlanTypeOK
  <2>3. PICK path : path = m.paths[Len(m.roles) + 1]
    OBVIOUS
  <2>4. path \in Paths
    <3>1. m.paths # <<>> /\ Len(m.roles) < 2 /\ Len(m.roles) \in Nat
      BY <1>1, <2>1, <2>2 DEF PlanInv, PlannerInv, Memory
    <3>2. m.paths \in Paths \X Paths
      BY <2>2, <3>1 DEF Memory
    <3>3. QED
      BY <2>3, <3>1, <3>2
  <2>5. PICK b \in m.copy :
          /\ b.path = path /\ b.clone = clone[path]
          /\ Becomes(p, [m EXCEPT !.pc = "ask",
                    !.now = [path |-> path, id |-> b.id, uid |-> b.uid,
                             source |-> b.source, clone |-> b.clone,
                             commits |-> 0, moved |-> FALSE]])
    BY <1>3, <2>1, <2>3 DEF PlanInspect, Candidates, SameClone
  <2>6. PICK now : now = [path |-> path, id |-> b.id, uid |-> b.uid,
                          source |-> b.source, clone |-> b.clone,
                          commits |-> 0, moved |-> FALSE]
    OBVIOUS
  <2>7. b \in Binding /\ Held(b)
    BY <1>1, <2>1, <2>2 DEF Memory, PlanInv, PlannerInv
  <2>8. now \in Role
    BY <2>4, <2>6, <2>7 DEF Role, Binding
  <2>9. Held(now) /\ Open(p, now)
    BY <2>5, <2>6, <2>7 DEF Held, Open
  <2>10. PICK x : x = [m EXCEPT !.pc = "ask", !.now = now]
    OBVIOUS
  <2>11. /\ x \in Memory /\ x.pc = "ask" /\ x.now = now /\ x.copy = m.copy
         /\ x.roles = m.roles /\ x.paths = m.paths
    BY <2>2, <2>8, <2>10 DEF Memory, PlannerPC
  <2>12. planner' = [planner EXCEPT ![p] = x] /\ UNCHANGED moved
    BY <2>5, <2>6, <2>10, <2>11 DEF Becomes, PlanTypeOK
  <2>13. PlannerInv(p)'
    <3>1. PlannerInv(p)
      BY DEF PlanInv
    <3>2. planner'[p] = x
      BY <2>12 DEF PlanTypeOK
    <3>3. Held(now)' /\ Open(p, now)'
      BY <1>1, <2>9, <2>12 DEF Held, Open
    <3>4. (\A c \in m.copy : Held(c)') /\ Approval(m.roles)'
      BY <1>1, <2>1, <3>1 DEF PlannerInv, Held, Approval
    <3>5. \A i \in DOMAIN m.roles : Open(p, m.roles[i])'
      BY <1>1, <2>1, <2>12, <3>1 DEF PlannerInv, Open
    <3>6. QED
      BY <1>1, <2>1, <2>8, <2>11, <3>1, <3>2, <3>3, <3>4, <3>5 DEF PlannerInv
  <2>14. QED
    BY <1>1, <2>11, <2>12, <2>13, OneMoves DEF PlanTypeOK
<1>4. QED
  BY <1>2, <1>3

\* Core approves the one that is asked about, or not.
LEMMA PlanAskKeeps ==
  ASSUME TypeOK, PlanTypeOK, PlanInv, NEW p \in Planners, PlanAsk(p)
  PROVE  PlanTypeOK' /\ PlanInv'
<1>1. UNCHANGED <<bindings, clone, output>> /\ planner[p].pc = "ask"
  BY DEF PlanAsk, At, unbound, disk
<1>2. CASE PlanEnds(p)
  BY <1>1, <1>2, EndKeeps
<1>3. CASE ~PlanEnds(p)
  <2>1. PICK m : m = planner[p]
    OBVIOUS
  <2>2. /\ m \in Memory /\ m.now \in Role /\ Held(m.now) /\ Open(p, m.now)
        /\ m.paths # <<>> /\ Len(m.roles) < 2 /\ m.roles \in Seq(Role)
    BY <1>1, <2>1 DEF PlanTypeOK, PlanInv, PlannerInv, Memory
  <2>3. PICK roles : roles = Append(m.roles, m.now)
    OBVIOUS
  <2>4. roles \in Seq(Role) /\ Len(roles) = Len(m.roles) + 1 /\ roles # <<>>
    BY <2>2, <2>3
  <2>5. \A i \in DOMAIN roles :
          roles[i] = IF i \in DOMAIN m.roles THEN m.roles[i] ELSE m.now
    BY <2>2, <2>3, <2>4
  <2>6. /\ m.roles = <<>> => m.now.source # NoSource
        /\ \A i \in DOMAIN m.roles :
             m.roles[i].path # m.now.path /\ m.roles[i].uid # m.now.uid
    BY <1>3, <2>1 DEF PlanAsk, Approved, Distinct, Trips
  <2>7. Len(m.paths) = 2
    BY <2>2 DEF Memory
  <2>8. PICK x : x = [m EXCEPT !.roles = roles, !.now = Unresolved,
             !.pc = IF Len(roles) < 2 THEN "inspect" ELSE "commits",
             !.copy = IF Len(roles) < 2 THEN @ ELSE {}]
    OBVIOUS
  <2>9. /\ x \in Memory /\ x.roles = roles /\ x.paths = m.paths
        /\ x.pc = IF Len(roles) < 2 THEN "inspect" ELSE "commits"
        /\ x.copy \subseteq m.copy
    BY <2>2, <2>4, <2>8 DEF Memory, PlannerPC
  <2>10. Becomes(p, x)
    BY <1>3, <2>1, <2>3, <2>7, <2>8 DEF PlanAsk, Trips
  <2>11. planner' = [planner EXCEPT ![p] = x] /\ UNCHANGED moved
    BY <2>9, <2>10 DEF Becomes, PlanTypeOK
  <2>12. \A i \in DOMAIN roles : Held(roles[i])' /\ Open(p, roles[i])'
    BY <1>1, <2>1, <2>2, <2>5, <2>11 DEF PlanInv, PlannerInv, Approval, Held, Open
  <2>13. Approval(roles)'
    <3>1. /\ m.roles # <<>> => m.roles[1].source # NoSource
          /\ \A i, j \in DOMAIN m.roles : i # j =>
               m.roles[i].path # m.roles[j].path /\ m.roles[i].uid # m.roles[j].uid
      BY <2>1 DEF PlanInv, PlannerInv, Approval
    <3>2. roles[1].source # NoSource
      BY <2>2, <2>4, <2>5, <2>6, <3>1
    <3>3. DOMAIN m.roles = 1..Len(m.roles) /\ DOMAIN roles = 1..(Len(m.roles) + 1)
      BY <2>2, <2>4
    <3>4. \A i, j \in DOMAIN roles : i # j =>
            roles[i].path # roles[j].path /\ roles[i].uid # roles[j].uid
      BY <2>2, <2>5, <2>6, <3>1, <3>3
    <3>5. QED
      BY <2>12, <3>2, <3>4 DEF Approval
  <2>14. PlannerInv(p)'
    <3>1. planner'[p] = x
      BY <2>11 DEF PlanTypeOK
    <3>2. \A c \in m.copy : Held(c)'
      BY <1>1, <2>1 DEF PlanInv, PlannerInv, Held
    <3>3. Len(roles) \in {1, 2}
      BY <2>2, <2>4
    <3>4. CASE Len(roles) = 1
      <4>1. x.pc = "inspect"
        BY <2>9, <3>4
      <4>2. QED
        BY <2>2, <2>9, <2>12, <2>13, <3>1, <3>2, <3>4, <4>1 DEF PlannerInv
    <3>5. CASE Len(roles) = 2
      <4>1. x.pc = "commits"
        BY <2>9, <3>5
      <4>2. 1 \in DOMAIN roles /\ roles[1].commits = 0
        BY <2>4, <2>12, <3>5 DEF Open
      <4>3. QED
        BY <2>9, <2>12, <2>13, <3>1, <3>2, <3>5, <4>1, <4>2 DEF PlannerInv
    <3>6. QED
      BY <3>3, <3>4, <3>5
  <2>15. QED
    BY <1>1, <2>9, <2>11, <2>14, OneMoves DEF PlanTypeOK
<1>4. QED
  BY <1>2, <1>3

\* Commits are resolved for one repository, in the working copy as it is now.
LEMMA PlanCommitsKeeps ==
  ASSUME TypeOK, PlanTypeOK, PlanInv, NEW p \in Planners, PlanCommits(p)
  PROVE  PlanTypeOK' /\ PlanInv'
<1>1. UNCHANGED <<bindings, clone, output>> /\ planner[p].pc = "commits"
  BY DEF PlanCommits, At, unbound, disk
<1>2. CASE PlanEnds(p)
  BY <1>1, <1>2, EndKeeps
<1>3. CASE ~PlanEnds(p)
  <2>1. PICK m : m = planner[p]
    OBVIOUS
  <2>2. /\ m \in Memory /\ m.roles \in Seq(Role) /\ Len(m.roles) = 2 /\ Approval(m.roles)
        /\ \A i \in DOMAIN m.roles : Open(p, m.roles[i]) \/ Fixed(m.roles[i])
        /\ \E i \in DOMAIN m.roles : m.roles[i].commits = 0
    BY <1>1, <2>1 DEF PlanTypeOK, PlanInv, PlannerInv, Memory
  <2>3. PICK open : open = {i \in DOMAIN m.roles : m.roles[i].commits = 0}
    OBVIOUS
  <2>4. DOMAIN m.roles = {1, 2}
    BY <2>2
  <2>5. PICK next : next = CHOOSE i \in open : \A j \in open : i <= j
    OBVIOUS
  <2>6. next \in open
    <3>1. \E i \in open : \A j \in open : i <= j
      BY <2>2, <2>3, <2>4
    <3>2. QED
      BY <2>5, <3>1
  <2>7. PICK role : role = m.roles[next]
    OBVIOUS
  <2>8. role \in Role /\ role.commits = 0 /\ Open(p, role) /\ Held(role)
    BY <2>2, <2>3, <2>6, <2>7 DEF Open, Fixed, Approval
  <2>9. PICK commits, gone : commits = clone[role.path] + 1 /\ gone = (role.path \in moved[p])
    OBVIOUS
  <2>10. PICK fixed : fixed = [role EXCEPT !.commits = commits, !.moved = gone]
    OBVIOUS
  <2>11. /\ fixed \in Role /\ fixed.commits = commits /\ fixed.moved = gone
         /\ fixed.path = role.path /\ fixed.id = role.id /\ fixed.uid = role.uid
         /\ fixed.source = role.source /\ fixed.clone = role.clone
    <3>1. commits \in Nat
      BY <2>8, <2>9 DEF Role, TypeOK
    <3>2. gone \in BOOLEAN
      BY <2>9
    <3>3. QED
      BY <2>8, <2>10, <3>1, <3>2 DEF Role
  <2>12. Fixed(fixed) /\ fixed.commits # 0
    <3>1. commits # 0
      BY <2>8, <2>9 DEF Role, TypeOK
    <3>2. QED
      BY <2>8, <2>9, <2>11, <3>1 DEF Fixed, Open
  <2>13. PICK roles : roles = [m.roles EXCEPT ![next] = fixed]
    OBVIOUS
  <2>14. /\ roles \in Seq(Role) /\ Len(roles) = 2 /\ DOMAIN roles = {1, 2}
         /\ roles[next] = fixed /\ \A i \in {1, 2} \ {next} : roles[i] = m.roles[i]
    BY <2>2, <2>3, <2>4, <2>6, <2>11, <2>13
  <2>15. PICK x : x = [m EXCEPT !.roles = roles,
                                !.pc = IF open = {next} THEN "lstat" ELSE "commits"]
    OBVIOUS
  <2>16. /\ x \in Memory /\ x.roles = roles /\ x.copy = m.copy
         /\ x.pc = IF open = {next} THEN "lstat" ELSE "commits"
    BY <2>2, <2>14, <2>15 DEF Memory, PlannerPC
  <2>17. Becomes(p, x)
    <3>1. Becomes(p, [m EXCEPT
            !.roles[next] = [@ EXCEPT !.commits = clone[m.roles[next].path] + 1,
                                      !.moved = m.roles[next].path \in moved[p]],
            !.pc = IF open = {next} THEN "lstat" ELSE "commits"])
      BY <1>3, <2>1, <2>3, <2>5 DEF PlanCommits, Trips
    <3>2. Becomes(p, [m EXCEPT !.roles[next] = fixed,
                               !.pc = IF open = {next} THEN "lstat" ELSE "commits"])
      BY <2>7, <2>9, <2>10, <3>1
    <3>3. QED
      BY <2>2, <2>13, <2>15, <3>2
  <2>18. planner' = [planner EXCEPT ![p] = x] /\ UNCHANGED moved
    BY <2>16, <2>17 DEF Becomes, PlanTypeOK
  <2>19. PlannerInv(p)'
    <3>1. planner'[p] = x
      BY <2>18 DEF PlanTypeOK
    <3>2. \A c \in m.copy : Held(c)'
      BY <1>1, <2>1 DEF PlanInv, PlannerInv, Held
    <3>3. Approval(roles)'
      BY <1>1, <2>2, <2>4, <2>7, <2>11, <2>14 DEF Approval, Held, NoPlan
    <3>4. \A i \in DOMAIN roles : i # next => Open(p, roles[i])' \/ Fixed(roles[i])
      BY <1>1, <2>2, <2>4, <2>14, <2>18 DEF Open
    <3>5. CASE open = {next}
      <4>1. \A i \in DOMAIN roles : Fixed(roles[i])
        BY <2>2, <2>3, <2>4, <2>12, <2>14, <3>5 DEF Open
      <4>2. QED
        BY <2>14, <2>16, <3>1, <3>2, <3>3, <3>5, <4>1 DEF PlannerInv, Fixed
    <3>6. CASE open # {next}
      <4>1. \E i \in DOMAIN roles : roles[i].commits = 0
        BY <2>3, <2>4, <2>6, <2>14, <3>6
      <4>2. QED
        BY <2>12, <2>14, <2>16, <3>1, <3>2, <3>3, <3>4, <3>6, <4>1 DEF PlannerInv, Fixed
    <3>7. QED
      BY <3>5, <3>6
  <2>20. QED
    BY <1>1, <2>16, <2>18, <2>19, OneMoves DEF PlanTypeOK
<1>4. QED
  BY <1>2, <1>3

\* The output path is looked at, and a temporary file is written.
LEMMA PlanLstatKeeps ==
  ASSUME TypeOK, PlanTypeOK, PlanInv, NEW p \in Planners, PlanLstat(p)
  PROVE  PlanTypeOK' /\ PlanInv'
<1>1. UNCHANGED <<bindings, clone, output>> /\ planner[p].pc = "lstat"
  BY DEF PlanLstat, At, unbound, disk
<1>2. CASE PlanEnds(p)
  BY <1>1, <1>2, EndKeeps
<1>3. CASE ~PlanEnds(p)
  <2>1. PICK m : m = planner[p]
    OBVIOUS
  <2>2. m \in Memory
    BY <2>1 DEF PlanTypeOK
  <2>3. PICK x : x = [m EXCEPT !.pc = "install"]
    OBVIOUS
  <2>4. x \in Memory /\ x.pc = "install" /\ x.roles = m.roles /\ x.copy = m.copy
    BY <2>2, <2>3 DEF Memory, PlannerPC
  <2>5. planner' = [planner EXCEPT ![p] = x] /\ UNCHANGED moved
    BY <1>3, <2>1, <2>3, <2>4 DEF PlanLstat, Trips, Becomes, PlanTypeOK
  <2>6. PlannerInv(p)'
    <3>1. planner'[p] = x
      BY <2>5 DEF PlanTypeOK
    <3>2. (\A c \in m.copy : Held(c)') /\ Approval(m.roles)'
      BY <1>1, <2>1 DEF PlanInv, PlannerInv, Approval, Held
    <3>3. QED
      BY <1>1, <2>1, <2>4, <3>1, <3>2 DEF PlanInv, PlannerInv, Fixed
  <2>7. QED
    BY <1>1, <2>4, <2>5, <2>6, OneMoves DEF PlanTypeOK
<1>4. QED
  BY <1>2, <1>3

\* The output file is put in place, or refused because there is one, or in place
\* although the sync of the directory then fails.
LEMMA PlanInstallKeeps ==
  ASSUME TypeOK, PlanTypeOK, PlanInv, NEW p \in Planners, PlanInstall(p)
  PROVE  PlanTypeOK' /\ PlanInv'
<1>1. UNCHANGED <<bindings, clone>> /\ planner[p].pc = "install" /\ PlanEnds(p)
  BY DEF PlanInstall, At, unbound, disk, Trips
<1>2. output' \in {output, planner[p].roles}
  BY DEF PlanInstall
<1>3. Len(planner[p].roles) = 2
  BY <1>1 DEF PlanInv, PlannerInv
<1>4. QED
  BY <1>1, <1>2, <1>3, EndKeeps

\* A planner dies.
LEMMA PlanCrashKeeps ==
  ASSUME TypeOK, PlanTypeOK, PlanInv, NEW p \in Planners, PlanCrash(p)
  PROVE  PlanTypeOK' /\ PlanInv'
<1>1. UNCHANGED <<bindings, clone, output>> /\ PlanEnds(p)
  BY DEF PlanCrash, Trips, unbound, disk
<1>2. QED
  BY <1>1, EndKeeps

\* A planner leaves the commands alone, apart from the count of faults.
LEMMA PlannersDisturbNothing ==
  ASSUME TypeOK, IInv, NEW p \in Planners, PlanStep(p)
  PROVE  TypeOK' /\ IInv'
<1>1. /\ faults' = faults \/ faults' = faults + 1
      /\ UNCHANGED <<unbound, runs, crashes, ages, reclones>>
  BY DEF PlanStep, PlanStart, PlanInspect, PlanAsk, PlanCommits, PlanLstat, PlanInstall,
         PlanCrash, Trips, vars, unbound, disk, core, draws
<1>2. QED
  BY <1>1, FaultsAlone

\* A command's step, or a clone that is replaced, leaves the planners where they
\* are, and what they rely on true.
LEMMA CommandsKeepPlans ==
  ASSUME TypeOK, IInv, PlanTypeOK, PlanInv,
         BindingStep \/ \E path \in Paths : Replace(path)
  PROVE  TypeOK' /\ IInv' /\ PlanTypeOK' /\ PlanInv'
<1>1. [Next]_vars
  BY DEF BindingStep, Replace, Next
<1>2. TypeOK' /\ IInv' /\ Later
  BY <1>1, NextKeeps, IdentitiesStay DEF Later
<1>3. UNCHANGED <<planner, output>>
  BY DEF BindingStep, Replace, planning
<1>4. PlanTypeOK'
  BY <1>3 DEF BindingStep, Replace, planning, PlanTypeOK
<1>5. ASSUME NEW p \in Planners
      PROVE  /\ moved[p] \subseteq moved'[p]
             /\ planner[p].pc \notin {"start", "done"} =>
                  \A path \in Paths \ moved'[p] : clone'[path] = clone[path]
  <2>1. CASE BindingStep
    <3>1. UNCHANGED clone
      BY <2>1 DEF BindingStep, Started, Proceed, Trouble, StartRegister, StartBind, TryLock,
         Inspect, Break, Unlock, LoadToRegister, LoadToBind, Post, Save, DeadlinePasses,
         PostLost, SaveFails, Crash, LockAges, SetState
    <3>2. QED
      BY <2>1, <3>1 DEF BindingStep, planning
  <2>2. ASSUME NEW path \in Paths, Replace(path)
        PROVE  <1>5!2
    BY <2>2 DEF Replace, Reclone, At, TypeOK, PlanTypeOK
  <2>3. QED
    BY <2>1, <2>2
<1>6. ASSUME NEW p \in Planners
      PROVE  PlannerInv(p)'
  BY <1>2, <1>3, <1>5, PlannerStays DEF PlanInv
<1>7. PICK roles : roles = output
  OBVIOUS
<1>8. Approval(roles) => Approval(roles)'
  BY <1>2, ApprovalStays
<1>9. output' = roles /\ (roles # NoPlan => Len(roles) = 2 /\ Approval(roles))
  BY <1>3, <1>7 DEF PlanInv
<1>10. \A i \in DOMAIN output' : Fixed(output'[i])
  BY <1>3 DEF PlanInv, Fixed
<1>11. QED
  BY <1>2, <1>4, <1>6, <1>8, <1>9, <1>10 DEF PlanInv, Fixed

\* Every step of commands and planners keeps both invariants.
LEMMA PlanNextKeeps ==
  ASSUME TypeOK, IInv, PlanTypeOK, PlanInv, [PlanNext]_allVars
  PROVE  TypeOK' /\ IInv' /\ PlanTypeOK' /\ PlanInv'
<1>1. CASE UNCHANGED allVars
  <2>1. UNCHANGED <<vars, planner, output, moved>>
    BY <1>1 DEF allVars
  <2>2. [Next]_vars
    BY <2>1
  <2>3. TypeOK' /\ IInv'
    BY <2>2, NextKeeps
  <2>4. PlanTypeOK' /\ PlanInv'
    BY <2>1 DEF vars, PlanTypeOK, PlanInv, PlannerInv, Approval, Held, Open, Fixed
  <2>5. QED
    BY <2>3, <2>4
<1>2. CASE BindingStep \/ \E path \in Paths : Replace(path)
  BY <1>2, CommandsKeepPlans
<1>3. ASSUME NEW p \in Planners, PlanStep(p)
      PROVE  TypeOK' /\ IInv' /\ PlanTypeOK' /\ PlanInv'
  BY <1>3, PlannersDisturbNothing, PlanStartKeeps, PlanInspectKeeps, PlanAskKeeps,
     PlanCommitsKeeps, PlanLstatKeeps, PlanInstallKeeps, PlanCrashKeeps DEF PlanStep
<1>4. QED
  BY <1>1, <1>2, <1>3 DEF PlanNext

\* The inductive invariant of commands and planners together.
THEOREM PlanInvariantHolds == PlanSpec => [](TypeOK /\ IInv /\ PlanTypeOK /\ PlanInv)
<1>1. ASSUME PlanInit
      PROVE  TypeOK /\ IInv /\ PlanTypeOK /\ PlanInv
  <2>1. TypeOK /\ IInv
    BY <1>1, InitHolds DEF PlanInit
  <2>2. <<>> \in Seq(Role)
    OBVIOUS
  <2>3. NotBegun \in Memory
    BY <2>2 DEF NotBegun, Memory, PlannerPC
  <2>4. PlanTypeOK
    BY <1>1, <2>2, <2>3 DEF PlanInit, PlanTypeOK, NoPlan
  <2>5. PlanInv
    BY <1>1 DEF PlanInit, PlanInv, PlannerInv, NotBegun, NoPlan, Approval
  <2>6. QED
    BY <2>1, <2>4, <2>5
<1>2. TypeOK /\ IInv /\ PlanTypeOK /\ PlanInv /\ [PlanNext]_allVars
        => TypeOK' /\ IInv' /\ PlanTypeOK' /\ PlanInv'
  BY PlanNextKeeps
<1>3. QED
  BY <1>1, <1>2, PTL DEF PlanSpec

\* Type correctness of the planners and of the plan.
THEOREM PlanTypeCorrect == PlanSpec => []PlanTypeOK
BY PlanInvariantHolds, PTL

\* The planners, which take no lock, disturb no command: until a lock grows stale
\* one command is inside and a path has one binding, also beside planners.
THEOREM PlannersAreHarmless ==
  PlanSpec => [](OneHolder /\ OneBindingPerPath /\ BindingsBacked /\ NoOrphans)
<1>1. IInv => OneHolder /\ OneBindingPerPath /\ BindingsBacked /\ NoOrphans
  BY DEF IInv, LockInv, OneHolder, BackedInv
<1>2. QED
  BY <1>1, PlanInvariantHolds, PTL

\* A written plan names two repositories that are bound and that Core has
\* (createScanPlan, resolveLocalRepository), although the bindings were read
\* without their lock and the plan is older than every later command.
THEOREM PlanBacked == PlanSpec => []PlanIsBacked
<1>1. ASSUME TypeOK, IInv, PlanTypeOK, PlanInv
      PROVE  PlanIsBacked
  <2>1. SUFFICES ASSUME output # NoPlan
                 PROVE  PlanIsBacked
    BY DEF PlanIsBacked
  <2>2. Approval(output) /\ DOMAIN output = 1..2
    BY <1>1, <2>1 DEF PlanInv, PlanTypeOK
  <2>3. ASSUME NEW i \in 1..2
        PROVE  [uid |-> output[i].uid, source |-> output[i].source] \in registered
    <3>1. PICK b \in bindings : b.uid = output[i].uid /\ b.source = output[i].source
      BY <2>2 DEF Approval, Held
    <3>2. QED
      BY <1>1, <3>1 DEF IInv, BackedInv, BindingsBacked
  <2>4. QED
    BY <2>1, <2>2, <2>3 DEF PlanIsBacked, Approval, Held, NoPlan
<1>2. TypeOK /\ IInv /\ PlanTypeOK /\ PlanInv => PlanIsBacked
  BY <1>1
<1>3. QED
  BY <1>2, PlanInvariantHolds, PTL

\* And its commits are those of the clone that was bound, unless that clone was
\* replaced while the plan was being made.
THEOREM CommitsBound == PlanSpec => []CommitsAreBound
<1>1. PlanInv => CommitsAreBound
  BY DEF PlanInv, Fixed, CommitsAreBound
<1>2. QED
  BY <1>1, PlanInvariantHolds, PTL

\* A plan that exists is replaced by a planner with --overwrite only
\* (writeProtectedPlan links, and does not rename, without it).
THEOREM PlanStays == PlanSpec => NoPlanReplaced
<1> DEFINE A == output # NoPlan /\ output' # output =>
                  \E p \in Planners : planner[p].overwrite /\ planner'[p] # planner[p]
<1>1. ASSUME PlanTypeOK, [PlanNext]_allVars, output # NoPlan, output' # output
      PROVE  \E p \in Planners : planner[p].overwrite /\ planner'[p] # planner[p]
  <2>1. PICK p \in Planners : PlanInstall(p)
    BY <1>1 DEF PlanNext, allVars, BindingStep, planning, Replace, PlanStep, PlanStart,
       PlanInspect, PlanAsk, PlanCommits, PlanLstat, PlanCrash
  <2>2. planner[p].overwrite /\ planner[p].pc = "install" /\ PlanEnds(p)
    BY <1>1, <2>1 DEF PlanInstall, MayInstall, At, Trips
  <2>3. PICK blank : blank = NotBegun
    OBVIOUS
  <2>4. DOMAIN blank = {"pc", "paths", "overwrite", "copy", "roles", "now"}
    BY <2>3 DEF NotBegun
  <2>5. planner'[p] = [blank EXCEPT !.pc = "done"]
    BY <1>1, <2>2, <2>3 DEF PlanEnds, Becomes, PlanTypeOK
  <2>6. planner'[p].pc = "done"
    BY <2>4, <2>5
  <2>7. QED
    BY <2>2, <2>6
<1>2. PlanTypeOK /\ [PlanNext]_allVars => [A]_allVars
  BY <1>1
<1>3. QED
  BY <1>2, PlanInvariantHolds, PTL DEF PlanSpec, NoPlanReplaced
=============================================================================
