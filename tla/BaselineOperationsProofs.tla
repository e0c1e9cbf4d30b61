----------------------- MODULE BaselineOperationsProofs -----------------------
(* Proofs about the two resumable operations, as MCBaselineOperations puts them
   together, for any number of processes, attempts and index identities and
   every value of the bounds.  Every behaviour is one of the one or of the other
   from beginning to end, so what each promises, the two promise together: one
   job per snapshot or intent, true words about it, and no resume turned away
   from a run that Core has.

   What is hard about the index is proved in BaselineIndexProofs, by itself, and
   what is hard about the run here. The argument is the same: copies of the
   record are saved over each other in any order, and each says only what Core
   said and does not take back. Two things differ in the run. A save may fail
   after it replaced the file, so the record may be the one that was to be saved
   although its process thinks it was not. And Core's refusal of a stale
   publication is remembered, because it is the only excuse that a conflict in
   the record has before the run ends. *)
EXTENDS MCBaselineOperations, TLAPS

-----------------------------------------------------------------------------
(* The run by itself (BaselineRun).                                        *)

\* What one step leaves of all that a process may know.
Later ==
  /\ \A state \in Run!Ended : Run!Announced({state}) => Run!Announced({state})'
  /\ refused => refused'
  /\ Run!Kept => Run!Kept'
  /\ Run!SuccessTold => Run!SuccessTold'

-----------------------------------------------------------------------------
(* What stays true while others work.                                      *)

\* An excuse for a conflict stays one.
LEMMA ExcusedLater ==
  ASSUME Run!TypeOK, Later, Run!Excused
  PROVE  Run!Excused'
<1>1. CASE refused
  BY <1>1 DEF Later, Run!Excused
<1>2. CASE Run!Announced(Run!Failed)
  <2>1. PICK j \in jobs : j.state \in Run!Failed
    BY <1>2 DEF Run!Announced
  <2>2. Run!Announced({j.state}) /\ j.state \in Run!Ended
    BY <2>1 DEF Run!Announced, Run!Ended
  <2>3. QED
    BY <2>1, <2>2 DEF Later, Run!Announced, Run!Excused
<1>3. QED
  BY <1>1, <1>2 DEF Run!Excused

\* What a copy of the record says stays true.
LEMMA StateLater ==
  ASSUME Run!TypeOK, Later, NEW s \in Run!StateRecord, Run!StateFits(s)
  PROVE  Run!StateFits(s)'
BY ExcusedLater DEF Later, Run!StateFits

\* What a process knows stays true.
LEMMA MemoryLater ==
  ASSUME Run!TypeOK, Later, NEW m \in Run!Memory, Run!MemoryFits(m)
  PROVE  Run!MemoryFits(m)'
<1>1. Run!StateFits(m.state)'
  BY StateLater DEF Run!Memory, Run!MemoryFits
<1>2. Run!ResultFits(m)'
  BY DEF Run!MemoryFits, Run!ResultFits, Later
<1>3. Run!FailureFits(m)'
  BY ExcusedLater DEF Run!MemoryFits, Run!FailureFits, Run!Absent
<1>4. Run!PlaceFits(m)'
  BY DEF Run!MemoryFits, Run!PlaceFits, Later, Run!Absent
<1>5. QED
  BY <1>1, <1>2, <1>3, <1>4 DEF Run!MemoryFits

\* A step of one process leaves the knowledge of all in order.
LEMMA Moves ==
  ASSUME Run!TypeOK, Later, NEW p \in Processes, NEW x,
         \A q \in Processes : Run!MemoryFits(me[q]),
         me' = [me EXCEPT ![p] = x], Run!MemoryFits(x)'
  PROVE  \A q \in Processes : Run!MemoryFits(me[q])'
<1>1. SUFFICES ASSUME NEW q \in Processes
               PROVE  Run!MemoryFits(me[q])'
  OBVIOUS
<1>2. CASE q = p
  BY <1>2 DEF Run!TypeOK
<1>3. CASE q # p
  <2>1. PICK m : m = me[q]
    OBVIOUS
  <2>2. m \in Run!Memory /\ Run!MemoryFits(m) /\ me'[q] = m
    BY <1>3, <2>1 DEF Run!TypeOK
  <2>3. Run!MemoryFits(m)'
    BY <2>2, MemoryLater
  <2>4. QED
    BY <2>2, <2>3
<1>4. QED
  BY <1>2, <1>3

-----------------------------------------------------------------------------
(* The shape of a step.                                                    *)

\* A step that leaves Core alone takes nothing back.
LEMMA CoreSame ==
  ASSUME UNCHANGED Run!core, told \subseteq told', Run!Kept => Run!Kept'
  PROVE  Later
  BY DEF Run!core, Later, Run!Announced, Run!Kept, Run!SuccessTold

\* The record stays in order while it is left alone.
LEMMA RecordLater ==
  ASSUME Run!TypeOK, Later, Run!StateFits(record), record' = record
  PROVE  Run!StateFits(record)'
<1>1. PICK s : s = record
  OBVIOUS
<1>2. s \in Run!StateRecord /\ Run!StateFits(s) /\ record' = s
  BY <1>1 DEF Run!TypeOK
<1>3. Run!StateFits(s)'
  BY <1>2, StateLater
<1>4. QED
  BY <1>2, <1>3

\* A step of a process that leaves Core alone: what it saves and what it tells is
\* true, and it remembers what it may.
LEMMA Working ==
  ASSUME Run!TypeOK, Run!IInv, UNCHANGED <<Run!core, upgrades>>,
         runs' \in 0..MaxRuns, faults' \in 0..MaxFaults, crashes' \in 0..MaxCrashes,
         NEW s \in Run!StateRecord, record' = s, Run!StateFits(s), Run!Kept => Run!Kept',
         told \subseteq told', told' \subseteq Run!Ended,
         \A state \in told' : Run!Announced({state}),
         NEW p \in Processes, NEW m, m = me[p], NEW x \in Run!Memory,
         me' = [me EXCEPT ![p] = x], Run!MemoryFits(m)' /\ Run!StateFits(s)' => Run!MemoryFits(x)'
  PROVE  Run!TypeOK' /\ Run!IInv'
<1>1. Run!TypeOK'
  BY DEF Run!TypeOK, Run!core
<1>2. Later
  BY CoreSame DEF Run!core
<1>3. Run!StateFits(s)' /\ Run!StateFits(record)'
  BY <1>2, StateLater
<1>4. (\A state \in told : Run!Announced({state}))'
  BY <1>2 DEF Later
<1>5. Run!MemoryFits(x)'
  <2>1. m \in Run!Memory /\ Run!MemoryFits(m)
    BY DEF Run!TypeOK, Run!IInv
  <2>2. QED
    BY <1>2, <1>3, <2>1, MemoryLater
<1>6. \A q \in Processes : Run!MemoryFits(me[q])'
  BY <1>2, <1>5, Moves DEF Run!IInv
<1>7. Run!CoreFits' /\ (jobs # {} => Run!Kept)'
  BY DEF Run!IInv, Run!CoreFits, Run!OneJob, Run!core
<1>8. QED
  BY <1>1, <1>3, <1>4, <1>6, <1>7 DEF Run!IInv

\* A step that saves a record, or fails to, and tells nothing.
LEMMA Saving ==
  ASSUME Run!TypeOK, Run!IInv, UNCHANGED <<Run!core, told, upgrades>>,
         runs' \in 0..MaxRuns, faults' \in 0..MaxFaults, crashes' \in 0..MaxCrashes,
         NEW saved \in Run!StateRecord, Run!StateFits(saved), ~Run!Absent(saved),
         record' \in {record, saved},
         NEW p \in Processes, NEW m, m = me[p], NEW x \in Run!Memory,
         me' = [me EXCEPT ![p] = x],
         Run!MemoryFits(m)' /\ Run!StateFits(saved)' /\ (record' = saved => Run!Kept') => Run!MemoryFits(x)'
  PROVE  Run!TypeOK' /\ Run!IInv'
<1>1. PICK s : s = record'
  OBVIOUS
<1>2. s \in Run!StateRecord /\ Run!StateFits(s) /\ record' = s
  BY <1>1 DEF Run!TypeOK, Run!IInv
<1>3. (Run!Kept => Run!Kept') /\ (record' = saved => Run!Kept')
  BY DEF Run!Kept, Run!SuccessTold, Run!Absent
<1>4. Run!StateFits(saved)'
  BY <1>3, CoreSame, StateLater
<1>5. told \subseteq told' /\ told' \subseteq Run!Ended /\ \A state \in told' : Run!Announced({state})
  BY DEF Run!TypeOK, Run!IInv
<1>6. QED
  BY <1>2, <1>3, <1>4, <1>5, Working

\* A step that changes nothing but the memory of a process and the counters.
LEMMA Private ==
  ASSUME Run!TypeOK, Run!IInv, UNCHANGED <<Run!core, record, told, upgrades>>,
         runs' \in 0..MaxRuns, faults' \in 0..MaxFaults, crashes' \in 0..MaxCrashes,
         NEW p \in Processes, NEW x \in Run!Memory,
         me' = [me EXCEPT ![p] = x], Run!MemoryFits(x)
  PROVE  Run!TypeOK' /\ Run!IInv'
<1>1. PICK m, s : m = me[p] /\ s = record
  OBVIOUS
<1>2. s \in Run!StateRecord /\ record' = s /\ Run!StateFits(s) /\ (Run!Kept => Run!Kept')
  BY <1>1 DEF Run!TypeOK, Run!IInv, Run!Kept, Run!SuccessTold, Run!Absent
<1>3. Run!MemoryFits(x)'
  BY <1>2, CoreSame, MemoryLater
<1>4. told \subseteq told' /\ told' \subseteq Run!Ended /\ \A state \in told' : Run!Announced({state})
  BY DEF Run!TypeOK, Run!IInv
<1>5. QED
  BY <1>1, <1>2, <1>3, <1>4, Working

\* A failure that no end of the run is blamed for.
LEMMA FailsFits ==
  ASSUME NEW m \in Run!Memory, Run!MemoryFits(m), m.pc \notin {"finalize", "output"},
         NEW kind \in Run!Kinds, kind # "terminal",
         kind = "conflict" => Run!Absent(m.state) \/ Run!Excused
  PROVE  /\ [m EXCEPT !.pc = "failing", !.why = kind] \in Run!Memory
         /\ Run!MemoryFits([m EXCEPT !.pc = "failing", !.why = kind])
<1> DEFINE x == [m EXCEPT !.pc = "failing", !.why = kind]
<1>1. x \in Run!Memory
  BY DEF Run!Memory, Run!PC
<1>2. /\ x.pc = "failing" /\ x.why = kind /\ x.state = m.state /\ x.result = m.result
      /\ x.key = m.key /\ x.cleanup = m.cleanup
  BY DEF Run!Memory
<1>3. Run!ResultFits(x) /\ Run!FailureFits(x) /\ Run!PlaceFits(x)
  BY <1>2 DEF Run!MemoryFits, Run!ResultFits, Run!FailureFits, Run!PlaceFits
<1>4. QED
  BY <1>1, <1>2, <1>3 DEF Run!MemoryFits

\* A process that ends knows nothing of the run.
LEMMA IdleFits ==
  ASSUME Run!AttemptsAssumption
  PROVE  Run!Idle \in Run!Memory /\ Run!MemoryFits(Run!Idle)
<1>1. 0 \in 0..Attempts - 1 /\ 0 \in Nat
  BY DEF Run!AttemptsAssumption
<1>2. Run!NoRecord \in Run!StateRecord
  BY DEF Run!NoRecord, Run!StateRecord
<1>3. Run!Idle \in Run!Memory
  BY <1>1, <1>2
     DEF Run!Idle, Run!Memory, Run!PC, Run!Modes, Run!Kinds, Run!Result, Run!JobState, Run!Pending
<1>4. Run!MemoryFits(Run!Idle)
  BY DEF Run!Idle, Run!NoRecord, Run!MemoryFits, Run!StateFits, Run!ResultFits, Run!FailureFits,
         Run!PlaceFits, Run!Absent,
         Run!Ended, Run!Failed
<1>5. QED
  BY <1>3, <1>4

-----------------------------------------------------------------------------
(* An invocation, step by step.                                            *)

\* An invocation begins with what it derives again.
LEMMA StartStep ==
  ASSUME Run!TypeOK, Run!BoundsAssumption, Run!IInv, NEW p \in Processes,
         NEW mode \in Run!Modes, NEW wait \in BOOLEAN, Run!Start(p, mode, wait)
  PROVE  Run!TypeOK' /\ Run!IInv'
<1>1. PICK m : m = me[p]
  OBVIOUS
<1> DEFINE x == [m EXCEPT !.pc = "capabilities", !.mode = mode, !.wait = wait,
                   !.key = Run!Key(p)]
<1>2. m \in Run!Memory /\ Run!MemoryFits(m) /\ m.pc = "idle"
  BY <1>1 DEF Run!TypeOK, Run!IInv, Run!Start
<1>3. x \in Run!Memory
  BY <1>2 DEF Run!Memory, Run!Key, Run!PC
<1>4. Run!MemoryFits(x)
  BY <1>2 DEF Run!Memory, Run!Key, Run!MemoryFits, Run!ResultFits, Run!FailureFits, Run!PlaceFits
<1>5. me' = [me EXCEPT ![p] = x]
  BY <1>1 DEF Run!Start, Run!Set
<1>6. runs' \in 0..MaxRuns
  BY DEF Run!Start, Run!TypeOK, Run!BoundsAssumption
<1>7. QED
  BY <1>3, <1>4, <1>5, <1>6, Private DEF Run!Start, Run!TypeOK, Run!core

\* A change of what Core requires is met while nothing is known of the record.
LEMMA CapabilitiesStep ==
  ASSUME Run!TypeOK, Run!AttemptsAssumption, Run!IInv, NEW p \in Processes, Run!Capabilities(p)
  PROVE  Run!TypeOK' /\ Run!IInv'
<1>1. PICK m : m = me[p]
  OBVIOUS
<1> DEFINE place == IF m.mode = "inspect" THEN "status" ELSE "load"
           x == [m EXCEPT !.attempt = 0, !.ready = ready, !.pc = place]
<1>2. m \in Run!Memory /\ Run!MemoryFits(m) /\ m.pc = "capabilities"
  BY <1>1 DEF Run!TypeOK, Run!IInv, Run!Capabilities
<1>3. CASE me' = [me EXCEPT ![p] = x]
  <2>1. ready \in BOOLEAN /\ 0 \in 0..Attempts - 1
    BY DEF Run!TypeOK, Run!AttemptsAssumption
  <2>2. x \in Run!Memory
    BY <1>2, <2>1 DEF Run!Memory, Run!PC
  <2>3. /\ x.pc \in {"status", "load"} /\ x.state = m.state /\ x.result = m.result
        /\ x.key = m.key /\ x.cleanup = m.cleanup
    BY <1>2 DEF Run!Memory
  <2>4. Run!MemoryFits(x)
    BY <1>2, <2>3 DEF Run!MemoryFits, Run!ResultFits, Run!FailureFits, Run!PlaceFits
  <2>5. QED
    BY <1>3, <2>2, <2>4, Private DEF Run!Capabilities, Run!TypeOK, Run!core, Run!counters
<1>4. CASE Run!Fails(p, "conflict")
  <2> DEFINE y == [m EXCEPT !.pc = "failing", !.why = "conflict"]
  <2>1. y \in Run!Memory /\ Run!MemoryFits(y)
    BY <1>2, FailsFits DEF Run!Kinds, Run!MemoryFits, Run!PlaceFits
  <2>2. me' = [me EXCEPT ![p] = y]
    BY <1>1, <1>4 DEF Run!Fails, Run!Set
  <2>3. QED
    BY <2>1, <2>2, Private DEF Run!Capabilities, Run!TypeOK, Run!core, Run!counters
<1>5. QED
  BY <1>1, <1>3, <1>4 DEF Run!Capabilities, Run!Set

\* What the record says becomes what the process knows.
LEMMA ResumeFits ==
  ASSUME NEW m \in Run!Memory, Run!MemoryFits(m), m.pc = "load",
         NEW s \in Run!StateRecord, Run!StateFits(s),
         NEW place \in {"create", "failing", "status", "submit"}, NEW kind \in Run!Kinds,
         place = "failing" => kind # "terminal" /\ (kind = "conflict" => s.safe \in Run!Blocked),
         place = "submit" => Run!Kept,
         NEW x, x = [m EXCEPT !.state = s, !.ready = FALSE, !.pc = place, !.why = kind]
  PROVE  x \in Run!Memory /\ Run!MemoryFits(x)
<1>1. x \in Run!Memory
  BY DEF Run!Memory, Run!PC
<1>2. /\ x.pc = place /\ x.why = kind /\ x.state = s /\ x.key = m.key
      /\ x.result = m.result /\ x.cleanup = m.cleanup
  BY DEF Run!Memory
<1>3. s.safe \in Run!Blocked => Run!Excused
  BY DEF Run!StateFits, Run!Blocked, Run!Ended, Run!Failed, Run!Excused, Run!Announced
<1>4. Run!ResultFits(x) /\ Run!FailureFits(x) /\ Run!PlaceFits(x)
  BY <1>2, <1>3 DEF Run!MemoryFits, Run!ResultFits, Run!FailureFits, Run!PlaceFits
<1>5. QED
  BY <1>1, <1>2, <1>4 DEF Run!MemoryFits

\* A record that is blocked ends the invocation; any other one tells where it
\* goes on.
LEMMA LoadStep ==
  ASSUME Run!TypeOK, Run!IInv, NEW p \in Processes, Run!Load(p)
  PROVE  Run!TypeOK' /\ Run!IInv'
<1>1. PICK m, s : m = me[p] /\ s = record
  OBVIOUS
<1>2. /\ m \in Run!Memory /\ Run!MemoryFits(m) /\ m.pc = "load" /\ m.why \in Run!Kinds
      /\ s \in Run!StateRecord /\ Run!StateFits(s)
  BY <1>1 DEF Run!TypeOK, Run!IInv, Run!Load, Run!Memory
<1> DEFINE known == [m EXCEPT !.state = s, !.ready = FALSE]
           resumed(place, kind) ==
             [m EXCEPT !.state = s, !.ready = FALSE, !.pc = place, !.why = kind]
           moves(x) == me' = [me EXCEPT ![p] = x]
<1>3. \A place, kind : [known EXCEPT !.pc = place, !.why = kind] = resumed(place, kind)
  BY <1>2 DEF Run!Memory
<1>4. \A place : [known EXCEPT !.pc = place] = resumed(place, m.why)
  BY <1>2 DEF Run!Memory
<1>5. \/ moves([m EXCEPT !.pc = "failing", !.why = "input"])
      \/ moves([known EXCEPT !.pc = "failing", !.why = "capability"])
      \/ moves([known EXCEPT !.pc = "create"])
      \/ s.safe \in Run!Blocked /\ moves([known EXCEPT !.pc = "failing", !.why = "conflict"])
      \/ moves([known EXCEPT !.pc = "status"])
      \/ ~Run!Absent(s) /\ moves([known EXCEPT !.pc = "submit"])
  BY <1>1, <1>2 DEF Run!Load, Run!Set, Run!Fails
<1>6. \E x \in Run!Memory : Run!MemoryFits(x) /\ moves(x)
  <2>1. ~Run!Absent(s) => Run!Kept
    BY <1>1 DEF Run!Kept
  <2>2. CASE moves([m EXCEPT !.pc = "failing", !.why = "input"])
    BY <1>2, <2>2, FailsFits DEF Run!Kinds
  <2>3. CASE moves([known EXCEPT !.pc = "failing", !.why = "capability"])
    BY <1>2, <1>3, <2>3, ResumeFits DEF Run!Kinds
  <2>4. CASE moves([known EXCEPT !.pc = "create"])
    BY <1>2, <1>4, <2>4, ResumeFits
  <2>5. CASE s.safe \in Run!Blocked /\ moves([known EXCEPT !.pc = "failing", !.why = "conflict"])
    BY <1>2, <1>3, <2>5, ResumeFits DEF Run!Kinds
  <2>6. CASE moves([known EXCEPT !.pc = "status"])
    BY <1>2, <1>4, <2>6, ResumeFits
  <2>7. CASE ~Run!Absent(s) /\ moves([known EXCEPT !.pc = "submit"])
    BY <1>2, <1>4, <2>1, <2>7, ResumeFits
  <2>8. QED
    BY <1>5, <2>2, <2>3, <2>4, <2>5, <2>6, <2>7
<1>7. QED
  BY <1>6, Private DEF Run!Load, Run!TypeOK, Run!core, Run!counters

\* The first record knows no run; if it cannot be saved, nothing is submitted.
LEMMA CreateStep ==
  ASSUME Run!TypeOK, Run!BoundsAssumption, Run!IInv, NEW p \in Processes, Run!Create(p)
  PROVE  Run!TypeOK' /\ Run!IInv'
<1>1. PICK m : m = me[p]
  OBVIOUS
<1> DEFINE fresh == [Run!NoRecord EXCEPT !.safe = "prepared"]
<1>2. m \in Run!Memory /\ Run!MemoryFits(m) /\ m.pc = "create"
  BY <1>1 DEF Run!TypeOK, Run!IInv, Run!Create
<1>3. fresh \in Run!StateRecord /\ Run!StateFits(fresh) /\ ~Run!Absent(fresh)
  BY DEF Run!StateRecord, Run!NoRecord, Run!StateFits, Run!Absent, Run!Ended, Run!Failed
<1>4. /\ record' \in {record, fresh} /\ faults' \in 0..MaxFaults
      /\ UNCHANGED <<Run!core, told, runs, crashes, upgrades>>
  BY DEF Run!Create, Run!SaveFails, Run!TypeOK, Run!BoundsAssumption
<1>5. CASE record' = fresh /\ me' = [me EXCEPT ![p] = [m EXCEPT !.pc = "submit", !.state = fresh]]
  <2> DEFINE x == [m EXCEPT !.pc = "submit", !.state = fresh]
  <2>1. x \in Run!Memory
    BY <1>2, <1>3 DEF Run!Memory, Run!PC
  <2>2. /\ x.pc = "submit" /\ x.state = fresh /\ x.result = m.result
        /\ x.key = m.key /\ x.cleanup = m.cleanup
    BY <1>2 DEF Run!Memory
  <2>3. Run!MemoryFits(m)' /\ Run!StateFits(fresh)' /\ Run!Kept' => Run!MemoryFits(x)'
    BY <1>2, <2>2 DEF Run!MemoryFits, Run!ResultFits, Run!FailureFits, Run!PlaceFits
  <2>4. QED
    BY <1>1, <1>3, <1>4, <1>5, <2>1, <2>3, Saving DEF Run!TypeOK
<1>6. CASE Run!Fails(p, "internal")
  <2> DEFINE x == [m EXCEPT !.pc = "failing", !.why = "internal"]
  <2>1. x \in Run!Memory
    BY <1>2, FailsFits DEF Run!Kinds
  <2>2. /\ x.pc = "failing" /\ x.why = "internal" /\ x.state = m.state
        /\ x.result = m.result /\ x.key = m.key /\ x.cleanup = m.cleanup
    BY <1>2 DEF Run!Memory
  <2>3. Run!MemoryFits(m)' => Run!MemoryFits(x)'
    BY <1>2, <2>2 DEF Run!MemoryFits, Run!ResultFits, Run!FailureFits, Run!PlaceFits
  <2>4. me' = [me EXCEPT ![p] = x]
    BY <1>1, <1>6 DEF Run!Fails, Run!Set
  <2>5. QED
    BY <1>1, <1>3, <1>4, <2>1, <2>3, <2>4, Saving DEF Run!TypeOK
<1>7. QED
  BY <1>1, <1>5, <1>6 DEF Run!Create, Run!Set

\* An accepted run is saved before anything else happens to it.
LEMMA AcceptedStep ==
  ASSUME Run!TypeOK, Run!BoundsAssumption, Run!IInv, NEW p \in Processes, Run!Accepted(p)
  PROVE  Run!TypeOK' /\ Run!IInv'
<1>1. PICK m : m = me[p]
  OBVIOUS
<1> DEFINE saved == [job |-> TRUE, safe |-> "queued"]
<1>2. m \in Run!Memory /\ Run!MemoryFits(m) /\ m.pc = "accepted" /\ ~m.cleanup
  BY <1>1 DEF Run!TypeOK, Run!IInv, Run!Accepted, Run!MemoryFits, Run!ResultFits
<1>3. saved \in Run!StateRecord /\ Run!StateFits(saved) /\ ~Run!Absent(saved)
  BY DEF Run!StateRecord, Run!JobState, Run!Pending, Run!StateFits, Run!Absent, Run!Ended,
         Run!Failed
<1>4. /\ record' \in {record, saved} /\ faults' \in 0..MaxFaults
      /\ UNCHANGED <<Run!core, told, runs, crashes, upgrades>>
  BY DEF Run!Accepted, Run!SaveFails, Run!TypeOK, Run!BoundsAssumption
<1>5. \E x \in Run!Memory : /\ Run!MemoryFits(m)' /\ Run!StateFits(saved)' => Run!MemoryFits(x)'
                        /\ me' = [me EXCEPT ![p] = x]
  <2> DEFINE place == IF m.wait \/ m.mode = "resume" THEN "status" ELSE "output"
             x == [m EXCEPT !.state = saved, !.result = "queued", !.pc = place]
             y == [m EXCEPT !.state = saved, !.pc = "failing", !.why = "internal"]
  <2>1. CASE me' = [me EXCEPT ![p] = x]
    <3>1. x \in Run!Memory
      BY <1>2, <1>3 DEF Run!Memory, Run!PC, Run!Result, Run!JobState, Run!Pending
    <3>2. /\ x.pc \in {"status", "output"} /\ x.state = saved /\ x.result = "queued"
          /\ x.key = m.key /\ x.cleanup = m.cleanup
      BY <1>2 DEF Run!Memory
    <3>3. Run!MemoryFits(m)' /\ Run!StateFits(saved)' => Run!MemoryFits(x)'
      BY <1>2, <3>2
         DEF Run!MemoryFits, Run!ResultFits, Run!FailureFits, Run!PlaceFits, Run!Ended, Run!Failed
    <3>4. QED
      BY <2>1, <3>1, <3>3
  <2>2. CASE me' = [me EXCEPT ![p] = y]
    <3>1. y \in Run!Memory
      BY <1>2, <1>3 DEF Run!Memory, Run!PC, Run!Kinds
    <3>2. /\ y.pc = "failing" /\ y.why = "internal" /\ y.state = saved
          /\ y.result = m.result /\ y.key = m.key /\ y.cleanup = m.cleanup
      BY <1>2 DEF Run!Memory
    <3>3. Run!MemoryFits(m)' /\ Run!StateFits(saved)' => Run!MemoryFits(y)'
      BY <1>2, <3>2 DEF Run!MemoryFits, Run!ResultFits, Run!FailureFits, Run!PlaceFits
    <3>4. QED
      BY <2>2, <3>1, <3>3
  <2>3. QED
    BY <1>1, <2>1, <2>2 DEF Run!Accepted, Run!Set
<1>6. QED
  <2>1. PICK x \in Run!Memory : /\ Run!MemoryFits(m)' /\ Run!StateFits(saved)' => Run!MemoryFits(x)'
                            /\ me' = [me EXCEPT ![p] = x]
    BY <1>5
  <2>2. QED
    BY <1>1, <1>3, <1>4, <2>1, Saving DEF Run!TypeOK

\* What is read of the run is what Core says.
LEMMA PollStep ==
  ASSUME Run!TypeOK, Run!AttemptsAssumption, Run!IInv, NEW p \in Processes, Run!Poll(p)
  PROVE  Run!TypeOK' /\ Run!IInv'
<1>1. PICK m : m = me[p]
  OBVIOUS
<1>2. m \in Run!Memory /\ Run!MemoryFits(m) /\ m.pc = "status"
  BY <1>1 DEF Run!TypeOK, Run!IInv, Run!Poll
<1>3. PICK j \in jobs : me' = [me EXCEPT ![p] =
                               [m EXCEPT !.pc = "apply", !.attempt = 0, !.seen = j.state]]
  BY <1>1 DEF Run!Poll, Run!Known, Run!Set
<1> DEFINE x == [m EXCEPT !.pc = "apply", !.attempt = 0, !.seen = j.state]
<1>4. 0 \in 0..Attempts - 1 /\ j.state \in Run!JobState
  BY DEF Run!AttemptsAssumption, Run!TypeOK, Run!Job
<1>5. x \in Run!Memory
  BY <1>2, <1>4 DEF Run!Memory, Run!PC
<1>6. /\ x.pc = "apply" /\ x.seen = j.state /\ x.state = m.state
      /\ x.key = m.key /\ x.result = m.result /\ x.cleanup = m.cleanup
  BY <1>2 DEF Run!Memory
<1>7. Run!MemoryFits(x)
  BY <1>2, <1>6 DEF Run!MemoryFits, Run!ResultFits, Run!FailureFits, Run!PlaceFits, Run!Announced
<1>8. QED
  BY <1>3, <1>5, <1>7, Private DEF Run!Poll, Run!TypeOK, Run!core, Run!counters

\* Where a process goes with the status that it read.
LEMMA AfterFits ==
  ASSUME NEW known \in Run!Memory, known.pc = "apply", known.result = known.seen,
         NEW p \in Processes, Run!AfterStatus(p, known)
  PROVE  \E x \in Run!Memory : /\ Run!MemoryFits(known)' => Run!MemoryFits(x)'
                           /\ me' = [me EXCEPT ![p] = x]
<1>1. CASE /\ known.seen \in Run!Failed
           /\ me' = [me EXCEPT ![p] = [known EXCEPT !.pc = "failing", !.why = "terminal"]]
  <2> DEFINE x == [known EXCEPT !.pc = "failing", !.why = "terminal"]
  <2>1. x \in Run!Memory
    BY DEF Run!Memory, Run!PC, Run!Kinds
  <2>2. /\ x.pc = "failing" /\ x.why = "terminal" /\ x.state = known.state
        /\ x.result = known.result /\ x.key = known.key /\ x.cleanup = known.cleanup
    BY DEF Run!Memory
  <2>3. Run!MemoryFits(known)' => Run!MemoryFits(x)'
    BY <1>1, <2>2 DEF Run!MemoryFits, Run!ResultFits, Run!FailureFits, Run!PlaceFits
  <2>4. QED
    BY <1>1, <2>1, <2>3
<1>2. CASE me' = [me EXCEPT ![p] = [known EXCEPT !.pc = "status"]]
  <2> DEFINE x == [known EXCEPT !.pc = "status"]
  <2>1. x \in Run!Memory
    BY DEF Run!Memory, Run!PC
  <2>2. /\ x.pc = "status" /\ x.state = known.state
        /\ x.result = known.result /\ x.key = known.key /\ x.cleanup = known.cleanup
    BY DEF Run!Memory
  <2>3. Run!MemoryFits(known)' => Run!MemoryFits(x)'
    BY <2>2 DEF Run!MemoryFits, Run!ResultFits, Run!FailureFits, Run!PlaceFits
  <2>4. QED
    BY <1>2, <2>1, <2>3
<1>3. CASE me' = [me EXCEPT ![p] = [known EXCEPT !.pc = "output", !.cleanup = Run!CleansUp(known)]]
  <2> DEFINE x == [known EXCEPT !.pc = "output", !.cleanup = Run!CleansUp(known)]
  <2>1. x \in Run!Memory
    BY DEF Run!Memory, Run!PC, Run!CleansUp
  <2>2. /\ x.pc = "output" /\ x.state = known.state
        /\ x.result = known.result /\ x.key = known.key
        /\ x.cleanup => known.seen = "feedback_persisted"
    BY DEF Run!Memory, Run!CleansUp
  <2>3. Run!MemoryFits(known)' => Run!MemoryFits(x)'
    BY <2>2 DEF Run!MemoryFits, Run!ResultFits, Run!FailureFits, Run!PlaceFits
  <2>4. QED
    BY <1>3, <2>1, <2>3
<1>4. QED
  BY <1>1, <1>2, <1>3 DEF Run!AfterStatus, Run!Set

\* What was read is saved, unless the save fails, and told.
LEMMA ApplyStep ==
  ASSUME Run!TypeOK, Run!BoundsAssumption, Run!IInv, NEW p \in Processes, Run!Apply(p)
  PROVE  Run!TypeOK' /\ Run!IInv'
<1>1. PICK m : m = me[p]
  OBVIOUS
<1> DEFINE saved == [m.state EXCEPT !.safe = m.seen]
           shown == [m EXCEPT !.result = m.seen]
           known == [shown EXCEPT !.state = saved]
<1>2. /\ m \in Run!Memory /\ Run!MemoryFits(m) /\ m.pc = "apply" /\ ~m.cleanup
      /\ m.state \in Run!StateRecord /\ m.seen \in Run!JobState
  BY <1>1 DEF Run!TypeOK, Run!IInv, Run!Apply, Run!MemoryFits, Run!ResultFits, Run!Memory
<1>3. saved \in Run!StateRecord /\ saved.safe = m.seen
  BY <1>2 DEF Run!StateRecord
<1>4. Run!StateFits(saved) /\ ~Run!Absent(saved)
  BY <1>2, <1>3
     DEF Run!StateFits, Run!Absent, Run!MemoryFits, Run!PlaceFits, Run!JobState, Run!Pending,
          Run!Ended, Run!Failed
<1>5. /\ shown \in Run!Memory /\ shown.pc = "apply" /\ shown.result = m.seen
      /\ shown.seen = m.seen /\ shown.state = m.state /\ shown.key = m.key
      /\ shown.cleanup = m.cleanup
  BY <1>2 DEF Run!Memory, Run!Result
<1>6. /\ known \in Run!Memory /\ known.pc = "apply" /\ known.result = m.seen
      /\ known.seen = m.seen /\ known.state = saved /\ known.key = m.key
      /\ known.cleanup = m.cleanup
  BY <1>3, <1>5 DEF Run!Memory
<1>7. /\ Run!MemoryFits(m)' => Run!MemoryFits(shown)'
      /\ Run!MemoryFits(m)' /\ Run!StateFits(saved)' => Run!MemoryFits(known)'
  BY <1>2, <1>5, <1>6 DEF Run!MemoryFits, Run!ResultFits, Run!FailureFits, Run!PlaceFits
<1>8. /\ record' \in {record, saved} /\ faults' \in 0..MaxFaults
      /\ UNCHANGED <<Run!core, told, runs, crashes, upgrades>>
  BY <1>1 DEF Run!Apply, Run!SaveFails, Run!TypeOK, Run!BoundsAssumption
<1>9. \E x \in Run!Memory : /\ Run!MemoryFits(m)' /\ Run!StateFits(saved)' => Run!MemoryFits(x)'
                        /\ me' = [me EXCEPT ![p] = x]
  <2> HIDE DEF known, shown, saved
  <2>1. CASE Run!AfterStatus(p, shown)
    BY <1>5, <1>7, <2>1, AfterFits
  <2>2. CASE Run!AfterStatus(p, known)
    BY <1>6, <1>7, <2>2, AfterFits
  <2>3. CASE me' = [me EXCEPT ![p] = [known EXCEPT !.pc = "failing", !.why = "internal"]]
    <3> DEFINE x == [known EXCEPT !.pc = "failing", !.why = "internal"]
    <3>1. x \in Run!Memory
      BY <1>6 DEF Run!Memory, Run!PC, Run!Kinds
    <3>2. /\ x.pc = "failing" /\ x.why = "internal" /\ x.state = known.state
          /\ x.result = known.result /\ x.key = known.key /\ x.cleanup = known.cleanup
      BY <1>6 DEF Run!Memory
    <3>3. Run!MemoryFits(known)' => Run!MemoryFits(x)'
      BY <1>2, <1>6, <3>2 DEF Run!MemoryFits, Run!ResultFits, Run!FailureFits, Run!PlaceFits
    <3>4. QED
      BY <1>7, <2>3, <3>1, <3>3
  <2>4. QED
    BY <1>1, <2>1, <2>2, <2>3 DEF Run!Apply, Run!Set, known, shown, saved
<1>10. QED
  <2>1. PICK x \in Run!Memory : /\ Run!MemoryFits(m)' /\ Run!StateFits(saved)' => Run!MemoryFits(x)'
                            /\ me' = [me EXCEPT ![p] = x]
    BY <1>9
  <2>2. QED
    BY <1>1, <1>3, <1>4, <1>8, <2>1, Saving DEF Run!TypeOK

\* The result of a failure says what Core said, or nothing of the run.
LEMMA FailedFits ==
  ASSUME NEW m \in Run!Memory, Run!MemoryFits(m), m.pc = "failing",
         NEW kind \in {m.why, "internal"},
         NEW x, x = [m EXCEPT !.pc = "output", !.result = Run!ResultAfter(kind, @)]
  PROVE  x \in Run!Memory /\ Run!MemoryFits(x)
<1>1. /\ m.why = "terminal" => m.result \in Run!Failed
      /\ m.result \in Run!Ended => Run!Announced({m.result})
  BY DEF Run!MemoryFits, Run!FailureFits, Run!ResultFits
<1>2. PICK said : said = Run!ResultAfter(kind, m.result)
  OBVIOUS
<1>3. /\ said \in Run!Failed \cup {"retryable_incomplete", "failed"}
      /\ said \in Run!Ended => Run!Announced({said})
  BY <1>1, <1>2 DEF Run!ResultAfter, Run!Ended, Run!Failed
<1>4. x = [m EXCEPT !.pc = "output", !.result = said]
  BY <1>2
<1>5. x \in Run!Memory
  BY <1>3, <1>4 DEF Run!Memory, Run!PC, Run!Result, Run!JobState, Run!Ended
<1>6. /\ x.pc = "output" /\ x.result = said /\ x.state = m.state
      /\ x.key = m.key /\ x.cleanup = m.cleanup /\ ~m.cleanup
  BY <1>4 DEF Run!Memory, Run!MemoryFits, Run!ResultFits
<1>7. Run!ResultFits(x) /\ Run!FailureFits(x) /\ Run!PlaceFits(x)
  BY <1>3, <1>6 DEF Run!ResultFits, Run!FailureFits, Run!PlaceFits
<1>8. QED
  BY <1>5, <1>6, <1>7 DEF Run!MemoryFits

\* The mark that a failure leaves is what the process was told.
LEMMA FailureStep ==
  ASSUME Run!TypeOK, Run!BoundsAssumption, Run!IInv, NEW p \in Processes, Run!Failure(p)
  PROVE  Run!TypeOK' /\ Run!IInv'
<1>1. PICK m : m = me[p]
  OBVIOUS
<1> DEFINE mark == CASE m.why = "retryable" -> "retryable_incomplete"
                     [] m.why = "conflict" -> "conflict"
                     [] m.why = "terminal" -> m.result
                     [] OTHER -> m.state.safe
           marked == [m.state EXCEPT !.safe = mark]
           failed(kind) == [m EXCEPT !.pc = "output", !.result = Run!ResultAfter(kind, @)]
<1>2. m \in Run!Memory /\ Run!MemoryFits(m) /\ m.pc = "failing" /\ m.state \in Run!StateRecord
  BY <1>1 DEF Run!TypeOK, Run!IInv, Run!Failure, Run!Memory
<1>3. PICK kind \in {m.why, "internal"} : me' = [me EXCEPT ![p] = failed(kind)]
  BY <1>1 DEF Run!Failure, Run!Set
<1>4. failed(kind) \in Run!Memory /\ Run!MemoryFits(failed(kind))
  BY <1>2, <1>3, FailedFits
<1>5. CASE Run!Absent(m.state)
  <2>1. UNCHANGED <<Run!core, record, told, Run!counters>>
    BY <1>1, <1>5 DEF Run!Failure, Run!counters
  <2>2. QED
    BY <1>3, <1>4, <2>1, Private DEF Run!TypeOK, Run!counters
<1>6. CASE ~Run!Absent(m.state)
  <2>1. /\ m.why = "terminal" => m.result \in Run!Failed /\ Run!Announced({m.result})
        /\ m.why = "conflict" => Run!Excused
        /\ Run!StateFits(m.state)
    BY <1>2, <1>6 DEF Run!MemoryFits, Run!FailureFits, Run!ResultFits, Run!Ended
  <2>2. /\ \/ mark = "retryable_incomplete"
           \/ mark = "conflict" /\ Run!Excused
           \/ mark \in Run!Failed /\ Run!Announced({mark})
           \/ mark = m.state.safe
        /\ mark # "none"
    BY <1>6, <2>1 DEF Run!Absent, Run!Failed
  <2>3. /\ marked \in Run!StateRecord /\ marked.safe = mark
    <3>1. mark \in {"none", "prepared", "retryable_incomplete", "conflict"} \cup Run!JobState
      BY <1>2, <2>2 DEF Run!StateRecord, Run!JobState, Run!Ended
    <3>2. QED
      BY <1>2, <3>1 DEF Run!StateRecord
  <2>4. Run!StateFits(marked) /\ ~Run!Absent(marked)
    BY <2>1, <2>2, <2>3 DEF Run!StateFits, Run!Absent, Run!Ended, Run!Failed
  <2>5. /\ record' \in {record, marked} /\ faults' \in 0..MaxFaults
        /\ UNCHANGED <<Run!core, told, runs, crashes, upgrades>>
    BY <1>1, <1>6 DEF Run!Failure, Run!SafeAfter, Run!SaveFails, Run!TypeOK, Run!BoundsAssumption
  <2>6. Run!MemoryFits(failed(kind))'
    <3>1. Later
      <4>1. Run!Kept => Run!Kept'
        BY <2>4, <2>5 DEF Run!Kept, Run!SuccessTold, Run!Absent
      <4>2. QED
        BY <2>5, <4>1, CoreSame
    <3>2. QED
      BY <1>4, <3>1, MemoryLater
  <2>7. QED
    BY <1>1, <1>3, <1>4, <2>3, <2>4, <2>5, <2>6, Saving DEF Run!TypeOK
<1>7. QED
  BY <1>5, <1>6

\* A result that is written is true; the record goes only after a success is out.
LEMMA OutputStep ==
  ASSUME Run!TypeOK, Run!AttemptsAssumption, Run!IInv, NEW p \in Processes, Run!Output(p)
  PROVE  Run!TypeOK' /\ Run!IInv'
<1>1. PICK m, s : m = me[p] /\ s = record
  OBVIOUS
<1>2. /\ m \in Run!Memory /\ Run!MemoryFits(m) /\ m.pc = "output"
      /\ s \in Run!StateRecord /\ Run!StateFits(s) /\ record' = s
      /\ told' = told \cup ({m.result} \cap Run!Ended)
      /\ UNCHANGED <<Run!core, Run!counters>>
  BY <1>1 DEF Run!TypeOK, Run!IInv, Run!Output
<1>3. /\ told \subseteq told' /\ told' \subseteq Run!Ended
      /\ \A state \in told' : Run!Announced({state})
  BY <1>2 DEF Run!TypeOK, Run!IInv, Run!MemoryFits, Run!ResultFits
<1>4. Run!Kept => Run!Kept'
  BY <1>1, <1>2 DEF Run!Kept, Run!SuccessTold, Run!Absent
<1>5. \E x \in Run!Memory : /\ Run!MemoryFits(m)' => Run!MemoryFits(x)'
                        /\ me' = [me EXCEPT ![p] = x]
  <2>1. CASE m.cleanup /\ me' = [me EXCEPT ![p] = [m EXCEPT !.pc = "finalize", !.attempt = 0]]
    <3> DEFINE x == [m EXCEPT !.pc = "finalize", !.attempt = 0]
    <3>1. 0 \in 0..Attempts - 1
      BY DEF Run!AttemptsAssumption
    <3>2. x \in Run!Memory
      BY <1>2, <3>1 DEF Run!Memory, Run!PC
    <3>3. /\ x.pc = "finalize" /\ x.state = m.state /\ x.key = m.key
          /\ x.result = m.result /\ x.cleanup = m.cleanup
      BY <1>2 DEF Run!Memory
    <3>4. Run!SuccessTold'
      BY <1>2, <2>1 DEF Run!SuccessTold, Run!MemoryFits, Run!ResultFits, Run!Ended
    <3>5. Run!MemoryFits(m)' => Run!MemoryFits(x)'
      BY <1>2, <3>3, <3>4 DEF Run!MemoryFits, Run!ResultFits, Run!FailureFits, Run!PlaceFits
    <3>6. QED
      BY <2>1, <3>2, <3>5
  <2>2. CASE Run!Ends(p)
    <3>1. Run!MemoryFits(Run!Idle)'
      BY <1>2, <1>3, <1>4, CoreSame, IdleFits, MemoryLater
    <3>2. QED
      BY <2>2, <3>1, IdleFits DEF Run!Ends, Run!Set
  <2>3. QED
    BY <1>1, <2>1, <2>2 DEF Run!Output, Run!Goto, Run!Set
<1>6. QED
  <2>1. PICK x \in Run!Memory : /\ Run!MemoryFits(m)' => Run!MemoryFits(x)'
                            /\ me' = [me EXCEPT ![p] = x]
    BY <1>5
  <2>2. QED
    BY <1>1, <1>2, <1>3, <1>4, <2>1, Working DEF Run!TypeOK, Run!counters

\* The record is removed once its success was told.
LEMMA FinalizeStep ==
  ASSUME Run!TypeOK, Run!AttemptsAssumption, Run!IInv, NEW p \in Processes, Run!Finalize(p)
  PROVE  Run!TypeOK' /\ Run!IInv'
<1>1. PICK m : m = me[p]
  OBVIOUS
<1>2. Run!SuccessTold
  BY DEF Run!IInv, Run!Finalize, Run!MemoryFits, Run!ResultFits
<1>3. /\ Run!NoRecord \in Run!StateRecord /\ record' = Run!NoRecord /\ Run!StateFits(Run!NoRecord)
      /\ UNCHANGED <<Run!core, told, Run!counters>> /\ me' = [me EXCEPT ![p] = Run!Idle]
  BY DEF Run!Finalize, Run!Ends, Run!Set, Run!StateRecord, Run!NoRecord, Run!StateFits,
         Run!Ended, Run!Failed
<1>4. Run!Kept => Run!Kept'
  BY <1>2, <1>3 DEF Run!Kept, Run!SuccessTold
<1>5. Run!MemoryFits(Run!Idle)'
  BY <1>3, <1>4, CoreSame, IdleFits, MemoryLater
<1>6. told \subseteq told' /\ told' \subseteq Run!Ended /\ \A state \in told' : Run!Announced({state})
  BY <1>3 DEF Run!TypeOK, Run!IInv
<1>7. QED
  BY <1>1, <1>3, <1>4, <1>5, <1>6, IdleFits, Working DEF Run!TypeOK, Run!counters

-----------------------------------------------------------------------------
(* Core, and trouble.                                                      *)

\* An answer of Core that takes nothing back.
LEMMA Answered ==
  ASSUME Run!TypeOK, Run!IInv, jobs' \subseteq Run!Job, refused' \in BOOLEAN, Run!CoreFits',
         Later,
         UNCHANGED <<ready, compatible, record, told, upgrades>>, (jobs # {} => Run!Kept)',
         runs' \in 0..MaxRuns, faults' \in 0..MaxFaults, crashes' \in 0..MaxCrashes,
         NEW p \in Processes, NEW m, m = me[p], NEW x \in Run!Memory,
         me' = [me EXCEPT ![p] = x], Run!MemoryFits(m)' => Run!MemoryFits(x)'
  PROVE  Run!TypeOK' /\ Run!IInv'
<1>1. Run!TypeOK'
  BY DEF Run!TypeOK
<1>2. Run!MemoryFits(x)'
  BY MemoryLater DEF Run!TypeOK, Run!IInv
<1>3. \A q \in Processes : Run!MemoryFits(me[q])'
  BY <1>2, Moves DEF Run!IInv
<1>4. Run!StateFits(record)'
  BY RecordLater DEF Run!IInv
<1>5. (\A state \in told : Run!Announced({state}))'
  BY DEF Later, Run!IInv, Run!TypeOK
<1>6. QED
  BY <1>1, <1>3, <1>4, <1>5 DEF Run!IInv

\* A submission replays the run that its key has, or begins the only one.
LEMMA AcceptsOne ==
  ASSUME Run!TypeOK, Run!IInv, Run!CoreAccepts(0), Run!Kept, UNCHANGED <<refused, record, told>>
  PROVE  jobs' \subseteq Run!Job /\ Run!CoreFits' /\ Later /\ (jobs # {} => Run!Kept)'
<1>1. Run!Known(0) = jobs
  BY DEF Run!IInv, Run!CoreFits, Run!Known
<1>2. Run!Kept'
  BY DEF Run!Kept, Run!SuccessTold, Run!Absent
<1>3. CASE jobs = {}
  <2>1. jobs' = {[key |-> 0, state |-> "queued"]}
    BY <1>1, <1>3 DEF Run!CoreAccepts, Run!Replays
  <2>2. QED
    BY <1>2, <1>3, <2>1
       DEF Run!Job, Run!JobState, Run!Pending, Run!CoreFits, Run!OneJob, Later, Run!Announced, Run!SuccessTold
<1>4. CASE jobs # {}
  <2>1. jobs' = jobs
    BY <1>1, <1>4 DEF Run!CoreAccepts, Run!Replays
  <2>2. QED
    BY <1>2, <2>1
       DEF Run!TypeOK, Run!IInv, Run!CoreFits, Run!OneJob, Later, Run!Announced, Run!SuccessTold
<1>5. QED
  BY <1>3, <1>4

\* A stale publication is refused, and remembered as the excuse of the conflict.
LEMMA SubmitStep ==
  ASSUME Run!TypeOK, Run!AttemptsAssumption, Run!IInv, NEW p \in Processes, Run!Submit(p)
  PROVE  Run!TypeOK' /\ Run!IInv'
<1>1. PICK m : m = me[p]
  OBVIOUS
<1>2. /\ m \in Run!Memory /\ Run!MemoryFits(m) /\ m.pc = "submit" /\ m.key = 0 /\ Run!Kept
      /\ UNCHANGED <<ready, compatible, record, told, Run!counters>>
  BY <1>1 DEF Run!TypeOK, Run!IInv, Run!Submit, Run!MemoryFits, Run!PlaceFits
<1>3. CASE Run!Fails(p, "capability") /\ UNCHANGED <<jobs, refused>>
  <2> DEFINE x == [m EXCEPT !.pc = "failing", !.why = "capability"]
  <2>1. x \in Run!Memory /\ Run!MemoryFits(x)
    BY <1>2, FailsFits DEF Run!Kinds
  <2>2. me' = [me EXCEPT ![p] = x]
    BY <1>1, <1>3 DEF Run!Fails, Run!Set
  <2>3. QED
    BY <1>2, <1>3, <2>1, <2>2, Private DEF Run!TypeOK, Run!core, Run!counters
<1>4. CASE Run!Fails(p, "conflict") /\ refused' = TRUE /\ UNCHANGED jobs
  <2> DEFINE x == [m EXCEPT !.pc = "failing", !.why = "conflict"]
  <2>1. x \in Run!Memory
    BY <1>2 DEF Run!Memory, Run!PC, Run!Kinds
  <2>2. /\ x.pc = "failing" /\ x.why = "conflict" /\ x.state = m.state
        /\ x.result = m.result /\ x.key = m.key /\ x.cleanup = m.cleanup
    BY <1>2 DEF Run!Memory
  <2>3. refused' /\ refused' \in BOOLEAN
    BY <1>4
  <2>4. Run!MemoryFits(m)' => Run!MemoryFits(x)'
    BY <1>2, <2>2, <2>3
       DEF Run!MemoryFits, Run!ResultFits, Run!FailureFits, Run!PlaceFits, Run!Excused
  <2>5. me' = [me EXCEPT ![p] = x]
    BY <1>1, <1>4 DEF Run!Fails, Run!Set
  <2>6. Run!CoreFits' /\ Later /\ (jobs # {} => Run!Kept)'
    BY <1>2, <1>4, <2>3
       DEF Run!IInv, Run!CoreFits, Run!OneJob, Later, Run!Announced, Run!Kept, Run!SuccessTold, Run!Absent
  <2>7. QED
    BY <1>1, <1>2, <1>4, <2>1, <2>3, <2>4, <2>5, <2>6, Answered DEF Run!TypeOK, Run!counters
<1>5. CASE Run!CoreAccepts(m.key) /\ Run!Goto(p, "accepted") /\ UNCHANGED refused
  <2> DEFINE x == [m EXCEPT !.pc = "accepted", !.attempt = 0]
  <2>1. x \in Run!Memory
    <3>1. 0 \in 0..Attempts - 1
      BY DEF Run!AttemptsAssumption
    <3>2. QED
      BY <1>2, <3>1 DEF Run!Memory, Run!PC
  <2>2. /\ x.pc = "accepted" /\ x.state = m.state
        /\ x.result = m.result /\ x.key = m.key /\ x.cleanup = m.cleanup
    BY <1>2 DEF Run!Memory
  <2>3. Run!MemoryFits(m)' => Run!MemoryFits(x)'
    BY <1>2, <2>2 DEF Run!MemoryFits, Run!ResultFits, Run!FailureFits, Run!PlaceFits
  <2>4. me' = [me EXCEPT ![p] = x]
    BY <1>1, <1>5 DEF Run!Goto, Run!Set
  <2>5. jobs' \subseteq Run!Job /\ Run!CoreFits' /\ Later /\ (jobs # {} => Run!Kept)'
    BY <1>2, <1>5, AcceptsOne
  <2>6. QED
    BY <1>1, <1>2, <1>5, <2>1, <2>3, <2>4, <2>5, Answered DEF Run!TypeOK, Run!counters
<1>6. QED
  BY <1>1, <1>3, <1>4, <1>5 DEF Run!Submit

\* A request is lost, before Core has it or after.
LEMMA LostStep ==
  ASSUME Run!TypeOK, Run!BoundsAssumption, Run!AttemptsAssumption, Run!IInv,
         NEW p \in Processes, Run!Lost(p)
  PROVE  Run!TypeOK' /\ Run!IInv'
<1>1. PICK m : m = me[p]
  OBVIOUS
<1>2. m \in Run!Memory /\ Run!MemoryFits(m) /\ m.pc \in {"capabilities", "submit", "status"}
  BY <1>1 DEF Run!TypeOK, Run!IInv, Run!Lost, Run!Requesting
<1>3. /\ faults' \in 0..MaxFaults
      /\ UNCHANGED <<ready, compatible, refused, record, told, runs, crashes, upgrades>>
  BY DEF Run!Lost, Run!TypeOK, Run!BoundsAssumption
<1>4. PICK x \in Run!Memory :
        /\ me' = [me EXCEPT ![p] = x] /\ Run!MemoryFits(x)
        /\ Run!MemoryFits(m)' => Run!MemoryFits(x)'
  <2>1. CASE Run!LastAttempt(p)
    <3> DEFINE x == [m EXCEPT !.pc = "failing", !.why = "retryable"]
    <3>1. x \in Run!Memory /\ Run!MemoryFits(x)
      BY <1>2, FailsFits DEF Run!Kinds
    <3>2. /\ x.pc = "failing" /\ x.why = "retryable" /\ x.state = m.state
          /\ x.result = m.result /\ x.key = m.key /\ x.cleanup = m.cleanup
      BY <1>2 DEF Run!Memory
    <3>3. Run!MemoryFits(m)' => Run!MemoryFits(x)'
      BY <1>2, <3>2 DEF Run!MemoryFits, Run!ResultFits, Run!FailureFits, Run!PlaceFits
    <3>4. QED
      BY <1>1, <2>1, <3>1, <3>3 DEF Run!Lost, Run!Fails, Run!Set
  <2>2. CASE ~Run!LastAttempt(p)
    <3> DEFINE x == [m EXCEPT !.attempt = @ + 1]
    <3>1. m.attempt \in 0..Attempts - 1 /\ m.attempt + 1 \in 0..Attempts - 1
      BY <1>1, <1>2, <2>2 DEF Run!LastAttempt, Run!Memory, Run!AttemptsAssumption
    <3>2. x \in Run!Memory
      BY <1>2, <3>1 DEF Run!Memory
    <3>3. /\ x.pc = m.pc /\ x.why = m.why /\ x.state = m.state /\ x.seen = m.seen
          /\ x.result = m.result /\ x.key = m.key /\ x.cleanup = m.cleanup
      BY <1>2 DEF Run!Memory
    <3>4. Run!MemoryFits(x) /\ (Run!MemoryFits(m)' => Run!MemoryFits(x)')
      BY <1>2, <3>3 DEF Run!MemoryFits, Run!ResultFits, Run!FailureFits, Run!PlaceFits
    <3>5. QED
      BY <1>1, <2>2, <3>2, <3>4 DEF Run!Lost, Run!Set
  <2>3. QED
    BY <2>1, <2>2
<1>5. CASE UNCHANGED jobs
  BY <1>3, <1>4, <1>5, Private DEF Run!TypeOK, Run!core
<1>6. CASE m.pc = "submit" /\ Run!CoreAccepts(m.key)
  <2>1. m.key = 0 /\ Run!Kept
    BY <1>2, <1>6 DEF Run!MemoryFits, Run!PlaceFits
  <2>2. jobs' \subseteq Run!Job /\ Run!CoreFits' /\ Later /\ (jobs # {} => Run!Kept)'
    BY <1>3, <1>6, <2>1, AcceptsOne
  <2>3. QED
    BY <1>1, <1>3, <1>4, <2>2, Answered DEF Run!TypeOK
<1>7. QED
  BY <1>1, <1>5, <1>6 DEF Run!Lost

\* A refused credential, a timeout and a crash blame no end of the run.
LEMMA TroubleStep ==
  ASSUME Run!TypeOK, Run!BoundsAssumption, Run!AttemptsAssumption, Run!IInv, NEW p \in Processes,
         Run!Unauthorized(p) \/ Run!TimesOut(p) \/ Run!Crash(p)
  PROVE  Run!TypeOK' /\ Run!IInv'
<1>1. PICK m : m = me[p]
  OBVIOUS
<1>2. m \in Run!Memory /\ Run!MemoryFits(m)
  BY <1>1 DEF Run!TypeOK, Run!IInv
<1>3. \A kind \in {"auth", "retryable"} : m.pc \in Run!Requesting =>
        /\ [m EXCEPT !.pc = "failing", !.why = kind] \in Run!Memory
        /\ Run!MemoryFits([m EXCEPT !.pc = "failing", !.why = kind])
  BY <1>2, FailsFits DEF Run!Kinds, Run!Requesting
<1>4. PICK x \in Run!Memory : me' = [me EXCEPT ![p] = x] /\ Run!MemoryFits(x)
  <2>1. CASE Run!Unauthorized(p) \/ Run!TimesOut(p)
    BY <1>1, <1>3, <2>1 DEF Run!Unauthorized, Run!TimesOut, Run!Fails, Run!Set
  <2>2. CASE Run!Crash(p)
    BY <2>2, IdleFits DEF Run!Crash, Run!Ends, Run!Set
  <2>3. QED
    BY <2>1, <2>2
<1>5. /\ UNCHANGED <<Run!core, record, told, upgrades, runs>>
      /\ faults' \in 0..MaxFaults /\ crashes' \in 0..MaxCrashes
  BY DEF Run!Unauthorized, Run!TimesOut, Run!Crash, Run!TypeOK, Run!BoundsAssumption
<1>6. QED
  BY <1>4, <1>5, Private DEF Run!TypeOK

\* What Core does alone: a run moves on while it is pending, and its capabilities
\* change.
LEMMA CoreStep ==
  ASSUME Run!TypeOK, Run!BoundsAssumption, Run!IInv, Run!JobStep \/ Run!Upgrade
  PROVE  Run!TypeOK' /\ Run!IInv'
<1>1. Run!TypeOK' /\ Run!CoreFits' /\ Later /\ (jobs' # {} => jobs # {})
  <2>1. CASE Run!JobStep
    <3>1. PICK j \in jobs, state \in Run!JobState \ {"queued"} :
            /\ j.state \in Run!Pending
            /\ jobs' = (jobs \ {j}) \cup {[j EXCEPT !.state = state]}
      BY <2>1 DEF Run!JobStep
    <3>2. jobs = {j} /\ j \in Run!Job /\ j.key = 0
      BY DEF Run!IInv, Run!CoreFits, Run!OneJob, Run!TypeOK
    <3>3. PICK k : k = [j EXCEPT !.state = state]
      OBVIOUS
    <3>4. jobs' = {k} /\ k \in Run!Job /\ k.key = 0
      BY <3>1, <3>2, <3>3 DEF Run!Job
    <3>5. Run!TypeOK'
      BY <2>1, <3>4 DEF Run!JobStep, Run!TypeOK, Run!counters
    <3>6. Run!CoreFits'
      BY <3>4 DEF Run!CoreFits, Run!OneJob
    <3>7. \A end \in Run!Ended : ~Run!Announced({end})
      BY <3>1, <3>2 DEF Run!Announced, Run!Ended, Run!Failed, Run!Pending
    <3>8. Later
      BY <2>1, <3>7 DEF Run!JobStep, Later, Run!Kept, Run!SuccessTold, Run!Absent
    <3>9. QED
      BY <3>2, <3>5, <3>6, <3>8
  <2>2. CASE Run!Upgrade
    <3>1. /\ UNCHANGED <<jobs, refused, record, me, told, runs, faults, crashes>>
          /\ upgrades' \in 0..MaxUpgrades
      BY <2>2 DEF Run!Upgrade, Run!TypeOK, Run!BoundsAssumption
    <3>2. ready' \in BOOLEAN /\ compatible' \in BOOLEAN
      BY <2>2, Zenon DEF Run!Upgrade, Run!TypeOK
    <3>3. Run!TypeOK'
      BY <3>1, <3>2 DEF Run!TypeOK
    <3>4. Run!CoreFits' /\ Later
      BY <3>1
         DEF Run!CoreFits, Run!OneJob, Run!IInv, Later, Run!Announced, Run!Kept,
             Run!SuccessTold, Run!Absent
    <3>5. QED
      BY <3>1, <3>3, <3>4
  <2>3. QED
    BY <2>1, <2>2
<1>2. UNCHANGED <<record, me, told>>
  BY DEF Run!JobStep, Run!Upgrade
<1>3. Run!StateFits(record)'
  BY <1>1, <1>2, RecordLater DEF Run!IInv
<1>4. ASSUME NEW q \in Processes
      PROVE  Run!MemoryFits(me[q])'
  <2>1. PICK m : m = me[q]
    OBVIOUS
  <2>2. m \in Run!Memory /\ Run!MemoryFits(m) /\ me'[q] = m
    BY <1>2, <2>1 DEF Run!TypeOK, Run!IInv
  <2>3. QED
    BY <1>1, <2>2, MemoryLater
<1>5. (\A state \in told : Run!Announced({state}))'
  BY <1>1, <1>2 DEF Later, Run!IInv, Run!TypeOK
<1>6. (jobs # {} => Run!Kept)'
  BY <1>1 DEF Later, Run!IInv
<1>7. QED
  BY <1>1, <1>3, <1>4, <1>5, <1>6 DEF Run!IInv

-----------------------------------------------------------------------------
(* Its theorems.                                                           *)

\* Nothing is known, and nothing was told.
LEMMA RunInitially ==
  ASSUME Run!BoundsAssumption, Run!AttemptsAssumption, Run!Init
  PROVE  Run!TypeOK /\ Run!IInv
<1>1. me \in [Processes -> Run!Memory] /\ \A p \in Processes : Run!MemoryFits(me[p])
  BY IdleFits DEF Run!Init
<1>2. ready \in BOOLEAN /\ compatible \in BOOLEAN /\ refused \in BOOLEAN
  BY Zenon DEF Run!Init
<1>3. record \in Run!StateRecord /\ Run!StateFits(record)
  BY DEF Run!Init, Run!NoRecord, Run!StateRecord, Run!StateFits, Run!Ended, Run!Failed
<1>4. /\ jobs \subseteq Run!Job /\ told \subseteq Run!Ended
      /\ runs \in 0..MaxRuns /\ faults \in 0..MaxFaults
      /\ crashes \in 0..MaxCrashes /\ upgrades \in 0..MaxUpgrades
  BY DEF Run!Init, Run!BoundsAssumption
<1>5. Run!TypeOK
  BY <1>1, <1>2, <1>3, <1>4 DEF Run!TypeOK
<1>6. Run!IInv
  BY <1>1, <1>3 DEF Run!Init, Run!IInv, Run!CoreFits, Run!OneJob
<1>7. QED
  BY <1>5, <1>6

\* A step that changes nothing changes no truth about it.
LEMMA RunStutters ==
  ASSUME Run!TypeOK, Run!IInv, UNCHANGED Run!vars
  PROVE  Run!TypeOK' /\ Run!IInv'
<1>1. Run!TypeOK'
  BY DEF Run!TypeOK, Run!vars
<1>2. Run!CoreFits' /\ Run!StateFits(record)' /\ (jobs # {} => Run!Kept)'
  BY DEF Run!IInv, Run!CoreFits, Run!OneJob, Run!StateFits, Run!Announced, Run!Excused,
         Run!Kept, Run!SuccessTold,
         Run!Absent, Run!vars
<1>3. \A p \in Processes : Run!MemoryFits(me[p])'
  BY DEF Run!IInv, Run!MemoryFits, Run!ResultFits, Run!FailureFits, Run!PlaceFits,
         Run!StateFits, Run!Announced,
         Run!Excused, Run!Kept, Run!SuccessTold, Run!Absent, Run!vars
<1>4. (\A state \in told : Run!Announced({state}))'
  BY DEF Run!IInv, Run!Announced, Run!vars
<1>5. QED
  BY <1>1, <1>2, <1>3, <1>4 DEF Run!IInv

\* A step of Next keeps the types and the inductive invariant.
LEMMA RunInductive ==
  ASSUME Run!BoundsAssumption, Run!AttemptsAssumption, Run!TypeOK, Run!IInv, [Run!Next]_(Run!vars)
  PROVE  Run!TypeOK' /\ Run!IInv'
<1>1. CASE UNCHANGED Run!vars
  BY <1>1, RunStutters
<1>2. CASE Run!JobStep \/ Run!Upgrade
  BY <1>2, CoreStep
<1>3. ASSUME NEW p \in Processes,
             \/ \E mode \in {"submit", "resume"}, wait \in BOOLEAN : Run!Start(p, mode, wait)
             \/ Run!StartInspect(p) \/ Run!Proceed(p) \/ Run!Trouble(p)
      PROVE  Run!TypeOK' /\ Run!IInv'
  <2>1. CASE \E mode \in {"submit", "resume"}, wait \in BOOLEAN : Run!Start(p, mode, wait)
    BY <2>1, StartStep DEF Run!Modes
  <2>2. CASE Run!StartInspect(p)
    BY <2>2, StartStep DEF Run!StartInspect, Run!Modes
  <2>3. CASE Run!Capabilities(p)
    BY <2>3, CapabilitiesStep
  <2>4. CASE Run!Load(p)
    BY <2>4, LoadStep
  <2>5. CASE Run!Create(p)
    BY <2>5, CreateStep
  <2>6. CASE Run!Submit(p)
    BY <2>6, SubmitStep
  <2>7. CASE Run!Accepted(p)
    BY <2>7, AcceptedStep
  <2>8. CASE Run!Poll(p)
    BY <2>8, PollStep
  <2>9. CASE Run!Apply(p)
    BY <2>9, ApplyStep
  <2>10. CASE Run!Failure(p)
    BY <2>10, FailureStep
  <2>11. CASE Run!Output(p)
    BY <2>11, OutputStep
  <2>12. CASE Run!Finalize(p)
    BY <2>12, FinalizeStep
  <2>13. CASE Run!Lost(p)
    BY <2>13, LostStep
  <2>14. CASE Run!Unauthorized(p) \/ Run!TimesOut(p) \/ Run!Crash(p)
    BY <2>14, TroubleStep
  <2>15. QED
    BY <1>3, <2>1, <2>2, <2>3, <2>4, <2>5, <2>6, <2>7, <2>8, <2>9, <2>10, <2>11,
       <2>12, <2>13, <2>14 DEF Run!Proceed, Run!Trouble
<1>4. QED
  BY <1>1, <1>2, <1>3 DEF Run!Next

\* What the inductive invariant promises to the users of the operation.
LEMMA RunPromises ==
  ASSUME Run!TypeOK, Run!IInv
  PROVE  Run!OneJob /\ Run!EndIsTrue /\ Run!RecordKept /\ Run!NoFalseConflict
<1>1. Run!OneJob
  BY DEF Run!IInv, Run!CoreFits
<1>2. Run!EndIsTrue
  BY DEF Run!IInv, Run!EndIsTrue, Run!StateFits
<1>3. Run!RecordKept
  BY DEF Run!IInv, Run!Kept, Run!SuccessTold, Run!RecordKept
<1>4. Run!NoFalseConflict
  BY DEF Run!IInv, Run!StateFits, Run!Excused, Run!NoFalseConflict
<1>5. QED
  BY <1>1, <1>2, <1>3, <1>4

\* Whatever is on record, remembered or told of a run is what Core said of it,
\* for any number of invocations and whatever befalls them and their files.
THEOREM RunInvariance ==
  ASSUME Run!BoundsAssumption, Run!AttemptsAssumption
  PROVE  Run!Spec => [](Run!TypeOK /\ Run!IInv)
<1>1. Run!Init => Run!TypeOK /\ Run!IInv
  BY RunInitially
<1>2. Run!TypeOK /\ Run!IInv /\ [Run!Next]_(Run!vars) => (Run!TypeOK /\ Run!IInv)'
  BY RunInductive
<1>3. QED
  BY <1>1, <1>2, PTL DEF Run!Spec

\* Every variable has its type, in every state.
THEOREM RunTypes ==
  ASSUME Run!BoundsAssumption, Run!AttemptsAssumption
  PROVE  Run!Spec => []Run!TypeOK
BY RunInvariance, PTL

\* Retries, resumes, crashes and races never start a second run of an intent
\* (submit in run.go: the key is the intent's).
THEOREM OneRunPerIntent ==
  ASSUME Run!BoundsAssumption, Run!AttemptsAssumption
  PROVE  Run!Spec => []Run!OneJob
<1>1. Run!TypeOK /\ Run!IInv => Run!OneJob
  BY RunPromises
<1>2. QED
  BY <1>1, RunInvariance, PTL

\* No result and no record says that a run ended in a way it did not
\* (applyStatus, failure).
THEOREM RunEndsAreTrue ==
  ASSUME Run!BoundsAssumption, Run!AttemptsAssumption
  PROVE  Run!Spec => []Run!EndIsTrue
<1>1. Run!TypeOK /\ Run!IInv => Run!EndIsTrue
  BY RunPromises
<1>2. QED
  BY <1>1, RunInvariance, PTL

\* A run that nobody heard the success of is on record, whoever died where and
\* whichever save failed (RunBaselineRun saves before it submits).
THEOREM RunsAreOnRecord ==
  ASSUME Run!BoundsAssumption, Run!AttemptsAssumption
  PROVE  Run!Spec => []Run!RecordKept
<1>1. Run!TypeOK /\ Run!IInv => Run!RecordKept
  BY RunPromises
<1>2. QED
  BY <1>1, RunInvariance, PTL

\* A record is in conflict only for a stale publication or a run that ended
\* without success (setRunFailure).
THEOREM RunConflictsAreReal ==
  ASSUME Run!BoundsAssumption, Run!AttemptsAssumption
  PROVE  Run!Spec => []Run!NoFalseConflict
<1>1. Run!TypeOK /\ Run!IInv => Run!NoFalseConflict
  BY RunPromises
<1>2. QED
  BY <1>1, RunInvariance, PTL

\* What process p does turns its own resume away, for want of readiness, when
\* Core refuses a submission and never else.
LEMMA OnlyCoreTurnsAway ==
  ASSUME Run!TypeOK, NEW p \in Processes, NEW m, m = me[p], m.pc # "failing",
         m.mode = "resume", me'[p].pc = "failing", me'[p].why = "capability",
         \/ \E mode \in Run!Modes, wait \in BOOLEAN : Run!Start(p, mode, wait)
         \/ Run!Proceed(p) \/ Run!Trouble(p)
  PROVE  Run!Submit(p) /\ Run!Refuses(m.key)
<1>1. me \in [Processes -> Run!Memory] /\ m \in Run!Memory /\ m.state \in Run!StateRecord
  BY DEF Run!TypeOK, Run!Memory
<1>2. \A x : me' = [me EXCEPT ![p] = x] => x.pc = "failing" /\ x.why = "capability"
  BY <1>1
<1>3. \A kind : [m EXCEPT !.pc = "failing", !.why = kind].why = kind
  BY <1>1 DEF Run!Memory
<1>4. \A kind : Run!Fails(p, kind) => kind = "capability"
  BY <1>2, <1>3 DEF Run!Fails, Run!Set
<1>5. ~Run!Ends(p)
  BY <1>2 DEF Run!Ends, Run!Set, Run!Idle
<1>6. \A place : Run!Goto(p, place) => place = "failing"
  <2>1. \A place : [m EXCEPT !.pc = place, !.attempt = 0].pc = place
    BY <1>1 DEF Run!Memory
  <2>2. QED
    BY <1>2, <2>1 DEF Run!Goto, Run!Set
<1>7. ASSUME NEW mode \in Run!Modes, NEW wait \in BOOLEAN, Run!Start(p, mode, wait)
      PROVE  FALSE
  <2> DEFINE x == [m EXCEPT !.pc = "capabilities", !.mode = mode, !.wait = wait,
                     !.key = Run!Key(p)]
  <2>1. x.pc = "capabilities"
    BY <1>1 DEF Run!Memory
  <2>2. QED
    BY <1>2, <1>7, <2>1 DEF Run!Start, Run!Set
<1>8. CASE Run!Capabilities(p)
  <2> DEFINE place == IF m.mode = "inspect" THEN "status" ELSE "load"
             x == [m EXCEPT !.attempt = 0, !.ready = ready, !.pc = place]
  <2>1. x.pc = place
    BY <1>1 DEF Run!Memory
  <2>2. me' = [me EXCEPT ![p] = x] \/ Run!Fails(p, "conflict")
    BY <1>8 DEF Run!Capabilities, Run!Set
  <2> HIDE DEF x
  <2>3. QED
    BY <1>2, <1>4, <2>1, <2>2
<1>9. CASE Run!Load(p)
  <2> DEFINE known == [m EXCEPT !.state = record, !.ready = FALSE]
  <2>1. \A place, kind : [known EXCEPT !.pc = place, !.why = kind].why = kind
    BY <1>1 DEF Run!Memory
  <2>2. \A place : [known EXCEPT !.pc = place].pc = place
    BY <1>1 DEF Run!Memory
  <2>3. \/ Run!Fails(p, "input")
        \/ me' = [me EXCEPT ![p] = [known EXCEPT !.pc = "failing", !.why = "conflict"]]
        \/ \E place \in {"status", "submit"} : me' = [me EXCEPT ![p] = [known EXCEPT !.pc = place]]
    BY <1>9 DEF Run!Load, Run!MaySubmit, Run!Set
  <2> HIDE DEF known
  <2>4. ~Run!Fails(p, "input")
    BY <1>4
  <2>5. me' # [me EXCEPT ![p] = [known EXCEPT !.pc = "failing", !.why = "conflict"]]
    BY <1>2, <2>1
  <2>6. \A place \in {"status", "submit"} : me' # [me EXCEPT ![p] = [known EXCEPT !.pc = place]]
    BY <1>2, <2>2
  <2>7. QED
    BY <2>3, <2>4, <2>5, <2>6
<1>10. CASE Run!Create(p)
  <2> DEFINE x == [m EXCEPT !.pc = "submit", !.state = [Run!NoRecord EXCEPT !.safe = "prepared"]]
  <2>1. x.pc = "submit"
    BY <1>1 DEF Run!Memory
  <2>2. me' = [me EXCEPT ![p] = x] \/ Run!Fails(p, "internal")
    BY <1>10 DEF Run!Create, Run!Set
  <2> HIDE DEF x
  <2>3. QED
    BY <1>2, <1>4, <2>1, <2>2
<1>11. CASE Run!Submit(p)
  BY <1>4, <1>6, <1>11 DEF Run!Submit
<1>12. CASE Run!Accepted(p)
  <2> DEFINE saved == [job |-> TRUE, safe |-> "queued"]
             place == IF m.wait \/ m.mode = "resume" THEN "status" ELSE "output"
             x == [m EXCEPT !.state = saved, !.result = "queued", !.pc = place]
             y == [m EXCEPT !.state = saved, !.pc = "failing", !.why = "internal"]
  <2>1. x.pc = place /\ y.why = "internal"
    BY <1>1 DEF Run!Memory
  <2>2. me' = [me EXCEPT ![p] = x] \/ me' = [me EXCEPT ![p] = y]
    BY <1>12 DEF Run!Accepted, Run!Set
  <2> HIDE DEF x, y
  <2>3. QED
    BY <1>2, <2>1, <2>2
<1>13. CASE Run!Poll(p)
  <2>1. PICK j \in jobs : me' = [me EXCEPT ![p] =
                                 [m EXCEPT !.pc = "apply", !.attempt = 0, !.seen = j.state]]
    BY <1>13 DEF Run!Poll, Run!Known, Run!Set
  <2>2. [m EXCEPT !.pc = "apply", !.attempt = 0, !.seen = j.state].pc = "apply"
    BY <1>1 DEF Run!Memory
  <2>3. QED
    BY <1>2, <2>1, <2>2
<1>14. CASE Run!Apply(p)
  <2> DEFINE shown == [m EXCEPT !.result = m.seen]
             known == [shown EXCEPT !.state = [m.state EXCEPT !.safe = m.seen]]
  <2>1. PICK k \in {shown, known} :
          \/ me' = [me EXCEPT ![p] = [k EXCEPT !.pc = "failing", !.why = "terminal"]]
          \/ me' = [me EXCEPT ![p] = [k EXCEPT !.pc = "failing", !.why = "internal"]]
          \/ me' = [me EXCEPT ![p] = [k EXCEPT !.pc = "status"]]
          \/ me' = [me EXCEPT ![p] = [k EXCEPT !.pc = "output", !.cleanup = Run!CleansUp(k)]]
    BY <1>14 DEF Run!Apply, Run!AfterStatus, Run!Set
  <2>2. /\ [k EXCEPT !.pc = "failing", !.why = "terminal"].why = "terminal"
        /\ [k EXCEPT !.pc = "failing", !.why = "internal"].why = "internal"
        /\ [k EXCEPT !.pc = "status"].pc = "status"
        /\ [k EXCEPT !.pc = "output", !.cleanup = Run!CleansUp(k)].pc = "output"
    BY <1>1 DEF Run!Memory
  <2>3. QED
    BY <1>2, <2>1, <2>2
<1>15. CASE Run!Failure(p)
  BY <1>15 DEF Run!Failure
<1>16. CASE Run!Output(p) \/ Run!Finalize(p)
  BY <1>5, <1>6, <1>16 DEF Run!Output, Run!Finalize
<1>17. CASE Run!Lost(p)
  <2>1. [m EXCEPT !.attempt = @ + 1].pc = m.pc
    BY <1>1 DEF Run!Memory
  <2>2. me' = [me EXCEPT ![p] = [m EXCEPT !.attempt = @ + 1]] \/ Run!Fails(p, "retryable")
    BY <1>17 DEF Run!Lost, Run!Set
  <2>3. QED
    BY <1>2, <1>4, <2>1, <2>2
<1>18. CASE Run!Unauthorized(p) \/ Run!TimesOut(p) \/ Run!Crash(p)
  BY <1>4, <1>5, <1>18 DEF Run!Unauthorized, Run!TimesOut, Run!Crash
<1>19. QED
  BY <1>7, <1>8, <1>9, <1>10, <1>11, <1>12, <1>13, <1>14, <1>15, <1>16, <1>17, <1>18
     DEF Run!Proceed, Run!Trouble

\* A process's step is its own.
LEMMA OthersStay ==
  ASSUME Run!TypeOK, NEW p \in Processes, NEW q \in Processes, p # q,
         \/ \E mode \in Run!Modes, wait \in BOOLEAN : Run!Start(q, mode, wait)
         \/ Run!Proceed(q) \/ Run!Trouble(q)
  PROVE  me'[p] = me[p]
<1>1. \A x : me' = [me EXCEPT ![q] = x] => me'[p] = me[p]
  BY DEF Run!TypeOK
<1>2. CASE \E mode \in Run!Modes, wait \in BOOLEAN : Run!Start(q, mode, wait)
  BY <1>1, <1>2 DEF Run!Start, Run!Set
<1>3. CASE Run!Capabilities(q) \/ Run!Load(q) \/ Run!Create(q) \/ Run!Submit(q) \/ Run!Accepted(q)
  BY <1>1, <1>3
     DEF Run!Capabilities, Run!Load, Run!Create, Run!Submit, Run!Accepted, Run!Set, Run!Goto,
         Run!Fails
<1>4. CASE Run!Poll(q) \/ Run!Apply(q) \/ Run!Failure(q) \/ Run!Output(q) \/ Run!Finalize(q)
  BY <1>1, <1>4
     DEF Run!Poll, Run!Apply, Run!AfterStatus, Run!Failure, Run!Output, Run!Finalize, Run!Set,
         Run!Goto, Run!Ends
<1>5. CASE Run!Trouble(q)
  BY <1>1, <1>5
     DEF Run!Trouble, Run!Lost, Run!Unauthorized, Run!TimesOut, Run!Crash, Run!Set, Run!Fails,
         Run!Ends
<1>6. QED
  BY <1>2, <1>3, <1>4, <1>5 DEF Run!Proceed

\* A step turns a resume away, for want of readiness, only while Core has no run
\* of the intent.
LEMMA TurnsAwayStep ==
  ASSUME Run!TypeOK, Run!IInv, Run!Next, Run!TurnedAway
  PROVE  jobs = {}
<1>1. PICK p \in Processes :
        /\ me[p].pc # "failing" /\ me[p].mode = "resume"
        /\ me'[p].pc = "failing" /\ me'[p].why = "capability"
  BY DEF Run!TurnedAway
<1>2. ~(Run!JobStep \/ Run!Upgrade)
  BY <1>1 DEF Run!JobStep, Run!Upgrade
<1>3. PICK q \in Processes :
        \/ \E mode \in Run!Modes, wait \in BOOLEAN : Run!Start(q, mode, wait)
        \/ Run!Proceed(q) \/ Run!Trouble(q)
  BY <1>2 DEF Run!Next, Run!StartInspect, Run!Modes
<1>4. p = q
  BY <1>1, <1>3, OthersStay
<1>5. Run!Refuses(me[p].key)
  BY <1>1, <1>3, <1>4, OnlyCoreTurnsAway
<1>6. QED
  BY <1>5 DEF Run!Refuses, Run!Replays, Run!Known, Run!IInv, Run!CoreFits, Run!MemoryFits

\* A resume is turned away for want of readiness only while Core has no run of
\* the intent (RunBaselineRun: a resume submits the exact intent again).
THEOREM RunResumesAreAdmitted ==
  ASSUME Run!BoundsAssumption, Run!AttemptsAssumption
  PROVE  Run!Spec => Run!AdmissionDoesNotStrand
<1>1. Run!TypeOK /\ Run!IInv /\ [Run!Next]_(Run!vars) => [Run!TurnedAway => jobs = {}]_(Run!vars)
  BY TurnsAwayStep DEF Run!vars
<1>2. QED
  BY <1>1, RunInvariance, PTL DEF Run!Spec, Run!AdmissionDoesNotStrand

-----------------------------------------------------------------------------
(* Both operations together.                                               *)

\* What is on record, remembered or told of a job is what Core said of it.
Fits == IF OfIndex THEN Index!TypeOK /\ Index!IInv ELSE Run!TypeOK /\ Run!IInv

-----------------------------------------------------------------------------

\* At first nothing is said of any job, whichever operation it will be.
LEMMA FitsInitially == Init => Fits
<1> SUFFICES ASSUME Init PROVE Fits
  OBVIOUS
<1>1. CASE operation = "index" /\ Index!Init
  <2>1. Index!TypeOK /\ Index!IInv
    BY <1>1, OperationAssumptions, Index!Initially
  <2>2. QED
    BY <1>1, <2>1 DEF Fits, OfIndex
<1>2. CASE operation = "run" /\ Run!Init
  <2>1. Run!TypeOK /\ Run!IInv
    BY <1>2, OperationAssumptions, RunInitially
  <2>2. QED
    BY <1>2, <2>1 DEF Fits, OfIndex
<1>3. QED
  BY <1>1, <1>2 DEF Init

\* A step is one of the operation that the behaviour is about, or none.
LEMMA OneOperation ==
  ASSUME [Next]_vars
  PROVE  /\ operation' = operation
         /\ OfIndex => [Index!Next]_(Index!vars)
         /\ ~OfIndex => [Run!Next]_(Run!vars)
<1>1. CASE UNCHANGED vars
  BY <1>1 DEF vars, Index!vars, Run!vars
<1>2. CASE Next
  BY <1>2 DEF Next, OfIndex, OfRun
<1>3. QED
  BY <1>1, <1>2

\* No step makes a copy of the record, a memory or a result say more than Core did.
LEMMA FitsAlways == Fits /\ [Next]_vars => Fits'
<1> SUFFICES ASSUME Fits, [Next]_vars PROVE Fits'
  OBVIOUS
<1>1. CASE OfIndex
  <2>1. Index!TypeOK /\ Index!IInv /\ [Index!Next]_(Index!vars)
    BY <1>1, OneOperation DEF Fits
  <2>2. Index!TypeOK' /\ Index!IInv'
    BY <2>1, OperationAssumptions, Index!Inductive
  <2>3. QED
    BY <1>1, <2>2, OneOperation DEF Fits, OfIndex
<1>2. CASE ~OfIndex
  <2>1. Run!TypeOK /\ Run!IInv /\ [Run!Next]_(Run!vars)
    BY <1>2, OneOperation DEF Fits
  <2>2. Run!TypeOK' /\ Run!IInv'
    BY <2>1, OperationAssumptions, RunInductive
  <2>3. QED
    BY <1>2, <2>2, OneOperation DEF Fits, OfIndex
<1>3. QED
  BY <1>1, <1>2

-----------------------------------------------------------------------------
(* The theorems.                                                           *)

\* Whatever is on record, remembered or told of a job, of either operation, is
\* what Core said of it.
THEOREM Invariance == Spec => []Fits
BY FitsInitially, FitsAlways, PTL DEF Spec

\* Every variable of the operation has its type, in every state.
THEOREM TypeCorrect == Spec => []TypeOK
<1>1. Fits => TypeOK
  BY DEF Fits, TypeOK
<1>2. QED
  BY <1>1, Invariance, PTL

\* Lost responses, crashes, resumes and races never start a second job, of either
\* operation (submit in index.go and in run.go).
THEOREM OneJobEach == Spec => []OneJob
<1>1. Fits => OneJob
  BY Index!Promises, RunPromises DEF Fits, OneJob
<1>2. QED
  BY <1>1, Invariance, PTL

\* No result and no record says that a job ended in a way it did not
\* (applyStatus and failure of both operations).
THEOREM EndsAreTrue == Spec => []EndIsTrue
<1>1. Fits => EndIsTrue
  BY Index!Promises, RunPromises DEF Fits, EndIsTrue
<1>2. QED
  BY <1>1, Invariance, PTL

\* A job that nobody heard the success of is on record, whoever died where
\* (RunIndex and RunBaselineRun save before they submit).
THEOREM JobsAreOnRecord == Spec => []RecordKept
<1>1. Fits => RecordKept
  BY Index!Promises, RunPromises DEF Fits, RecordKept
<1>2. QED
  BY <1>1, Invariance, PTL

\* A record is in conflict only for the end of its job or for a refusal of Core's
\* (setIndexFailure, setRunFailure).
THEOREM ConflictsAreReal == Spec => []NoFalseConflict
<1>1. Fits => NoFalseConflict
  BY Index!Promises, RunPromises DEF Fits, NoFalseConflict
<1>2. QED
  BY <1>1, Invariance, PTL

\* One who waits for a known build does so across upgrades (wait in index.go).
THEOREM WaitsSurviveUpgrades == Spec => []WaitSurvivesUpgrade
<1>1. Fits => WaitSurvivesUpgrade
  BY Index!Promises DEF Fits, WaitSurvivesUpgrade
<1>2. QED
  BY <1>1, Invariance, PTL

\* A resume is turned away for want of readiness only while Core has no run of the
\* intent (RunBaselineRun submits the exact intent again).
THEOREM ResumesAreAdmitted == Spec => AdmissionDoesNotStrand
<1>1. Fits /\ [Next]_vars => [OfRun /\ Run!TurnedAway => jobs = {}]_vars
  <2> SUFFICES ASSUME Fits, Next, OfRun, Run!TurnedAway
               PROVE  jobs = {}
    OBVIOUS
  <2>1. Run!TypeOK /\ Run!IInv /\ Run!Next
    BY DEF Fits, Next, OfIndex, OfRun
  <2>2. QED
    BY <2>1, TurnsAwayStep
<1>2. QED
  BY <1>1, Invariance, PTL DEF Spec, AdmissionDoesNotStrand
=============================================================================
