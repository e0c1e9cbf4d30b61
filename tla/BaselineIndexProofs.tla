-------------------------- MODULE BaselineIndexProofs --------------------------
(* Proofs about BaselineIndex, for any number of processes, attempts and index
   identities, and for every value of the bounds: one build per snapshot, and
   true words about it.

   The argument: processes save their own copies of the record over each other's
   in any order, so nothing holds of the record that does not hold of every copy.
   What a copy says of a build is something Core once said, and Core takes none
   of it back (Later): a build that ended stays as it is, and a snapshot that has
   a build keeps it, because every process derives the same key. *)
EXTENDS BaselineIndex, TLAPS

\* What one step leaves of all that a process may know.
Later ==
  /\ \A state \in Ended : Announced(state) => Announced(state)'
  /\ \A intent \in Intents : Started(intent) => Started(intent)'
  /\ upgrades' = 0 => upgrades = 0 /\ required' = required
  /\ Kept => Kept'
  /\ SuccessTold => SuccessTold'

-----------------------------------------------------------------------------
(* What stays true while others work.                                      *)

\* An excuse for a conflict stays one.
LEMMA ExcusedLater ==
  ASSUME TypeOK, TypeOK', BoundsAssumption, Later, Excused
  PROVE  Excused'
  BY DEF Later, Excused, Ended, TypeOK, BoundsAssumption

\* What a copy of the record says stays true.
LEMMA StateLater ==
  ASSUME TypeOK, TypeOK', BoundsAssumption, Later, NEW s \in StateRecord, StateFits(s)
  PROVE  StateFits(s)'
<1>1. s.safe = "conflict" => Excused'
  BY ExcusedLater DEF StateFits
<1>2. s.publication => Announced("succeeded")'
  BY DEF Later, StateFits, Ended
<1>3. QED
  BY <1>1, <1>2 DEF Later, StateFits, StateRecord

\* What a process knows stays true.
LEMMA MemoryLater ==
  ASSUME TypeOK, TypeOK', BoundsAssumption, Later, NEW m \in Memory, MemoryFits(m)
  PROVE  MemoryFits(m)'
<1>1. m.state \in StateRecord /\ m.intent \in Intents
  BY DEF Memory
<1>2. StateFits(m.state)'
  BY <1>1, StateLater DEF MemoryFits
<1>3. ResultFits(m)'
  BY DEF MemoryFits, ResultFits, Later
<1>4. FailureFits(m)'
  BY ExcusedLater DEF MemoryFits, FailureFits
<1>5. PlaceFits(m)'
  BY <1>1 DEF MemoryFits, PlaceFits, Later
<1>6. QED
  BY <1>2, <1>3, <1>4, <1>5 DEF MemoryFits, Later

\* A step of one process leaves the knowledge of all in order.
LEMMA Moves ==
  ASSUME TypeOK, TypeOK', BoundsAssumption, Later, NEW p \in Processes, NEW x,
         \A q \in Processes : MemoryFits(me[q]),
         me' = [me EXCEPT ![p] = x], MemoryFits(x)'
  PROVE  \A q \in Processes : MemoryFits(me[q])'
<1>1. SUFFICES ASSUME NEW q \in Processes
               PROVE  MemoryFits(me[q])'
  OBVIOUS
<1>2. CASE q = p
  BY <1>2 DEF TypeOK
<1>3. CASE q # p
  <2>1. PICK m : m = me[q]
    OBVIOUS
  <2>2. m \in Memory /\ MemoryFits(m) /\ me'[q] = m
    BY <1>3, <2>1 DEF TypeOK
  <2>3. MemoryFits(m)'
    BY <2>2, MemoryLater
  <2>4. QED
    BY <2>2, <2>3
<1>4. QED
  BY <1>2, <1>3

-----------------------------------------------------------------------------
(* The shape of a step.                                                    *)

\* A step that leaves the builds and the capabilities alone takes nothing back.
LEMMA CoreSame ==
  ASSUME UNCHANGED <<jobs, required, upgrades>>, written \subseteq written',
         Kept => Kept'
  PROVE  Later
  BY DEF Later, Announced, Started, Kept, SuccessTold

\* The record stays in order while it is left alone.
LEMMA RecordLater ==
  ASSUME TypeOK, TypeOK', BoundsAssumption, Later, StateFits(record), record' = record
  PROVE  StateFits(record)'
<1>1. PICK s : s = record
  OBVIOUS
<1>2. s \in StateRecord /\ StateFits(s) /\ record' = s
  BY <1>1 DEF TypeOK
<1>3. StateFits(s)'
  BY <1>2, StateLater
<1>4. QED
  BY <1>2, <1>3

\* A step of a process that leaves Core alone: what it saves and what it tells is
\* true, and it remembers what it may.
LEMMA Working ==
  ASSUME TypeOK, BoundsAssumption, IInv, UNCHANGED <<core, upgrades>>,
         runs' \in [Processes -> 0..MaxRuns], faults' \in 0..MaxFaults,
         timeouts' \in 0..MaxTimeouts, crashes' \in 0..MaxCrashes,
         NEW s \in StateRecord, record' = s, StateFits(s), Kept => Kept',
         written \subseteq written', written' \subseteq Result,
         \A r \in written' : r.state \in Ended => Announced(r.state),
         NEW p \in Processes, NEW m, m = me[p], NEW x \in Memory,
         me' = [me EXCEPT ![p] = x], MemoryFits(m)' /\ StateFits(s)' => MemoryFits(x)'
  PROVE  TypeOK' /\ IInv'
<1>1. TypeOK'
  BY DEF TypeOK, core
<1>2. Later
  BY CoreSame DEF core
<1>3. StateFits(record)'
  BY <1>1, <1>2, StateLater
<1>4. (\A r \in written : r.state \in Ended => Announced(r.state))'
  BY <1>2 DEF Later
<1>5. MemoryFits(x)'
  <2>1. StateFits(s)'
    BY <1>1, <1>2, StateLater
  <2>2. m \in Memory /\ MemoryFits(m)
    BY DEF TypeOK, IInv
  <2>3. QED
    BY <1>1, <1>2, <2>1, <2>2, MemoryLater
<1>6. \A q \in Processes : MemoryFits(me[q])'
  BY <1>1, <1>2, <1>5, Moves DEF IInv
<1>7. CoreFits' /\ (jobs # {} => Kept)'
  BY DEF IInv, CoreFits, OneJob, core
<1>8. QED
  BY <1>1, <1>3, <1>4, <1>6, <1>7 DEF IInv

\* A step that changes nothing but the memory of a process and the counters.
LEMMA Private ==
  ASSUME TypeOK, BoundsAssumption, IInv, UNCHANGED <<core, record, written, upgrades>>,
         runs' \in [Processes -> 0..MaxRuns], faults' \in 0..MaxFaults,
         timeouts' \in 0..MaxTimeouts, crashes' \in 0..MaxCrashes,
         NEW p \in Processes, NEW x \in Memory,
         me' = [me EXCEPT ![p] = x], MemoryFits(x)
  PROVE  TypeOK' /\ IInv'
<1>1. PICK m, s : m = me[p] /\ s = record
  OBVIOUS
<1>2. s \in StateRecord /\ record' = s /\ StateFits(s) /\ (Kept => Kept')
  BY <1>1 DEF TypeOK, IInv, Kept, SuccessTold, Absent
<1>3. TypeOK'
  BY DEF TypeOK, core
<1>4. MemoryFits(x)'
  BY <1>2, <1>3, CoreSame, MemoryLater DEF core
<1>5. /\ written \subseteq written' /\ written' \subseteq Result
      /\ \A r \in written' : r.state \in Ended => Announced(r.state)
  BY DEF TypeOK, IInv
<1>6. QED
  BY <1>1, <1>2, <1>4, <1>5, Working

-----------------------------------------------------------------------------
(* The steps that are the process's own.                                   *)

\* An invocation begins with what it derives again.
LEMMA StartStep ==
  ASSUME TypeOK, BoundsAssumption, AttemptsAssumption, IInv, NEW p \in Processes,
         NEW resume \in BOOLEAN, NEW wait \in BOOLEAN, Start(p, resume, wait)
  PROVE  TypeOK' /\ IInv'
<1>1. PICK m : m = me[p]
  OBVIOUS
<1> DEFINE x == [m EXCEPT !.pc = "capabilities", !.resume = resume, !.wait = wait,
                   !.key = Key(p)]
<1>2. m \in Memory /\ MemoryFits(m) /\ m.pc = "idle"
  BY <1>1 DEF TypeOK, IInv, Start
<1>3. x \in Memory
  BY <1>2 DEF Memory, Key, PC
<1>4. MemoryFits(x)
  BY <1>2 DEF Memory, Key, MemoryFits, ResultFits, FailureFits, PlaceFits
<1>5. me' = [me EXCEPT ![p] = x]
  BY <1>1 DEF Start, Set
<1>6. runs' \in [Processes -> 0..MaxRuns]
  BY DEF Start, TypeOK, BoundsAssumption
<1>7. QED
  BY <1>3, <1>4, <1>5, <1>6, Private DEF Start, TypeOK, core

\* The capabilities are read: what Core requires now is what it did, unless an
\* upgrade came in between.
LEMMA CapabilitiesStep ==
  ASSUME TypeOK, BoundsAssumption, AttemptsAssumption, IInv, NEW p \in Processes,
         Capabilities(p)
  PROVE  TypeOK' /\ IInv'
<1>1. PICK m : m = me[p]
  OBVIOUS
<1> DEFINE x == [m EXCEPT !.pc = "load", !.attempt = 0, !.ready = ready,
                   !.intent = required]
<1>2. m \in Memory /\ MemoryFits(m) /\ m.pc = "capabilities"
  BY <1>1 DEF TypeOK, IInv, Capabilities
<1>3. x \in Memory
  <2>1. ready \in BOOLEAN /\ required \in Intents /\ 0 \in 0..Attempts - 1
    BY DEF TypeOK, AttemptsAssumption
  <2>2. QED
    BY <1>2, <2>1 DEF Memory, PC
<1>4. MemoryFits(x)
  BY <1>2 DEF Memory, MemoryFits, ResultFits, FailureFits, PlaceFits
<1>5. me' = [me EXCEPT ![p] = x]
  BY <1>1 DEF Capabilities, Set
<1>6. QED
  BY <1>3, <1>4, <1>5, Private DEF Capabilities, TypeOK, core, counters

\* A failure that no build is blamed for.
LEMMA FailsFits ==
  ASSUME NEW m \in Memory, MemoryFits(m), m.pc \notin {"finalize", "output"},
         NEW kind \in Kinds, kind # "terminal",
         kind = "conflict" =>
           Excused /\ (m.wait /\ m.state.job => m.state.safe \in Blocked)
  PROVE  /\ [m EXCEPT !.pc = "failing", !.why = kind] \in Memory
         /\ MemoryFits([m EXCEPT !.pc = "failing", !.why = kind])
<1> DEFINE x == [m EXCEPT !.pc = "failing", !.why = kind]
<1>1. x \in Memory
  BY DEF Memory, PC
<1>2. /\ x.pc = "failing" /\ x.why = kind /\ x.state = m.state /\ x.result = m.result
      /\ x.key = m.key /\ x.intent = m.intent /\ x.cleanup = m.cleanup
      /\ x.wait = m.wait
  BY DEF Memory
<1>3. ResultFits(x)
  BY <1>2 DEF MemoryFits, ResultFits
<1>4. FailureFits(x)
  BY <1>2 DEF FailureFits
<1>5. PlaceFits(x)
  BY <1>2 DEF PlaceFits
<1>6. QED
  BY <1>1, <1>2, <1>3, <1>4, <1>5 DEF MemoryFits

\* Where an invocation goes on, with the record it had.
LEMMA GoesFits ==
  ASSUME AttemptsAssumption, NEW m \in Memory, MemoryFits(m),
         m.pc \notin {"finalize", "output"},
         NEW place \in {"create", "submit", "accepted", "status"},
         place = "create" => ~m.state.job,
         place = "submit" => Kept /\ ~m.state.job /\ m.state.intent = m.intent,
         place = "accepted" => Started(m.intent) /\ m.state.intent = m.intent,
         place = "status" => m.state.job
  PROVE  /\ [m EXCEPT !.pc = place, !.attempt = 0] \in Memory
         /\ MemoryFits([m EXCEPT !.pc = place, !.attempt = 0])
<1> DEFINE x == [m EXCEPT !.pc = place, !.attempt = 0]
<1>1. x \in Memory
  <2>1. 0 \in 0..Attempts - 1
    BY DEF AttemptsAssumption
  <2>2. QED
    BY <2>1 DEF Memory, PC
<1>2. /\ x.pc = place /\ x.state = m.state /\ x.result = m.result /\ x.seen = m.seen
      /\ x.key = m.key /\ x.intent = m.intent /\ x.cleanup = m.cleanup
  BY DEF Memory
<1>3. ResultFits(x) /\ FailureFits(x) /\ PlaceFits(x)
  BY <1>2 DEF MemoryFits, ResultFits, FailureFits, PlaceFits
<1>4. QED
  BY <1>1, <1>2, <1>3 DEF MemoryFits

\* A process that ends knows nothing of the build.
LEMMA EndsFits ==
  ASSUME AttemptsAssumption, NEW m \in Memory, MemoryFits(m), NEW x,
         x = [m EXCEPT !.pc = "idle", !.state = NoRecord(m.intent), !.attempt = 0,
                !.result = [state |-> "preflight", publication |-> FALSE],
                !.cleanup = FALSE, !.key = 0]
  PROVE  x \in Memory /\ MemoryFits(x)
<1>1. NoRecord(m.intent) \in StateRecord
  BY DEF Memory, StateRecord, NoRecord
<1>2. x \in Memory
  <2>1. 0 \in 0..Attempts - 1 /\ 0 \in Nat
    BY DEF AttemptsAssumption
  <2>2. [state |-> "preflight", publication |-> FALSE] \in Result
    BY DEF Result
  <2>3. QED
    BY <1>1, <2>1, <2>2 DEF Memory, PC
<1>3. /\ x.pc = "idle" /\ x.key = 0 /\ x.intent = m.intent /\ x.cleanup = FALSE
      /\ x.state = NoRecord(m.intent) /\ x.result.state = "preflight"
  BY DEF Memory
<1>4. StateFits(x.state)
  BY <1>3 DEF StateFits, NoRecord, MemoryFits, Ended
<1>5. ResultFits(x) /\ FailureFits(x) /\ PlaceFits(x)
  BY <1>3 DEF ResultFits, FailureFits, PlaceFits, NoRecord, Ended
<1>6. QED
  BY <1>2, <1>3, <1>4, <1>5 DEF MemoryFits

-----------------------------------------------------------------------------
(* An invocation, step by step.                                            *)

\* What the record says becomes what the process knows.
LEMMA ResumeFits ==
  ASSUME NEW m \in Memory, MemoryFits(m), m.pc = "load",
         NEW s \in StateRecord, StateFits(s), NEW told \in BOOLEAN,
         NEW place \in {"failing", "status", "submit"}, NEW kind \in Kinds,
         place = "failing" => kind # "terminal" /\ (kind = "conflict" => s.safe \in Blocked),
         place = "status" => s.job,
         place = "submit" => Kept /\ ~s.job /\ s.intent = m.intent,
         NEW x, x = [m EXCEPT !.state = s, !.result.publication = told,
                       !.pc = place, !.why = kind]
  PROVE  x \in Memory /\ MemoryFits(x)
<1>1. [m.result EXCEPT !.publication = told] \in Result
  BY DEF Memory, Result
<1>2. x \in Memory
  BY <1>1 DEF Memory, PC
<1>3. /\ x.pc = place /\ x.why = kind /\ x.state = s /\ x.key = m.key
      /\ x.intent = m.intent /\ x.cleanup = m.cleanup
  BY DEF Memory
<1>4. x.result.state = m.result.state
  BY DEF Memory, Result
<1>5. ResultFits(x)
  BY <1>3, <1>4 DEF MemoryFits, ResultFits
<1>6. s.safe \in Blocked => Excused
  BY DEF StateFits, Blocked, Ended, Excused
<1>7. FailureFits(x) /\ PlaceFits(x)
  BY <1>3, <1>6 DEF FailureFits, PlaceFits
<1>8. QED
  BY <1>2, <1>3, <1>5, <1>7 DEF MemoryFits

\* A record that is blocked, or that asks for another identity, ends the
\* invocation; any other one tells where it goes on.
LEMMA LoadStep ==
  ASSUME TypeOK, BoundsAssumption, AttemptsAssumption, IInv, NEW p \in Processes,
         Load(p)
  PROVE  TypeOK' /\ IInv'
<1>1. PICK m, s : m = me[p] /\ s = record
  OBVIOUS
<1>2. /\ m \in Memory /\ MemoryFits(m) /\ m.pc = "load" /\ ~m.state.job
      /\ s \in StateRecord /\ StateFits(s)
  BY <1>1 DEF TypeOK, IInv, Load, MemoryFits, PlaceFits
<1> DEFINE told == s.publication /\ s.safe \notin Blocked
           resumed(place, kind) ==
             [m EXCEPT !.state = s, !.result.publication = told,
                !.pc = place, !.why = kind]
           moves(x) == me' = [me EXCEPT ![p] = x]
<1>3. \/ moves([m EXCEPT !.pc = "failing", !.why = "input"])
      \/ moves([m EXCEPT !.pc = "failing", !.why = "capability"])
      \/ moves([m EXCEPT !.pc = "create", !.attempt = 0])
      \/ ~s.job /\ s.intent # m.intent
         /\ moves([m EXCEPT !.pc = "failing", !.why = "conflict"])
      \/ s.safe \in Blocked /\ moves(resumed("failing", "conflict"))
      \/ s.job /\ moves(resumed("status", m.why))
      \/ ~s.job /\ s.intent = m.intent /\ ~Absent(s)
         /\ (moves(resumed("submit", m.why)) \/ moves(resumed("failing", "capability")))
  <2>1. CASE m.resume /\ ~Absent(record) /\ (record.job \/ record.intent = m.intent)
    <3> DEFINE known == [m EXCEPT !.state = s, !.result.publication = told]
    <3>1. \A place, kind : [known EXCEPT !.pc = place, !.why = kind] = resumed(place, kind)
      BY <1>2 DEF Memory
    <3>2. \A place : [known EXCEPT !.pc = place] = resumed(place, m.why)
      BY <1>2 DEF Memory
    <3>3. \/ s.safe \in Blocked /\ moves([known EXCEPT !.pc = "failing", !.why = "conflict"])
          \/ s.safe \notin Blocked /\ s.job /\ moves([known EXCEPT !.pc = "status"])
          \/ s.safe \notin Blocked /\ ~s.job /\ moves([known EXCEPT !.pc = "submit"])
          \/ s.safe \notin Blocked /\ ~s.job
             /\ moves([known EXCEPT !.pc = "failing", !.why = "capability"])
      BY <1>1, <2>1 DEF Load, Set, Fails, Goto
    <3>4. QED
      BY <1>1, <2>1, <3>1, <3>2, <3>3
  <2>2. CASE ~(m.resume /\ ~Absent(record) /\ (record.job \/ record.intent = m.intent))
    BY <1>1, <1>2, <2>2 DEF Load, Set, Goto, Fails
  <2>3. QED
    BY <2>1, <2>2
<1>4. \E x \in Memory : MemoryFits(x) /\ moves(x)
  <2>1. told \in BOOLEAN
    OBVIOUS
  <2>2. m.why \in Kinds
    BY <1>2 DEF Memory
  <2>3. s.intent # m.intent => Excused
    BY <1>2 DEF StateFits, MemoryFits, Excused, TypeOK, BoundsAssumption
  <2>4. ~Absent(s) => Kept
    BY <1>1 DEF Kept
  <2>5. CASE moves([m EXCEPT !.pc = "failing", !.why = "input"])
    BY <1>2, <2>5, FailsFits DEF Kinds
  <2>6. CASE moves([m EXCEPT !.pc = "failing", !.why = "capability"])
    BY <1>2, <2>6, FailsFits DEF Kinds
  <2>7. CASE moves([m EXCEPT !.pc = "create", !.attempt = 0])
    BY <1>2, <2>7, GoesFits
  <2>8. CASE ~s.job /\ s.intent # m.intent
             /\ moves([m EXCEPT !.pc = "failing", !.why = "conflict"])
    BY <1>2, <2>3, <2>8, FailsFits DEF Kinds
  <2>9. CASE s.safe \in Blocked /\ moves(resumed("failing", "conflict"))
    BY <1>2, <2>1, <2>9, ResumeFits DEF Kinds
  <2>10. CASE s.job /\ moves(resumed("status", m.why))
    BY <1>2, <2>1, <2>2, <2>10, ResumeFits
  <2>11. CASE ~s.job /\ s.intent = m.intent /\ ~Absent(s) /\ moves(resumed("submit", m.why))
    BY <1>2, <2>1, <2>2, <2>4, <2>11, ResumeFits
  <2>12. CASE moves(resumed("failing", "capability"))
    BY <1>2, <2>1, <2>12, ResumeFits DEF Kinds
  <2>13. QED
    BY <1>3, <2>5, <2>6, <2>7, <2>8, <2>9, <2>10, <2>11, <2>12
<1>5. QED
  BY <1>4, Private DEF Load, TypeOK, core, counters

\* The first record of a snapshot knows no build.
LEMMA CreateStep ==
  ASSUME TypeOK, BoundsAssumption, AttemptsAssumption, IInv, NEW p \in Processes,
         Create(p)
  PROVE  TypeOK' /\ IInv'
<1>1. PICK m : m = me[p]
  OBVIOUS
<1> DEFINE s == [NoRecord(m.intent) EXCEPT !.safe = "prepared"]
           x == [m EXCEPT !.pc = "submit", !.state = s]
<1>2. m \in Memory /\ MemoryFits(m) /\ m.pc = "create"
  BY <1>1 DEF TypeOK, IInv, Create
<1>3. /\ s \in StateRecord /\ s.safe = "prepared" /\ ~s.job /\ ~s.publication
      /\ s.intent = m.intent
  BY <1>2 DEF Memory, StateRecord, NoRecord
<1>4. StateFits(s)
  BY <1>2, <1>3 DEF StateFits, MemoryFits, Ended
<1>5. record' = s /\ Kept'
  BY <1>1, <1>3 DEF Create, Kept, Absent
<1>6. x \in Memory
  BY <1>2, <1>3 DEF Memory, PC
<1>7. /\ x.pc = "submit" /\ x.state = s /\ x.result = m.result
      /\ x.key = m.key /\ x.intent = m.intent /\ x.cleanup = m.cleanup
  BY <1>2 DEF Memory
<1>8. MemoryFits(m)' /\ StateFits(s)' => MemoryFits(x)'
  BY <1>2, <1>3, <1>5, <1>7 DEF MemoryFits, ResultFits, FailureFits, PlaceFits
<1>9. me' = [me EXCEPT ![p] = x]
  BY <1>1 DEF Create, Set
<1>10. /\ written \subseteq written' /\ written' \subseteq Result
       /\ \A r \in written' : r.state \in Ended => Announced(r.state)
  BY DEF Create, TypeOK, IInv
<1>11. QED
  BY <1>1, <1>3, <1>4, <1>5, <1>6, <1>8, <1>9, <1>10, Working
     DEF Create, TypeOK, core, counters

\* An accepted build is on record before anything else happens to it.
LEMMA AcceptedStep ==
  ASSUME TypeOK, BoundsAssumption, AttemptsAssumption, IInv, NEW p \in Processes,
         Accepted(p)
  PROVE  TypeOK' /\ IInv'
<1>1. PICK m : m = me[p]
  OBVIOUS
<1> DEFINE s == [m.state EXCEPT !.job = TRUE, !.safe = "queued"]
           place == IF m.wait \/ m.resume THEN "status" ELSE "output"
           x == [m EXCEPT !.state = s, !.result.state = "queued", !.pc = place]
<1>2. m \in Memory /\ MemoryFits(m) /\ m.pc = "accepted"
  BY <1>1 DEF TypeOK, IInv, Accepted
<1>3. /\ s \in StateRecord /\ s.safe = "queued" /\ s.job
      /\ s.publication = m.state.publication /\ s.intent = m.state.intent
  BY <1>2 DEF Memory, StateRecord, JobState, Pending
<1>4. StateFits(s)
  BY <1>2, <1>3 DEF StateFits, MemoryFits, PlaceFits, Ended
<1>5. record' = s /\ Kept'
  BY <1>1, <1>3 DEF Accepted, Kept, Absent
<1>6. x \in Memory
  <2>1. [m.result EXCEPT !.state = "queued"] \in Result
    BY <1>2 DEF Memory, Result, JobState, Pending
  <2>2. QED
    BY <1>2, <1>3, <2>1 DEF Memory, PC
<1>7. /\ x.pc = place /\ x.state = s
      /\ x.key = m.key /\ x.intent = m.intent /\ x.cleanup = m.cleanup
  BY <1>2 DEF Memory
<1>8. x.result.state = "queued"
  BY <1>2 DEF Memory, Result
<1>9. MemoryFits(m)' /\ StateFits(s)' => MemoryFits(x)'
  <2>1. ResultFits(m)' => ResultFits(x)'
    BY <1>2, <1>7, <1>8 DEF ResultFits, Ended
  <2>2. FailureFits(x)' /\ PlaceFits(x)'
    <3>1. x.pc \in {"status", "output"} /\ x.state.job
      BY <1>3, <1>7
    <3>2. QED
      BY <3>1 DEF FailureFits, PlaceFits
  <2>3. QED
    BY <1>7, <2>1, <2>2 DEF MemoryFits
<1>10. me' = [me EXCEPT ![p] = x]
  BY <1>1 DEF Accepted, Set
<1>11. /\ written \subseteq written' /\ written' \subseteq Result
       /\ \A r \in written' : r.state \in Ended => Announced(r.state)
  BY DEF Accepted, TypeOK, IInv
<1>12. QED
  BY <1>1, <1>3, <1>4, <1>5, <1>6, <1>9, <1>10, <1>11, Working
     DEF Accepted, TypeOK, core, counters

\* What is read of the build is what Core says; a build of another identity is a
\* conflict only after an upgrade, and never for one who waits.
LEMMA PollStep ==
  ASSUME TypeOK, BoundsAssumption, AttemptsAssumption, IInv, NEW p \in Processes,
         Poll(p)
  PROVE  TypeOK' /\ IInv'
<1>1. PICK m : m = me[p]
  OBVIOUS
<1>2. m \in Memory /\ MemoryFits(m) /\ m.pc = "status" /\ m.state.job
  BY <1>1 DEF TypeOK, IInv, Poll, MemoryFits, PlaceFits
<1>3. PICK j \in jobs :
        \/ /\ ~(j.intent = m.state.intent /\ (m.wait \/ j.intent = m.intent))
           /\ me' = [me EXCEPT ![p] = [m EXCEPT !.pc = "failing", !.why = "conflict"]]
        \/ me' = [me EXCEPT ![p] =
                    [m EXCEPT !.pc = "apply", !.attempt = 0, !.seen = j.state]]
  BY <1>1 DEF Poll, Builds, SameIntent, Fails, Set
<1>4. \E x \in Memory : MemoryFits(x) /\ me' = [me EXCEPT ![p] = x]
  <2>1. CASE /\ ~(j.intent = m.state.intent /\ (m.wait \/ j.intent = m.intent))
             /\ me' = [me EXCEPT ![p] = [m EXCEPT !.pc = "failing", !.why = "conflict"]]
    <3>1. j.intent = m.state.intent
      BY <1>2 DEF MemoryFits, StateFits, Started, IInv, CoreFits, OneJob
    <3>2. ~m.wait /\ j.intent # m.intent
      BY <2>1, <3>1
    <3>3. Excused
      BY <1>2, <3>2 DEF MemoryFits, IInv, CoreFits, Excused, TypeOK, BoundsAssumption
    <3>4. QED
      BY <1>2, <2>1, <3>2, <3>3, FailsFits DEF Kinds
  <2>2. CASE me' = [me EXCEPT ![p] =
                     [m EXCEPT !.pc = "apply", !.attempt = 0, !.seen = j.state]]
    <3> DEFINE x == [m EXCEPT !.pc = "apply", !.attempt = 0, !.seen = j.state]
    <3>1. 0 \in 0..Attempts - 1 /\ j.state \in JobState
      BY DEF AttemptsAssumption, TypeOK, Job
    <3>2. x \in Memory
      BY <1>2, <3>1 DEF Memory, PC
    <3>3. /\ x.pc = "apply" /\ x.seen = j.state /\ x.state = m.state /\ x.key = m.key
          /\ x.result = m.result /\ x.intent = m.intent /\ x.cleanup = m.cleanup
      BY <1>2 DEF Memory
    <3>4. MemoryFits(x)
      BY <1>2, <3>3
         DEF MemoryFits, ResultFits, FailureFits, PlaceFits, Announced
    <3>5. QED
      BY <2>2, <3>2, <3>4
  <2>3. QED
    BY <1>3, <2>1, <2>2
<1>5. QED
  BY <1>4, Private DEF Poll, TypeOK, core, counters

\* What was read is saved, and told.
LEMMA ApplyStep ==
  ASSUME TypeOK, BoundsAssumption, AttemptsAssumption, IInv, NEW p \in Processes,
         Apply(p)
  PROVE  TypeOK' /\ IInv'
<1>1. PICK m : m = me[p]
  OBVIOUS
<1> DEFINE done == m.seen = "succeeded"
           s == [m.state EXCEPT !.safe = m.seen, !.publication = @ \/ done]
           known == [m EXCEPT !.state = s, !.result.state = m.seen,
                       !.result.publication = @ \/ done]
<1>2. m \in Memory /\ MemoryFits(m) /\ m.pc = "apply" /\ m.state.job
  BY <1>1 DEF TypeOK, IInv, Apply, MemoryFits, PlaceFits
<1>3. /\ s \in StateRecord /\ s.safe = m.seen /\ s.job /\ s.intent = m.state.intent
      /\ s.publication = (m.state.publication \/ done)
  BY <1>2 DEF Memory, StateRecord
<1>4. StateFits(s)
  <2>1. m.seen \in Ended => Announced(m.seen)
    BY <1>2 DEF MemoryFits, PlaceFits
  <2>2. done => Announced("succeeded")
    BY <2>1 DEF Ended
  <2>3. m.seen # "conflict"
    BY <1>2 DEF Memory, JobState, Pending, Ended
  <2>4. QED
    BY <1>2, <1>3, <2>1, <2>2, <2>3 DEF StateFits, MemoryFits
<1>5. record' = s /\ Kept'
  <2>1. m.seen # "none"
    BY <1>2 DEF Memory, JobState, Pending, Ended
  <2>2. QED
    BY <1>1, <1>3, <2>1 DEF Apply, Kept, Absent
<1>6. /\ known \in Memory /\ known.state = s /\ known.result.state = m.seen
      /\ known.key = m.key /\ known.intent = m.intent /\ known.cleanup = m.cleanup
      /\ known.seen = m.seen /\ known.wait = m.wait /\ known.pc = "apply"
  <2>1. /\ [m.result EXCEPT !.state = m.seen, !.publication = @ \/ done] \in Result
        /\ [m.result EXCEPT !.state = m.seen, !.publication = @ \/ done].state = m.seen
    BY <1>2 DEF Memory, Result
  <2>2. QED
    BY <1>2, <1>3, <2>1 DEF Memory
<1>7. MemoryFits(m)' /\ StateFits(s)' => MemoryFits(known)'
  <2>1. ~m.cleanup
    BY <1>2 DEF MemoryFits, ResultFits
  <2>2. PlaceFits(m)' => ResultFits(known)' /\ FailureFits(known)' /\ PlaceFits(known)'
    BY <1>2, <1>3, <1>6, <2>1 DEF ResultFits, FailureFits, PlaceFits
  <2>3. QED
    BY <1>6, <2>2 DEF MemoryFits
<1>8. \E x \in Memory : /\ MemoryFits(known)' => MemoryFits(x)'
                        /\ me' = [me EXCEPT ![p] = x]
  <2>0. known.state.job /\ ~known.cleanup
    BY <1>2, <1>3, <1>6 DEF MemoryFits, ResultFits
  <2>1. CASE /\ m.wait /\ m.seen \in {"terminal_failed", "cancelled"}
             /\ me' = [me EXCEPT ![p] = [known EXCEPT !.pc = "failing", !.why = "terminal"]]
    <3> DEFINE x == [known EXCEPT !.pc = "failing", !.why = "terminal"]
    <3> HIDE DEF known
    <3>1. x \in Memory
      BY <1>6 DEF Memory, PC, Kinds
    <3>2. /\ x.pc = "failing" /\ x.why = "terminal" /\ x.state = known.state
          /\ x.key = known.key /\ x.result = known.result /\ x.intent = known.intent
          /\ x.cleanup = known.cleanup
      BY <1>6 DEF Memory
    <3>3. MemoryFits(known)' => MemoryFits(x)'
      BY <1>6, <2>0, <2>1, <3>2 DEF MemoryFits, ResultFits, FailureFits, PlaceFits
    <3>4. QED
      BY <2>1, <3>1, <3>3
  <2>2. CASE me' = [me EXCEPT ![p] = [known EXCEPT !.pc = "status"]]
    <3> DEFINE x == [known EXCEPT !.pc = "status"]
    <3> HIDE DEF known
    <3>1. x \in Memory
      BY <1>6 DEF Memory, PC
    <3>2. /\ x.pc = "status" /\ x.state = known.state
          /\ x.key = known.key /\ x.result = known.result /\ x.intent = known.intent
          /\ x.cleanup = known.cleanup
      BY <1>6 DEF Memory
    <3>3. MemoryFits(known)' => MemoryFits(x)'
      BY <2>0, <3>2 DEF MemoryFits, ResultFits, FailureFits, PlaceFits
    <3>4. QED
      BY <2>2, <3>1, <3>3
  <2>3. CASE me' = [me EXCEPT ![p] =
                     [known EXCEPT !.pc = "output", !.cleanup = CleansUp(m.seen)]]
    <3> DEFINE x == [known EXCEPT !.pc = "output", !.cleanup = CleansUp(m.seen)]
    <3> HIDE DEF known
    <3>1. x \in Memory
      BY <1>6 DEF Memory, PC, CleansUp
    <3>2. /\ x.pc = "output" /\ x.state = known.state
          /\ x.key = known.key /\ x.result = known.result /\ x.intent = known.intent
          /\ x.cleanup = (m.seen = "succeeded")
      BY <1>6 DEF Memory, CleansUp
    <3>3. MemoryFits(known)' => MemoryFits(x)'
      BY <1>6, <2>0, <3>2 DEF MemoryFits, ResultFits, FailureFits, PlaceFits
    <3>4. QED
      BY <2>3, <3>1, <3>3
  <2>4. QED
    BY <1>1, <2>1, <2>2, <2>3 DEF Apply, Set
<1>9. /\ written \subseteq written' /\ written' \subseteq Result
      /\ \A r \in written' : r.state \in Ended => Announced(r.state)
  BY DEF Apply, TypeOK, IInv
<1>10. QED
  <2>1. PICK x \in Memory : /\ MemoryFits(m)' /\ StateFits(s)' => MemoryFits(x)'
                            /\ me' = [me EXCEPT ![p] = x]
    BY <1>7, <1>8
  <2>2. QED
    BY <1>1, <1>3, <1>4, <1>5, <1>9, <2>1, Working DEF Apply, TypeOK, core, counters

\* The mark that a failure leaves is what the process was told.
LEMMA FailureStep ==
  ASSUME TypeOK, BoundsAssumption, AttemptsAssumption, IInv, NEW p \in Processes,
         Failure(p)
  PROVE  TypeOK' /\ IInv'
<1>1. PICK m : m = me[p]
  OBVIOUS
<1> DEFINE mark == CASE m.why = "retryable" -> "retryable_incomplete"
                     [] m.why = "conflict" -> "conflict"
                     [] m.why = "terminal" -> m.result.state
                     [] OTHER -> m.state.safe
           said == CASE m.why = "retryable" -> "retryable_incomplete"
                     [] m.why = "terminal" -> m.result.state
                     [] OTHER -> "failed"
           marked == [m.state EXCEPT !.safe = mark]
           s == IF Absent(m.state) THEN record ELSE marked
           x == [m EXCEPT !.pc = "output", !.result.state = said]
<1>2. m \in Memory /\ MemoryFits(m) /\ m.pc = "failing" /\ m.state \in StateRecord
  BY <1>1 DEF TypeOK, IInv, Failure, Memory
<1>3. /\ m.why = "terminal" => m.result.state \in {"terminal_failed", "cancelled"}
      /\ m.why = "conflict" => Excused
      /\ m.result.state \in Ended => Announced(m.result.state)
      /\ StateFits(m.state)
  BY <1>2 DEF MemoryFits, FailureFits, ResultFits
<1>4. /\ \/ mark = "retryable_incomplete"
         \/ mark = "conflict" /\ Excused
         \/ mark \in {"terminal_failed", "cancelled"} /\ Announced(mark)
         \/ mark = m.state.safe
      /\ ~Absent(m.state) => mark # "none"
  BY <1>3 DEF Ended, Absent
<1>5. marked \in StateRecord /\ StateFits(marked)
  <2>1. mark \in {"none", "prepared", "retryable_incomplete", "conflict"} \cup JobState
    BY <1>2, <1>4 DEF StateRecord, JobState, Ended
  <2>2. /\ marked \in StateRecord /\ marked.safe = mark /\ marked.job = m.state.job
        /\ marked.publication = m.state.publication /\ marked.intent = m.state.intent
    BY <1>2, <2>1 DEF StateRecord
  <2>3. QED
    BY <1>3, <1>4, <2>2 DEF StateFits, Ended
<1>6. s \in StateRecord /\ StateFits(s)
  BY <1>5 DEF TypeOK, IInv
<1>7. record' = s /\ (Kept => Kept')
  <2>1. record' = s /\ written' = written
    BY <1>1 DEF Failure, SafeAfter
  <2>2. ~Absent(m.state) => ~Absent(marked)
    BY <1>2, <1>4 DEF Absent, StateRecord
  <2>3. QED
    BY <2>1, <2>2 DEF Kept, SuccessTold, Absent
<1>8. said \in {"retryable_incomplete", "failed", "terminal_failed", "cancelled"}
      /\ (said \in Ended => Announced(said))
  BY <1>3 DEF Ended
<1>9. x \in Memory /\ x.result.state = said
  <2>1. /\ [m.result EXCEPT !.state = said] \in Result
        /\ [m.result EXCEPT !.state = said].state = said
    BY <1>2, <1>8 DEF Memory, Result, JobState, Ended
  <2>2. QED
    BY <1>2, <2>1 DEF Memory, PC
<1>10. /\ x.pc = "output" /\ x.state = m.state /\ x.key = m.key
       /\ x.intent = m.intent /\ x.cleanup = m.cleanup /\ ~m.cleanup
  BY <1>2 DEF Memory, MemoryFits, ResultFits
<1>11. MemoryFits(x)
  BY <1>2, <1>8, <1>9, <1>10 DEF MemoryFits, ResultFits, FailureFits, PlaceFits
<1>12. MemoryFits(x)'
  <2>1. TypeOK'
    <3>1. me' = [me EXCEPT ![p] = x]
      BY <1>1 DEF Failure, Set
    <3>2. QED
      BY <1>6, <1>7, <1>9, <3>1 DEF Failure, TypeOK, core, counters
  <2>2. Later
    BY <1>7, CoreSame DEF Failure, core, counters
  <2>3. QED
    BY <1>9, <1>11, <2>1, <2>2, MemoryLater
<1>13. me' = [me EXCEPT ![p] = x]
  BY <1>1 DEF Failure, Set
<1>14. /\ written \subseteq written' /\ written' \subseteq Result
       /\ \A r \in written' : r.state \in Ended => Announced(r.state)
  BY DEF Failure, TypeOK, IInv
<1>15. QED
  BY <1>1, <1>6, <1>7, <1>9, <1>12, <1>13, <1>14, Working
     DEF Failure, TypeOK, core, counters

\* A result that is written is true; the record goes only after a success is out.
LEMMA OutputStep ==
  ASSUME TypeOK, BoundsAssumption, AttemptsAssumption, IInv, NEW p \in Processes,
         Output(p)
  PROVE  TypeOK' /\ IInv'
<1>1. PICK m, s : m = me[p] /\ s = record
  OBVIOUS
<1>2. /\ m \in Memory /\ MemoryFits(m) /\ m.pc = "output" /\ m.result \in Result
      /\ s \in StateRecord /\ StateFits(s) /\ record' = s
  BY <1>1 DEF TypeOK, IInv, Output, Memory
<1>3. /\ written \subseteq written' /\ written' \subseteq Result
      /\ \A r \in written' : r.state \in Ended => Announced(r.state)
  BY <1>1, <1>2 DEF Output, TypeOK, IInv, MemoryFits, ResultFits
<1>4. Kept => Kept'
  BY <1>1, <1>2, <1>3 DEF Kept, SuccessTold, Absent
<1>5. \E x \in Memory : /\ MemoryFits(m)' => MemoryFits(x)'
                        /\ me' = [me EXCEPT ![p] = x]
  <2>1. CASE /\ m.cleanup /\ written' = written \cup {m.result}
             /\ me' = [me EXCEPT ![p] = [m EXCEPT !.pc = "finalize", !.attempt = 0]]
    <3> DEFINE x == [m EXCEPT !.pc = "finalize", !.attempt = 0]
    <3>1. 0 \in 0..Attempts - 1
      BY DEF AttemptsAssumption
    <3>2. x \in Memory
      BY <1>2, <3>1 DEF Memory, PC
    <3>3. /\ x.pc = "finalize" /\ x.state = m.state /\ x.key = m.key
          /\ x.result = m.result /\ x.intent = m.intent /\ x.cleanup = m.cleanup
      BY <1>2 DEF Memory
    <3>4. SuccessTold'
      BY <1>2, <2>1 DEF SuccessTold, MemoryFits, ResultFits
    <3>5. MemoryFits(m)' => MemoryFits(x)'
      BY <1>2, <3>3, <3>4 DEF MemoryFits, ResultFits, FailureFits, PlaceFits
    <3>6. QED
      BY <2>1, <3>2, <3>5
  <2>2. CASE Ends(p)
    <3> DEFINE x == [m EXCEPT !.pc = "idle", !.state = NoRecord(m.intent), !.attempt = 0,
                       !.result = [state |-> "preflight", publication |-> FALSE],
                       !.cleanup = FALSE, !.key = 0]
    <3>1. me' = [me EXCEPT ![p] = x]
      BY <1>1, <2>2 DEF Ends, Set
    <3>2. x \in Memory /\ MemoryFits(x)
      BY <1>2, EndsFits
    <3>3. TypeOK'
      BY <1>3, <3>1, <3>2 DEF Output, TypeOK, core, counters
    <3>4. Later
      BY <1>3, <1>4, CoreSame DEF Output, core, counters
    <3>5. MemoryFits(x)'
      BY <3>2, <3>3, <3>4, MemoryLater
    <3>6. QED
      BY <3>1, <3>2, <3>5
  <2>3. QED
    BY <1>1, <2>1, <2>2 DEF Output, Goto, Set
<1>6. QED
  <2>1. PICK x \in Memory : /\ MemoryFits(m)' => MemoryFits(x)'
                            /\ me' = [me EXCEPT ![p] = x]
    BY <1>5
  <2>2. QED
    BY <1>1, <1>2, <1>3, <1>4, <2>1, Working DEF Output, TypeOK, core, counters

\* The record is removed once its success was told.
LEMMA FinalizeStep ==
  ASSUME TypeOK, BoundsAssumption, AttemptsAssumption, IInv, NEW p \in Processes,
         Finalize(p)
  PROVE  TypeOK' /\ IInv'
<1>1. PICK m : m = me[p]
  OBVIOUS
<1> DEFINE s == NoRecord(m.intent)
           x == [m EXCEPT !.pc = "idle", !.state = NoRecord(m.intent), !.attempt = 0,
                   !.result = [state |-> "preflight", publication |-> FALSE],
                   !.cleanup = FALSE, !.key = 0]
<1>2. m \in Memory /\ MemoryFits(m) /\ SuccessTold
  BY <1>1 DEF TypeOK, IInv, Finalize, MemoryFits, ResultFits
<1>3. s \in StateRecord /\ record' = s
  BY <1>1, <1>2 DEF Finalize, Memory, StateRecord, NoRecord
<1>4. StateFits(s)
  BY <1>2 DEF StateFits, NoRecord, MemoryFits, Ended
<1>5. Kept'
  BY <1>2 DEF Finalize, Kept, SuccessTold
<1>6. me' = [me EXCEPT ![p] = x]
  BY <1>1 DEF Finalize, Ends, Set
<1>7. x \in Memory /\ MemoryFits(x)
  BY <1>2, EndsFits
<1>8. /\ written \subseteq written' /\ written' \subseteq Result
      /\ \A r \in written' : r.state \in Ended => Announced(r.state)
  BY DEF Finalize, TypeOK, IInv
<1>9. MemoryFits(x)'
  <2>1. TypeOK'
    BY <1>3, <1>6, <1>7, <1>8 DEF Finalize, TypeOK, core, counters
  <2>2. Later
    BY <1>5, <1>8, CoreSame DEF Finalize, core, counters
  <2>3. QED
    BY <1>7, <2>1, <2>2, MemoryLater
<1>10. QED
  BY <1>1, <1>3, <1>4, <1>5, <1>6, <1>7, <1>8, <1>9, Working
     DEF Finalize, TypeOK, core, counters

-----------------------------------------------------------------------------
(* Core, and trouble.                                                      *)

\* A submission replays the build that its key has, or begins the only one.
LEMMA AcceptsOne ==
  ASSUME TypeOK, IInv, NEW intent \in Intents, upgrades = 0 => intent = required,
         ~Conflicts(0, intent), CoreAccepts(0, intent), Kept,
         UNCHANGED <<required, upgrades, record, written>>
  PROVE  /\ jobs' \subseteq Job /\ CoreFits' /\ Later /\ Started(intent)'
         /\ (jobs # {} => Kept)'
<1>1. Builds(0) = jobs
  BY DEF IInv, CoreFits, Builds
<1>2. (jobs # {} => Kept)'
  BY DEF Kept, SuccessTold, Absent
<1>3. CASE jobs = {}
  <2>1. jobs' = {[key |-> 0, intent |-> intent, state |-> "queued"]}
    BY <1>1, <1>3 DEF CoreAccepts
  <2>2. QED
    BY <1>2, <1>3, <2>1
       DEF Job, JobState, Pending, CoreFits, OneJob, Later, Announced, Started, Kept,
           SuccessTold, Absent
<1>4. CASE jobs # {}
  <2>1. jobs' = jobs /\ Started(intent)
    BY <1>1, <1>4 DEF CoreAccepts, Conflicts, Started
  <2>2. QED
    BY <1>2, <2>1
       DEF TypeOK, IInv, CoreFits, OneJob, Later, Announced, Started, Kept,
           SuccessTold, Absent
<1>5. QED
  BY <1>3, <1>4

\* A request that Core accepts, whether its answer arrives or not.
LEMMA Accepting ==
  ASSUME TypeOK, BoundsAssumption, IInv, NEW p \in Processes, NEW m, m = me[p],
         m.pc = "submit", ~Conflicts(m.key, m.intent), CoreAccepts(m.key, m.intent),
         UNCHANGED <<ready, required, record, written, upgrades>>,
         runs' \in [Processes -> 0..MaxRuns], faults' \in 0..MaxFaults,
         timeouts' \in 0..MaxTimeouts, crashes' \in 0..MaxCrashes,
         NEW x \in Memory, me' = [me EXCEPT ![p] = x],
         MemoryFits(m)' /\ Started(m.intent)' => MemoryFits(x)'
  PROVE  TypeOK' /\ IInv'
<1>1. /\ m \in Memory /\ MemoryFits(m) /\ m.intent \in Intents /\ m.key = 0 /\ Kept
      /\ (upgrades = 0 => m.intent = required)
  BY DEF TypeOK, IInv, MemoryFits, PlaceFits, Memory
<1>2. /\ jobs' \subseteq Job /\ CoreFits' /\ Later /\ Started(m.intent)'
      /\ (jobs # {} => Kept)'
  BY <1>1, AcceptsOne
<1>3. TypeOK'
  BY <1>2 DEF TypeOK
<1>4. MemoryFits(x)'
  BY <1>1, <1>2, <1>3, MemoryLater
<1>5. \A q \in Processes : MemoryFits(me[q])'
  BY <1>2, <1>3, <1>4, Moves DEF IInv
<1>6. StateFits(record)'
  BY <1>2, <1>3, RecordLater DEF IInv
<1>7. (\A r \in written : r.state \in Ended => Announced(r.state))'
  BY <1>2 DEF Later, IInv
<1>8. QED
  BY <1>2, <1>3, <1>5, <1>6, <1>7 DEF IInv

\* A key that is in use for another identity is in use because of an upgrade.
LEMMA SubmitStep ==
  ASSUME TypeOK, BoundsAssumption, AttemptsAssumption, IInv, NEW p \in Processes,
         Submit(p)
  PROVE  TypeOK' /\ IInv'
<1>1. PICK m : m = me[p]
  OBVIOUS
<1>2. m \in Memory /\ MemoryFits(m) /\ m.pc = "submit" /\ ~m.state.job
  BY <1>1 DEF TypeOK, IInv, Submit, MemoryFits, PlaceFits
<1>3. CASE Fails(p, "capability") /\ UNCHANGED jobs
  <2> DEFINE x == [m EXCEPT !.pc = "failing", !.why = "capability"]
  <2>1. x \in Memory /\ MemoryFits(x)
    BY <1>2, FailsFits DEF Kinds
  <2>2. me' = [me EXCEPT ![p] = x]
    BY <1>1, <1>3 DEF Fails, Set
  <2>3. QED
    BY <1>3, <2>1, <2>2, Private DEF Submit, TypeOK, core, counters
<1>4. CASE Conflicts(m.key, m.intent) /\ Fails(p, "conflict") /\ UNCHANGED jobs
  <2> DEFINE x == [m EXCEPT !.pc = "failing", !.why = "conflict"]
  <2>1. Excused
    BY <1>2, <1>4
       DEF Conflicts, Builds, MemoryFits, IInv, CoreFits, Excused, TypeOK,
           BoundsAssumption
  <2>2. x \in Memory /\ MemoryFits(x)
    BY <1>2, <2>1, FailsFits DEF Kinds
  <2>3. me' = [me EXCEPT ![p] = x]
    BY <1>1, <1>4 DEF Fails, Set
  <2>4. QED
    BY <1>4, <2>2, <2>3, Private DEF Submit, TypeOK, core, counters
<1>5. CASE ~Conflicts(m.key, m.intent) /\ CoreAccepts(m.key, m.intent) /\ Goto(p, "accepted")
  <2> DEFINE x == [m EXCEPT !.pc = "accepted", !.attempt = 0]
  <2>1. x \in Memory
    <3>1. 0 \in 0..Attempts - 1
      BY DEF AttemptsAssumption
    <3>2. QED
      BY <1>2, <3>1 DEF Memory, PC
  <2>2. /\ x.pc = "accepted" /\ x.state = m.state /\ x.key = m.key
        /\ x.result = m.result /\ x.intent = m.intent /\ x.cleanup = m.cleanup
    BY <1>2 DEF Memory
  <2>3. MemoryFits(m)' /\ Started(m.intent)' => MemoryFits(x)'
    BY <1>2, <2>2 DEF MemoryFits, ResultFits, FailureFits, PlaceFits
  <2>4. me' = [me EXCEPT ![p] = x]
    BY <1>1, <1>5 DEF Goto, Set
  <2>5. QED
    BY <1>1, <1>2, <1>5, <2>1, <2>3, <2>4, Accepting DEF Submit, TypeOK, core, counters
<1>6. QED
  BY <1>1, <1>3, <1>4, <1>5 DEF Submit

\* A request is lost, before Core has it or after.
LEMMA LostStep ==
  ASSUME TypeOK, BoundsAssumption, AttemptsAssumption, IInv, NEW p \in Processes,
         Lost(p)
  PROVE  TypeOK' /\ IInv'
<1>1. PICK m : m = me[p]
  OBVIOUS
<1>2. m \in Memory /\ MemoryFits(m) /\ m.pc \in {"capabilities", "submit", "status"}
  BY <1>1 DEF TypeOK, IInv, Lost, Requesting
<1>3. faults' \in 0..MaxFaults
  BY DEF Lost, TypeOK, BoundsAssumption
<1>4. PICK x \in Memory :
        /\ me' = [me EXCEPT ![p] = x] /\ MemoryFits(x)
        /\ MemoryFits(m)' => MemoryFits(x)'
  <2>1. CASE LastAttempt(p)
    <3> DEFINE x == [m EXCEPT !.pc = "failing", !.why = "retryable"]
    <3>1. x \in Memory /\ MemoryFits(x)
      BY <1>2, FailsFits DEF Kinds
    <3>2. /\ x.pc = "failing" /\ x.why = "retryable" /\ x.state = m.state /\ x.key = m.key
          /\ x.result = m.result /\ x.intent = m.intent /\ x.cleanup = m.cleanup
      BY <1>2 DEF Memory
    <3>3. MemoryFits(m)' => MemoryFits(x)'
      BY <1>2, <3>2 DEF MemoryFits, ResultFits, FailureFits, PlaceFits
    <3>4. QED
      BY <1>1, <2>1, <3>1, <3>3 DEF Lost, Fails, Set
  <2>2. CASE ~LastAttempt(p)
    <3> DEFINE x == [m EXCEPT !.attempt = @ + 1]
    <3>1. m.attempt \in 0..Attempts - 1 /\ m.attempt + 1 \in 0..Attempts - 1
      BY <1>1, <1>2, <2>2 DEF LastAttempt, Memory, AttemptsAssumption
    <3>2. x \in Memory
      BY <1>2, <3>1 DEF Memory
    <3>3. /\ x.pc = m.pc /\ x.why = m.why /\ x.state = m.state /\ x.key = m.key
          /\ x.result = m.result /\ x.intent = m.intent /\ x.cleanup = m.cleanup
          /\ x.wait = m.wait /\ x.seen = m.seen
      BY <1>2 DEF Memory
    <3>4. MemoryFits(x) /\ (MemoryFits(m)' => MemoryFits(x)')
      BY <1>2, <3>3 DEF MemoryFits, ResultFits, FailureFits, PlaceFits
    <3>5. QED
      BY <1>1, <2>2, <3>2, <3>4 DEF Lost, Set
  <2>3. QED
    BY <2>1, <2>2
<1>5. CASE UNCHANGED jobs
  BY <1>3, <1>4, <1>5, Private DEF Lost, TypeOK, core
<1>6. CASE m.pc = "submit" /\ ~Conflicts(m.key, m.intent) /\ CoreAccepts(m.key, m.intent)
  BY <1>1, <1>3, <1>4, <1>6, Accepting DEF Lost, TypeOK
<1>7. QED
  BY <1>1, <1>5, <1>6 DEF Lost

\* A refused credential, a timeout and a crash blame no build.
LEMMA TroubleStep ==
  ASSUME TypeOK, BoundsAssumption, AttemptsAssumption, IInv, NEW p \in Processes,
         Unauthorized(p) \/ TimesOut(p) \/ Crash(p)
  PROVE  TypeOK' /\ IInv'
<1>1. PICK m : m = me[p]
  OBVIOUS
<1>2. m \in Memory /\ MemoryFits(m)
  BY <1>1 DEF TypeOK, IInv
<1>3. \A kind \in {"auth", "retryable"} : m.pc \in Requesting =>
        /\ [m EXCEPT !.pc = "failing", !.why = kind] \in Memory
        /\ MemoryFits([m EXCEPT !.pc = "failing", !.why = kind])
  BY <1>2, FailsFits DEF Kinds, Requesting
<1>4. PICK x \in Memory : me' = [me EXCEPT ![p] = x] /\ MemoryFits(x)
  <2>1. CASE Unauthorized(p) \/ TimesOut(p)
    BY <1>1, <1>3, <2>1 DEF Unauthorized, TimesOut, Fails, Set
  <2>2. CASE Crash(p)
    BY <1>1, <1>2, <2>2, EndsFits DEF Crash, Ends, Set
  <2>3. QED
    BY <2>1, <2>2
<1>5. /\ UNCHANGED <<core, record, written, upgrades, runs>>
      /\ faults' \in 0..MaxFaults /\ timeouts' \in 0..MaxTimeouts
      /\ crashes' \in 0..MaxCrashes
  BY DEF Unauthorized, TimesOut, Crash, TypeOK, BoundsAssumption
<1>6. QED
  BY <1>4, <1>5, Private DEF TypeOK

\* What Core does alone: a build moves on while it is pending, and an upgrade
\* is an excuse.
LEMMA CoreStep ==
  ASSUME TypeOK, BoundsAssumption, IInv, JobStep \/ Upgrade
  PROVE  TypeOK' /\ IInv'
<1>1. TypeOK' /\ CoreFits' /\ Later /\ (jobs' # {} => jobs # {})
  <2>1. CASE JobStep
    <3>1. PICK j \in jobs, state \in JobState \ {"queued"} :
            /\ j.state \in Pending
            /\ jobs' = (jobs \ {j}) \cup {[j EXCEPT !.state = state]}
      BY <2>1 DEF JobStep
    <3>2. jobs = {j} /\ j \in Job /\ j.key = 0
      BY DEF IInv, CoreFits, OneJob, TypeOK
    <3>3. PICK k : k = [j EXCEPT !.state = state]
      OBVIOUS
    <3>4. jobs' = {k} /\ k \in Job /\ k.key = 0 /\ k.intent = j.intent
      BY <3>1, <3>2, <3>3 DEF Job
    <3>5. TypeOK'
      BY <2>1, <3>4 DEF JobStep, TypeOK, counters
    <3>6. CoreFits'
      BY <2>1, <3>2, <3>4 DEF JobStep, counters, CoreFits, OneJob, IInv
    <3>7. Later
      BY <2>1, <3>1, <3>2, <3>4
         DEF JobStep, counters, Later, Announced, Started, Kept, SuccessTold, Absent,
             Ended, Pending
    <3>8. QED
      BY <3>2, <3>5, <3>6, <3>7
  <2>2. CASE Upgrade
    <3>1. TypeOK' /\ upgrades' # 0
      <4>1. ready' \in BOOLEAN
        BY <2>2, Zenon DEF Upgrade, TypeOK
      <4>2. upgrades' \in 0..MaxUpgrades /\ upgrades' # 0
        BY <2>2 DEF Upgrade, TypeOK, BoundsAssumption
      <4>3. required' \in Intents
        BY <2>2 DEF Upgrade, TypeOK
      <4>4. QED
        BY <2>2, <4>1, <4>2, <4>3 DEF Upgrade, TypeOK
    <3>2. CoreFits' /\ Later
      BY <2>2, <3>1
         DEF Upgrade, CoreFits, OneJob, IInv, Later, Announced, Started, Kept,
             SuccessTold, Absent
    <3>3. QED
      BY <2>2, <3>1, <3>2 DEF Upgrade
  <2>3. QED
    BY <2>1, <2>2
<1>2. UNCHANGED <<record, me, written>>
  BY DEF JobStep, Upgrade
<1>3. StateFits(record)'
  BY <1>1, <1>2, RecordLater DEF IInv
<1>4. ASSUME NEW q \in Processes
      PROVE  MemoryFits(me[q])'
  <2>1. PICK m : m = me[q]
    OBVIOUS
  <2>2. m \in Memory /\ MemoryFits(m) /\ me'[q] = m
    BY <1>2, <2>1 DEF TypeOK, IInv
  <2>3. QED
    BY <1>1, <2>2, MemoryLater
<1>5. (\A r \in written : r.state \in Ended => Announced(r.state))'
  BY <1>1, <1>2 DEF Later, IInv
<1>6. (jobs # {} => Kept)'
  BY <1>1 DEF Later, IInv
<1>7. QED
  BY <1>1, <1>3, <1>4, <1>5, <1>6 DEF IInv

-----------------------------------------------------------------------------
(* The theorems.                                                           *)

\* Nothing is known, and nothing was told.
LEMMA Initially ==
  ASSUME BoundsAssumption, AttemptsAssumption, Init
  PROVE  TypeOK /\ IInv
<1> DEFINE m == [pc |-> "idle", resume |-> FALSE, wait |-> FALSE, key |-> 0,
                 ready |-> FALSE, intent |-> required, state |-> NoRecord(required),
                 attempt |-> 0, seen |-> "queued", why |-> "input", cleanup |-> FALSE,
                 result |-> [state |-> "preflight", publication |-> FALSE]]
<1>1. required \in Intents /\ record = NoRecord(required) /\ me = [p \in Processes |-> m]
  BY DEF Init
<1>2. NoRecord(required) \in StateRecord /\ StateFits(NoRecord(required))
  BY <1>1 DEF NoRecord, StateRecord, StateFits, Ended
<1>3. m \in Memory
  <2>1. 0 \in 0..Attempts - 1 /\ 0 \in Nat
    BY DEF AttemptsAssumption
  <2>2. m.result \in Result
    BY DEF Result
  <2>3. QED
    BY <1>1, <1>2, <2>1, <2>2 DEF Memory, PC, Kinds, JobState, Pending
<1>4. MemoryFits(m)
  BY <1>2 DEF MemoryFits, ResultFits, FailureFits, PlaceFits, NoRecord, Ended
<1>5. TypeOK
  <2>1. me \in [Processes -> Memory]
    BY <1>1, <1>3
  <2>2. ready \in BOOLEAN
    BY Zenon DEF Init
  <2>3. jobs \subseteq Job /\ written \subseteq Result /\ record \in StateRecord
    BY <1>1, <1>2 DEF Init
  <2>4. /\ runs \in [Processes -> 0..MaxRuns] /\ faults \in 0..MaxFaults
        /\ timeouts \in 0..MaxTimeouts /\ crashes \in 0..MaxCrashes
        /\ upgrades \in 0..MaxUpgrades
    BY DEF Init, BoundsAssumption
  <2>5. QED
    BY <1>1, <2>1, <2>2, <2>3, <2>4 DEF TypeOK
<1>6. IInv
  <2>1. \A p \in Processes : MemoryFits(me[p])
    BY <1>1, <1>4
  <2>2. QED
    BY <1>1, <1>2, <2>1 DEF Init, IInv, CoreFits, OneJob
<1>7. QED
  BY <1>5, <1>6

\* A step that changes nothing changes no truth about it.
LEMMA Stutters ==
  ASSUME TypeOK, IInv, UNCHANGED vars
  PROVE  TypeOK' /\ IInv'
<1>1. TypeOK'
  BY DEF TypeOK, vars
<1>2. CoreFits' /\ StateFits(record)' /\ (jobs # {} => Kept)'
  BY DEF IInv, CoreFits, OneJob, StateFits, Announced, Started, Excused, Kept,
         SuccessTold, Absent, vars
<1>3. \A p \in Processes : MemoryFits(me[p])'
  BY DEF IInv, MemoryFits, ResultFits, FailureFits, PlaceFits, StateFits, Announced,
         Started, Excused, Kept, SuccessTold, Absent, vars
<1>4. (\A r \in written : r.state \in Ended => Announced(r.state))'
  BY DEF IInv, Announced, vars
<1>5. QED
  BY <1>1, <1>2, <1>3, <1>4 DEF IInv

\* A step of Next keeps the types and the inductive invariant.
LEMMA Inductive ==
  ASSUME BoundsAssumption, AttemptsAssumption, TypeOK, IInv, [Next]_vars
  PROVE  TypeOK' /\ IInv'
<1>1. CASE UNCHANGED vars
  BY <1>1, Stutters
<1>2. CASE JobStep \/ Upgrade
  BY <1>2, CoreStep
<1>3. ASSUME NEW p \in Processes,
             \/ \E resume, wait \in BOOLEAN : Start(p, resume, wait)
             \/ Proceed(p) \/ Trouble(p)
      PROVE  TypeOK' /\ IInv'
  <2>1. CASE \E resume, wait \in BOOLEAN : Start(p, resume, wait)
    BY <2>1, StartStep
  <2>2. CASE Capabilities(p)
    BY <2>2, CapabilitiesStep
  <2>3. CASE Load(p)
    BY <2>3, LoadStep
  <2>4. CASE Create(p)
    BY <2>4, CreateStep
  <2>5. CASE Submit(p)
    BY <2>5, SubmitStep
  <2>6. CASE Accepted(p)
    BY <2>6, AcceptedStep
  <2>7. CASE Poll(p)
    BY <2>7, PollStep
  <2>8. CASE Apply(p)
    BY <2>8, ApplyStep
  <2>9. CASE Failure(p)
    BY <2>9, FailureStep
  <2>10. CASE Output(p)
    BY <2>10, OutputStep
  <2>11. CASE Finalize(p)
    BY <2>11, FinalizeStep
  <2>12. CASE Lost(p)
    BY <2>12, LostStep
  <2>13. CASE Unauthorized(p) \/ TimesOut(p) \/ Crash(p)
    BY <2>13, TroubleStep
  <2>14. QED
    BY <1>3, <2>1, <2>2, <2>3, <2>4, <2>5, <2>6, <2>7, <2>8, <2>9, <2>10, <2>11,
       <2>12, <2>13 DEF Proceed, Trouble
<1>4. QED
  BY <1>1, <1>2, <1>3 DEF Next

\* What the inductive invariant promises to the users of the operation.
LEMMA Promises ==
  ASSUME TypeOK, IInv
  PROVE  OneJob /\ EndIsTrue /\ RecordKept /\ NoFalseConflict /\ WaitSurvivesUpgrade
<1>1. OneJob
  BY DEF IInv, CoreFits
<1>2. EndIsTrue
  BY DEF IInv, EndIsTrue, StateFits
<1>3. RecordKept
  BY DEF IInv, Kept, SuccessTold, RecordKept
<1>4. NoFalseConflict
  BY DEF TypeOK, IInv, StateFits, Excused, NoFalseConflict
<1>5. WaitSurvivesUpgrade
  BY DEF IInv, MemoryFits, FailureFits, WaitSurvivesUpgrade
<1>6. QED
  BY <1>1, <1>2, <1>3, <1>4, <1>5

\* Whatever is on record, remembered or told of a build is what Core said of it,
\* for any number of invocations and whatever befalls them.
THEOREM Invariance ==
  ASSUME BoundsAssumption, AttemptsAssumption
  PROVE  Spec => [](TypeOK /\ IInv)
<1>1. Init => TypeOK /\ IInv
  BY Initially
<1>2. TypeOK /\ IInv /\ [Next]_vars => (TypeOK /\ IInv)'
  BY Inductive
<1>3. QED
  BY <1>1, <1>2, PTL DEF Spec

\* Every variable has its type, in every state.
THEOREM TypeCorrect ==
  ASSUME BoundsAssumption, AttemptsAssumption
  PROVE  Spec => []TypeOK
BY Invariance, PTL

\* Retries, resumes, crashes and races never start a second build of a snapshot
\* (submit in index.go: the key is the operation's).
THEOREM OneBuildPerSnapshot ==
  ASSUME BoundsAssumption, AttemptsAssumption
  PROVE  Spec => []OneJob
<1>1. TypeOK /\ IInv => OneJob
  BY Promises
<1>2. QED
  BY <1>1, Invariance, PTL

\* No result and no record says that a build ended in a way it did not
\* (applyStatus, failure).
THEOREM EndsAreTrue ==
  ASSUME BoundsAssumption, AttemptsAssumption
  PROVE  Spec => []EndIsTrue
<1>1. TypeOK /\ IInv => EndIsTrue
  BY Promises
<1>2. QED
  BY <1>1, Invariance, PTL

\* A build that nobody heard the success of is on record, whoever died where
\* (saveIndexState before submit; Finalize after the output).
THEOREM BuildsAreOnRecord ==
  ASSUME BoundsAssumption, AttemptsAssumption
  PROVE  Spec => []RecordKept
<1>1. TypeOK /\ IInv => RecordKept
  BY Promises
<1>2. QED
  BY <1>1, Invariance, PTL

\* A record is in conflict only for a build that failed or an upgrade (setIndexFailure).
THEOREM ConflictsAreReal ==
  ASSUME BoundsAssumption, AttemptsAssumption
  PROVE  Spec => []NoFalseConflict
<1>1. TypeOK /\ IInv => NoFalseConflict
  BY Promises
<1>2. QED
  BY <1>1, Invariance, PTL

\* One who waits for a known build does so across upgrades (wait passes no
\* expected identity to status).
THEOREM WaitsSurviveUpgrades ==
  ASSUME BoundsAssumption, AttemptsAssumption
  PROVE  Spec => []WaitSurvivesUpgrade
<1>1. TypeOK /\ IInv => WaitSurvivesUpgrade
  BY Promises
<1>2. QED
  BY <1>1, Invariance, PTL
=============================================================================
